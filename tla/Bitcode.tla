------------------------------ MODULE Bitcode ------------------------------
(***************************************************************************)
(* LLVM modules as far as DRTI reads them: the sequence of their global    *)
(* variables, the sequence of their functions, and the sequence of calls   *)
(* in each function.  The order matters: what one reader finds by counting *)
(* another one has to find again.                                          *)
(*                                                                         *)
(* A function that is not defined in a module is declared there, and so is *)
(* a variable.  A local symbol (static, or in an anonymous namespace)      *)
(* belongs to one module; any other name means the same in all of them.    *)
(***************************************************************************)
EXTENDS Selection, FiniteSets

CONSTANTS
    Units,          \* the translation units of a program, one module each
    Names,          \* of variables and functions
    LlvmNames,      \* the names that start with "llvm."
    Types,          \* of arguments and results
    CallIds,        \* what tells one call of a program from another
    Extern          \* stands for the unit of a name that is not local

ASSUME BitcodeAssumption ==
    /\ LlvmNames \subseteq Names
    /\ Extern \notin Units

FunctionType == [params : Seq(Types), ret : Types]

(* A call is inline assembly, or it is direct, or it goes through a        *)
(* pointer; `aims` are the functions it may reach, one if it is direct.    *)
Call == [id : CallIds, kind : {"asm", "direct", "pointer"},
         aims : SUBSET Names, type : FunctionType]

Variable == [name : Names, constant : BOOLEAN, local : BOOLEAN, defined : BOOLEAN]

Function == [name : Names, intrinsic : BOOLEAN, local : BOOLEAN, defined : BOOLEAN,
             type : FunctionType, body : Seq(Call), uses : SUBSET Names]

(* `converters` are the conversions between argument types for which the   *)
(* module has a __drti_converter.                                          *)
Module == [vars : Seq(Variable), funcs : Seq(Function),
           converters : SUBSET (Types \X Types), native : BOOLEAN]

FunctionsNamed(m, n) == {f \in {m.funcs[i] : i \in DOMAIN m.funcs} : f.name = n}

Globals(m) ==
    {m.vars[i] : i \in DOMAIN m.vars} \cup {m.funcs[i] : i \in DOMAIN m.funcs}

(* A module has one symbol table: a name stands for one thing in it.       *)
DistinctNames(m) == \A g, h \in Globals(m) : g.name = h.name => g = h

Defines(m, n) == \E f \in FunctionsNamed(m, n) : f.defined

FunctionNamed(m, n) == CHOOSE f \in FunctionsNamed(m, n) : TRUE

(* The names a function refers to.                                         *)
DirectAims(f) == UNION {f.body[i].aims : i \in {j \in DOMAIN f.body : f.body[j].kind = "direct"}}

Refs(f) == f.uses \cup DirectAims(f)

(* Where the linker puts what module u means by symbol g.                  *)
LinkAddress(u, g) == <<g.name, IF g.local THEN u ELSE Extern>>

(* visit_listed_globals: the variables that ahead-of-time code and code    *)
(* made at run time have to share.                                         *)
ListedVariables(m) == Selected(m.vars, {v \in Variable : ~v.constant /\ v.name \notin LlvmNames})

(* The functions somebody else has to provide.                             *)
ListedFunctions(m) == Selected(m.funcs, {f \in Function : ~f.defined /\ ~f.intrinsic})

(* The addresses that are saved with module m of unit u, in the order of   *)
(* what is listed.                                                         *)
Addresses(u, m) ==
    LET variables == ListedVariables(m)
        functions == ListedFunctions(m)
    IN [i \in DOMAIN variables |-> LinkAddress(u, variables[i])]
         \o [i \in DOMAIN functions |-> LinkAddress(u, functions[i])]

=============================================================================
