---------------------------- MODULE ProgramText ----------------------------
(***************************************************************************)
(* The program DRTI decorates, as far as its call tree can tell: which     *)
(* function contains which call site, what each site may call, and which   *)
(* sites are in tail position, where nothing is left to do after the call. *)
(***************************************************************************)
EXTENDS Naturals, Sequences

CONSTANTS
    Threads,        \* the threads of the program
    Funcs,          \* its functions
    Sites,          \* its static call sites
    SiteFn,         \* the function that contains each site
    SiteTargets,    \* the functions each site may call
    TailSites,      \* the sites in tail position
    Root,           \* the function every thread starts in
    MaxDepth        \* bound on the depth of a thread's stack

ASSUME ProgramAssumption ==
    /\ Root \in Funcs
    /\ SiteFn \in [Sites -> Funcs]
    /\ SiteTargets \in [Sites -> SUBSET Funcs]
    /\ TailSites \subseteq Sites
    /\ MaxDepth \in Nat \ {0}
=============================================================================
