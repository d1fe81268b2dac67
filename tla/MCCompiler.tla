------------------------------ MODULE MCCompiler ------------------------------
(***************************************************************************)
(* The compiler for TLC: the front end (MCFront) and the code generator     *)
(* (MCCodegen).  A behavior is of one kind of either; the state of the      *)
(* other does not move.                                                     *)
(***************************************************************************)
EXTENDS MCFront

VARIABLES ref, code, regs, exact, steps, body, out  \* MCCodegen

backVars == <<ref, code, regs, exact, steps, body, out>>

Back == INSTANCE MCCodegen

CompilerInit ==
    \/ KindInit /\ Back!CodegenIdle
    \/ FrontIdle /\ Back!KindInit

CompilerNext ==
    \/ KindNext /\ UNCHANGED backVars
    \/ Back!KindNext /\ UNCHANGED frontVars

CompilerSpec == CompilerInit /\ [][CompilerNext]_<<kind, frontVars, backVars>>

-----------------------------------------------------------------------------
(* Inlined and specialized code leaves the stack that the runtime functions *)
(* leave, overflow included, and registers hold the values they compute.    *)
CodeAgrees == Back!CodeAgrees

(* Every emitted function is well formed: terminators, phi nodes, musttail. *)
FunctionsWellFormed == Back!FunctionsWellFormed

(* In the programs of MCCodegen, which keep clear of the constructs named   *)
(* there, what the generator remembers of the last statement, the types and *)
(* the aux slots is true where it decides by it.                            *)
DecisionsSound == Back!DecisionsSound
=============================================================================
