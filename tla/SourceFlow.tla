----------------------------- MODULE SourceFlow -----------------------------
(***************************************************************************)
(* What a function of the source language does when it is called: which    *)
(* expression is evaluated after which.  Conditions come out either way.   *)
(* The operators are those of Ast, CodeGen and SourceOrder.                *)
(***************************************************************************)
CONSTANTS
  Null,
  IsTree(_),           \* it is a syntax tree
  Functions(_),        \* the functions of a program
  Begin(_, _),         \* where control goes from the begin of a node
  Body(_, _),          \* the block of a function
  Outcomes(_, _),      \* what an expression may come to
  Successor(_, _, _),  \* the expression evaluated after it
  IsReturned(_, _)     \* it is the operand of a return

VARIABLES
  ast,
  fun,       \* the function that was called
  at,        \* the expression evaluated next, Null when the call is over
  outcome,   \* what the last expression came to, if it is a condition
  result     \* the expression whose value is returned

flowVars == <<ast, fun, at, outcome, result>>

FlowInit ==
  /\ IsTree(ast)
  /\ fun \in Functions(ast)
  /\ at = Begin(ast, Body(ast, fun))
  /\ outcome = Null
  /\ result = Null

Evaluate ==
  /\ at # Null
  /\ \E o \in Outcomes(ast, at) :
       /\ outcome' = o
       /\ at' = Successor(ast, at, o)
       /\ result' = IF IsReturned(ast, at) THEN at ELSE result
  /\ UNCHANGED <<ast, fun>>

FlowSpec == FlowInit /\ [][Evaluate]_flowVars

=============================================================================
