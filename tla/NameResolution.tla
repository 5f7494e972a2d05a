--------------------------- MODULE NameResolution ---------------------------
(***************************************************************************)
(* The first two passes of Root::gen (ast.cpp).  Both are breadth first    *)
(* walks of the whole tree:                                                *)
(*    resolveScope   every scope node hands its Scope to all nodes below   *)
(*                   it, each overwriting what an outer one wrote;         *)
(*    resolveSymbol  declarations enter the symbol set of their scope, and *)
(*                   references are looked up along the parent scopes.     *)
(* A SymbolError ends the compilation (main.cpp catches it).               *)
(***************************************************************************)
EXTENDS BreadthFirstWalk

VARIABLES
  pass,       \* where Root::gen stands
  scope,      \* Symbol::s, the scope a symbol belongs to
  parent,     \* Scope::parent
  symbolset,  \* Scope::symbolset
  sym,        \* SymbolReferenceExpr::sym
  error       \* the SymbolError thrown

vars == <<ast, queue, seen, done, pass, scope, parent, symbolset, sym, error>>

(***************************************************************************)
(* Node classes.  Block, while and if own no scope.                        *)
(***************************************************************************)
ScopeKinds == {"program", "function", "for", "compound"}
DeclarationKinds == {"function", "arg", "var"}

Scopes(t)       == OfKind(t, ScopeKinds)
Declarations(t) == OfKind(t, DeclarationKinds)
References(t)   == OfKind(t, {"ref"})
Symbols(t)      == Declarations(t) \cup References(t)

(* Parser::parse hands the result of parseProgram to Root.                 *)
ASSUME RootIsProgram == \A t \in Programs : t[Root].kind = "program"

NoError == [kind |-> "none", at |-> Null]

(***************************************************************************)
(* Initial state: what the parser built, all pointers null.                *)
(***************************************************************************)
Init ==
  /\ ast \in Programs
  /\ StartWalk
  /\ pass = "resolveScope"
  /\ scope = [n \in Symbols(ast) |-> Null]
  /\ parent = [s \in Scopes(ast) |-> Null]
  /\ symbolset = [s \in Scopes(ast) |-> {}]
  /\ sym = [r \in References(ast) |-> Null]
  /\ error = NoError

(* Faulty variant of HandOutScope: setScope and setParent keep what they   *)
(* have.                                                                   *)
HandOutScopeOnce(m) ==
  /\ scope' = [n \in Symbols(ast) |->
                 IF n \in Below(ast, m) /\ scope[n] = Null THEN m ELSE scope[n]]
  /\ parent' = [s \in Scopes(ast) |->
                 IF s \in Below(ast, m) /\ parent[s] = Null THEN m ELSE parent[s]]

(***************************************************************************)
(* Pass 1.  resolveScope of m walks everything below m: the symbols get    *)
(* the scope of m, the scopes get it as their parent.                      *)
(***************************************************************************)
HandOutScope(m) ==
  /\ scope' = [n \in Symbols(ast) |->
                 IF n \in Below(ast, m) THEN m ELSE scope[n]]
  /\ parent' = [s \in Scopes(ast) |->
                 IF s \in Below(ast, m) THEN m ELSE parent[s]]

(* Faulty variant: the test for ScopeSemantic is missing.                  *)
ResolveScopeOfAny(n) ==
  /\ pass = "resolveScope"
  /\ VisitFront(n)
  /\ HandOutScope(n)
  /\ UNCHANGED <<ast, pass, symbolset, sym, error>>

ResolveScope(n) ==
  /\ pass = "resolveScope"
  /\ VisitFront(n)
  /\ IF n \in Scopes(ast)
     THEN HandOutScope(n)
     ELSE UNCHANGED <<scope, parent>>
  /\ UNCHANGED <<ast, pass, symbolset, sym, error>>

BeginSymbols ==
  /\ pass = "resolveScope" /\ queue = <<>>
  /\ pass' = "resolveSymbol"
  /\ RestartWalk
  /\ UNCHANGED <<ast, scope, parent, symbolset, sym, error>>

(***************************************************************************)
(* Pass 2.                                                                 *)
(***************************************************************************)
Named(S, x) == {d \in S : ast[d].name = x}

(* Faulty variant of Find: it goes on to the outermost scope.              *)
FindOutermost(s, x) ==
  LET find[z \in Scopes(ast) \cup {Null}] ==
        IF z = Null THEN {}
        ELSE IF find[parent[z]] # {} THEN find[parent[z]]
        ELSE Named(symbolset[z], x)
  IN  find[s]

(* Scope::find: the symbols called x in the nearest scope that has any, on *)
(* the way from s up the parent pointers; {} stands for a null result.     *)
Find(s, x) ==
  LET find[z \in Scopes(ast) \cup {Null}] ==
        IF z = Null THEN {}
        ELSE IF Named(symbolset[z], x) # {} THEN Named(symbolset[z], x)
        ELSE find[parent[z]]
  IN  find[s]

(* Faulty variant: outer scopes count as well (Scope::available).          *)
ExistsInAnyScope(n) == Find(scope[n], ast[n].name) # {}

ExistsOnSameScope(n) == Named(symbolset[scope[n]], ast[n].name) # {}

VisitSymbol(n) ==
  /\ pass = "resolveSymbol"
  /\ VisitFront(n)
  /\ UNCHANGED <<ast, scope, parent>>

Throw(kind, n) ==
  /\ error' = [kind |-> kind, at |-> n]
  /\ pass' = "failed"
  /\ UNCHANGED <<symbolset, sym>>

(* LocalVar, FunctionArgument and Function do the same.                    *)
Declare(n) ==
  /\ VisitSymbol(n)
  /\ n \in Declarations(ast)
  /\ ~ ExistsOnSameScope(n)
  /\ symbolset' = [symbolset EXCEPT ![scope[n]] = @ \cup {n}]
  /\ UNCHANGED <<pass, sym, error>>

Redeclare(n) ==
  /\ VisitSymbol(n)
  /\ n \in Declarations(ast)
  /\ ExistsOnSameScope(n)
  /\ Throw("already defined", n)

Refer(n) ==
  /\ VisitSymbol(n)
  /\ n \in References(ast)
  /\ \E d \in Find(scope[n], ast[n].name) \cap Declarations(ast) :
       sym' = [sym EXCEPT ![n] = d]
  /\ UNCHANGED <<pass, symbolset, error>>

ReferToNothing(n) ==
  /\ VisitSymbol(n)
  /\ n \in References(ast)
  /\ Find(scope[n], ast[n].name) = {}
  /\ Throw("not defined", n)

Skip(n) ==
  /\ VisitSymbol(n)
  /\ n \notin Symbols(ast)
  /\ UNCHANGED <<pass, symbolset, sym, error>>

Finish ==
  /\ pass = "resolveSymbol" /\ queue = <<>>
  /\ pass' = "resolved"
  /\ UNCHANGED <<ast, queue, seen, done, scope, parent, symbolset, sym, error>>

(* Control has gone on to the type pass, or to the catch in main.          *)
Stop == pass \in {"resolved", "failed"} /\ UNCHANGED vars

Next ==
  \/ \E n \in DOMAIN ast :
       \/ ResolveScope(n)
       \/ Declare(n)
       \/ Redeclare(n)
       \/ Refer(n)
       \/ ReferToNothing(n)
       \/ Skip(n)
  \/ BeginSymbols
  \/ Finish
  \/ Stop

Spec == Init /\ [][Next]_vars

(* The passes run on one thread until they return or throw.                *)
FairSpec == Spec /\ WF_vars(Next)

-----------------------------------------------------------------------------
(***************************************************************************)
(* Properties                                                              *)
(***************************************************************************)

TypeOK ==
  /\ WalkTypeOK
  /\ pass \in {"resolveScope", "resolveSymbol", "resolved", "failed"}
  /\ scope \in [Symbols(ast) -> Scopes(ast) \cup {Null}]
  /\ parent \in [Scopes(ast) -> Scopes(ast) \cup {Null}]
  /\ symbolset \in [Scopes(ast) -> SUBSET Declarations(ast)]
  /\ sym \in [References(ast) -> Declarations(ast) \cup {Null}]
  /\ error.kind \in {"none", "not defined", "already defined"}
  /\ error.at \in DOMAIN ast \cup {Null}

Encloses(s, p) == s \in Scopes(ast) /\ IsStrictPrefix(s, p)

IsInnermost(s, p) ==
  /\ Encloses(s, p)
  /\ \A z \in Scopes(ast) : Encloses(z, p) => Len(z) <= Len(s)

(***************************************************************************)
(* Although every scope node hands its Scope to everything below it, after *)
(* pass 1 each symbol holds the innermost scope around it, and each scope  *)
(* has the next one outwards as its parent; the program's has none.  It    *)
(* holds only because outer nodes are called back before inner ones.       *)
(***************************************************************************)
ScopeIsInnermost ==
  pass # "resolveScope" =>
    /\ \A n \in Symbols(ast) : IsInnermost(scope[n], n)
    /\ \A s \in Scopes(ast) :
         IF s = Root THEN parent[s] = Null ELSE IsInnermost(parent[s], s)

(* The scope node around a declaration.                                    *)
Home(d) == CHOOSE s \in Scopes(ast) : IsInnermost(s, d)

(* Declarations of the name of r in the scopes around r that pass 2 meets  *)
(* before r, and those of them whose scope is the nearest to r.            *)
Met(r) ==
  {d \in Named(Declarations(ast), ast[r].name) :
     LevelBefore(d, r) /\ Encloses(Home(d), r)}

NearestMet(r) == {d \in Met(r) : \A e \in Met(r) : Len(Home(e)) <= Len(Home(d))}

(***************************************************************************)
(* What a name means, stated without walks, pointers and symbol sets: a    *)
(* reference is bound to the declaration of its name in the nearest        *)
(* enclosing scope, counting only the declarations that stand on a higher  *)
(* level of the tree, or on the same level further left.  (This is the     *)
(* rule of the code, not the one of the language: see NotDefinedIsTrue.)    *)
(***************************************************************************)
BindingFollowsLevels ==
  \A r \in References(ast) : sym[r] # Null => NearestMet(r) = {sym[r]}

(***************************************************************************)
(* The verdict is exact.  A program that gets through has all references   *)
(* bound and no name twice in one scope; an "already defined" points at a  *)
(* declaration whose scope really holds the name already, a "not defined"  *)
(* at a reference that the rule above binds to nothing.                    *)
(***************************************************************************)
SameScopeTwice(d, e) ==
  d # e /\ ast[d].name = ast[e].name /\ Home(d) = Home(e)

VerdictIsExact ==
  /\ pass = "resolved" =>
       /\ \A r \in References(ast) : sym[r] # Null
       /\ \A d, e \in Declarations(ast) : ~ SameScopeTwice(d, e)
  /\ error.kind = "not defined" => NearestMet(error.at) = {}
  /\ error.kind = "already defined" =>
       \E d \in Declarations(ast) :
         SameScopeTwice(d, error.at) /\ LevelBefore(d, error.at)

(* The two passes end: they do not revisit nodes or lose the queue.        *)
PassesEnd == <>(pass \in {"resolved", "failed"})

(***************************************************************************)
(* What the message "symbol {} is not defined" (expressions.cpp:160) says  *)
(* of the program it rejects: no declaration of that name precedes the     *)
(* reference in the text, in a scope around it.                            *)
(***************************************************************************)
NotDefinedIsTrue ==
  error.kind = "not defined" =>
    ~ \E d \in Named(Declarations(ast), ast[error.at].name) :
         TextBefore(d, error.at) /\ Encloses(Home(d), error.at)

=============================================================================
