# A TLA+ verification of mylang

mylang is a small compiler: it reads one source file, builds a syntax tree, runs
five passes over the tree (`Root::gen`, ast.cpp:92), hands the LLVM module to a
JIT and calls the function `entry`.  This directory holds TLA+ models of its
passes and of what they generate, the TLC runs that check them on small
programs, and TLAPS proofs of what holds for every program.

## Inventory

| component | source | state | operations |
|---|---|---|---|
| text reader and tokenizer | text.hpp, tokenizer.cpp | cursor, token list | one turn of the scanning loop per token |
| parser | parser.cpp | token iterator, tree under construction | one procedure per grammar rule, `consume`, `expect` |
| tree and walks | ast.hpp, ast.cpp | children deques; queue or stack and visited set of a walk | `walkAllChildlenBF`, `walkAllChildlenDFPO`, destructor |
| name resolution | ast.cpp, scope.cpp, symbol.cpp | scope of each symbol, parent of each scope, symbol sets, bound references | `resolveScope`, `resolveSymbol`, `Scope::find` |
| types | type.cpp, kind.cpp, `resolveType` of the nodes | type of each value, inferred return types, global tables | `resolveType`, `inferReturnType`, `Apply` |
| jump binding | control_statements.cpp | block pointers of loops and jumps | `init`, `setEscapebb`, `setNextbb` |
| statement code | control_statements.cpp, block.cpp, statement.cpp, function.cpp | insertion point, basic blocks, return slot | `gen`, `ret2alloca` |
| expression code | expressions.cpp, operators.cpp, type_traits.cpp | the values of the IR builder | `get`, `ptr`, `set` |
| driver, JIT, diagnostics | main.cpp, utils.cpp, display.cpp | - | reads, prints, calls |

The passes run one after the other on one thread and communicate through the
fields of the nodes: `resolveScope` writes the scopes that `resolveSymbol`
reads, `resolveSymbol` writes the bindings that `resolveType` and `gen` read,
`init` writes the block pointers that `gen` of a jump uses.  Errors are C++
exceptions that end the compilation in `main`.

Nothing here is concurrent.  What makes the program hard is order: the passes
are callbacks of generic walks, each node trusts what other nodes wrote
earlier, and the code generator keeps one global insertion point that nested
calls move.  The tree is deleted without recursion by a loop that trusts the
order in which it takes pointers out of it.

## Modules

The tree is a function from positions (paths of child indices) to labels, so
that a `Node *` is a position.  See Ast.tla.

| module | models | from |
|---|---|---|
| Ast | the tree, three orders on its nodes | ast.hpp |
| BreadthFirstWalk | `walkAllChildlenBF`, one action per turn of its loop | ast.cpp:45-63 |
| PostOrderWalk | `walkAllChildlenDFPO` | ast.cpp:24-43 |
| NameResolution (EXTENDS BreadthFirstWalk) | passes 1 and 2 | ast.cpp:94-104, 149-160, scope.cpp, symbol.cpp, the `resolveSymbol`s |
| LoopBinding (EXTENDS PostOrderWalk) | the init pass: which loop a jump belongs to | control_statements.cpp:73-84, 142-196 |
| CodeGen (EXTENDS LoopBinding) | the init and gen passes | control_statements.cpp, block.cpp, statement.cpp, function.cpp:165, program.cpp |
| Destruction (EXTENDS CodeGen) | `Root::~Root`, one action per turn of its loop, after code generation has returned or thrown | ast.cpp:120-139 |
| Execution (EXTENDS CodeGen, SourceOrder; INSTANCE SourceFlow) | generation, then a call of a generated function | LLVM's meaning of br, ret, store |
| SourceOrder (EXTENDS LoopBinding) | where control goes on the syntax tree: the order in which expressions are evaluated | the node classes and the grammar in parser.hpp |
| SourceFlow | what that call should do, for any such order | the same |
| TypeResolution (EXTENDS PostOrderWalk, INSTANCE NameResolution) | pass 3 | type.cpp, kind.cpp, the `resolveType`s, function.cpp |
| Expressions (EXTENDS TypeResolution) | `get`, `ptr`, `set` of the value nodes and the `gen` of let, assignment, expression and return, on the typed tree | expressions.cpp, operators.cpp, type_traits.cpp, buildin.hpp, statement.cpp |
| Evaluation (EXTENDS Expressions) | a call of such a function, instruction by instruction, and the meaning of its source | LLVM's meaning of the instructions; the node classes |
| Characters | character classes, the tables of token kinds, and what the longest lexemes of a text are | token.hpp, tokenizer.cpp |
| Tokenizer (EXTENDS Characters) | `tokenize` over the reader's cursor, one step a character | tokenizer.cpp, text.hpp |
| Diagnostics (EXTENDS Tokenizer) | what `printErrorSourceLine` shows for an error at a token | utils.cpp:28-63 |
| Parser | the `parse...` functions as operators from a position in the token list to a result; one action per function parsed | parser.cpp |
| Grammar | the sentences of the grammar with their trees, built from short to long | the comment parser.hpp:50-95 |
| Syntax, MC* | the small programs, texts and token lists of the runs | - |
| *_proof | the proofs | - |

### State and actions

*Trees.*  Passes 1 to 5 start from any tree in the constant `Programs`.  A label
has a kind (the node class, or the role of a class for the pass in question), an
arity and a name; TypeResolution adds the type a literal or an argument brings
with it.  The theorems hold for every set of trees; the runs use all trees of a
bounded size.

*Walks.*  `queue`, `seen` and `done` of BreadthFirstWalk are the deque and the
visited set of ast.cpp:45-63 and the nodes called back so far; `stack`,
`visited` and `done` of PostOrderWalk those of ast.cpp:24-43.  The callback of a
pass is part of the step that makes the call: `ResolveScope(n)`, for one,
conjoins `VisitFront(n)` with what `ScopeSemantic::resolveScope` does.  An
exception sets `pass` or `phase` to `"failed"` and `error` to its kind and its
node; control is then in the `catch` of `main`, and nothing else happens.

*Name resolution.*  `scope`, `parent`, `symbolset` and `sym` are
`SymbolSemantic::scope_`, `Scope::parent`, `Scope::symbolset` and
`SymbolReferenceExpr::referValue`.  A `Scope` object is named by the node
that owns it.

*Types.*  `type`, `ret` and `blockType` are `Value::type`, the return type of a
`FunctionSignature` and `Block::returnType`.  The pass starts from the bindings
`sym` that NameResolution leaves, by its property BindingFollowsLevels.  A read
through the null kind of an unresolved type has no defined meaning in C++; the
model takes either the error that follows if the test comes out false, or a
crash.

*Code.*  `target` holds the block pointers of the jumps, `cur` is the insertion
point of the one `IRBuilder`, `code` the instructions of each basic block,
`inserted` the blocks that are in a function.  The recursive `gen` calls are
the stack `frames`; an action is what the code does between two such calls.

*Values.*  `todo` are the functions and statements still to generate, `code` the
instructions of each function with the node each was made for.  The gen of a
statement is one action; `Get` and `Ptr` take a state of the generation (the
instructions so far, the values that the C++ calls in progress hold, and what
was thrown) to the next, as the virtual `get` and `ptr` do with the builder.
Where two calls are arguments of one C++ call, `order` says which the compiler,
as it was built, makes first; both are possible.  In Evaluation `regs` holds the
values of the instructions executed, `memory` a slot per variable and a cell per
array element.

*Destruction.*  `nodeStack` is the stack of `~Root`, `unlinked` counts what
`unlinkFirstChild` has taken from each deque, `deleted` are the nodes freed.

*Text.*  `cur` and `tokens` of the Tokenizer are the reader's cursor and the
token vector, `pc` the inner loop it is in.  A character stands for its class
(one letter for all letters that do not matter, a letter each for `else`, `if`
and the other keywords).  What lies behind the buffer is any character, chosen
anew at each read.

*Parser.*  `tokitr` is the iterator, a node of the tree carries the index of its
token as its name, so that the order of nodes can be compared with the text.

## What is checked

Run each with `tlc -workers 2 -config <cfg> <module>`; each takes less than two
minutes.

| run | states | question |
|---|---|---|
| name_resolution | 74,703 | does each node get the right scope and each reference the right declaration, and are exactly the right programs rejected? |
| type_resolution | 31,828 | what stays of unknown type, and do the types of an accepted tree fit together? |
| code_generation | 264,529 | which loop does a jump belong to, are the blocks that come out well formed, and is the tree deleted as it should be? |
| execution | 82,261 | does the generated code do what the source says? |
| values | 54,524 | which typed trees generate, how often is an operand evaluated, and when are values those of the source and of their types? |
| tokenizer | 111,799 | are the tokens the longest lexemes, where are they, what is read out of bounds, does the loop end, what do error messages show? |
| parser | 27,572 | is the tree the one of the grammar, and is the error at the last token that fits? |
| not_defined, verify, array_elements, recursion, less_or_equal | - | five disagreements of the code with what it says itself; each stops at a counterexample |

**name_resolution.**  `CallsInLevelOrder`: the walk calls back level by level,
left to right.  `ScopeIsInnermost`: every scope node hands its scope to all
nodes below it, so an inner scope has to overwrite what an outer one wrote;
that it does is a consequence of the order of the walk.  `BindingFollowsLevels`
states what a name means without walks and pointers: the nearest enclosing
scope wins, counting only declarations *higher in the tree or to the left on the
same level* - the rule of this code, and not the text order one would expect.
`VerdictIsExact`: errors are reported when and only when there is one.

**type_resolution.**  `ReferencesSeeWhatPrecedes` and
`UnknownComesFromForwardReferences`: exactly the references to something later
in the post order are of unknown type for good, and without those nothing is
unknown, no null kind is read and no unpositioned error is thrown.
`TypesFitTogether` judges all nodes of an accepted tree at once, so that a type
copied too early would show.  `ReturnsFitTheSlot` is what the code generator
takes for granted.

**code_generation.**  `JumpsBindInnermost`: each loop claims all jumps below it,
and the inner claim survives because inner loops are initialised first and the
setters keep what is there.  `WellFormedExactlyWhen`: a function has one
terminator at the end of each block exactly if every break and continue ends a
then branch - the only place where `gen` looks for a terminator before it adds
one.  `TargetsAreInserted` and `NothingIsLost`: no branch to a block left
detached or in another function, no instructions in one.  `GenerationEnds`.
After that, and after an error too, the destructor runs: `DeletesInPostOrder`
and `NoPointerDangles` say that nothing is deleted while something still hangs
on it, and nothing is looked at or deleted after that; `TreeIsDeleted` is
liveness.

**execution.**  `ImplementsSource` is a refinement: Execution runs the generated
instructions as LLVM does, SourceFlow says on the syntax tree which expression is
evaluated after which (SourceOrder), and the mapping takes the program counter to
the expression that execution comes to next: at a branch, to the place of the
source that the name of its target tells.  Every step of the first must be a step
of the second or a stutter.  The programs are those of `IsClean`: every jump
ends a then branch (other ones give malformed blocks, see above), nothing
follows a jump or a return in its list, and no call of a void function is
returned (see *Known deviations*).

**values.**  `TypedTreesGenerate` says what the type pass does not catch: exactly
the trees with an operator that the type of its operand has no trait for, with
`++` on a double, an indexed string, a void variable and so on fail, and where
the message points then.  `EvaluationCounts`: an increment evaluates its operand
three times, so one around n others runs it 3^n times.  `AgreesWithSource`
compares the memory after the call with a definition that evaluates every operand
once, from left to right; it holds for the programs without an increment inside
an increment, without statements after a return, without types that are equal by
name alone, and, if the compiler was built to evaluate the right argument first,
without an increment beside a use of a variable.  Each of these conditions is
needed: without any one of them TLC finds a counterexample.
`ValuesHaveTheirTypes` is type soundness, and `LiteralIndicesInRange` says which
indices the comparison at compile time makes safe.

**tokenizer.**  `TokensAreLongestLexemes` compares the tokens, with kind and
value, with a maximal munch definition over sets of texts.
`PositionsAreOnTheToken`: the position of a token, of which error messages cut
their excerpt, lies on the token; `ExcerptsShowTheToken` says of that excerpt
that it is the line of the token, with its number, but for the first character
of the source, and where the caret stands: not under the token, but to the left
by the width of the line number.  `ReadsStayInBounds`: only texts that are empty
or end with a blank, an operator or a word are read past the end.
`ClosedTextsEnd` is liveness: comments and strings that are closed are left.

**parser.**  `TreeIsTheGrammars`: what is accepted is a sentence, and its tree is
the one the grammar gives it (precedence, association, the owner of an else, the
order of the children of a for).  `VerdictFollowsGrammar`: the error is exactly
at the last token that fits, the one before the first token that no sentence
goes on with.  (A SyntaxError has the position of `tokitr`, the token consumed
last, and the messages of `expect` and `parsePrimary` name that token as the
unexpected one, parser.cpp:334 and 376; the token that does not fit is the one
behind it.)  For the exact place the grammar also says what an expression of any
length may begin with.  It follows that what is rejected is no sentence of the
grammar as the code has it.  Two kinds of sentence that only the comment has are
among the inputs, with the trees they should have: the declaration of a constant
(parser.hpp:67 and 70) and an index behind a call (63, 82 and 90).  The property
says that nothing else that is a sentence is rejected, and where these are: at
`const`, and in front of the bracket.  `LeavesInTextOrder` relates tree and text
without the grammar.

### Bounds, and why they are enough

- *BodySize* (statements of a function body, 3 for names and code, 4 for
  execution): three suffice for a loop in a loop around a jump, a declaration
  and a use on both sides of a scope, a branch in a branch.  *DeepSize* 4 adds
  one more nesting with few kinds of statements: breaks with returns, which may
  generate nothing after a jump, and breaks with calls, which do.  *SmallBody* 2: the size where
  a second function is there that the first mentions.  Pairs of functions show
  that nothing is carried from one to the next but what should be.
- The type programs are a declaration of every kind of initial value and a use of
  every kind, in text order and in the order that name resolution takes for it,
  with another function before and after.
- *AnySize* 4: all texts of four characters over one of each class, so that every
  class meets every other one and the end of the text; `==`, `++`, `//` and
  strings with something before and behind.  All pairs of operators.
  *WordSize* 4: what can follow `else`.  *Beyond* has a character that ends each
  inner loop and one that does not.  One step more is bounded: of the characters
  behind the buffer at most one is taken into a word (`OneOverread`).
- *SentenceSize* 4 and *LongSize* 5 tokens of an expression: two operators of
  two levels meet in five tokens; near misses are made of the shorter ones.
  *DeepSize* 4: an if in a loop in an if with an else, which can belong to
  either.  *PairSize* 3, and four with an else if: such programs with every
  token left out in turn.  *ListSize* 2: two statements of any kind in a list or
  in each other.
  *ShortSize* 3: all token sequences of that length in the three places where
  lists are read.

- *Values*: *Width* 3, so that the integers wrap, and the arguments 0 and 3, so
  that an increment of 3 overflows.  One or two statements follow the
  declaration of a variable and of an array: every kind of operand with every
  side effect beside it, increments nested up to three deep, and an operand of
  every type under every operator.  The functions are straight lines.

### Fairness

The compiler is one thread that runs until it returns or throws, so the liveness
properties (`PassesEnd`, `GenerationEnds`, `TreeIsDeleted`, `ClosedTextsEnd`) assume weak fairness
of the next-state relation and no more.  `ClosedTextsEnd` leaves out the texts
for which the loop really does not end, an open string or a comment on the last
line, and those that are read out of bounds.

### Disagreements found

- **not_defined**: in `for (let x = 1; x; ...)` the condition is looked up before
  the variable is declared, and the message says it is not defined.
- **verify**: `while (c) break;` gives a block with two branches; `main` calls
  `verifyModule` and drops the answer.
- **array_elements**: `[[1], [2.0]]` passes the check "array element must all same
  type", since an array type is named after its size alone.
- **recursion**: the recursive function of the repository's own `prog.ts` is
  rejected as "not function" (or crashes).
- **less_or_equal**: `<=` makes the node of `<`.
- In **parser**, which passes, `VerdictFollowsGrammar` has two more as exceptions:
  `const x = e;` and `f()[e]` are programs by parser.hpp and are rejected.

## What is proved

For every set of trees, and every set of source texts, under the assumptions
named below:

| theorem | module | says |
|---|---|---|
| NameTypeCorrect, NamePassesInLevelOrder | NameResolution_proof | types; the walk is in level order and complete |
| InnermostScope | NameResolution_proof | ScopeIsInnermost |
| BindingRule | NameResolution_proof | BindingFollowsLevels: what `Scope::find` returns is what the rule on the tree says |
| VerdictOfNames | NameResolution_proof | VerdictIsExact: a program is rejected exactly if a scope declares a name twice or the rule binds a reference to nothing, and the message points there |
| BindingTypeCorrect, PostOrderWalkReachesAll, PostOrderWalkIsPostOrder | CodeGen_proof | types; the stack walk reaches every node, in post order |
| InnermostBinding | CodeGen_proof | JumpsBindInnermost for the init pass |
| CodeGenImplementsBinding | CodeGen_proof | Root::gen refines the init pass: gen changes no binding |
| JumpsStayInnermost, OnlyStrayJumpsFail, StrayJumpsReported | CodeGen_proof | so the jumps stay bound, and the error is thrown for a jump outside of loops, for every such program and no other |
| GenTypeCorrect | CodeGen_proof | types of the gen pass |
| BranchesAreInserted | CodeGen_proof | TargetsAreInserted: no branch leads to a detached block, to an entry block or out of its function |
| NothingLost | CodeGen_proof | NothingIsLost: no instructions in a detached block, no empty block in a function |
| WellFormedIffJumpsEndThen | CodeGen_proof | WellFormedExactlyWhen: LLVM can take the function exactly if every break and continue ends a then branch |
| ExecutionImplementsSource | Execution_proof | ImplementsSource: for the programs of `IsClean` and any outcome of the conditions, running the generated blocks is running the source |
| TypeCorrect | TypeResolution_proof | types of the type pass |
| SightOfReferences, UnknownOnlyFromForward | TypeResolution_proof | ReferencesSeeWhatPrecedes, UnknownComesFromForwardReferences |
| TypesFit, ReturnsFit | TypeResolution_proof | TypesFitTogether, ReturnsFitTheSlot |
| LifeImplementsCodeGen, JumpsStayInnermostForLife | Destruction_proof | the destructor takes nothing back of what code generation did |
| DestructorInPostOrder, DestructorIsSafe | Destruction_proof | DeletesInPostOrder, NoPointerDangles |
| DestructorLeaksNothing | Destruction_proof | when the destructor returns, every node has been deleted |
| TokenizerTypeCorrect | Tokenizer_proof | types; cursor in bounds; no token ahead of the cursor |
| TokenizerStaysInBounds | Tokenizer_proof | ReadsStayInBounds |
| TokensAreTheLexemes | Tokenizer_proof | TokensAreLongestLexemes: the scanner makes the tokens that the grammar of lexemes gives |
| PositionsAreRight, ExcerptsShowTokens | Tokenizer_proof | PositionsAreOnTheToken, ExcerptsShowTheToken: what an error message shows of the source |

*Assumptions.*  All are facts about the trees that parser.cpp makes, or about
names of the model, and TLC evaluates them on the programs of the runs.

- Trees: `ProgramsAreTrees` (finitely many positions, closed under parents and
  left siblings, arities right), `RootIsProgram`; `NullIsNoNode`,
  `NullIsNoBlock`, `NullIsNoPlace`.
- Types: `OperandsAreValues` and `OperandsAreThere` (the classes of an
  operand are values, and an operator, a condition, a call have theirs),
  `VariablesFollowTheirValues` (a `let` has its value as child 1 and its variable
  as child 2), `FunctionsHaveBodies` (arguments, then one block),
  `TypesAreWritten` (literals, arguments and declared return types bring a
  primitive type with them: no other can be written).
- Code: `FunctionsMakeTheProgram`, `StatementsAreWhole` and
  `JumpsAreStatements` (functions are the children of the root and have one
  block each; an if has two or three parts, a while two, a for four; a break is
  nowhere in an expression).  `ReturnTypesAgree`: the returns of a function all
  have a value or none has, which is `ReturnsFitTheSlot` of TypeResolution.
- Texts: `SourcesAreTexts`, `BeyondAreCharacters`.

*The breadth first walk.*  That calls come in level order is not inductive: it
says nothing of the queue.  `WalkInv` adds that the queue holds what
was seen and not called, and that everything above such a node was called
(`QueueIsFresh`), that the queue lies in strict level order, spans two levels
at most and stands behind everything called (`QueueInOrder`), and that every
node not yet called has an ancestor or itself in the queue (`RestIsCovered`).  An empty
queue then means that all were called.  `NameInv` adds for pass 1 that each
symbol holds the innermost of the scopes *called so far*; since a scope called
later is not shorter, overwriting is right, and when all are called this is
`ScopeIsInnermost`.

*Names.*  `SymbolInv` says what pass 2 knows half way: a symbol set holds
declarations of its own scope that were called back, no name twice
(`SetsAreTrue`), all of them unless an error was thrown (`AllDeclared`), and what
was bound is what the rule gives.  `Scope::find` is a loop over parent pointers;
`InnermostScope` makes it the deepest scope around the reference that holds the
name.  The rule speaks of *levels* and the code of *called back before*: that
these are the same is where the level order of the walk comes in.

*The post order walk.*  `WalkInv` in PostOrderWalk_proof says that of a node on the
stack which was expanded, whatever is not called back lies below something
higher up on the stack, and that one which was not expanded has nothing of its
subtree touched; called nodes are closed downwards.
`BoundSoFar` says that each jump holds the innermost of the loops called so far
around it.  A loop called now is outside of all of these, so the null tests of
the setters keep the right one.

`OrderInv` adds what makes the calls come in post order.  Of two elements of
the stack the lower one comes later (`StackOrder`), which a node keeps when its
children are pushed on it, the last one first; and what is not called back is on
the stack or below an element that is not expanded (`RestIsPending`), so that
what is left when a node is called comes after it.

*Types.*  A callback sets the type of its own node and the tables of its own
function (`SetsOnly`), so what fitted when it was called fits for good.
`TypeInv` therefore speaks of the nodes called back: a reference among them has the
type of its declaration if that precedes it and is unknown otherwise, all of them
fit (`FitsSoFar`), the slots of the functions fit their returns
(`SlotsFitSoFar`), and what is not called back is untouched.  Types are nested
(an array of arrays); `Whole` says that the parts of a type are themselves types
of nodes called back, one level at a time, so that no induction over the nesting
is needed.  `DoneIsOrdered` says that of any of the nodes called back one is the
first: the return type of a function is inferred from the first return.

*Code.*  For the bindings nothing is proved again: CodeGenImplementsBinding maps
the steps of CodeGen to steps of BindingSpec or stutters, and the theorem about
that specification carries over.  For the blocks, that branches go to inserted
blocks is false half way: a break is generated long before the block it goes
to.  `GenInv` says what is owed.  `FramesInv`: the frames lead from the root down
to the node in progress, the frame of depth d at place d + 1, each waiting for the
child it called.  `FrameHolds`: the blocks that the rest of a statement relies on
are inserted, and are of its function.  A branch goes to a block that is inserted
or that a frame in progress will insert (`Inserts`); a block that was inserted and is
empty is the insertion point, or a frame in progress will fill it (`Fills`); a
jump without a loop is below a child still to come (`Awaits`).  Without frames
nothing is owed, and these are the properties.

*Terminators.*  `BlockInv` in CodeGen_proof adds to `GenInv` what each block
ends with while it is filled.  The blocks that the rest of a statement writes to are
held by one frame each (`HeldApart`) and can take an instruction (`HeldIsOpen`);
every other one, but the insertion point inside of a function, ends in a terminator
(`RestIsClosed`).  Blocks still to come are not inserted (`LaterBlocksWait`).  What
remains is to tie a second terminator to a jump, in both directions.  If something
was added to a terminator, there is a jump that does not end a then branch
(`EarlyIsBlamed`); to know which when it happens, a terminated insertion point
means that a jump was generated last and nothing since (`CurIsBlamed`, `Open`).
The other way, a jump that was passed has made this happen, or ends a then
branch, or is still the last thing generated (`PassedAreTold`).  `Open` is where the
cases are: after the jump only empty lists may follow, and each construct that ends
or goes on then adds an instruction, the end of a then branch apart.

*Execution.*  Where control goes from a point of the source is a recursive function
on points ("begin" and "after" of a node).  That it exists rests on an order of the
points in which every unfolding goes on (`Precedes`, `OnwardLooksAhead`): only loops
lead back, and they name an expression.  A tree being finite, the number of points
ahead shrinks; `ControlGoesOn` takes the first number for which the function
would not exist.  `Fits` then says of an instruction that it stands where the source
comes to: the expression evaluated is the place that its block stands for, or what
comes after the expression before it, a branch leads to a block that stands for just
this, and a conditional branch follows its condition and leads to `Taken` and
`NotTaken`.  All instructions fit at the end, and not before: the branch out of a
block with a return is replaced when the function is complete.  `FlowNow` is
what holds half way.  Control at the insertion point is where the source is when the frame
on top goes on (`Expected`, `Alive`), unless a jump or a return was generated last
and no place is left that could be reached (`Over`, which needs that nothing follows
it); a block held by an `if` in progress ends in its condition and waits for both
targets (`Waits`, `Asks`); the blocks of the returns passed, without the last branch that
they are going to lose, come to the end of the call (`Left`, `BlockFits`).  `BlockInv` and `IsClean` together
exclude a second terminator.  Execution itself (`RunInv`) is then short: the
instruction before the program counter has just been executed, `InstructionFits`
turns `Fits` into the mapping, and each evaluation is a step of SourceFlow.

*The destructor.*  It has no visited set; that it deletes each node once rests
on the deques it empties.  `HeapInv` says that the stack is a way down in which
each element is the first child its parent has left, that the children behind
it still have all of their subtrees, and that a live node lies at or above the
top of the stack, to the right of it, or below it in the part of its children
that is left (`RestIsAhead`).  With an empty stack no node is alive.

*The tokenizer.*  `TypeInv` strengthens the types by those of the tokens, and by
the cursor being inside the text in the states that read there.  That an
`else if` does not move the cursor past the end needs that the word looked for
exists (`WordEndExists`).  `NeverAtTheEnd` says that a text with a clear end
is never read with the cursor at the end while something is being read: the
last character belongs to none of the inner loops.

*Tokens.*  That the tokens are the lexemes at the end says nothing half way.
`LexInv` says that those made so far are the tokens of some lexemes D, that the
lexemes of the whole text are D and then those from place i on, and that what is
being read started at i (`InProgress`, one case for each state of the scanner:
what of it is in the buffer, and that nothing of it has ended it).  The lexemes
from a place on are a recursive function; that it exists is shown by the last
place where it would not (`LexemesExist`), after which each action needs one
unfolding of it: nothing where no lexeme starts (blanks, newlines, characters of
no kind), and otherwise the longest one.  `KindAt` tells its kind from the first
character, and `WordEnds`, `NumberEnds`, `StringEnds`, `OperatorEnds`,
`ElseIfEnds` and the others where it ends.  The position of a token is part of
the invariant (`TokenOf`); that the excerpt is the right line then follows from
the text alone (`ExcerptOfToken`).

*Only model-checked.*

- Liveness (`PassesEnd`, `GenerationEnds`, `TreeIsDeleted`, `ClosedTextsEnd`) and
  ENABLED.
- The properties of values and those of the parser rest on RECURSIVE operators
  (Get and Ptr, the parse functions), which the prover does not take.

## Not modelled

- Values in branches and loops.  To CodeGen an expression is one instruction,
  and Expressions takes functions without branches.  Left out with that: a
  declaration in a branch that is not taken, whose variable is read unset, and
  arrays allocated anew in each turn of a loop.
- Division (LLVM leaves a division by zero undefined), comparisons of characters,
  and doubles other than whole numbers.
- Message texts, the dump of the tree, the singleton of LLVMBuilder.
- The driver, LLVM and the JIT; Execution has LLVM's meaning of four
  instructions, Evaluation of those that compute values.

### Known deviations and abstractions

- A return of a call of a void function is generated as a plain return; the call
  is dropped.  `IsClean` leaves it out of the refinement.
- Statements after a return in its list are generated into its block and run
  before it returns; left out as well.
- A function that has a return type and falls off its end loads a slot that
  nothing was stored to.  The slot's content is `Null` in Execution and compared
  with nothing.
- Errors thrown inside of expressions while code is generated (an assignment to
  what is no variable, an operator a type does not have) are left out of CodeGen;
  the run of the pass ends with them as with any other.  Expressions has them.
- The tree is deleted after an error of name or type resolution as well;
  Destruction starts when code generation has ended, and the tree is the same
  tree before it.  After a parse error there is no Root, and what was made of the
  tree is never deleted.
- Two types are the same if their names are: the code compares hashes of the
  names.
- The second look at the character after an operator sees the same character as
  the first.  A `!` alone has the kind that a `token_kind` is made with, lt.
- Grammar follows the code and not the comment of parser.hpp where the code takes
  more without harm: a comma at the end of a list, no comma between arguments,
  any statement as a body.  Where it takes less, the sentences of the comment
  stand apart: `const x = e;` and `f()[e]` should be programs and are rejected.
  The semicolon that parser.hpp:67 has after an if, and the second one after a
  return (line 77), are taken as slips of the comment: the sample program has
  neither.
  `<=` is left out and has a run of its own.
- `const;` is accepted, with harm: `parseConstantVarDecl` returns a null pointer,
  which `appendChild` leaves out of `children` but which stays in `stmts` of the
  block (block.cpp:12, statement.cpp:83) or becomes the body of an if or a loop,
  and gen dereferences it (block.cpp:39, statement.cpp:96).  Parser and Grammar
  have it in the tree as a leaf of kind `null`.  The trees that the later passes
  start from have none, so what gen does with it is not modelled.
- The messages of syntax errors call the last token that fits the unexpected one;
  messages are not modelled, the position is.

## Plan

Done, in this order: names, jump binding and code, execution, types, tokenizer,
parser, values, destruction, the excerpts of error messages, and the proofs above.
Left:

1. *Values in branches and loops*: Evaluation composed with Execution, so that the
   instructions of a block are those of its expressions.  The uninitialised
   return slot and variables declared in a branch belong there.
2. *The compilation*: a module that composes the passes, where each starts from
   what the one before left instead of from what its property says.
3. Proofs: the properties of values and of the parser, if their operators can be
   stated without recursion.
