# A TLA+ model of enqcc

enqcc is a C compiler for a subset of C: it reads one translation unit and
writes x86-64 assembly. It is one sequential program, `src/main.c`, that runs
its passes one after the other over a tree it owns; nothing runs concurrently
and nothing is persisted. What makes it hard to test is the other axis: its
passes are walks over an unbounded tree that carry mutable state - lists,
marks, stacks, counters, sentinels - across thousands of nodes, and hand
numbers to each other that must never meet. A wrong number is not a crash, it
is a program that computes something else. The modules here model those walks
as state machines whose next step is whatever node the parser can build, and
check and prove what must hold of every tree.

## Inventory

| Component | Source (under `src/`) | State | Operations | Modelled by |
|---|---|---|---|---|
| driver | `main.c`, `scripts/` | `id_generator`, `label_generator`, the action asked for | option parsing, the sequence of passes, early stop | the hand-over of the counters (`Resolve`, `Lowering`) |
| lexer | `src/passes/lex.c` | the token list | longest match over a table of patterns | not modelled, see below |
| parser | `src/passes/parse.c`, `parse/block.c`, `token.c`, `alloc.c` | token cursor, tree | recursive descent | `Statements`, against `CGrammar` |
| expression parser | `parse/expression.c`, `constant.c` | token cursor | precedence climbing, casts, postfix chains, types of constants | `ExprParser`, against `CGrammar`; constants are tokens |
| declarator parser | `parse/declaration.c` | token cursor | specifiers, groups of a declarator, parameters | `Declarators`, against `CGrammar` |
| identifier resolution | `parse/resolve.c`, `parse.c` | the symbol list, marks in it, the activations of the walk | declaration, usage, block, function, parameter | `Resolve`, `LexicalScope`, `ResolveProofs` |
| symbol table | `src/lang/symbol.c` | a list with IDs and a high-water mark | prepend, three lookups, reset to a scope, mangling | `SymbolTable`, `Linkage` |
| types | `src/lang/types.c` | none | sizes, common type, equality, decay | `Types` |
| jump targets | `src/passes/sema.c` 373-852 | stack of containers, list of labels, lists in the switches, generator | enter and exit of each node | `Labels` |
| typing | `sema.c` 853-2060, 2692-2770 | the tree and the types in it | expansion, types, five checks, implicit casts | `ExprTypes`, `Typing`, against `CExpressions` |
| linkage and signatures | `sema.c` 2242-2689 | the global table | declarations at file and block scope, propagation, mangling | `Linkage`, `LinkageProofs` |
| IR, control flow | `src/passes/ir.c` | operation list, label counter | one function per statement | `Lowering`, `ControlFlow`, `LoweringProofs` |
| IR, expressions | `ir.c` | operation list, temporaries | casts, pointers, assignment, logical operators, calls | `ExprLowering`, `Typing`; the operands of a call in `Calls` |
| code generation | `src/passes/codegen.c` | instruction list, stack offsets | selection, pseudo registers, slots, fixers, calls, parameters | `Selection`, `Fixup`, `Instructions`, `InstructionsProofs`, `StackSlots`, `StackSlotsProofs`, `Calls`, `CallsProofs` |
| assembly output | `src/passes/emit.c` | none | printing | suffixes, operand widths and assertions in `Machine`; the entry and the return of a function in `Calls` |
| errors | `src/result.c` | none | result code to message | not modelled: text; a diagnostic is a `status` or a `verdict` |
| system layer | `src/sys`, `coverage.c`, `parse/debug.c` | arena | allocation, printing | not modelled: no logic of the compiler depends on it |

The components meet in the tree and in four numbers. Identifier resolution
runs inside `parse_init`, after each global, and writes a unique ID into every
identifier; the semantic pass reads the tree, writes label IDs into statements
and types into expressions, and rewrites expressions in place; the IR starts
its temporaries at `id_generator + 1` and its labels at `label_generator + 1`
(`main.c` 95-96); code generation gives every ID of a function a stack slot.
Every failing call returns at once (`check`, `check_if`), so a diagnostic ends
the walk.

What each component must get right:

- *parser*: a text has the tree the C grammar gives it, or a diagnostic if it
  gives none; the declarator parser, which is no recursive descent, included.
- *identifier resolution*: a usage means the innermost declaration in force;
  leaving a scope restores exactly what it hid; no two objects share an ID,
  dead ones included; shared IDs are re-declarations of one external object.
- *jump targets*: exactly the misplaced and repeated statements are refused;
  `break`, `continue`, `case`, `default` and `goto` are wired to the statement C
  means; no two targets share an ID although two walks and the IR number them.
- *typing*: exactly what violates a constraint of C is refused; every expression
  has C's type, although a walk that rewrites the tree meets some nodes twice.
- *linkage*: the last word on a name does not depend on the order of its
  declarations; conflicting ones are refused.
- *IR*: from every statement, for every outcome of its test, the jumps lead
  where C says; every label is defined once, in the function that uses it; an
  expression has C's value and side effects, each once and in order.
- *code generation*: slots of distinct IDs are disjoint; caller and callee agree
  where each argument is; the instructions of an operation exist on the
  processor and compute it, whatever the twelve fixers made of each other's work.

`PROJECT.json` lists the hazards, each at its line.

## Modules

| Module | Contents |
|---|---|
| `Declarators` | types and declarators of `declaration.c`: basic types, groups, parameters |
| `ExprParser` | expressions of `expression.c` |
| `Statements` | statements, blocks, initializers, declarations, the file |
| `CGrammar` | the grammar of C: all trees of a sequence of tokens, as sets |
| `Parser` | texts that grow, the answer of the parser, and what is compared |
| `SymbolTable` | the list of `symbol.c`: `Prepend`, `Get`, `ResetScope`, `SetDelim` |
| `Resolve` | the walk of `resolve.c` over any translation unit |
| `LexicalScope` | what identifier resolution promises: a stack of scopes with fresh objects |
| `ResolveProofs` | proofs of the invariants of `Resolve`, and that it implements `LexicalScope` |
| `Labels` | the two labelling walks of `sema.c` |
| `LabelsProofs` | proofs that the walks refuse what C refuses and wire every goto to its label |
| `Types` | `struct ctype` and the functions on it |
| `ExprTypes` | the passes of `sema_typecheck` over an expression |
| `CExpressions` | what C says of an expression: its type or a violation, its value and side effects |
| `Linkage` | the last three walks of `sema.c`, over the program that `Resolve` has resolved |
| `LinkageProofs` | proofs that the walks merge, refuse, move initializers and name as the whole program says |
| `Lowering` | the control flow of `ir.c`, extending `Labels` by its tree and IDs |
| `LoweringProofs` | proofs that every label is put once and every jump has its own, and that `Lowering` implements `Labels` |
| `ControlFlow` | where control goes by C and by the operations of `Lowering` |
| `ExprLowering` | `ir_expr` and the functions it calls |
| `Typing` | an expression on its way through the passes and into operations |
| `Assembly` | types with widths, IR values and operations, operands and instructions |
| `Selection` | the instructions `codegen.c` chooses for each operation |
| `Fixup` | the twelve fixers |
| `Machine` | the processor (external) and what `emit.c` makes of an instruction |
| `Meaning` | what an IR operation computes |
| `Instructions` | one operation through selection, pseudo registers and fixers |
| `InstructionsProofs` | proofs that no assertion of the back end fails, that the fixers leave nothing to each other and that every instruction exists |
| `StackSlots` | the layout of a frame by `codegen_replace_pseudo` |
| `StackSlotsProofs` | proofs of the invariants of `StackSlots` |
| `Calls` | the code generated for calls, parameters and returns, and a machine that runs it |
| `CallsProofs` | proofs that the caller's and the callee's loop over the arguments agree, and of the invariants of `Calls` |
| `Inductions` | what several proofs need of natural numbers: least and greatest elements, induction over an interval, existence of a recursion |
| `MCResolve`, `MCLowering`, `MCLinkage`, `MCStackSlots`, `MCTyping`, `MCParser` | instances for TLC; `Labels` is checked through `MCLowering`, which extends it; `Calls` and `Instructions` are their own instances |

### Parser

A text is a sequence of tokens, spelled as in C. `Parser` has one action,
`Grow`: the text gets one more piece (one token, or a few that belong together,
as `if ( a )`), and is parsed anew from its first token (`Answer`). So every
text over the pieces of a language is parsed, up to a number of pieces; a text
that already contains what no C text contains (`Hopeless`) grows no further. A
parse function takes the tokens and a position and answers with the position
after what it read, and a tree; position 0 is a diagnostic, and `Then` passes it
on as `check` does. `parse_expr`, `parse_factor`, `parse_stmt_one` and so on keep
their names; a loop over tokens is an operator of its own (`Operators`,
`Bracketed`, `Items`, `Initializers`, `Arguments`).

`group_split` is the part of the declarator parser that has no counterpart in
the grammar: a declarator is cut into one group of tokens per pair of
parentheses, and each group is searched for stars, a name, subscripts and
parameters (`ScanRefuses`, `group_postfix`, `by_group`).

`CGrammar` is written from C89, with declarations anywhere in a block and in the
head of a `for` loop: every production is a set of trees over the ways to cut a
text. It shares with the parser only the names of tokens and of trees, and has
its own table of operators (`Levels`). `FollowsTheGrammar` says that a text with
a tree gets that tree, `RejectsTheRest` that a text without one gets a
diagnostic, now or from a later pass (`RefusedLater`).

What is known to be read differently is named by shape, on the tree C gives or
on the text, and left out: `CastMisread`, `LongChain`, `SizeofParens`,
`Disordered`. Where a property would otherwise be false, see "Known wrong
behaviours".

### Symbols and scopes

`symbols` is the C list with its head at the end, so that a pointer is an
index and `NULL` is 0. `frames` are the activations of `resolve_function` and
`resolve_block_with_delimiter`: what the C code keeps in locals (the reset
point, the marked node, whether this activation set the mark). The tree is not
represented: at each point the next node is any the parser can have put there.
An action is one whole handler. `Declare` is `resolve_declaration` with its
four outcomes, including the usage in the initialiser, which is resolved after
the name is in the table. `OpenFunction` is `resolve_function` up to the
parameters, `OpenBody`/`CloseFunction` the body and the two resets that end a
definition. `OpenBlock`/`CloseBlock` stand for compound statements and for the
bodies of `if`, `switch` and loops. Nested function definitions are included,
since the parser accepts them and only the semantic pass rejects them. `issued`
and `seen` are histories for the properties. Types, kinds of symbols and
positions are left out: no decision of the walk reads them.

`LexicalScope` has no list, no marks and no high-water mark: scopes are sets of
bindings, closing one drops it, a new object takes any ID not used before.
`ImplementsLexicalScope` maps the list, cut at the marked nodes of the
activations, to that stack.

One rule of the code is in the contract as it is: `resolve_function` adds the
function's name without looking whether the scope already declares it.

### Jump targets

`tree` is the sequence of nodes `sema_walk` enters and leaves, `ids` what the
walks write into them. The first pass (`sema_label_loops`) chooses the tree as it
goes; the second (`sema_label_gotos`) replays it. `container` is the array of
`sema_label_loops_state`, `labels` the list of `sema_label_gotos_state`. A
`prototype` is a function declared in a block; definitions inside functions are
left out here. Constants are scaled down: `IntMax` and `IntModulus` stand for
`INT_MAX` and 2^32, so that a case constant of 5 and one of 1 meet in an int
switch. Later checks of the semantic pass (labels at the end of a block,
types) reject more programs and are not modelled. The model follows a build
with assertions, the default preset: a failing `assert` is the status `assert`.

`Lowering` turns the numbered tree into labels and jumps as `ir_block`,
`ir_loop`, `ir_switch`, `ir_if_else`, `ir_logical_op` and the others do. Straight
code is left out; each operation remembers its node (`from`, a history), so
that the run of the code can be compared with what C says of the tree. That
comparison is in `ControlFlow`, a module of its own because it is recursive.

### Types and expressions

`Typing` takes an expression as the parser makes it and lets the passes of
`sema_typecheck` go over it one by one, in the order of the code:
`CompoundAssignment` and `Subscript` expand the tree, `ExprTypesPass` types it,
`CheckPass` runs the five checks, `ImplicitCast` inserts casts, `Lower` is `ir_expr`.
A pass runs only if all before it succeeded (`verdict`). A pass over the tree is
one action, since nothing else touches the tree meanwhile; the order of the
nodes within it matters where a walk meets a node twice (the condition of `?:`,
and the left operand of a compound assignment, which two parents share:
`VisitedTwice`, `twin`), and is kept.

`CExpressions` is C's side, over the parsed tree: `CType` gives the type or says
that a constraint is violated, `Value` the value and the memory after it, or that C
does not define them. `RejectsExactly` and `TypesFollowC` compare the types,
`ComputesTheValue` runs the operations by `Meaning` in memories that hold boundary
values for every variable and compares value and memory. `OperationsAreSelected`
ties the two halves of the compiler together: every operation that comes out
has the kinds and types of operands that `Instructions` is checked on.

The expressions are every operator over operands of every type (eight
arithmetic types, pointers to data, to `void`, to a pointer and to an array,
arrays, constants), casts to every type, operators over operators, and
assignments to objects of every kind. Calls and string literals are left out.

### Linkage

`Linkage` extends `Resolve`: each step of the resolver that meets a declaration, a
function or a usage also records it in `tree`, with the ID and the linkage that
`map_symbol_members` wrote into it. When the translation unit ends, the walks go
over `tree`, one node per action: `CheckUsages` stands for the earlier walk that
rejects functions used as variables, `Signature` for `sema_fn_signature`,
`LinkDeclaration` and `LinkUsage` for `sema_get_linkage_from_declarations`,
`MangleDeclaration` and `MangleUsage` for the last one. `functions` and `variables` are
the two tables, heads last. Which of the diagnostics ends the walk is left out;
an initializer is none, a constant or another expression; a value is the
declaration that gives it. The resolver's own diagnostics end the program before
the walks begin.

`SharedObjectsMerged` and `ConflictsRefusedExactly` are stated on the set of
declarations, with no table and (apart from which one is first) no order.

### One operation in the back end

`Instructions` takes one operation of the intermediate representation, selects
instructions for it (`Select`), replaces pseudo registers and runs the twelve
fixers, one per step and in the order of `codegen_fixup_function`. No register
carries a value from one operation to the next, which is why one at a time is
enough. The operations are those `ir.c` can make, over operands of every type
in a temporary, in static storage and as a constant.

`Machine` is external: registers, flags and memory of an x86-64 as far as these
instructions need them, and which operands an instruction may have
(`Encodable`), with a 64-bit immediate in `mov` to a register alone. What `emit.c`
adds is in it as `Emitted`: the suffix, the width by which each operand is named,
and its assertions.

Widths are scaled down: a char has 4 bits, an int 6, a long 12, so that values
can be enumerated. What the code decides on - whether an immediate fits in an
int, signs, zero extension, the unused upper part of a register - depends on the
order of the widths and on powers of two at their boundaries, which are all
there (`WidthAssumption`). Doubles have the 12 bits of a long: a sign, an exponent of 4 bits,
halves as the least fraction, two zeros and one value that is not a number.
There is no infinity. That is enough for rounding to occur, for an unsigned long
that no double holds exactly, and for the detours the code takes for values
above the greatest signed long.

Every bit that is no operand of the operation, in registers and in memory, is all
zeros in one start and all ones in another; `ComputesTheOperation` demands that
neither matters, and that nothing but the result changes.

### Stack slots

`StackSlots` is `codegen_replace_pseudo` on one function. Its first pass over the
operands chooses them (any ID, as a word of 1, 4 or 8 bytes or as an array) and
keeps the smallest and the largest ID (`Preflight`); `EndPreflight` makes the table
of offsets, or aborts when the range is too wide; `Replace` is the second pass,
one operand at a time: an ID met first takes the next place (`Advance`), and every
operand is rewritten; `EndReplace` and `AllocStack` turn the last offset into the
size of the frame. An ID may be mentioned at several widths, as the code
generator does for truncations. The properties about whole variables speak
of IDs first met whole; `TruncatedSourceKeepsItsBytes` speaks of the others, and fails.

### Calls

`Calls` has the generated code as sequences of instructions (`op_call`,
`function_params`, which transcribe the loops and their counters) and a machine
with registers, `%rsp`, `%rbp` and a memory that executes it, one instruction per
action. A function in its body may call one with any signature, or return.
Arguments are symbols (`Argument(depth, i)`), so that a property can say which
argument a parameter received. What lies below `%rsp` is lost, and after a return
the caller may count on the register of the result alone. `Prologue` and `Return`
are the instructions `emit_asm_fn` and `ASM_OP_RET` add. The machine itself is
external: the meaning of push, call, mov and so on. Alignment of the stack at a
call is not a property here (see the hazard at `codegen.c` 679).

## Runs

There is one run per question and few of them: a module that composes another
is checked together with it, so that each tree is enumerated once. All bounds
are constants of the configurations or stated in the MC module. Deadlock is not
checked anywhere: a compilation ends, with or without a diagnostic.

| Run | Checks | Bounds and why they suffice |
|---|---|---|
| `parser` | `FollowsTheGrammar`, `RejectsTheRest` | twenty languages, each a few tokens that can compete for one another, up to six pieces: every pair of binary operators and chains of five operands of eight strengths; prefix, postfix and cast before and after each other; nested declarators and parameter lists; every list of up to four type words and specifiers; `if`, `else`, `do`, `while`, `for`, `switch`, labels and blocks nested three deep. 267 940 texts |
| `resolve` | `TypeOK`, `IdsNeverReused`, `SharedIdIsOneObject`, `NodesKeepTheirName`, `DelimitersMatchScopes`, `BaseIdIsFresh`, `ImplementsLexicalScope` | two names, four IDs, four activations: a function in a block of a function, a scope closed and reopened, a stub of a stub, shadowing. The invariants and the refinement are proved without bounds |
| `lowering` | `LoopsDiagnosedExactly`, `GotosDiagnosedExactly`, `LowerTypeOK`, `LabelsDefinedOnce`, `CodeFollowsTheSource` | four statements: all three kinds of loop and both types of switch, a switch in a loop in a switch with a statement that must skip one of them, two case constants that meet in an int, nesting limit 3 so that the limit is reached; or two functions with two labels, forward and backward gotos, declared functions, logical operators and returns; where an if, a logical operator, a return, a declared function, or both a loop and an if-else beside gotos are among the statements, there are three. The two groups are not mixed (`Bound`), and the two names are interchangeable (symmetry) |
| `typing` | `TypeOK`, `AssertionsHold`, `RejectsExactly`, `TypesFollowC`, `OperationsAreSelected`, `ComputesTheValue` | one operator over operands of every type, two operators, and assignments to every kind of object with side effects on both sides: a rule of C for one operator looks at the types of its operands only, and two operators show what one pass leaves for the next. 298 526 states |
| `linkage` | `LinkTypeOK`, `SharedObjectsMerged`, `ConflictsRefusedExactly`, `InitializersWhereTheyRun`, `UsagesNamedAsDeclared`, `LabelsDistinct` | four nodes about one variable and one function, all specifiers and initializers, at file scope and in blocks: an object declared three times around a usage; static variables of one name at file scope and in two blocks. With a second type, or one name for a variable and a function, three nodes (`Bound`): each rule compares two declarations |
| `instructions` | `TypeOK`, `AssertionsHold`, `NothingLeftToFix`, `InstructionsExist`, `ComputesTheOperation` | every operation over every type and place of operand, constants at the boundaries of the widths, and samples of values with zero, one, both extremes and their neighbours; four sizes of what a pointer points to (powers of two that an address can scale by, one that is none, one too big) |
| `slots` | `TypeOK`, `EachIdItsOwnBytes`, `InsideTheFrame`, `OperandsAligned`, `AssertionsHold` | four mentions of three IDs, words of each size and two arrays, one of an odd size; a table limit smaller than the range of the IDs. The same invariants are proved without bounds |
| `calls` | `TypeOK`, `ParametersHoldArguments`, `StackBalanced`, `ResultsArrive` | one register of each kind and three arguments: none, one or two on the stack, of each class, odd and even numbers; three functions, so that one both receives and calls. The same invariants are proved without bounds |
| `slots_truncate` | `TruncatedSourceKeepsItsBytes` (violated) | two variables suffice |
| `linkage_hidden` | `UsagesMeetTheirVariable` (violated) | five nodes, without initializers |
| `instructions_condition` | `ConstantsAreConditions` (violated) | as `instructions` |
| `parser_cast` | `CastsLeaveAssignments` (violated) | five tokens suffice |

`TruncatedSourceKeepsItsBytes` is the comment of `codegen.c` 1266 on truncations,
which use a part of a wider source. A slot gets the width of the first operand
that mentions the ID, in the order of the code. If that one is the truncation -
`(int)x` in a case before which the code jumps to the assignment of the long `x` -
the slot has four bytes and the assignment writes over the one before it.

`UsagesMeetTheirVariable` fails for an `extern` declaration in a block under a local
that hides a static variable. The resolver sees the local and gives the
declaration a new ID; the linkage walk finds the static variable by name and
overwrites its ID with the new one, and usages elsewhere, with the old ID,
keep the name `x` while the variable is written as `x.3`. `UsagesNamedAsDeclared` says
that the names are right in all other programs (`OneIdPerObject`).

`ConstantsAreConditions` fails because `fix_cmp` moves a constant into a register
of the width of the comparison, which is that of the other operand, the zero
whose width nobody sets: only the lowest byte is compared. `!256` is 1, and
`if (256)` is not taken.

`CastsLeaveAssignments` is the comment of `expression.c` 213. The operators under which
a cast is moved to the left side do not include the compound assignments:
`(int)a += a` is read as a cast of the assignment.

`CodeFollowsTheSource` compares two independent readings of one tree: `GoesTo`
is what C says of the statement (by the shape of the tree alone), `Run` executes
the emitted operations until they leave the node. It covers the IDs of the
semantic pass as well: a `break` wired to the wrong container fails it.

Fairness: none is assumed and no liveness is stated. Every walk is a recursion
over a finite tree and every loop a list traversal; the models let the tree
end at any point, so "the compiler terminates" would only restate the
finiteness of its input.

## Known wrong behaviours

The properties hold of what is left when the following are set aside; each is
set aside by an operator that names its shape. They were met while comparing
the code with C and seen in the compiled program as well. Where a comment of the
repository says otherwise there is a run above; the others contradict C only.

| Behaviour | Where | Set aside by |
|---|---|---|
| a constant condition is compared with zero by its lowest byte | `codegen.c` 1864 | `ConstantCondition` |
| a double of 2^63 or more is converted to a wrong unsigned long | `codegen.c` 1021 | `DoubleToUnsigned` |
| `!(-0.0)` is 0 | `codegen.c` 805 | `NotOfDouble` |
| a cast takes all that follows for its operand, then moves to the left of one operator: `2 * (int)3 + 4` is 14, `-(int)1 + 5` is -6 | `expression.c` 208 | `CastMisread` |
| `sizeof (a)[0]` is read as `(sizeof(a))[0]`; `p[0]++[1]` is refused | `expression.c` 155, 235 | `SizeofParens`, `LongChain` |
| what a declarator's groups do not look for is passed over: `int x 5;`, `int x*;`, `int x y;`, `int a static b;`, `int x, y;` are accepted | `declaration.c` 395 | `Disordered` |
| `*&x += 1` and `&x ? 1 : 2` fail an assertion: the node is met twice | `sema.c` 1447 | `AddressVisitedTwice` |
| `*&x = 5`, `(*&x)++` fail an assertion | `ir.c` 132, 144 | `AssignedThroughAddress` |
| the operands of `?:` are not promoted, and arrays in it do not become pointers | `sema.c` 1419 | `UnpromotedTernary` |
| a pointer and a double in `&&` or `\|\|` are converted to one type: `p && 0.5` is 0 | `sema.c` 2008 | `MixedConditions` |
| an array that is cast to an integer or compared with 0 is converted by its own size: with `char a[4]`, `(long)a` fails an assertion, with `char a[1]`, `a == 0` does | `codegen.c` 1257, 1264 | `ConvertedArray` |
| `sizeof (a + 1)` is the size of the array | `sema.c` 1419 | `SizeOfArithmetic` |
| arrays of different lengths do not become pointers of one type: with `int a[2]` and `int b[3]`, `a < b` is refused | `src/lang/types.c` 256 | `ArraysOfTwoSizes` |
| `0 + 5` and `~0` are null pointer constants, `(int)0` is none | `sema.c` 1816 | `NullOperand` |
| a function declared in a loop fails the assertion of `sema.c` 620, one declared after a label that of 791 | `sema.c` | status `assert` of `Labels` |
| a function may be defined twice after it was declared | `sema.c` 2315 | `ConflictsRefusedExactly` names it |
| the result of a call with exactly 32 arguments is written past the array of operands | `ir.c` 1512 | `Calls` stays below the limit |

## Proofs

`ResolveProofs` proves the six invariants of run `resolve` for every set of
names, every bound on IDs and every depth. The only assumptions are those
`Resolve` declares: `NoName` is not a name and the bounds are natural numbers.
The invariants are not inductive alone. `IInv` adds:

- `FramesOK`: an activation's mark is at or below the node it goes back to,
  reset points do not decrease inwards, and a body is right above its header -
  so that closing a scope never cuts a node an outer activation still needs;
- `CleanupOK`: among the activations that share a mark, the outermost one clears
  it - what `level_delimiter_prepare` returns, said of the whole stack. With
  `FramesOK` this makes `MarksOK` (`DelimitersMatchScopes`) inductive;
- `IdsBelowCookie`: the head of the table remembers an ID at or above all those
  handed out. This is the point of the cookie, and `IdsNeverReused` and
  `BaseIdIsFresh` follow from it, since the next ID is above the cookie;
- `NoInternalLinkage`: no symbol has internal linkage before the semantic pass,
  so that a stub takes over external objects only.

The lemmas go from the operations of the table (`PrependNode`, `ResetScopeNode`,
`LeaveNode`, `GetIsNode`) over stacks of scopes (`ExtendScopes`, `PushScopes`,
`PopScopes`) and IDs (`KeepIds`, `AddIds`, `AddStub`) to one lemma per action.

`StackSlotsProofs` proves the five invariants of run `slots` for any set of IDs,
any array sizes, any number of mentions and any table limit; the assumptions are
`IdAssumption`, `TypeAssumption` and `BoundAssumption` of `StackSlots` (IDs and
sizes are natural numbers, sizes positive). `IInv` adds to the types: the measured range covers every
mention (`RangeCovers`), which keeps the index inside the table; how the cursor,
the mentions rewritten and the offsets grow together (`Progress`, `TableFilled`); that of the
first mentions of two IDs the later one gets its place above all of the earlier
one's (`SlotsInOrder`), from which disjointness follows for every pair and not
just neighbours; and the alignment of filled offsets (`SlotsAligned`), which rests on
lemmas about `round_up_to_multiple_of`.

The second part of `ResolveProofs` proves that every step of `Resolve` is a step of `LexicalScope` or
a stutter, under the refinement mapping of `Resolve`: the table is cut at the
points where an activation found or set a mark, and the nodes between two
points are a scope. `RInv` adds `NestOK` to `IInv`: a block that opens a scope is
cut where it will be reset to, a body shares the mark of its header. The
argument is in three layers. The points are nested (`PointsNested`): they do not
decrease, and every mark in the table lies at or below the last of them; so the
lookup that stops at a mark finds what the innermost scope binds
(`GetLimitedIs`), and the one that does not stop finds what the innermost scope
that binds the name says (`LookupIs`). Prepending a node extends the last scope
(`ExtendIs`), opening pushes an empty one (`PushIs`), a reset drops one
(`PopIs`); what a scope binds depends on names and IDs alone, not on the cookies
and marks that the resets rewrite (`SameScopes`). Last, one lemma per action.

The first part of `CallsProofs` is about the two loops over one list of classes, the caller's
`codegen_op_call` and the callee's `codegen_function_params`, for every list and
any number of registers of each kind: `CallersAndCalleesAgree` says that after
as many turns the loops have counted the same registers (`AgreedOK`), that the
callee takes each parameter from the register its argument was moved to, or from
the place its argument has among those set aside, and that no register is moved
to twice.

The second part proves the four invariants of run `calls` for every signature,
any nesting of calls and any numbers of registers, from `RegisterAssumption` and
`BoundAssumption` of `Calls` (at least one floating point register and one
active function). `IInv` says of the stack (`StackOK`) where each frame lies
below that of its caller, that between them are exactly the arguments pushed,
the padding and the return address, and that the callee's places hold the
caller's arguments until the callee returns; and of the function on top how far
it has come with its code (`Calling`): what is left of it is the rest of
`op_call` of the callee's classes, and %rsp is as far below the frame as the
part done has pushed. Memory below %rsp is not part of it, as it is lost.

`LabelsProofs` proves `LoopsDiagnosedExactly` and `GotosDiagnosedExactly`, which run
`lowering` checks, for trees of any size and depth, any names, constants, widths
of int and nesting limit, from `KindAssumption`, `ValueAssumption` and
`BoundAssumption` of `Labels`. They are theorems of `Spec` of `Labels`, the walks
themselves; `LoweringWalks` carries them over to `Lowering`.
Both properties compare the walk with a definition over the whole tree (what
encloses a statement, which labels its function has), so `IInv` must say what the
small state of a walk knows of the tree:

- `TreeOK`: an `end` belongs to one construct before it, functions do not overlap,
  and a label or goto lies in a function - what the parser guarantees;
- `FirstOK`, while the first walk goes on: the constructs open are those the
  tree has not ended (`OpenOK`), the containers are the loops and switches among
  them, innermost last (`ContainerOK`), and the lists of a switch are the
  converted constants of the cases nearest to it, and whether it has a default
  (`SwitchOK`);
- `SecondOK`, during the second walk: the list of labels has one entry for each
  name the current function has mentioned so far, which says how it was
  mentioned (`LabelsOK`), and in functions already left every goto has its one
  label (`ResolvedOK`);
- `Diagnosed`: a refusal by the first walk is about the last node met.

The lemmas first say how a node more changes what encloses what (`InsideKept`,
`CurrentGrows` and their like), then what each list of the walk becomes, then
there is one lemma per action. The invariants hold of a refusal too: a walk that
stops has met the first node C refuses.

`LoweringProofs` proves `LowerTypeOK` and `LabelsDefinedOnce`, for trees of any
size and depth, from the assumptions of `Labels` alone, and `LoweringWalks`: every
behaviour of `Lowering` is one of `Labels` (the refinement mapping is the identity on
the variables of the walks), so what `LabelsProofs` says holds of the tree that is
lowered. That a label is defined once is a fact about three numberings: the first
walk numbers loops, switches, cases and defaults, the second gotos and labels,
and the IR whatever `if` and the logical operators need. `LInv` joins what they know:

- `JInv`, of the walks: constructs and their `else` are nested (`Nested`), every
  ID has one owner and lies below the counter (`OwnersApart`), every jump has the ID
  of a node C would name, in its function (`TargetsOK`), and the list of labels
  does not mix the IDs of two names (`EntriesApart`);
- `CodeOK`, of the lowering after n nodes: the labels put so far differ, those below
  `base_label` are at the node the walks gave the ID to, and none of the first
  n nodes lacks its own (`LabelsPut`); a jump goes to an ID that is put or still to be
  put in its own function (`JumpsDestined`); what an open `if` still waits for nobody
  has put (`NotYet`); and the stack of activations of `ir_if_else` is that of the
  ifs the tree has open, with different labels (`ClausesOK`).

`LabelsStep`, `JumpsEmitted` and `NotYetEmitted` show what one node's operations do
to `CodeOK` in terms of the labels they put and the jumps they hold; `PlainStep` is
the case of all nodes but `if`, `else`, their end and the logical operators, which have a
lemma each (`IfStep`, `ElseStep`, `EndIfStep`, `LogicalStep`). At the end of the tree
no activation is left (`AllClosed`), so every jump's label has been put.

`InstructionsProofs` proves `TypeOK`, `AssertionsHold`, `NothingLeftToFix` and
`InstructionsExist`, which run `instructions` checks at 4 and 6 bits, for any widths that
`WidthAssumption` of `Assembly` allows (those of the code, 8 and 32, among them), any
constants in the operands and any sizes of what pointers point to. `IInv` says of every instruction:

- it is `Good`: its operands are well formed and of the kinds the stage allows, and an
  extension has a source narrower than its destination. It also says of a `movzx`
  that does not take a byte that its destination is no register: `map_operand`
  yields none and `fix_movsx_and_movzx` puts one in for a byte only, so the case of
  `fix_movzx_32bit` for a register, which makes one instruction where
  `codegen_fixup_apply` asserts two or more, does not arise in the code of an operation;
- after n fixers it is `Clean(n, i)`: none of the first n fixers would replace it
  (`Needs`). That is what makes one pass of each enough, and it depends on the order of
  the table: `FixS2s` to `FixLea` show that what fixer n puts in needs none of the
  fixers up to n;
- it `Fits`: its operands are what the fixers can still make an instruction of. An
  immediate is at least -1 (it may be too large, `fix_imm_big` mends that), what is
  written is a register or a place in memory, and where no fixer looks the operands
  are right from the start: a product is not of bytes, a conversion does not take or
  make a byte, a double goes through an `xmm` register or a place of 64 bits.

`Shapes` says of each family of operations which words and types its arguments have
(what the casts of `sema.c` see to), which of them are variables and which types agree;
`Selected` and `SelectedFits` say that selection makes good instructions that fit of
every such operation, `FitFixEach` that what a fixer puts in fits, and `FixupIs` takes
a fixer along the code. `Encoded` puts the parts together: what is good, fits and is
clean for all twelve fixers the processor has. Which immediates fit is a matter of powers
of two, of which the provers know nothing: `Powers` gets what is needed (positive and
monotone) from the sizes of power sets. That the instructions compute the operation
(`ComputesTheOperation`) stays with TLC: it is about the values that `RunAll` and
`Meaning` compute, modulo powers of two.

`LinkageProofs` proves the six invariants of run `linkage`, `LinkTypeOK`,
`SharedObjectsMerged`, `ConflictsRefusedExactly`, `InitializersWhereTheyRun`,
`LabelsDistinct` and `UsagesNamedAsDeclared`, for programs of any size, any names, types and
nesting, from the assumptions of `Resolve` and `NodesAssumption` of `Linkage` (the
names of variables and functions are names, there is a type, initializers are the three
kinds). It rests on `IInv` of `ResolveProofs`, since the tree is what the resolver fills
in. The properties speak of the sets of declarations of a name, the walks
know a table and one node, so `LinkInv` says what the tables know when a walk has come to node n:

- `LinkBase`: types, and which tables are still empty in which walk;
- `SignaturesOK`: there is one function symbol for each name with a signature among
  the first n nodes, it is what the first of these says, and all of them agree with it;
- `UsagesChecked`: no usage names a function, once that walk is over;
- `MergesOK`: there is one symbol in file scope for each name with a shared declaration
  among the first n nodes; linkage and type are those of the first, the initial value
  is what all of them say together; they agree with each other, and none of them
  has the name of a function. This holds of every prefix of the tree, which is why the
  order of the declarations cannot matter;
- `DeclaresOK`: initializers cut and linkage of the first n declarations, local static
  variables among them;
- `RefusalsOK`: a refusal is due to a conflict in the tree, and not to the table.

`Steps` names what each action is to these invariants (the parser adds a node, a walk
passes a node by, or adds to its table, or changes one symbol or refuses), and each
layer is one case analysis over it. That the first declaration decides and the rest only
add is `OneMore`; a node's source does not change during the walks (`Kept`).

The last two properties are about the IDs, which the resolver gives, the linkage walk
carries into the table and the walk that mangles looks up again. They need `NameInv`,
which adds to `LinkInv`:

- `TreeIds`, while the resolver still works: every ID in the tree was issued for the
  name of its node (`TreeIssued`); a declaration of an object of its own has an ID that
  no other declaration has (`OwnIds`); a usage follows a declaration with its ID, or
  there is none, as for a parameter (`UsesAfter`). What has external linkage in the resolver's
  table has a declaration in the tree (`ExternalsDeclared`), and the table vouches for the future: what could be declared once more has external linkage, so an ID all
  of whose symbols have none (`Private`) is not given to another declaration;
- `TablesOK`: each symbol comes from a declaration behind the walk and has its ID
  (`SymbolFrom`), no two symbols have one ID, and what is not shared and not static
  has no initial value. The symbol of a shared object changes its ID with each declaration,
  so this uses `MergesOK` (which symbol that is) and `OwnIds` (no other symbol has the
  new ID);
- `LabelsOK`: a symbol has its mangled name if and only if it has internal linkage and a
  declaration with its ID is behind the walk that mangles (`SymbolLabel`), however
  many such declarations there are; the nodes behind the walk have the name of their
  symbol, the others their own. A usage that the walk passed is right because
  `UsesAfter` puts a declaration before it;
- `NodesOK`, of programs where the declarations of each shared object got one ID
  (`OneIdPerObject`): every declaration behind the linkage walk still has a symbol, and
  declarations and usages have its linkage, which the first declaration fixed
  (`SameLinkage`). Without that hypothesis it fails, as run `linkage_hidden` shows.

`Passes` sorts the steps by what they do to the two tables. At the end, an object that
is emitted and not mangled is shared, so the only one of its name and of no function's name
(`PlainIsShared`); a mangled one has the ID in its name, which is its own.

A recursive function in these modules is unfolded by `RecursionExists` of
`Inductions`, which shows that what CHOOSE in its definition looks for exists; an
induction over data is the absence of a least counterexample (`LeastElement`), or
`UpTo` on a set. So the facts about the loops hold for lists of any length.

Only model-checked: that the jumps lead where C says (`CodeFollowsTheSource`), the
lowering of expressions, the types, the parser, and that the instructions of an
operation compute it.
Liveness and ENABLED are beyond the prover (none is stated), as are
`RECURSIVE` operators (`Landing` and `Run` of `ControlFlow`; the parse functions and the
grammar; the passes over expressions and their values) and induction over data.

## Not modelled

- *lexer*: a loop over the characters that takes the longest token at each
  point and keeps nothing from one token to the next. What it decides is the
  spelling of tokens, which every model here abstracts; models start at tokens.
- *constants* (`constant.c`): the value of digits and the type their suffix
  and size give. A constant is a token to the parser and a number with a type
  to the later passes.
- *string literals*, and with them the comparison of character arrays, their
  hoisting (`sema.c`) and their output.
- *initializers* beyond the parser and, for linkage, whether there is one and
  whether it is constant: their types and their lowering to static data or stores.
- *calls in `Typing`*: the types of arguments and of functions.
- *driver options*, diagnostics' text, the arena, debug printing and coverage
  files: no state of the compilation.
- *directives and platform spellings* of `emit.c`.

## Plan

1. done: `SymbolTable`, `LexicalScope`, `Resolve`, `ResolveProofs`.
2. done: `Labels`, `Lowering`.
3. done: `StackSlots`, `StackSlotsProofs`.
4. done: `Calls`.
5. done: `Linkage`.
6. done: `Assembly`, `Selection`, `Fixup`, `Machine`, `Meaning`, `Instructions`.
7. done: `Types`, `ExprTypes`, `CExpressions`, `ExprLowering`, `Typing`.
8. done: `Declarators`, `ExprParser`, `Statements`, `CGrammar`, `Parser`.
9. done, proofs: the refinement of `LexicalScope`, `Calls`, `Labels`, `Lowering`,
   `Instructions` (assertions, nothing left to fix), `Linkage`.
10. next: `constant.c` (the type of a constant), initializers and string literals.
