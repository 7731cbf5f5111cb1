------------------------------- MODULE Resolve -------------------------------
(***************************************************************************)
(* Identifier resolution (src/passes/parse/resolve.c), driven from         *)
(* parse_init.  The walk over the tree is modelled by its stack of C       *)
(* activations, `frames'; the tree is whatever the parser can build, so    *)
(* the next node is chosen freely among those the walk can meet there.     *)
(* Nested function definitions are included: the parser accepts them and   *)
(* only the later semantic pass rejects them.                              *)
(***************************************************************************)
EXTENDS SymbolTable, FiniteSets

CONSTANTS
  Name,       \* identifiers
  NoName,     \* "no initializer"
  MaxId,      \* bound: no declaration once an ID would exceed it
  MaxDepth    \* bound on the nesting of functions and blocks

ASSUME NameAssumption  == NoName \notin Name
ASSUME BoundAssumption == MaxId \in Nat /\ MaxDepth \in Nat

VARIABLES
  symbols,    \* the table, see SymbolTable
  frames,     \* activations of resolve_function and resolve_block, innermost last
  issued,     \* history: every object ever declared, [id, name], in order
  seen,       \* history: <<name, id>> of the last usage resolved
  status,     \* "ok" | "done" | "duplicate" | "undeclared"
  generator   \* *generator of parse_init: the largest ID handed out

vars == <<symbols, frames, issued, seen, status, generator>>

(***************************************************************************)
(* kind: "header" is resolve_function up to its parameters, "body" the     *)
(*   block of its definition (an activation above its header), "block"     *)
(*   every other use of resolve_block: compound statements and the bodies  *)
(*   of if, switch and loops, whose controlling expressions are resolved   *)
(*   before the body is opened.                                            *)
(* reset: the head to go back to.  point: the node used as delimiter.      *)
(* cleanup: whether this activation set the delimiter and must clear it.   *)
(***************************************************************************)
Frame == [kind: {"header", "body", "block"}, reset: Nat \ {0},
          point: Nat \ {0}, cleanup: BOOLEAN]

TypeOK ==
  /\ symbols \in Seq(Symbol(Name))
  /\ frames \in Seq(Frame)
  /\ issued \in Seq([id: Nat, name: Name])
  /\ seen \in {<<>>} \cup (Name \X Nat)
  /\ status \in {"ok", "done", "duplicate", "undeclared"}
  /\ generator \in Nat

Depth == Len(frames)
TopFrame == frames[Depth]
Popped(k) == SubSeq(frames, 1, Depth - k)
FileScope == frames = <<>>

\* The walk meets a declaration, statement or expression.
InBlock == ~ FileScope /\ TopFrame.kind # "header"
CanDeclare == status = "ok" /\ (FileScope \/ InBlock) /\ NextUnique(symbols) =< MaxId

Init ==
  /\ symbols = <<>>
  /\ frames = <<>>
  /\ issued = <<>>
  /\ seen = <<>>
  /\ status = "ok"
  /\ generator = 0

Issue(n) == issued' = Append(issued, [id |-> NextUnique(symbols), name |-> n])

(***************************************************************************)
(* resolve_symbol: a usage takes the ID of the symbol found; a missing one *)
(* ends the compilation.  `table' is the table at that point of the walk.  *)
(***************************************************************************)
ResolveIn(table, n) ==
  IF GetAnywhere(table, n) = 0
  THEN /\ status' = "undeclared"
       /\ UNCHANGED seen
  ELSE /\ seen' = <<n, table[GetAnywhere(table, n)].unique>>
       /\ UNCHANGED status

ResolveInit(table, init) ==
  IF init = NoName THEN UNCHANGED <<seen, status>> ELSE ResolveIn(table, init)

Use(n) ==
  /\ status = "ok" /\ InBlock
  /\ ResolveIn(symbols, n)
  /\ UNCHANGED <<symbols, frames, issued, generator>>

\* Mutation: the two linkages are added up.
DeclaredLinkage_Sum(ext) ==
  (IF FileScope THEN External ELSE NoLinkage)
    + (IF ext THEN External ELSE NoLinkage)

(***************************************************************************)
(* resolve_declaration.  A declaration at file scope is assumed to have    *)
(* external linkage whatever its specifier; elsewhere only `extern' has.   *)
(***************************************************************************)
DeclaredLinkage(ext) ==
  Larger(IF FileScope THEN External ELSE NoLinkage,
         IF ext THEN External ELSE NoLinkage)

BothExternal(i, l) == symbols[i].linkage = External /\ l = External

DeclareConflict(n, l, i) ==
  /\ i # 0 /\ ~ BothExternal(i, l)
  /\ status' = "duplicate"
  /\ UNCHANGED <<symbols, issued, seen>>

DeclareAgain(n, l, i, init) ==
  /\ i # 0 /\ BothExternal(i, l)
  /\ ResolveInit(symbols, init)
  /\ UNCHANGED <<symbols, issued>>

\* Mutation: adopts any visible name.
Adopts_AnyLinkage(n, l) == l = External /\ GetAnywhere(symbols, n) # 0

\* The object an `extern' declaration refers to, if one is in sight.
Adopts(n, l) ==
  /\ l = External
  /\ GetAnywhere(symbols, n) # 0
  /\ some_linkage(symbols[GetAnywhere(symbols, n)].linkage)

\* Mutation: the stub keeps the ID of its own node.
StubTable_OwnId(n) ==
  LET old == symbols[GetAnywhere(symbols, n)]
      t   == Prepend(symbols, n)
  IN  [t EXCEPT ![Len(t)].linkage = old.linkage]

\* A new node that stands for the object an outer declaration introduced.
StubTable(n) ==
  LET old == symbols[GetAnywhere(symbols, n)]
      t   == Prepend(symbols, n)
  IN  [t EXCEPT ![Len(t)].unique = old.unique, ![Len(t)].linkage = old.linkage]

NewTable(n, l) ==
  LET t == Prepend(symbols, n) IN [t EXCEPT ![Len(t)].linkage = l]

DeclareStub(n, l, i, init) ==
  /\ i = 0 /\ Adopts(n, l)
  /\ symbols' = StubTable(n)
  /\ ResolveInit(StubTable(n), init)
  /\ UNCHANGED issued

DeclareNew(n, l, i, init) ==
  /\ i = 0 /\ ~ Adopts(n, l)
  /\ symbols' = NewTable(n, l)
  /\ Issue(n)
  /\ ResolveInit(NewTable(n, l), init)

Declare(n, ext, init) ==
  /\ CanDeclare
  /\ LET l == DeclaredLinkage(ext)
         i == GetLimited(symbols, n)
     IN  \/ DeclareConflict(n, l, i)
         \/ DeclareAgain(n, l, i, init)
         \/ DeclareStub(n, l, i, init)
         \/ DeclareNew(n, l, i, init)
  /\ UNCHANGED <<frames, generator>>

\* Mutation: every activation takes the mark for its own.
Prepares_Always(t, p) == TRUE

(***************************************************************************)
(* level_delimiter_prepare: TRUE when this activation set the mark.        *)
(***************************************************************************)
Prepares(t, p) == ~ t[p].delim

\* resolve_block, for a compound statement or the body of a statement.
OpenBlock ==
  /\ status = "ok" /\ InBlock /\ Depth < MaxDepth
  /\ frames' = Append(frames,
       [kind |-> "block", reset |-> Len(symbols), point |-> Len(symbols),
        cleanup |-> Prepares(symbols, Len(symbols))])
  /\ symbols' = SetDelim(symbols, Len(symbols), TRUE)
  /\ UNCHANGED <<issued, seen, status, generator>>

\* The end of an activation: back to the head, then undo the mark.
Leave(t, f) ==
  LET r == ResetScope(t, f.reset)
  IN  IF f.cleanup THEN SetDelim(r, f.point, FALSE) ELSE r

CloseBlock ==
  /\ status = "ok" /\ InBlock /\ TopFrame.kind = "block"
  /\ symbols' = Leave(symbols, TopFrame)
  /\ frames' = Popped(1)
  /\ UNCHANGED <<issued, seen, status, generator>>

(***************************************************************************)
(* resolve_function: the function's own node is the delimiter of the scope *)
(* that holds its parameters and, for a definition, its body.              *)
(***************************************************************************)
OpenFunction(n) ==
  /\ CanDeclare /\ Depth + 1 < MaxDepth
  /\ LET t == Prepend(symbols, n)
         p == Len(t)
     IN  /\ symbols' = SetDelim(t, p, TRUE)
         /\ frames' = Append(frames,
              [kind |-> "header", reset |-> p, point |-> p,
               cleanup |-> Prepares(t, p)])
  /\ Issue(n)
  /\ UNCHANGED <<seen, status, generator>>

InHeader == ~ FileScope /\ TopFrame.kind = "header"

\* resolve_function_params_one
Parameter(n) ==
  /\ status = "ok" /\ InHeader /\ NextUnique(symbols) =< MaxId
  /\ symbols' = Prepend(symbols, n)
  /\ Issue(n)
  /\ UNCHANGED <<frames, seen, status, generator>>

\* resolve_block_with_delimiter on the body: the delimiter is in place already.
OpenBody ==
  /\ status = "ok" /\ InHeader
  /\ frames' = Append(frames,
       [kind |-> "body", reset |-> Len(symbols), point |-> TopFrame.point,
        cleanup |-> Prepares(symbols, TopFrame.point)])
  /\ symbols' = SetDelim(symbols, TopFrame.point, TRUE)
  /\ UNCHANGED <<issued, seen, status, generator>>

\* A declaration without a body ends after its parameters.
CloseDeclaration ==
  /\ status = "ok" /\ InHeader
  /\ symbols' = Leave(symbols, TopFrame)
  /\ frames' = Popped(1)
  /\ UNCHANGED <<issued, seen, status, generator>>

CloseFunction ==
  /\ status = "ok" /\ InBlock /\ TopFrame.kind = "body"
  /\ symbols' = Leave(Leave(symbols, TopFrame), frames[Depth - 1])
  /\ frames' = Popped(2)
  /\ UNCHANGED <<issued, seen, status, generator>>

\* Mutation: the ID of the last global is passed on.
Finish_HeadUnique ==
  /\ status = "ok" /\ FileScope
  /\ status' = "done"
  /\ generator' = IF symbols = <<>> THEN generator ELSE HeadOf(symbols).unique
  /\ UNCHANGED <<symbols, frames, issued, seen>>

\* parse_init, after the last global.
Finish ==
  /\ status = "ok" /\ FileScope
  /\ status' = "done"
  /\ generator' = IF symbols = <<>> THEN generator ELSE HeadOf(symbols).cookie
  /\ UNCHANGED <<symbols, frames, issued, seen>>

Next ==
  \/ \E n \in Name : \/ Use(n) \/ OpenFunction(n) \/ Parameter(n)
  \/ \E n \in Name, ext \in BOOLEAN, init \in Name \cup {NoName} :
       Declare(n, ext, init)
  \/ OpenBlock \/ CloseBlock
  \/ OpenBody \/ CloseDeclaration \/ CloseFunction
  \/ Finish

Spec == Init /\ [][Next]_vars
-----------------------------------------------------------------------------
(* Properties *)

\* No two declarations of the translation unit share an ID, not even when
\* the scope of the first is long gone: code generation keeps one stack slot
\* per ID (symbols_prepend, symbols_reset_scope).
IdsNeverReused ==
  \A i, j \in 1 .. Len(issued) : issued[i].id = issued[j].id => i = j

\* Two nodes of the table with one ID are re-declarations of one object with
\* external linkage, so a usage never reaches the slot of another variable
\* (the stub of resolve_declaration).
SharedIdIsOneObject ==
  \A i, j \in 1 .. Len(symbols) :
    /\ i # j
    /\ symbols[i].unique = symbols[j].unique
    => /\ symbols[i].name = symbols[j].name
       /\ symbols[i].linkage = External /\ symbols[j].linkage = External

\* A node carries the name its ID was issued for: what a usage finds is a
\* declaration of that very name.
NodesKeepTheirName ==
  \A i \in 1 .. Len(symbols) :
    \E k \in 1 .. Len(issued) :
      issued[k] = [id |-> symbols[i].unique, name |-> symbols[i].name]

\* The marks in the table are those of the open scopes, no more and no fewer
\* (level_delimiter_prepare and the cleanup of both its callers).
DelimitersMatchScopes ==
  \A i \in 1 .. Len(symbols) :
    symbols[i].delim <=> \E k \in 1 .. Depth : frames[k].point = i

\* The IDs main.c gives to the IR's temporaries start above every ID in use
\* (base_id = id_generator + 1).
BaseIdIsFresh ==
  status = "done" =>
    \A k \in 1 .. Len(issued) : issued[k].id < generator + 1

(***************************************************************************)
(* Refinement: the scopes that the list and its marks stand for.           *)
(***************************************************************************)
\* A body shares the scope of its header.
AddPoint(points, f) ==
  IF f.kind = "body" THEN points ELSE Append(points, f.point)

\* The marks where scopes begin, for the first k activations.
PointsOf(fr) ==
  LET upTo[k \in 0 .. Len(fr)] ==
        IF k = 0 THEN <<0>> ELSE AddPoint(upTo[k - 1], fr[k])
  IN  upTo

ScopePoints(fr) == PointsOf(fr)[Len(fr)]

BindingAt(t, i) == [name   |-> t[i].name,
                    id     |-> t[i].unique,
                    linked |-> t[i].linkage = External]

\* The scope of the nodes from lo + 1 to hi: the last one of a name counts.
ScopeBetween(t, lo, hi) ==
  {BindingAt(t, i) :
     i \in {i \in lo + 1 .. hi : \A j \in i + 1 .. hi : t[j].name # t[i].name}}

ScopesOf(t, points) ==
  <<>> \o
  [k \in 1 .. Len(points) |->
     ScopeBetween(t, points[k], IF k = Len(points) THEN Len(t) ELSE points[k + 1])]

AbstractScopes == ScopesOf(symbols, ScopePoints(frames))

Abstract ==
  INSTANCE LexicalScope
    WITH scopes <- AbstractScopes,
         used   <- {issued[k].id : k \in 1 .. Len(issued)},
         Id     <- 0 .. MaxId

\* Every step of the walk is a step of the block-structured scopes of module
\* LexicalScope: lookups are lexical, closing a block restores the names it
\* hid, and a new object gets an ID never used before.
ImplementsLexicalScope == Abstract!Spec
=============================================================================
