------------------------------- MODULE Linkage -------------------------------
(***************************************************************************)
(* Linkage, storage and assembler names of variables and functions: the    *)
(* last three walks of sema_typecheck (src/passes/sema.c), run over the    *)
(* tree that identifier resolution leaves.  Resolve chooses the program,   *)
(* here recorded as its declarations and usages in the order in which the  *)
(* walks meet them, with the IDs and linkage that the resolver wrote into  *)
(* them.  Calls, string literals and the types of expressions are left     *)
(* out; an error only ends the walk, whichever it is.                      *)
(***************************************************************************)
EXTENDS Resolve

CONSTANTS
  Type,      \* types of variables, signatures of functions
  Variables, \* bound on the names of variables
  Functions, \* bound on the names of functions
  Inits,     \* bound on the initializers: "none", "constant", "expression"
  MaxNodes   \* bound on the declarations and usages of the program

ASSUME NodesAssumption ==
  /\ MaxNodes \in Nat
  /\ Inits \subseteq {"none", "constant", "expression"}
  /\ Variables \subseteq Name /\ Functions \subseteq Name
  /\ Type # {}

VARIABLES
  tree,      \* the declarations and usages, see Node
  walk,      \* "parse" | "usage" | "signatures" | "linkage" | "mangle" | "done"
  at,        \* the node the walk is about to enter
  functions, \* function_symbols, its head last
  variables, \* variable_symbols, its head last
  verdict    \* "ok" or "refused"

semaVars == <<walk, at, functions, variables, verdict>>
linkVars == <<vars, tree, semaVars>>

Specifiers == {"none", "static", "extern"}

\* INITIAL_VALUE_*: the numbers matter, sema_declare_file_scope takes a MAX.
NoInitializer == 0
Tentative     == 1
Constant      == 2

(***************************************************************************)
(* init: the initializer, a constant or another expression.  cut: it is    *)
(* out of the tree.  file: ast_contains(ast_program_globals, node).        *)
(* label: the name written to the assembler, <<n>> or mangled <<n, id>>.   *)
(***************************************************************************)
Node ==
  [node: {"declare", "function", "use"}, name: Name, id: Nat, ltype: Linkage,
   spec: Specifiers, init: {"none", "constant", "expression"}, cut: BOOLEAN,
   type: Type, def: BOOLEAN, file: BOOLEAN, label: Seq(Name \cup Nat)]

FunctionSymbol == [name: Name, def: BOOLEAN, linkage: Linkage, type: Type]

\* init: the declaration whose constant is the value, 0 for zero or none.
VariableSymbol ==
  [name: Name, label: Seq(Name \cup Nat), unique: Nat, dscope: {"block", "file"},
   type: Type, linkage: Linkage, initial: {NoInitializer, Tentative, Constant},
   init: Nat]

LinkTypeOK ==
  /\ tree \in Seq(Node) /\ Len(tree) =< MaxNodes
  /\ walk \in {"parse", "usage", "signatures", "linkage", "mangle", "done"}
  /\ at \in 1 .. Len(tree) + 1
  /\ functions \in Seq(FunctionSymbol)
  /\ variables \in Seq(VariableSymbol)
  /\ verdict \in {"ok", "refused"}

LinkInit ==
  /\ Init
  /\ tree = <<>>
  /\ walk = "parse" /\ at = 1
  /\ functions = <<>> /\ variables = <<>>
  /\ verdict = "ok"
-----------------------------------------------------------------------------
(* The tree, as resolve.c fills it in. *)

\* map_symbol_members: ID and linkage of the symbol found.
Resolved(node, n, spec, init, type) ==
  LET s == symbols'[GetAnywhere(symbols', n)]
  IN  [node |-> node, name |-> n, id |-> s.unique, ltype |-> s.linkage,
       spec |-> spec, init |-> init, cut |-> FALSE, type |-> type,
       def |-> FALSE, file |-> FileScope, label |-> <<n>>]

Grow(node) ==
  /\ tree' = IF status' = "ok" THEN Append(tree, node) ELSE tree
  /\ UNCHANGED semaVars

Growing == walk = "parse" /\ Len(tree) < MaxNodes

ParseDeclaration(n, spec, init, type) ==
  /\ Growing
  /\ Declare(n, spec = "extern", NoName)
  /\ Grow(Resolved("declare", n, spec, init, type))

ParseUsage(n) ==
  /\ Growing
  /\ Use(n)
  /\ Grow([Resolved("use", n, "none", "none", CHOOSE t \in Type : TRUE)
             EXCEPT !.file = FALSE])

ParseFunction(n, spec, type) ==
  /\ Growing
  /\ OpenFunction(n)
  /\ Grow([Resolved("function", n, spec, "none", type) EXCEPT !.ltype = NoLinkage])

\* The function whose header this is was the last node.
ParseBody ==
  /\ walk = "parse" /\ OpenBody
  /\ tree' = [tree EXCEPT ![Len(tree)].def = TRUE]
  /\ UNCHANGED semaVars

ParseScope ==
  /\ walk = "parse"
  /\ \/ \E n \in Variables : Parameter(n)
     \/ OpenBlock \/ CloseBlock \/ CloseDeclaration \/ CloseFunction
  /\ UNCHANGED <<tree, semaVars>>

ParseEnd ==
  /\ walk = "parse" /\ Finish
  /\ walk' = "usage"
  /\ UNCHANGED <<tree, at, functions, variables, verdict>>
-----------------------------------------------------------------------------
(* The walks. *)

Visits(w) == walk = w /\ verdict = "ok" /\ at =< Len(tree)
Here == tree[at]

Latest(S) == IF S = {} THEN 0 ELSE CHOOSE i \in S : \A j \in S : j =< i

Refuse ==
  /\ verdict' = "refused"
  /\ UNCHANGED <<vars, tree, walk, at, functions, variables>>

\* On to the next node; every disjunct that uses it says what becomes of the
\* tree and the tables.
Pass ==
  /\ at' = at + 1
  /\ UNCHANGED <<vars, walk, verdict>>

EndWalk(w, next) ==
  /\ walk = w /\ verdict = "ok" /\ at = Len(tree) + 1
  /\ walk' = next /\ at' = 1
  /\ UNCHANGED <<vars, tree, functions, variables, verdict>>

\* sema_var_usage, an earlier walk: what is used must be a variable.
UsesFunction(k) ==
  /\ tree[k].node = "use"
  /\ \E j \in 1 .. Len(tree) : tree[j].node = "function" /\ tree[j].id = tree[k].id

CheckUsages ==
  /\ walk = "usage" /\ verdict = "ok"
  /\ IF \E k \in 1 .. Len(tree) : UsesFunction(k)
     THEN verdict' = "refused" /\ UNCHANGED walk
     ELSE walk' = "signatures" /\ UNCHANGED verdict
  /\ UNCHANGED <<vars, tree, at, functions, variables>>

FunctionNamed(n) == Latest({i \in 1 .. Len(functions) : functions[i].name = n})
IsFunction(n) == FunctionNamed(n) # 0

Misplaced(d) == ~ d.file /\ (d.def \/ d.spec = "static")

\* Mutation: a static declaration may follow one with external linkage.
Mismatches_Static(d, f) == (d.def /\ f.def) \/ d.type # f.type

Mismatches(d, f) ==
  \/ d.def /\ f.def
  \/ d.spec = "static" /\ f.linkage = External
  \/ d.type # f.type

\* sema_fn_signature.  The symbol stays what it was first declared as.
Signature ==
  /\ Visits("signatures") /\ Here.node = "function"
  /\ LET f == FunctionNamed(Here.name)
     IN  IF Misplaced(Here) \/ (f # 0 /\ Mismatches(Here, functions[f]))
         THEN Refuse
         ELSE /\ Pass
              /\ functions' =
                   IF f # 0 THEN functions
                   ELSE Append(functions,
                     [name |-> Here.name, def |-> Here.def, type |-> Here.type,
                      linkage |-> IF Here.spec = "static" THEN Internal ELSE External])
              /\ UNCHANGED <<tree, variables>>

\* symbols_get_scoped(..., SCOPE_FILE)
FileVariable(n) ==
  Latest({i \in 1 .. Len(variables) :
            variables[i].name = n /\ variables[i].dscope = "file"})

OwnLinkage(d) == IF d.spec = "static" THEN Internal ELSE External
OwnInitial(d) ==
  IF d.init = "constant" THEN Constant
  ELSE IF d.spec = "extern" THEN NoInitializer ELSE Tentative

FileRefused(d, v) ==
  \/ d.init = "expression"
  \/ IsFunction(d.name)
  \/ /\ v # 0 /\ d.spec # "extern" /\ OwnLinkage(d) # variables[v].linkage
  \/ v # 0 /\ d.init = "constant" /\ variables[v].initial = Constant

State(linkage, initial, init) == [linkage |-> linkage, initial |-> initial, init |-> init]
Known(v) == State(variables[v].linkage, variables[v].initial, variables[v].init)

\* Mutation: what the declarations say of the initial value is added up.
FileState_Sum(d, v) ==
  State(IF v # 0 /\ d.spec = "extern" THEN variables[v].linkage ELSE OwnLinkage(d),
        IF v = 0 THEN OwnInitial(d) ELSE OwnInitial(d) + variables[v].initial,
        IF d.init = "constant" THEN at ELSE 0)

\* Mutation: the last declaration has the last word on it.
FileState_Last(d, v) ==
  State(IF v # 0 /\ d.spec = "extern" THEN variables[v].linkage ELSE OwnLinkage(d),
        OwnInitial(d), IF d.init = "constant" THEN at ELSE 0)

\* sema_declare_file_scope
FileState(d, v) ==
  State(IF v # 0 /\ d.spec = "extern" THEN variables[v].linkage ELSE OwnLinkage(d),
        IF v = 0 THEN OwnInitial(d) ELSE Larger(OwnInitial(d), variables[v].initial),
        IF d.init = "constant" THEN at
        ELSE IF v # 0 THEN variables[v].init ELSE 0)

BlockRefused(d) ==
  \/ d.spec = "extern" /\ (d.init # "none" \/ IsFunction(d.name))
  \/ d.spec = "static" /\ d.init = "expression"

\* sema_declare_block_scope.  A variable without linkage is left as it is.
BlockState(d, v) ==
  CASE d.spec = "extern" -> IF v # 0 THEN Known(v) ELSE State(External, NoInitializer, 0)
    [] d.spec = "static" -> State(Internal, Constant, IF d.init = "constant" THEN at ELSE 0)
    [] d.spec = "none"   -> State(NoLinkage, NoInitializer, 0)

\* The earlier declaration to go by, if any.
Earlier(d) == IF d.file \/ d.spec = "extern" THEN FileVariable(d.name) ELSE 0

\* Mutation: initializers of static variables in a block stay in the code.
InitMoves_FileOnly(d) == d.init = "constant" /\ d.file

\* The initializer goes to the symbol and is cut from the tree.
InitMoves(d) == d.init = "constant" /\ (d.file \/ d.spec = "static")

NewSymbol(d, s) ==
  [name |-> d.name, label |-> <<d.name>>, unique |-> d.id, type |-> d.type,
   dscope |-> IF d.file \/ s.linkage = External THEN "file" ELSE "block",
   linkage |-> s.linkage, initial |-> s.initial, init |-> s.init]

\* sema_declare_apply: the symbol takes the ID of the latest declaration.
LinkDeclaration ==
  /\ Visits("linkage") /\ Here.node = "declare"
  /\ LET d == Here
         v == Earlier(d)
         s == IF d.file THEN FileState(d, v) ELSE BlockState(d, v)
     IN  IF \/ IF d.file THEN FileRefused(d, v) ELSE BlockRefused(d)
            \/ v # 0 /\ variables[v].type # d.type
         THEN Refuse
         ELSE /\ Pass
              /\ variables' =
                   IF v = 0 THEN Append(variables, NewSymbol(d, s))
                   ELSE [variables EXCEPT ![v].unique = d.id, ![v].linkage = s.linkage,
                                          ![v].initial = s.initial, ![v].init = s.init]
              /\ tree' = [tree EXCEPT ![at].ltype = s.linkage,
                                      ![at].cut = InitMoves(d)]
              /\ UNCHANGED functions

WithId(id) == Latest({i \in 1 .. Len(variables) : variables[i].unique = id})

\* sema_propagate_linkage_from_declare_to_usage
LinkUsage ==
  /\ Visits("linkage") /\ Here.node = "use"
  /\ LET v == WithId(Here.id)
     IN  tree' = IF v = 0 THEN tree ELSE [tree EXCEPT ![at].ltype = variables[v].linkage]
  /\ Pass
  /\ UNCHANGED <<functions, variables>>

\* Mutation: a name mangled already is mangled again.
Mangled_Again(v) == Append(v.label, v.unique)

Mangled(v) == IF Len(v.label) > 1 THEN v.label ELSE Append(v.label, v.unique)

\* Mutation: static variables in blocks keep their names.
Mangles_FileOnly(v) ==
  v # 0 /\ variables[v].linkage = Internal /\ variables[v].dscope = "file"

Mangles(v) == v # 0 /\ variables[v].linkage = Internal

\* sema_mangle_internal_linkage_names
MangleDeclaration ==
  /\ Visits("mangle") /\ Here.node = "declare"
  /\ LET v == WithId(Here.id)
     IN  IF Mangles(v)
         THEN /\ variables' = [variables EXCEPT ![v].label = Mangled(variables[v])]
              /\ tree' = [tree EXCEPT ![at].label = variables'[v].label]
         ELSE UNCHANGED <<tree, variables>>
  /\ Pass
  /\ UNCHANGED functions

MangleUsage ==
  /\ Visits("mangle") /\ Here.node = "use"
  /\ LET v == WithId(Here.id)
     IN  tree' = IF Mangles(v) THEN [tree EXCEPT ![at].label = variables[v].label]
                 ELSE tree
  /\ Pass
  /\ UNCHANGED <<functions, variables>>

\* A walk has nothing to say of the other nodes.
PassBy ==
  /\ \/ Visits("signatures") /\ Here.node # "function"
     \/ (Visits("linkage") \/ Visits("mangle")) /\ Here.node = "function"
  /\ Pass
  /\ UNCHANGED <<tree, functions, variables>>

LinkNext ==
  \/ \E n \in Functions, spec \in Specifiers, type \in Type :
       ParseFunction(n, spec, type)
  \/ \E n \in Variables, spec \in Specifiers, type \in Type,
        init \in Inits :
       ParseDeclaration(n, spec, init, type)
  \/ \E n \in Name : ParseUsage(n)
  \/ ParseBody \/ ParseScope \/ ParseEnd
  \/ CheckUsages
  \/ Signature \/ EndWalk("signatures", "linkage")
  \/ LinkDeclaration \/ LinkUsage \/ EndWalk("linkage", "mangle")
  \/ MangleDeclaration \/ MangleUsage \/ EndWalk("mangle", "done")
  \/ PassBy

LinkSpec == LinkInit /\ [][LinkNext]_linkVars
-----------------------------------------------------------------------------
(* Properties *)

Accepted == walk = "done"
Nodes(kind) == {k \in 1 .. Len(tree) : tree[k].node = kind}
First(S) == CHOOSE k \in S : \A j \in S : k =< j

\* The declarations of the one object of this name that the translation unit
\* shares: those at file scope, and `extern' ones in blocks.
Shared(n) ==
  {k \in Nodes("declare") :
     tree[k].name = n /\ (tree[k].file \/ tree[k].spec = "extern")}
FunctionsOf(n) == {k \in Nodes("function") : tree[k].name = n}
Constants(n) == {k \in Shared(n) : tree[k].init = "constant"}

\* The first declaration decides on the linkage.
IsStatic(k) == tree[k].spec = "static"
LinkageOf(S) == IF IsStatic(First(S)) THEN Internal ELSE External

InitialOf(n) ==
  CASE Constants(n) # {} -> Constant
    [] Constants(n) = {} /\ (\A k \in Shared(n) : tree[k].spec = "extern") -> NoInitializer
    [] OTHER -> Tentative

\* Whatever the order of the declarations of a shared object, file scope or
\* block, the table has one symbol for it: static or not by the first of
\* them, defined if one is not `extern', with the constant of whichever has
\* one.  A function is static if it was first declared so.
SharedObjectsMerged ==
  Accepted => \A n \in Name :
    LET found == {i \in 1 .. Len(variables) :
                    variables[i].name = n /\ variables[i].dscope = "file"}
    IN  /\ Cardinality(found) = (IF Shared(n) = {} THEN 0 ELSE 1)
        /\ \A i \in found :
             /\ variables[i].linkage = LinkageOf(Shared(n))
             /\ variables[i].initial = InitialOf(n)
             /\ variables[i].init = IF Constants(n) = {} THEN 0 ELSE First(Constants(n))
        /\ \A i \in 1 .. Len(functions) :
             functions[i].name = n =>
               functions[i].linkage = LinkageOf(FunctionsOf(n))

IllegalVariables(n) ==
  \/ Shared(n) # {} /\ FunctionsOf(n) # {}
  \/ \E k \in Shared(n) : tree[k].file /\ tree[k].spec # "extern"
                            /\ IsStatic(k) # IsStatic(First(Shared(n)))
  \/ \E j, k \in Shared(n) : tree[j].type # tree[k].type
  \/ \E j, k \in Constants(n) : j # k
  \/ \E k \in Shared(n) : IF tree[k].file THEN tree[k].init = "expression"
                          ELSE tree[k].init # "none"

IllegalStatic(k) ==
  ~ tree[k].file /\ IsStatic(k) /\ tree[k].init = "expression"

IllegalFunctions(n) ==
  \/ \E k \in FunctionsOf(n) : ~ tree[k].file /\ (tree[k].def \/ IsStatic(k))
  \/ \E k \in FunctionsOf(n) : IsStatic(k) /\ ~ IsStatic(First(FunctionsOf(n)))
  \/ \E j, k \in FunctionsOf(n) : tree[j].type # tree[k].type

Illegal ==
  \/ \E n \in Name : IllegalVariables(n) \/ IllegalFunctions(n)
  \/ \E k \in Nodes("declare") : IllegalStatic(k)
  \/ \E k \in Nodes("use") : UsesFunction(k)

DefinedTwice ==
  \E j, k \in Nodes("function") :
    j # k /\ tree[j].name = tree[k].name /\ tree[j].def /\ tree[k].def

\* The walks refuse the programs whose declarations conflict and no others,
\* in whatever order and scope they meet them; the exception are functions
\* defined twice: sema_fn_signature compares with what the function was first
\* declared as, so a definition after a prototype may be repeated.
ConflictsRefusedExactly ==
  /\ verdict = "refused" => Illegal \/ DefinedTwice
  /\ Accepted => ~ Illegal

\* The declarations of a shared object all got one ID from the resolver.
OneIdPerObject ==
  \A n \in Name : \A j, k \in Shared(n) : tree[j].id = tree[k].id

Meets(k) ==
  \E v \in 1 .. Len(variables) :
    variables[v].label = tree[k].label /\ variables[v].linkage = tree[k].ltype

\* A usage ends up with the name and linkage of its declarations, all of
\* them, and that is the name of the variable in the data section.
UsagesNamedAsDeclared ==
  Accepted /\ OneIdPerObject =>
    \A u \in Nodes("use"), d \in Nodes("declare") :
      tree[u].id = tree[d].id =>
        /\ tree[u].label = tree[d].label /\ tree[u].ltype = tree[d].ltype
        /\ Meets(u)

\* No two variables of the data section, and no variable and function, have
\* the same name in the assembler.
LabelsDistinct ==
  Accepted =>
    LET emitted == {i \in 1 .. Len(variables) : variables[i].initial # NoInitializer}
    IN  /\ \A i, j \in emitted : variables[i].label = variables[j].label => i = j
        /\ \A i \in emitted : \A f \in 1 .. Len(functions) :
             variables[i].label # <<functions[f].name>>

\* The initializer of an object of static storage is not left in the code,
\* where every call would run it again; that of any other variable is.
InitializersWhereTheyRun ==
  Accepted => \A d \in Nodes("declare") :
    tree[d].init # "none" => (tree[d].cut <=> tree[d].ltype # NoLinkage)

(***************************************************************************)
(* What comments and diagnostics say, and the code does not do.            *)
(***************************************************************************)
\* "Update this variable usage in the AST to use the newly-mangled symbol
\* name": a usage of an object with linkage has the name of a symbol.
UsagesMeetTheirVariable ==
  Accepted => \A u \in Nodes("use") : tree[u].ltype # NoLinkage => Meets(u)
=============================================================================
