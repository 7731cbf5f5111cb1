----------------------------- MODULE LinkageProofs -----------------------------
(***************************************************************************)
(* Proofs about module Linkage: what its walks accept, refuse and name is  *)
(* right whatever the program, the number of its declarations and usages,  *)
(* their types and the nesting of their scopes.                            *)
(***************************************************************************)
EXTENDS Linkage, ResolveProofs, FiniteSetTheorems

(***************************************************************************)
(* Lookups in the table of the resolver.                                   *)
(***************************************************************************)
\* A name that is in the table is found, at the last of its nodes.
LEMMA LatestFound ==
  ASSUME NEW t \in Table, NEW n \in Name, NEW i \in 1 .. Len(t), t[i].name = n,
         \A j \in 1 .. Len(t) : t[j].name = n => j =< i
  PROVE  GetAnywhere(t, n) = i
  BY GetAnywhereIs DEF IsLast, Table

LEMMA AnywhereFinds ==
  ASSUME NEW t \in Table, NEW n \in Name, NEW i \in 1 .. Len(t), t[i].name = n
  PROVE  /\ GetAnywhere(t, n) \in 1 .. Len(t)
         /\ t[GetAnywhere(t, n)].name = n
  BY GetAnywhereIs DEF IsLast, Table

\* The head is found first.
LEMMA HeadFound ==
  ASSUME NEW t \in Table, Len(t) \in Nat \ {0}, NEW n \in Name,
         t[Len(t)].name = n
  PROVE  GetAnywhere(t, n) = Len(t) /\ Len(t) \in 1 .. Len(t)
<1>1. Len(t) \in 1 .. Len(t)
  OBVIOUS
<1> QED BY <1>1, LatestFound

\* What a limited lookup finds, a lookup in the whole table finds as well.
LEMMA LimitedIsLatest ==
  ASSUME NEW t \in Table, NEW n \in Name, GetLimited(t, n) # 0
  PROVE  GetAnywhere(t, n) = GetLimited(t, n)
<1> DEFINE hits == Hits(t, n, TRUE)
<1>1. hits = {j \in 1 .. Len(t) : t[j].name = n /\ \A k \in j .. Len(t) : ~ t[k].delim}
  BY DEF Hits, Reaches
<1>2. hits # {}
  BY Zenon DEF GetLimited, Get
<1>3. GetLimited(t, n) = CHOOSE j \in hits : \A k \in hits : k =< j
  BY <1>2, Zenon DEF GetLimited, Get
<1> HIDE DEF hits
<1>4. hits \in SUBSET (1 .. Len(t)) /\ Len(t) \in Nat /\ \A j \in hits : j \in Nat
  BY <1>1 DEF Table
<1>5. PICK i \in hits : \A k \in hits : k =< i
  BY <1>2, <1>4, LastPosition
<1>6. \A j \in hits : (\A k \in hits : k =< j) => j = i
  BY <1>4, <1>5
<1>7. GetLimited(t, n) = i
  BY <1>3, <1>5, <1>6
<1>8. i \in 1 .. Len(t) /\ t[i].name = n
  BY <1>1, <1>5
<1>9. ASSUME NEW j \in 1 .. Len(t), t[j].name = n, ~ (j =< i)
      PROVE  FALSE
  <2>1. \A k \in j .. Len(t) : ~ t[k].delim
    BY <1>1, <1>4, <1>5, <1>9
  <2> QED BY <1>1, <1>4, <1>5, <1>9, <2>1
<1> QED BY <1>4, <1>7, <1>8, <1>9, LatestFound

(***************************************************************************)
(* What the parser's steps make of the table.                              *)
(***************************************************************************)
OldNode(s) == \E j \in 1 .. Len(symbols) : SameNode(s, symbols[j])

\* The symbol a new node of the tree takes its ID and its linkage from.
FoundAt(n) == GetAnywhere(symbols', n)

\* A declaration of an object that is known already.
Adopted(n, l) ==
  /\ l = External /\ UNCHANGED issued
  /\ FoundAt(n) \in 1 .. Len(symbols') /\ symbols'[FoundAt(n)].name = n
  /\ symbols'[FoundAt(n)].linkage = External
  /\ \A i \in 1 .. Len(symbols') : OldNode(symbols'[i])

\* A declaration of a new object.
Created(n, l) ==
  /\ Issue(n)
  /\ FoundAt(n) \in 1 .. Len(symbols') /\ symbols'[FoundAt(n)].name = n
  /\ symbols'[FoundAt(n)].unique = NextUnique(symbols)
  /\ symbols'[FoundAt(n)].linkage = l
  /\ \A i \in 1 .. Len(symbols') : i = FoundAt(n) \/ OldNode(symbols'[i])

LEMMA DeclaredSymbol ==
  ASSUME IInv, NEW n \in Name, NEW ext \in BOOLEAN, Declare(n, ext, NoName),
         status' = "ok"
  PROVE  \/ Adopted(n, DeclaredLinkage(ext))
         \/ Created(n, DeclaredLinkage(ext))
<1> DEFINE l == DeclaredLinkage(ext)
           i == GetLimited(symbols, n)
           m == Len(symbols)
<1>1. /\ symbols \in Table /\ TypeOK /\ IdsOK /\ m \in Nat
      /\ \A k \in 1 .. m : symbols[k] \in Symbol(Name)
  BY DEF IInv, TypeOK, Table
<1>2. l \in Linkage
  BY DEF DeclaredLinkage, Larger, Linkage, NoLinkage, External
<1>3. ~ DeclareConflict(n, l, i)
  BY DEF DeclareConflict
<1>4. CASE DeclareAgain(n, l, i, NoName)
  <2>1. /\ i # 0 /\ symbols[i].linkage = External /\ l = External
        /\ UNCHANGED <<symbols, issued>>
    BY <1>4 DEF DeclareAgain, BothExternal
  <2>2. GetAnywhere(symbols, n) = i
    BY <1>1, <2>1, LimitedIsLatest
  <2>3. i \in 1 .. m /\ symbols[i].name = n
    <3>1. PICK b \in BOOLEAN : i = Get(symbols, n, b)
      BY DEF GetLimited
    <3> QED BY <1>1, <2>1, <3>1, GetIsNode
  <2>4. FoundAt(n) = i
    BY <2>1, <2>2 DEF FoundAt
  <2>5. \A k \in 1 .. Len(symbols') : OldNode(symbols'[k])
    BY <2>1 DEF OldNode, SameNode
  <2> HIDE DEF i, l
  <2>6. Adopted(n, l)
    BY <2>1, <2>3, <2>4, <2>5 DEF Adopted
  <2> QED BY <2>6 DEF l
<1>5. CASE DeclareStub(n, l, i, NoName)
  <2> DEFINE k == GetAnywhere(symbols, n)
  <2>1. k # 0 /\ l = External /\ some_linkage(symbols[k].linkage) /\ UNCHANGED issued
    BY <1>5 DEF DeclareStub, Adopts
  <2>2. k \in 1 .. m /\ symbols[k].name = n
    <3>1. PICK b \in BOOLEAN : k = Get(symbols, n, b)
      BY DEF GetAnywhere
    <3> QED BY <1>1, <2>1, <3>1, GetIsNode
  <2>3. symbols[k].linkage = External
    BY <1>1, <2>1, <2>2 DEF IdsOK, NoInternalLinkage, some_linkage
  <2>4. symbols' = StubTable(n)
    BY <1>5 DEF DeclareStub
  <2>5. /\ symbols' \in Table /\ Len(symbols') = m + 1
        /\ \A j \in 1 .. m : SameNode(symbols'[j], symbols[j])
        /\ symbols'[m + 1].name = n
        /\ symbols'[m + 1].unique = symbols[k].unique
        /\ symbols'[m + 1].linkage = symbols[k].linkage
    BY <1>1, <2>1, <2>2, <2>4, StubTableIs
  <2>6. FoundAt(n) = m + 1 /\ FoundAt(n) \in 1 .. Len(symbols')
    BY <1>1, <2>5, HeadFound DEF FoundAt
  <2>7. \A j \in 1 .. Len(symbols') : OldNode(symbols'[j])
    <3> HIDE DEF k
    <3>1. OldNode(symbols'[m + 1])
      BY <2>2, <2>5 DEF OldNode, SameNode
    <3>2. \A j \in 1 .. m : OldNode(symbols'[j])
      BY <2>5 DEF OldNode
    <3> HIDE DEF m
    <3> QED BY <1>1, <2>5, <3>1, <3>2
  <2> HIDE DEF l, k, m
  <2>8. Adopted(n, l)
    BY <2>1, <2>3, <2>5, <2>6, <2>7 DEF Adopted
  <2> QED BY <2>8 DEF l
<1>6. CASE DeclareNew(n, l, i, NoName)
  <2>1. Issue(n) /\ symbols' = NewTable(n, l)
    BY <1>6 DEF DeclareNew
  <2> HIDE DEF l, i
  <2>2. /\ symbols' \in Table /\ Len(symbols') = m + 1
        /\ \A j \in 1 .. m : SameNode(symbols'[j], symbols[j])
        /\ symbols'[m + 1].name = n
        /\ symbols'[m + 1].unique = NextUnique(symbols)
        /\ symbols'[m + 1].linkage = l
    BY <1>1, <1>2, <2>1, NewTableIs
  <2>3. FoundAt(n) = m + 1 /\ FoundAt(n) \in 1 .. Len(symbols')
    BY <1>1, <2>2, HeadFound DEF FoundAt
  <2>4. \A j \in 1 .. Len(symbols') : j = FoundAt(n) \/ OldNode(symbols'[j])
    BY <1>1, <2>2, <2>3 DEF OldNode
  <2> HIDE DEF m
  <2>5. Created(n, l)
    BY <2>1, <2>2, <2>3, <2>4 DEF Created
  <2> QED BY <2>5 DEF l
<1> QED
  <2>1. \/ DeclareConflict(n, l, i) \/ DeclareAgain(n, l, i, NoName)
        \/ DeclareStub(n, l, i, NoName) \/ DeclareNew(n, l, i, NoName)
    BY DEF Declare
  <2> QED BY <1>3, <1>4, <1>5, <1>6, <2>1

LEMMA FunctionCreated ==
  ASSUME IInv, NEW n \in Name, OpenFunction(n)
  PROVE  Created(n, NoLinkage)
<1> DEFINE t == Prepend(symbols, n)
           m == Len(symbols)
<1>1. symbols \in Table /\ m \in Nat
  BY DEF IInv, TypeOK, Table
<1>2. /\ t \in Table /\ Len(t) = m + 1
      /\ \A k \in 1 .. m : t[k] = symbols[k]
  BY <1>1, PrependNode
<1>3. t[m + 1] = [name |-> n, unique |-> NextUnique(symbols),
                  cookie |-> NextCookie(symbols), delim |-> FALSE,
                  linkage |-> NoLinkage]
  BY <1>1, <1>2, PrependNode DEF HeadOf
<1>4. Issue(n) /\ symbols' = SetDelim(t, Len(t), TRUE)
  BY DEF OpenFunction
<1> HIDE DEF t
<1>5. /\ t[m + 1].name = n /\ t[m + 1].unique = NextUnique(symbols)
      /\ t[m + 1].linkage = NoLinkage
  BY <1>3
<1>6. /\ symbols' \in Table /\ Len(symbols') = m + 1
      /\ \A i \in 1 .. m + 1 : SameNode(symbols'[i], t[i])
  <2> DEFINE p == Len(t)
  <2>1. p \in 1 .. Len(t)
    BY <1>1, <1>2
  <2> HIDE DEF p
  <2>2. /\ SetDelim(t, p, TRUE) \in Table
        /\ Len(SetDelim(t, p, TRUE)) = Len(t)
        /\ \A i \in 1 .. Len(t) : SameNode(SetDelim(t, p, TRUE)[i], t[i])
    BY <1>2, <2>1, MarkedTable
  <2> QED BY <1>2, <1>4, <2>2 DEF p
<1> HIDE DEF m
<1>7. /\ symbols'[m + 1].name = n
      /\ symbols'[m + 1].unique = NextUnique(symbols)
      /\ symbols'[m + 1].linkage = NoLinkage
  BY <1>1, <1>5, <1>6 DEF SameNode
<1>8. FoundAt(n) = m + 1 /\ FoundAt(n) \in 1 .. Len(symbols')
  BY <1>1, <1>6, <1>7, HeadFound DEF FoundAt
<1>9. \A i \in 1 .. m : OldNode(symbols'[i])
  BY <1>1, <1>2, <1>6 DEF OldNode, SameNode, m
<1>10. \A i \in 1 .. Len(symbols') : i = FoundAt(n) \/ OldNode(symbols'[i])
  BY <1>1, <1>6, <1>8, <1>9
<1> QED BY <1>4, <1>7, <1>8, <1>10 DEF Created

LEMMA UsedSymbol ==
  ASSUME IInv, NEW n \in Name, Use(n), status' = "ok"
  PROVE  /\ UNCHANGED <<symbols, issued>>
         /\ FoundAt(n) \in 1 .. Len(symbols') /\ symbols'[FoundAt(n)].name = n
<1>1. symbols \in Table /\ UNCHANGED <<symbols, issued>>
  BY DEF IInv, TypeOK, Table, Use
<1>2. GetAnywhere(symbols, n) # 0
  BY DEF Use, ResolveIn
<1>3. IsLast(symbols, n, 0, Len(symbols), GetAnywhere(symbols, n))
  BY <1>1, <1>2, GetAnywhereIs
<1>4. GetAnywhere(symbols, n) \in 1 .. Len(symbols)
      /\ symbols[GetAnywhere(symbols, n)].name = n
  BY <1>3 DEF IsLast
<1> QED BY <1>1, <1>4 DEF FoundAt

\* The step of the walk gives the new node its name, and ID and linkage of
\* the symbol found.
IsResolved(r, node, n, spec) ==
  /\ r \in Node /\ r.node = node /\ r.name = n
  /\ r.id = symbols'[FoundAt(n)].unique
  /\ r.spec = spec /\ (r.file <=> FileScope) /\ r.label = <<n>>

LEMMA ResolvedNode ==
  ASSUME symbols' \in Table, NEW n \in Name,
         FoundAt(n) \in 1 .. Len(symbols'),
         NEW node \in {"declare", "function", "use"}, NEW spec \in Specifiers,
         NEW init \in {"none", "constant", "expression"}, NEW type \in Type
  PROVE  IsResolved(Resolved(node, n, spec, init, type), node, n, spec)
<1> DEFINE s == symbols'[FoundAt(n)]
           file == FileScope
           label == <<n>>
<1>1. s \in Symbol(Name)
  BY DEF Table
<1>2. s.unique \in Nat /\ s.linkage \in Linkage
  BY <1>1 DEF Symbol
<1>3. file \in BOOLEAN /\ label \in Seq(Name \cup Nat)
  BY DEF FileScope
<1>4. Resolved(node, n, spec, init, type) =
        [node |-> node, name |-> n, id |-> s.unique, ltype |-> s.linkage,
         spec |-> spec, init |-> init, cut |-> FALSE, type |-> type,
         def |-> FALSE, file |-> file, label |-> label]
  BY DEF Resolved, FoundAt
<1>5. file <=> FileScope
  OBVIOUS
<1> HIDE DEF s, file
<1>6. Resolved(node, n, spec, init, type).label = <<n>>
  BY <1>4
<1> HIDE DEF label
<1>7. Resolved(node, n, spec, init, type) \in Node
  BY <1>2, <1>3, <1>4 DEF Node
<1>8. /\ Resolved(node, n, spec, init, type).node = node
      /\ Resolved(node, n, spec, init, type).name = n
      /\ Resolved(node, n, spec, init, type).id = s.unique
      /\ Resolved(node, n, spec, init, type).spec = spec
      /\ Resolved(node, n, spec, init, type).file = file
  BY <1>4
<1> QED BY <1>5, <1>6, <1>7, <1>8 DEF IsResolved, s

(***************************************************************************)
(* First and last positions.                                               *)
(***************************************************************************)
LEMMA LatestIs ==
  ASSUME NEW n \in Nat, NEW S \in SUBSET (1 .. n)
  PROVE  /\ S = {} => Latest(S) = 0
         /\ S # {} => Latest(S) \in S /\ \A j \in S : j =< Latest(S)
<1>1. ASSUME S # {} PROVE Latest(S) \in S /\ \A j \in S : j =< Latest(S)
  <2>1. \E i \in S : \A j \in S : j =< i
    BY <1>1, LastPosition
  <2> QED BY <1>1, <2>1 DEF Latest
<1> QED BY <1>1 DEF Latest

\* The one position there is, or the last of several.
LEMMA LatestOf ==
  ASSUME NEW n \in Nat, NEW S \in SUBSET (1 .. n), NEW i \in S,
         \A j \in S : j =< i
  PROVE  Latest(S) = i
<1>1. Latest(S) \in S /\ \A j \in S : j =< Latest(S)
  BY LatestIs
<1> DEFINE m == Latest(S)
<1>2. m \in S /\ m =< i /\ i =< m
  BY <1>1
<1> HIDE DEF m
<1>3. m \in Nat /\ i \in Nat
  BY <1>2
<1>4. m = i
  BY <1>2, <1>3
<1> QED BY <1>4 DEF m

LEMMA FirstIs ==
  ASSUME NEW n \in Nat, NEW S \in SUBSET (1 .. n), S # {}
  PROVE  First(S) \in S /\ \A j \in S : First(S) =< j
<1>1. \E k \in S : \A j \in S : k =< j
  BY LeastElement
<1> QED BY <1>1 DEF First

LEMMA FirstOf ==
  ASSUME NEW n \in Nat, NEW S \in SUBSET (1 .. n), NEW k \in S,
         \A j \in S : k =< j
  PROVE  First(S) = k
<1>1. First(S) \in S /\ \A j \in S : First(S) =< j
  BY FirstIs
<1> DEFINE m == First(S)
<1>2. m \in S /\ m =< k /\ k =< m
  BY <1>1
<1> HIDE DEF m
<1>3. m \in Nat /\ k \in Nat
  BY <1>2
<1>4. m = k
  BY <1>2, <1>3
<1> QED BY <1>4 DEF m

(***************************************************************************)
(* The nodes of the tree and the symbols, as the walks change them.        *)
(***************************************************************************)
\* What identifier resolution said of a node, no later walk changes.
SameSource(a, b) ==
  /\ a.node = b.node /\ a.name = b.name /\ a.id = b.id /\ a.spec = b.spec
  /\ a.init = b.init /\ a.type = b.type /\ a.def = b.def /\ a.file = b.file

Linked(d, l, c) == [d EXCEPT !.ltype = l, !.cut = c]
Relabelled(d, b) == [d EXCEPT !.label = b]

LEMMA LinkedNode ==
  ASSUME NEW d \in Node, NEW l \in Linkage, NEW c \in BOOLEAN
  PROVE  /\ Linked(d, l, c) \in Node /\ SameSource(Linked(d, l, c), d)
         /\ Linked(d, l, c).ltype = l /\ Linked(d, l, c).cut = c
         /\ Linked(d, l, c).label = d.label
  BY DEF Linked, Node, SameSource

LEMMA RelabelledNode ==
  ASSUME NEW d \in Node, NEW b \in Seq(Name \cup Nat)
  PROVE  /\ Relabelled(d, b) \in Node /\ SameSource(Relabelled(d, b), d)
         /\ Relabelled(d, b).ltype = d.ltype /\ Relabelled(d, b).cut = d.cut
         /\ Relabelled(d, b).label = b
  BY DEF Relabelled, Node, SameSource

Restated(v, u, s) ==
  [v EXCEPT !.unique = u, !.linkage = s.linkage, !.initial = s.initial, !.init = s.init]

States == [linkage: Linkage, initial: {NoInitializer, Tentative, Constant}, init: Nat]

LEMMA RestatedSymbol ==
  ASSUME NEW v \in VariableSymbol, NEW u \in Nat, NEW s \in States
  PROVE  /\ Restated(v, u, s) \in VariableSymbol
         /\ Restated(v, u, s).name = v.name /\ Restated(v, u, s).label = v.label
         /\ Restated(v, u, s).dscope = v.dscope /\ Restated(v, u, s).type = v.type
         /\ Restated(v, u, s).unique = u
         /\ Restated(v, u, s).linkage = s.linkage
         /\ Restated(v, u, s).initial = s.initial /\ Restated(v, u, s).init = s.init
  BY DEF Restated, VariableSymbol, States

LEMMA RelabelledSymbol ==
  ASSUME NEW v \in VariableSymbol, NEW b \in Seq(Name \cup Nat)
  PROVE  /\ Relabelled(v, b) \in VariableSymbol
         /\ Relabelled(v, b).name = v.name /\ Relabelled(v, b).label = b
         /\ Relabelled(v, b).dscope = v.dscope /\ Relabelled(v, b).type = v.type
         /\ Relabelled(v, b).unique = v.unique
         /\ Relabelled(v, b).linkage = v.linkage
         /\ Relabelled(v, b).initial = v.initial /\ Relabelled(v, b).init = v.init
  BY DEF Relabelled, VariableSymbol

LEMMA NewSymbolIs ==
  ASSUME NEW d \in Node, NEW s \in States
  PROVE  /\ NewSymbol(d, s) \in VariableSymbol
         /\ NewSymbol(d, s).name = d.name /\ NewSymbol(d, s).label = <<d.name>>
         /\ NewSymbol(d, s).type = d.type /\ NewSymbol(d, s).unique = d.id
         /\ NewSymbol(d, s).dscope =
              (IF d.file \/ s.linkage = External THEN "file" ELSE "block")
         /\ NewSymbol(d, s).linkage = s.linkage
         /\ NewSymbol(d, s).initial = s.initial /\ NewSymbol(d, s).init = s.init
<1> DEFINE b == <<d.name>>
<1>1. d.name \in Name /\ d.type \in Type /\ d.id \in Nat
  BY DEF Node
<1>2. s.linkage \in Linkage /\ s.init \in Nat
      /\ s.initial \in {NoInitializer, Tentative, Constant}
  BY DEF States
<1>3. b \in Seq(Name \cup Nat)
  BY <1>1
<1> DEFINE e == IF d.file \/ s.linkage = External THEN "file" ELSE "block"
<1>4. e \in {"file", "block"}
  OBVIOUS
<1>5. NewSymbol(d, s) =
        [name |-> d.name, label |-> b, unique |-> d.id, type |-> d.type,
         dscope |-> e, linkage |-> s.linkage, initial |-> s.initial,
         init |-> s.init]
  BY DEF NewSymbol
<1> HIDE DEF b, e
<1>6. NewSymbol(d, s) \in VariableSymbol
  BY <1>1, <1>2, <1>3, <1>4, <1>5 DEF VariableSymbol
<1>7. /\ NewSymbol(d, s).name = d.name /\ NewSymbol(d, s).label = b
      /\ NewSymbol(d, s).type = d.type /\ NewSymbol(d, s).unique = d.id
      /\ NewSymbol(d, s).dscope = e
      /\ NewSymbol(d, s).linkage = s.linkage
      /\ NewSymbol(d, s).initial = s.initial /\ NewSymbol(d, s).init = s.init
  BY <1>5
<1> QED BY <1>6, <1>7 DEF b, e

(***************************************************************************)
(* Types, and which table is in use in which walk.                         *)
(***************************************************************************)
Walks ==
  /\ walk \in {"parse", "usage", "signatures"} => variables = <<>>
  /\ walk \in {"parse", "usage"} => functions = <<>> /\ at = 1
  /\ walk = "parse" => verdict = "ok"

LinkBase == IInv /\ LinkTypeOK /\ Walks

\* The parts of the state, as the provers need them.
LEMMA View ==
  ASSUME LinkTypeOK
  PROVE  /\ Len(tree) \in Nat /\ at \in Nat /\ at >= 1 /\ at =< Len(tree) + 1
         /\ \A k \in 1 .. Len(tree) : tree[k] \in Node
         /\ Len(functions) \in Nat
         /\ \A i \in 1 .. Len(functions) : functions[i] \in FunctionSymbol
         /\ Len(variables) \in Nat
         /\ \A i \in 1 .. Len(variables) : variables[i] \in VariableSymbol
  BY DEF LinkTypeOK

LEMMA FunctionNamedIs ==
  ASSUME LinkTypeOK, NEW n
  PROVE  /\ FunctionNamed(n) = 0 =>
              \A i \in 1 .. Len(functions) : functions[i].name # n
         /\ FunctionNamed(n) # 0 =>
              FunctionNamed(n) \in 1 .. Len(functions) /\ functions[FunctionNamed(n)].name = n
<1> DEFINE S == {i \in 1 .. Len(functions) : functions[i].name = n}
<1>1. S \in SUBSET (1 .. Len(functions)) /\ Len(functions) \in Nat
  BY View
<1>2. FunctionNamed(n) = Latest(S)
  BY DEF FunctionNamed
<1>3. (S = {} => Latest(S) = 0) /\ (S # {} => Latest(S) \in S)
  <2> HIDE DEF S
  <2> QED BY <1>1, LatestIs
<1>4. S = {} <=> FunctionNamed(n) = 0
  <2> HIDE DEF S
  <2> QED BY <1>1, <1>2, <1>3
<1> QED BY <1>2, <1>3, <1>4

LEMMA FileVariableIs ==
  ASSUME LinkTypeOK, NEW n
  PROVE  /\ FileVariable(n) = 0 =>
              \A i \in 1 .. Len(variables) :
                ~ (variables[i].name = n /\ variables[i].dscope = "file")
         /\ FileVariable(n) # 0 =>
              /\ FileVariable(n) \in 1 .. Len(variables)
              /\ variables[FileVariable(n)].name = n
              /\ variables[FileVariable(n)].dscope = "file"
<1> DEFINE S == {i \in 1 .. Len(variables) :
                   variables[i].name = n /\ variables[i].dscope = "file"}
<1>1. S \in SUBSET (1 .. Len(variables)) /\ Len(variables) \in Nat
  BY View
<1>2. FileVariable(n) = Latest(S)
  BY DEF FileVariable
<1>3. (S = {} => Latest(S) = 0) /\ (S # {} => Latest(S) \in S)
  <2> HIDE DEF S
  <2> QED BY <1>1, LatestIs
<1>4. S = {} <=> FileVariable(n) = 0
  <2> HIDE DEF S
  <2> QED BY <1>1, <1>2, <1>3
<1> QED BY <1>2, <1>3, <1>4

LEMMA WithIdIs ==
  ASSUME LinkTypeOK, NEW id
  PROVE  /\ WithId(id) = 0 =>
              \A i \in 1 .. Len(variables) : variables[i].unique # id
         /\ WithId(id) # 0 =>
              WithId(id) \in 1 .. Len(variables) /\ variables[WithId(id)].unique = id
<1> DEFINE S == {i \in 1 .. Len(variables) : variables[i].unique = id}
<1>1. S \in SUBSET (1 .. Len(variables)) /\ Len(variables) \in Nat
  BY View
<1>2. WithId(id) = Latest(S)
  BY DEF WithId
<1>3. (S = {} => Latest(S) = 0) /\ (S # {} => Latest(S) \in S)
  <2> HIDE DEF S
  <2> QED BY <1>1, LatestIs
<1>4. S = {} <=> WithId(id) = 0
  <2> HIDE DEF S
  <2> QED BY <1>1, <1>2, <1>3
<1> QED BY <1>2, <1>3, <1>4

\* What a declaration says of its symbol, and whether it is refused.
DeclaredState(d, v) == IF d.file THEN FileState(d, v) ELSE BlockState(d, v)
DeclarationRefused(d, v) ==
  \/ IF d.file THEN FileRefused(d, v) ELSE BlockRefused(d)
  \/ v # 0 /\ variables[v].type # d.type

LEMMA OwnStates ==
  ASSUME NEW d \in Node
  PROVE  /\ OwnLinkage(d) \in {Internal, External}
         /\ OwnInitial(d) \in {NoInitializer, Tentative, Constant}
  BY DEF OwnLinkage, OwnInitial

LEMMA DeclaredStateType ==
  ASSUME LinkTypeOK, NEW d \in Node, NEW v \in 0 .. Len(variables)
  PROVE  DeclaredState(d, v) \in States
<1>1. v # 0 => /\ variables[v].linkage \in Linkage /\ variables[v].init \in Nat
               /\ variables[v].initial \in {NoInitializer, Tentative, Constant}
  <2>1. v # 0 => variables[v] \in VariableSymbol
    BY View
  <2> QED BY <2>1 DEF VariableSymbol
<1>2. /\ OwnLinkage(d) \in Linkage
      /\ OwnInitial(d) \in {NoInitializer, Tentative, Constant}
  BY OwnStates DEF Linkage
<1>3. at \in Nat /\ d.file \in BOOLEAN /\ d.spec \in Specifiers
  BY View DEF Node
<1>4. ASSUME NEW l \in Linkage, NEW a \in {NoInitializer, Tentative, Constant}, NEW x \in Nat
      PROVE  State(l, a, x) \in States
  BY DEF State, States
<1>5. CASE d.file
  <2> DEFINE l == IF v # 0 /\ d.spec = "extern" THEN variables[v].linkage ELSE OwnLinkage(d)
             a == IF v = 0 THEN OwnInitial(d) ELSE Larger(OwnInitial(d), variables[v].initial)
             x == IF d.init = "constant" THEN at
                  ELSE IF v # 0 THEN variables[v].init ELSE 0
  <2>1. l \in Linkage /\ x \in Nat
    BY <1>1, <1>2, <1>3
  <2>2. a \in {NoInitializer, Tentative, Constant}
    BY <1>1, <1>2 DEF Larger
  <2>3. DeclaredState(d, v) = State(l, a, x)
    BY <1>5 DEF DeclaredState, FileState
  <2> HIDE DEF l, a, x
  <2> QED BY <1>4, <2>1, <2>2, <2>3
<1>6. CASE ~ d.file
  <2>1. CASE d.spec = "extern"
    <3>1. DeclaredState(d, v) = IF v # 0 THEN Known(v) ELSE State(External, NoInitializer, 0)
      BY <1>6, <2>1 DEF DeclaredState, BlockState
    <3> QED BY <1>1, <1>4, <3>1 DEF Known, Linkage
  <2>2. CASE d.spec = "static"
    <3> DEFINE x == IF d.init = "constant" THEN at ELSE 0
    <3>1. DeclaredState(d, v) = State(Internal, Constant, x)
      BY <1>6, <2>2 DEF DeclaredState, BlockState
    <3>2. x \in Nat
      BY <1>3
    <3> HIDE DEF x
    <3> QED BY <1>4, <3>1, <3>2 DEF Linkage
  <2>3. CASE d.spec = "none"
    <3>1. DeclaredState(d, v) = State(NoLinkage, NoInitializer, 0)
      BY <1>6, <2>3 DEF DeclaredState, BlockState
    <3> QED BY <1>4, <3>1 DEF Linkage
  <2> QED BY <1>3, <2>1, <2>2, <2>3 DEF Specifiers
<1> QED BY <1>5, <1>6

(***************************************************************************)
(* The steps of the walks, in a form the later proofs can use.             *)
(***************************************************************************)
\* The later walks change of a node what they are about, and nothing else.
Kept ==
  /\ Len(tree') = Len(tree)
  /\ \A k \in 1 .. Len(tree) : SameSource(tree'[k], tree[k])

LEMMA SameTree ==
  ASSUME tree' = tree
  PROVE  Kept
  BY DEF Kept, SameSource

LEMMA SetNode ==
  ASSUME LinkTypeOK, NEW k \in 1 .. Len(tree), NEW e \in Node,
         SameSource(e, tree[k]), tree' = [tree EXCEPT ![k] = e]
  PROVE  /\ tree' \in Seq(Node) /\ Kept
         /\ \A j \in 1 .. Len(tree) : tree'[j] = IF j = k THEN e ELSE tree[j]
<1>1. tree \in Seq(Node)
  BY DEF LinkTypeOK
<1>2. /\ tree' \in Seq(Node) /\ Len(tree') = Len(tree)
      /\ \A j \in 1 .. Len(tree) : tree'[j] = IF j = k THEN e ELSE tree[j]
  BY <1>1, ExceptSeq
<1> QED BY <1>2 DEF Kept, SameSource

LEMMA SetVariable ==
  ASSUME LinkTypeOK, NEW k \in 1 .. Len(variables), NEW e \in VariableSymbol,
         variables' = [variables EXCEPT ![k] = e]
  PROVE  /\ variables' \in Seq(VariableSymbol) /\ Len(variables') = Len(variables)
         /\ \A j \in 1 .. Len(variables) :
              variables'[j] = IF j = k THEN e ELSE variables[j]
  BY ExceptSeq DEF LinkTypeOK

\* The node a walk enters.
LEMMA Entered ==
  ASSUME LinkTypeOK, NEW w, Visits(w)
  PROVE  at \in 1 .. Len(tree) /\ Here \in Node /\ Here = tree[at]
<1>1. at \in 1 .. Len(tree)
  BY View DEF Visits
<1> QED BY <1>1, View DEF Here

\* v: the symbol to go by.  s: what the declaration says.
Declares(v, s) ==
  /\ Pass /\ UNCHANGED functions
  /\ tree' = [tree EXCEPT ![at] = Linked(tree[at], s.linkage, InitMoves(tree[at]))]
  /\ variables' = IF v = 0 THEN Append(variables, NewSymbol(tree[at], s))
                  ELSE [variables EXCEPT ![v] = Restated(variables[v], tree[at].id, s)]

LEMMA EarlierIs ==
  ASSUME LinkTypeOK, NEW d
  PROVE  /\ Earlier(d) \in 0 .. Len(variables)
         /\ Earlier(d) # 0 => /\ d.file \/ d.spec = "extern"
                              /\ variables[Earlier(d)].name = d.name
                              /\ variables[Earlier(d)].dscope = "file"
         /\ (d.file \/ d.spec = "extern") => Earlier(d) = FileVariable(d.name)
<1>1. Len(variables) \in Nat
  BY View
<1>2. CASE d.file \/ d.spec = "extern"
  <2>1. Earlier(d) = FileVariable(d.name)
    BY <1>2 DEF Earlier
  <2> QED BY <1>1, <1>2, <2>1, FileVariableIs
<1>3. CASE ~ (d.file \/ d.spec = "extern")
  BY <1>1, <1>3 DEF Earlier
<1> QED BY <1>2, <1>3

LEMMA DeclarationView ==
  ASSUME LinkTypeOK, LinkDeclaration
  PROVE  LET v == Earlier(tree[at])
             s == DeclaredState(tree[at], v)
         IN  \/ DeclarationRefused(tree[at], v) /\ Refuse
             \/ ~ DeclarationRefused(tree[at], v) /\ Declares(v, s)
<1> DEFINE d == tree[at]
           v == Earlier(d)
           s == DeclaredState(d, v)
<1>1. Here = d /\ at \in 1 .. Len(tree) /\ d \in Node
  BY Entered DEF LinkDeclaration
<1>2. v \in 0 .. Len(variables) /\ Len(variables) \in Nat
  BY EarlierIs, View
<1>3. s = IF d.file THEN FileState(d, v) ELSE BlockState(d, v)
  BY DEF DeclaredState
<1>4. CASE DeclarationRefused(d, v)
  <2>1. Refuse
    BY <1>1, <1>4 DEF LinkDeclaration, DeclarationRefused
  <2> QED BY <1>4, <2>1
<1>5. CASE ~ DeclarationRefused(d, v)
  <2>1. /\ Pass /\ UNCHANGED functions
        /\ variables' =
             IF v = 0 THEN Append(variables, NewSymbol(d, s))
             ELSE [variables EXCEPT ![v].unique = d.id, ![v].linkage = s.linkage,
                                    ![v].initial = s.initial, ![v].init = s.init]
        /\ tree' = [tree EXCEPT ![at].ltype = s.linkage, ![at].cut = InitMoves(d)]
    BY <1>1, <1>3, <1>5 DEF LinkDeclaration, DeclarationRefused
  <2>2. tree' = [tree EXCEPT ![at] = Linked(d, s.linkage, InitMoves(d))]
    <3> HIDE DEF s, v
    <3>1. tree \in Seq(Node)
      BY DEF LinkTypeOK
    <3> QED BY <1>1, <2>1, <3>1 DEF Linked
  <2>3. v # 0 => variables' = [variables EXCEPT ![v] = Restated(variables[v], d.id, s)]
    <3> HIDE DEF s, v, d
    <3>1. variables \in Seq(VariableSymbol)
      BY DEF LinkTypeOK
    <3> QED BY <1>2, <2>1, <3>1 DEF Restated
  <2>4. Declares(v, s)
    BY <2>1, <2>2, <2>3 DEF Declares
  <2> QED BY <1>5, <2>4
<1> QED BY <1>4, <1>5

\* The symbol v of the node a usage or a declaration names, if any.
UsesSymbol(v) ==
  /\ Pass /\ UNCHANGED <<functions, variables>>
  /\ tree' = IF v = 0 THEN tree
             ELSE [tree EXCEPT ![at] = Linked(tree[at], variables[v].linkage, tree[at].cut)]

LEMMA LinkUsageView ==
  ASSUME LinkTypeOK, LinkUsage
  PROVE  UsesSymbol(WithId(tree[at].id))
<1> DEFINE v == WithId(tree[at].id)
<1>1. Here = tree[at] /\ at \in 1 .. Len(tree) /\ tree[at] \in Node
  BY Entered DEF LinkUsage
<1>2. /\ Pass /\ UNCHANGED <<functions, variables>>
      /\ tree' = IF v = 0 THEN tree ELSE [tree EXCEPT ![at].ltype = variables[v].linkage]
  BY <1>1 DEF LinkUsage
<1> HIDE DEF v
<1>3. [tree[at] EXCEPT !.ltype = variables[v].linkage]
        = Linked(tree[at], variables[v].linkage, tree[at].cut)
  BY <1>1 DEF Linked, Node
<1>4. UsesSymbol(v)
  BY <1>2, <1>3 DEF UsesSymbol
<1> QED BY <1>4 DEF v

\* The name of the symbol v after the walk has come past a declaration.
Mangling(v) ==
  /\ Pass /\ UNCHANGED functions
  /\ IF Mangles(v)
     THEN /\ variables' = [variables EXCEPT ![v] = Relabelled(variables[v], Mangled(variables[v]))]
          /\ tree' = [tree EXCEPT ![at] = Relabelled(tree[at], Mangled(variables[v]))]
     ELSE UNCHANGED <<tree, variables>>

LEMMA MangleView ==
  ASSUME LinkTypeOK, MangleDeclaration
  PROVE  Mangling(WithId(tree[at].id))
<1> DEFINE v == WithId(tree[at].id)
           b == Mangled(variables[v])
<1>1. Here = tree[at] /\ at \in 1 .. Len(tree) /\ tree[at] \in Node
  BY Entered DEF MangleDeclaration
<1>2. /\ Pass /\ UNCHANGED functions
      /\ IF Mangles(v)
         THEN /\ variables' = [variables EXCEPT ![v].label = b]
              /\ tree' = [tree EXCEPT ![at].label = variables'[v].label]
         ELSE UNCHANGED <<tree, variables>>
  BY <1>1 DEF MangleDeclaration
<1>3. v # 0 => v \in 1 .. Len(variables)
  BY WithIdIs
<1> HIDE DEF v, b
<1>4. ASSUME Mangles(v)
      PROVE  /\ variables' = [variables EXCEPT ![v] = Relabelled(variables[v], b)]
             /\ tree' = [tree EXCEPT ![at] = Relabelled(tree[at], b)]
  <2>1. v \in 1 .. Len(variables)
    BY <1>3, <1>4 DEF Mangles
  <2>2. variables[v] \in VariableSymbol /\ variables \in Seq(VariableSymbol)
    BY <2>1, View DEF LinkTypeOK
  <2>3. variables' = [variables EXCEPT ![v] = Relabelled(variables[v], b)]
    BY <1>2, <1>4 DEF Relabelled
  <2>4. variables'[v] = Relabelled(variables[v], b)
    BY <2>1, <2>2, <2>3
  <2>5. variables'[v].label = b
    BY <2>2, <2>4 DEF Relabelled, VariableSymbol
  <2> QED BY <1>2, <1>4, <2>3, <2>5 DEF Relabelled
<1>5. Mangling(v)
  BY <1>2, <1>4 DEF Mangling, b
<1> QED BY <1>5 DEF v

\* A usage takes the name of its symbol.
Naming(v) ==
  /\ Pass /\ UNCHANGED <<functions, variables>>
  /\ tree' = IF Mangles(v) THEN [tree EXCEPT ![at] = Relabelled(tree[at], variables[v].label)]
             ELSE tree

LEMMA MangleUsageView ==
  ASSUME LinkTypeOK, MangleUsage
  PROVE  Naming(WithId(tree[at].id))
<1> DEFINE v == WithId(tree[at].id)
<1>1. Here = tree[at]
  BY DEF Here
<1> QED BY <1>1 DEF MangleUsage, Naming, Relabelled

(***************************************************************************)
(* Types.                                                                  *)
(***************************************************************************)
LEMMA GrowBase ==
  ASSUME LinkTypeOK, Walks, Growing, NEW node, status' = "ok" => node \in Node,
         Grow(node)
  PROVE  LinkTypeOK' /\ Walks'
<1>1. tree \in Seq(Node) /\ Len(tree) < MaxNodes /\ walk = "parse"
  BY DEF LinkTypeOK, Growing
<1>2. UNCHANGED semaVars /\ tree' = IF status' = "ok" THEN Append(tree, node) ELSE tree
  BY DEF Grow
<1>3. UNCHANGED <<walk, at, functions, variables, verdict>>
  BY <1>2 DEF semaVars
<1>4. at = 1
  BY <1>1 DEF Walks
<1>5. Walks'
  BY <1>3 DEF Walks
<1>6. CASE status' = "ok"
  <2>1. tree' \in Seq(Node) /\ Len(tree') = Len(tree) + 1
    BY <1>1, <1>2, <1>6, AppendProperties
  <2> QED BY <1>1, <1>3, <1>4, <1>5, <2>1, NodesAssumption DEF LinkTypeOK
<1>7. CASE status' # "ok"
  BY <1>2, <1>3, <1>5, <1>7 DEF LinkTypeOK
<1> QED BY <1>6, <1>7

\* Every step of the parser is one of the resolver.
LEMMA DeclarationNode ==
  ASSUME IInv, NEW n \in Name, NEW spec \in Specifiers,
         NEW init \in {"none", "constant", "expression"}, NEW type \in Type,
         ParseDeclaration(n, spec, init, type)
  PROVE  /\ IInv' /\ Growing
         /\ Declare(n, spec = "extern", NoName)
         /\ Grow(Resolved("declare", n, spec, init, type))
         /\ status' = "ok" =>
              /\ \/ Adopted(n, DeclaredLinkage(spec = "extern"))
                 \/ Created(n, DeclaredLinkage(spec = "extern"))
              /\ FoundAt(n) \in 1 .. Len(symbols')
              /\ Resolved("declare", n, spec, init, type) \in Node
<1>1. PICK ext \in BOOLEAN : ext = (spec = "extern")
  OBVIOUS
<1>2. /\ Declare(n, ext, NoName) /\ Growing
      /\ Grow(Resolved("declare", n, spec, init, type))
  BY <1>1, Zenon DEF ParseDeclaration
<1>3. IInv'
  <2>1. NoName \in Name \cup {NoName}
    OBVIOUS
  <2> QED BY <1>2, <2>1, DeclareStep
<1>4. symbols' \in Table
  BY <1>3 DEF IInv, TypeOK, Table
<1>5. ASSUME status' = "ok"
      PROVE  /\ \/ Adopted(n, DeclaredLinkage(ext)) \/ Created(n, DeclaredLinkage(ext))
             /\ FoundAt(n) \in 1 .. Len(symbols')
             /\ Resolved("declare", n, spec, init, type) \in Node
  <2>1. Adopted(n, DeclaredLinkage(ext)) \/ Created(n, DeclaredLinkage(ext))
    BY <1>2, <1>5, DeclaredSymbol
  <2>2. FoundAt(n) \in 1 .. Len(symbols')
    BY <2>1 DEF Adopted, Created
  <2>3. Resolved("declare", n, spec, init, type) \in Node
    <3>1. IsResolved(Resolved("declare", n, spec, init, type), "declare", n, spec)
      BY <1>4, <2>2, ResolvedNode
    <3> QED BY <3>1 DEF IsResolved
  <2> QED BY <2>1, <2>2, <2>3
<1> QED BY <1>1, <1>2, <1>3, <1>5, Zenon

LEMMA FunctionNode ==
  ASSUME IInv, NEW n \in Name, NEW spec \in Specifiers, NEW type \in Type,
         ParseFunction(n, spec, type)
  PROVE  /\ IInv' /\ Growing /\ OpenFunction(n) /\ Created(n, NoLinkage)
         /\ Grow([Resolved("function", n, spec, "none", type) EXCEPT !.ltype = NoLinkage])
         /\ [Resolved("function", n, spec, "none", type) EXCEPT !.ltype = NoLinkage] \in Node
<1> DEFINE r == Resolved("function", n, spec, "none", type)
<1>1. OpenFunction(n) /\ Growing /\ Grow([r EXCEPT !.ltype = NoLinkage])
  BY DEF ParseFunction
<1>2. IInv' /\ Created(n, NoLinkage)
  BY <1>1, OpenFunctionStep, FunctionCreated
<1>3. symbols' \in Table /\ FoundAt(n) \in 1 .. Len(symbols')
  BY <1>2 DEF IInv, TypeOK, Table, Created
<1>4. r \in Node
  <2>1. IsResolved(r, "function", n, spec)
    BY <1>3, ResolvedNode
  <2> QED BY <2>1 DEF IsResolved
<1> HIDE DEF r
<1>5. [r EXCEPT !.ltype = NoLinkage] \in Node
  BY <1>4 DEF Node, Linkage
<1> QED BY <1>1, <1>2, <1>5 DEF r

\* The node of a usage.
UsageNode(n) ==
  [Resolved("use", n, "none", "none", CHOOSE t \in Type : TRUE) EXCEPT !.file = FALSE]

LEMMA UsageNodeIs ==
  ASSUME IInv, NEW n \in Name, ParseUsage(n)
  PROVE  /\ IInv' /\ Growing /\ Use(n) /\ Grow(UsageNode(n))
         /\ status' = "ok" =>
              /\ UNCHANGED <<symbols, issued>>
              /\ FoundAt(n) \in 1 .. Len(symbols') /\ symbols'[FoundAt(n)].name = n
              /\ UsageNode(n) \in Node
              /\ UsageNode(n).node = "use" /\ UsageNode(n).name = n
              /\ UsageNode(n).id = symbols'[FoundAt(n)].unique
              /\ UsageNode(n).label = <<n>>
<1>1. Use(n) /\ Growing /\ Grow(UsageNode(n))
  BY DEF ParseUsage, UsageNode
<1>2. IInv'
  BY <1>1, UseStep
<1>3. symbols' \in Table
  BY <1>2 DEF IInv, TypeOK, Table
<1>4. PICK type \in Type : type = CHOOSE t \in Type : TRUE
  BY NodesAssumption
<1> DEFINE r == Resolved("use", n, "none", "none", type)
           b == <<n>>
<1>5. ASSUME status' = "ok"
      PROVE  /\ UNCHANGED <<symbols, issued>>
             /\ FoundAt(n) \in 1 .. Len(symbols') /\ symbols'[FoundAt(n)].name = n
             /\ UsageNode(n) \in Node
             /\ UsageNode(n).node = "use" /\ UsageNode(n).name = n
             /\ UsageNode(n).id = symbols'[FoundAt(n)].unique
             /\ UsageNode(n).label = b
  <2>1. /\ UNCHANGED <<symbols, issued>>
        /\ FoundAt(n) \in 1 .. Len(symbols') /\ symbols'[FoundAt(n)].name = n
    BY <1>1, <1>5, UsedSymbol
  <2>2. /\ r \in Node /\ r.node = "use" /\ r.name = n
        /\ r.id = symbols'[FoundAt(n)].unique /\ r.label = b
    <3>1. "none" \in Specifiers /\ "use" \in {"declare", "function", "use"}
      BY DEF Specifiers
    <3>2. IsResolved(r, "use", n, "none")
      BY <1>3, <2>1, <3>1, ResolvedNode
    <3> HIDE DEF r
    <3> QED BY <3>2 DEF IsResolved
  <2>3. UsageNode(n) = [r EXCEPT !.file = FALSE]
    BY <1>4 DEF UsageNode
  <2> HIDE DEF r, b
  <2>4. /\ [r EXCEPT !.file = FALSE] \in Node
        /\ [r EXCEPT !.file = FALSE].node = r.node
        /\ [r EXCEPT !.file = FALSE].name = r.name
        /\ [r EXCEPT !.file = FALSE].id = r.id
        /\ [r EXCEPT !.file = FALSE].label = r.label
    BY <2>2 DEF Node
  <2> QED BY <2>1, <2>2, <2>3, <2>4
<1> QED BY <1>1, <1>2, <1>5

\* The sequence u is t with e in place j.
SetAt(u, t, j, e) ==
  /\ u \in Seq(Node) /\ Len(u) = Len(t)
  /\ \A k \in 1 .. Len(t) : u[k] = IF k = j THEN e ELSE t[k]

LEMMA NodeSet ==
  ASSUME NEW t \in Seq(Node), NEW u, NEW j \in 1 .. Len(t), NEW e \in Node,
         u = [t EXCEPT ![j] = e]
  PROVE  SetAt(u, t, j, e)
  BY ExceptSeq DEF SetAt

LEMMA BodyNode ==
  ASSUME LinkTypeOK, tree' = [tree EXCEPT ![Len(tree)].def = TRUE]
  PROVE  /\ tree' \in Seq(Node) /\ Len(tree') = Len(tree)
         /\ \A k \in 1 .. Len(tree) :
              /\ tree'[k].node = tree[k].node /\ tree'[k].name = tree[k].name
              /\ tree'[k].id = tree[k].id /\ tree'[k].spec = tree[k].spec
              /\ tree'[k].file = tree[k].file /\ tree'[k].label = tree[k].label
<1> DEFINE m == Len(tree)
           e == [tree[m] EXCEPT !.def = TRUE]
<1>1. tree \in Seq(Node) /\ m \in Nat
  BY DEF LinkTypeOK
<1>2. CASE m = 0
  <2>1. tree' = tree
    BY <1>1, <1>2
  <2> QED BY <1>1, <2>1
<1>3. CASE m # 0
  <2>1. m \in 1 .. m /\ tree[m] \in Node
    BY <1>1, <1>3
  <2> DEFINE d == tree[m]
  <2>2. tree' = [tree EXCEPT ![m] = e]
    OBVIOUS
  <2> HIDE DEF d
  <2>3. /\ e \in Node /\ e.node = tree[m].node /\ e.name = tree[m].name
        /\ e.id = tree[m].id /\ e.spec = tree[m].spec
        /\ e.file = tree[m].file /\ e.label = tree[m].label
    BY <2>1 DEF Node
  <2> HIDE DEF e, m
  <2>4. /\ tree' \in Seq(Node) /\ Len(tree') = Len(tree)
        /\ \A k \in 1 .. Len(tree) : tree'[k] = IF k = m THEN e ELSE tree[k]
    <3>1. PICK j : j = m
      OBVIOUS
    <3>2. j \in 1 .. Len(tree) /\ tree' = [tree EXCEPT ![j] = e]
      BY <2>1, <2>2, <3>1 DEF m
    <3>3. /\ tree' \in Seq(Node) /\ Len(tree') = Len(tree)
          /\ \A k \in 1 .. Len(tree) : tree'[k] = IF k = j THEN e ELSE tree[k]
      <4>1. SetAt(tree', tree, j, e)
        BY <1>1, <2>3, <3>2, NodeSet
      <4> QED BY <4>1 DEF SetAt
    <3> QED BY <3>1, <3>3
  <2> QED BY <2>3, <2>4
<1> QED BY <1>2, <1>3

LEMMA MangledType ==
  ASSUME NEW v \in VariableSymbol
  PROVE  Mangled(v) \in Seq(Name \cup Nat)
<1>1. v.label \in Seq(Name \cup Nat) /\ v.unique \in Name \cup Nat
  BY DEF VariableSymbol
<1> QED BY <1>1, AppendProperties DEF Mangled

\* A step of a walk that visits a node, or ends, or refuses.
LEMMA WalkBase ==
  ASSUME LinkBase, walk \notin {"parse", "usage"}, UNCHANGED vars,
         tree' \in Seq(Node), Len(tree') = Len(tree),
         walk' \in {"signatures", "linkage", "mangle", "done"},
         at' \in 1 .. Len(tree) + 1, functions' \in Seq(FunctionSymbol),
         variables' \in Seq(VariableSymbol), verdict' \in {"ok", "refused"},
         walk' = "signatures" => variables' = <<>>
  PROVE  LinkBase'
<1>1. IInv'
  BY NextIInv DEF LinkBase
<1>2. LinkTypeOK'
  BY DEF LinkTypeOK, LinkBase
<1>3. Walks'
  BY DEF Walks
<1> QED BY <1>1, <1>2, <1>3 DEF LinkBase

\* Pass, in a walk that is under way.
LEMMA PassBase ==
  ASSUME LinkBase, NEW w, Visits(w), w \in {"signatures", "linkage", "mangle"}, Pass,
         tree' \in Seq(Node), Len(tree') = Len(tree),
         functions' \in Seq(FunctionSymbol), variables' \in Seq(VariableSymbol),
         walk = "signatures" => variables' = variables
  PROVE  LinkBase'
<1>1. at \in Nat /\ at >= 1 /\ at =< Len(tree) /\ Len(tree) \in Nat /\ walk = w
  BY View DEF LinkBase, Visits
<1>2. at' = at + 1 /\ UNCHANGED <<vars, walk, verdict>>
  BY DEF Pass
<1>3. at' \in 1 .. Len(tree) + 1
  BY <1>1, <1>2
<1>4. walk \notin {"parse", "usage"} /\ walk' = w
  BY <1>1, <1>2
<1>5. walk' = "signatures" => variables' = <<>>
  BY <1>2 DEF LinkBase, Walks
<1>6. verdict' \in {"ok", "refused"} /\ UNCHANGED vars
  BY <1>2 DEF LinkBase, LinkTypeOK
<1> QED BY <1>3, <1>4, <1>5, <1>6, WalkBase

LEMMA RefuseBase ==
  ASSUME LinkBase, NEW w, Visits(w), w \in {"signatures", "linkage", "mangle"}, Refuse
  PROVE  LinkBase'
<1>1. /\ verdict' = "refused"
      /\ UNCHANGED <<vars, tree, walk, at, functions, variables>>
  BY DEF Refuse
<1>2. LinkTypeOK /\ Walks /\ walk = w
  BY DEF LinkBase, Visits
<1>3. /\ tree' \in Seq(Node) /\ functions' \in Seq(FunctionSymbol)
      /\ variables' \in Seq(VariableSymbol) /\ at' \in 1 .. Len(tree) + 1
      /\ walk' \in {"signatures", "linkage", "mangle", "done"}
      /\ (walk' = "signatures" => variables' = <<>>) /\ Len(tree') = Len(tree)
  BY <1>1, <1>2 DEF LinkTypeOK, Walks
<1> QED BY <1>1, <1>2, <1>3, WalkBase

LEMMA EndWalkBase ==
  ASSUME LinkBase, NEW w, w \in {"signatures", "linkage", "mangle"}, NEW next,
         next \in {"linkage", "mangle", "done"}, EndWalk(w, next)
  PROVE  LinkBase'
<1>1. /\ walk' = next /\ at' = 1 /\ walk = w
      /\ UNCHANGED <<vars, tree, functions, variables, verdict>>
  BY DEF EndWalk
<1>2. LinkTypeOK /\ Len(tree) \in Nat
  BY View DEF LinkBase
<1>3. /\ tree' \in Seq(Node) /\ functions' \in Seq(FunctionSymbol)
      /\ variables' \in Seq(VariableSymbol) /\ at' \in 1 .. Len(tree) + 1
      /\ verdict' \in {"ok", "refused"} /\ Len(tree') = Len(tree)
  BY <1>1, <1>2 DEF LinkTypeOK
<1> QED BY <1>1, <1>3, WalkBase

LEMMA SignatureBase ==
  ASSUME LinkBase, Signature
  PROVE  LinkBase'
<1>1. LinkTypeOK /\ Visits("signatures") /\ walk = "signatures"
  BY DEF LinkBase, Signature, Visits
<1>2. Here \in Node
  BY <1>1, Entered
<1>3. CASE Refuse
  BY <1>1, <1>3, RefuseBase
<1>4. CASE ~ Refuse
  <2> DEFINE l == IF Here.spec = "static" THEN Internal ELSE External
             f == [name |-> Here.name, def |-> Here.def, type |-> Here.type,
                   linkage |-> l]
  <2>1. /\ Pass /\ UNCHANGED <<tree, variables>>
        /\ functions' = functions \/ functions' = Append(functions, f)
    BY <1>4 DEF Signature
  <2>2. f \in FunctionSymbol
    <3>1. l \in Linkage
      BY DEF Linkage
    <3> HIDE DEF l
    <3> QED BY <1>2, <3>1 DEF FunctionSymbol, Node
  <2> HIDE DEF f
  <2>3. tree \in Seq(Node) /\ functions \in Seq(FunctionSymbol)
        /\ variables \in Seq(VariableSymbol)
    BY <1>1 DEF LinkTypeOK
  <2>4. functions' \in Seq(FunctionSymbol)
    BY <2>1, <2>2, <2>3, AppendProperties
  <2> QED BY <1>1, <2>1, <2>3, <2>4, PassBase
<1> QED BY <1>3, <1>4

\* The tree and the table after a declaration.
LEMMA DeclaresType ==
  ASSUME LinkTypeOK, at \in 1 .. Len(tree), NEW v \in 0 .. Len(variables),
         NEW s \in States, Declares(v, s)
  PROVE  /\ tree' \in Seq(Node) /\ Kept
         /\ variables' \in Seq(VariableSymbol)
         /\ \A k \in 1 .. Len(tree) :
              tree'[k] = IF k = at THEN Linked(tree[at], s.linkage, InitMoves(tree[at]))
                         ELSE tree[k]
         /\ v = 0 => /\ Len(variables') = Len(variables) + 1
                     /\ variables'[Len(variables) + 1] = NewSymbol(tree[at], s)
                     /\ \A i \in 1 .. Len(variables) : variables'[i] = variables[i]
         /\ v # 0 => /\ Len(variables') = Len(variables)
                     /\ \A i \in 1 .. Len(variables) :
                          variables'[i] = IF i = v THEN Restated(variables[v], tree[at].id, s)
                                          ELSE variables[i]
<1> DEFINE d == tree[at]
           c == InitMoves(d)
           e == Linked(d, s.linkage, c)
<1>1. d \in Node /\ d.id \in Nat
  BY View DEF Node
<1>2. c \in BOOLEAN /\ s.linkage \in Linkage
  BY DEF InitMoves, States
<1>3. e \in Node /\ SameSource(e, tree[at])
  <2> HIDE DEF c
  <2> QED BY <1>1, <1>2, LinkedNode
<1>4. tree' = [tree EXCEPT ![at] = e]
  BY DEF Declares
<1> HIDE DEF e
<1>5. /\ tree' \in Seq(Node) /\ Kept
      /\ \A k \in 1 .. Len(tree) : tree'[k] = IF k = at THEN e ELSE tree[k]
  BY <1>3, <1>4, SetNode
<1>6. variables \in Seq(VariableSymbol)
  BY DEF LinkTypeOK
<1>7. CASE v = 0
  <2> DEFINE x == NewSymbol(d, s)
  <2>1. x \in VariableSymbol
    BY <1>1, NewSymbolIs
  <2>2. variables' = Append(variables, x)
    BY <1>7 DEF Declares
  <2> HIDE DEF x
  <2>3. /\ variables' \in Seq(VariableSymbol)
        /\ Len(variables') = Len(variables) + 1
        /\ variables'[Len(variables) + 1] = x
        /\ \A i \in 1 .. Len(variables) : variables'[i] = variables[i]
    BY <1>6, <2>1, <2>2, AppendProperties
  <2> QED BY <1>5, <1>7, <2>3 DEF x, e
<1>8. CASE v # 0
  <2> DEFINE x == Restated(variables[v], d.id, s)
  <2>1. v \in 1 .. Len(variables) /\ variables[v] \in VariableSymbol
    BY <1>8, View
  <2>2. x \in VariableSymbol
    BY <1>1, <2>1, RestatedSymbol
  <2>3. variables' = [variables EXCEPT ![v] = x]
    BY <1>8 DEF Declares
  <2> HIDE DEF x
  <2>4. /\ variables' \in Seq(VariableSymbol) /\ Len(variables') = Len(variables)
        /\ \A i \in 1 .. Len(variables) :
             variables'[i] = IF i = v THEN x ELSE variables[i]
    BY <2>1, <2>2, <2>3, SetVariable
  <2> QED BY <1>5, <1>8, <2>4 DEF x, e
<1> QED BY <1>7, <1>8

\* The declaration the walk is at, the symbol it goes by and what it says.
LEMMA AtDeclaration ==
  ASSUME LinkTypeOK, LinkDeclaration
  PROVE  /\ Visits("linkage") /\ at \in 1 .. Len(tree)
         /\ tree[at] \in Node /\ tree[at].node = "declare"
         /\ Earlier(tree[at]) \in 0 .. Len(variables)
         /\ DeclaredState(tree[at], Earlier(tree[at])) \in States
<1>1. Visits("linkage") /\ Here.node = "declare"
  BY DEF LinkDeclaration
<1>2. at \in 1 .. Len(tree) /\ tree[at] \in Node /\ Here = tree[at]
  BY <1>1, Entered
<1>3. Earlier(tree[at]) \in 0 .. Len(variables)
  BY EarlierIs
<1>4. DeclaredState(tree[at], Earlier(tree[at])) \in States
  BY <1>2, <1>3, DeclaredStateType
<1> QED BY <1>1, <1>2, <1>3, <1>4

LEMMA DeclarationBase ==
  ASSUME LinkBase, LinkDeclaration
  PROVE  LinkBase'
<1> DEFINE v == Earlier(tree[at])
           s == DeclaredState(tree[at], v)
<1>1. LinkTypeOK /\ Visits("linkage") /\ walk = "linkage"
  BY DEF LinkBase, LinkDeclaration, Visits
<1>2. CASE Refuse
  BY <1>1, <1>2, RefuseBase
<1>3. CASE Declares(v, s)
  <2>1. at \in 1 .. Len(tree) /\ v \in 0 .. Len(variables) /\ s \in States
    BY <1>1, AtDeclaration
  <2> HIDE DEF v, s
  <2>2. tree' \in Seq(Node) /\ Kept /\ variables' \in Seq(VariableSymbol)
    BY <1>1, <1>3, <2>1, DeclaresType
  <2>3. Pass /\ functions' \in Seq(FunctionSymbol) /\ Len(tree') = Len(tree)
    BY <1>1, <1>3, <2>2 DEF Declares, LinkTypeOK, Kept
  <2> QED BY <1>1, <2>2, <2>3, PassBase
<1> QED BY <1>1, <1>2, <1>3, DeclarationView

\* The same of a usage, and of the walk that mangles.
LEMMA UsesSymbolType ==
  ASSUME LinkTypeOK, at \in 1 .. Len(tree), NEW v \in 0 .. Len(variables),
         UsesSymbol(v)
  PROVE  /\ tree' \in Seq(Node) /\ Kept
         /\ UNCHANGED <<functions, variables>>
         /\ \A k \in 1 .. Len(tree) :
              /\ tree'[k].label = tree[k].label /\ tree'[k].cut = tree[k].cut
              /\ k # at \/ v = 0 => tree'[k].ltype = tree[k].ltype
              /\ k = at /\ v # 0 => tree'[k].ltype = variables[v].linkage
<1> DEFINE d == tree[at]
           e == Linked(d, variables[v].linkage, d.cut)
<1>1. d \in Node /\ d.cut \in BOOLEAN
  BY View DEF Node
<1>2. tree \in Seq(Node) /\ variables \in Seq(VariableSymbol) /\ functions \in Seq(FunctionSymbol)
  BY DEF LinkTypeOK
<1>3. UNCHANGED <<functions, variables>>
  BY DEF UsesSymbol
<1>4. CASE v = 0
  <2>1. tree' = tree
    BY <1>4 DEF UsesSymbol
  <2> QED BY <1>2, <1>3, <1>4, <2>1, SameTree
<1>5. CASE v # 0
  <2>1. variables[v].linkage \in Linkage
    <3>1. variables[v] \in VariableSymbol
      BY <1>5, View
    <3> QED BY <3>1 DEF VariableSymbol
  <2>2. /\ e \in Node /\ SameSource(e, tree[at]) /\ e.ltype = variables[v].linkage
        /\ e.cut = tree[at].cut /\ e.label = tree[at].label
    BY <1>1, <2>1, LinkedNode
  <2>3. tree' = [tree EXCEPT ![at] = e]
    BY <1>5 DEF UsesSymbol
  <2> HIDE DEF e
  <2>4. /\ tree' \in Seq(Node) /\ Kept
        /\ \A k \in 1 .. Len(tree) : tree'[k] = IF k = at THEN e ELSE tree[k]
    BY <2>2, <2>3, SetNode
  <2> QED BY <1>3, <1>5, <2>2, <2>4
<1> QED BY <1>4, <1>5

LEMMA ManglingType ==
  ASSUME LinkTypeOK, at \in 1 .. Len(tree), NEW v \in 0 .. Len(variables),
         Mangling(v)
  PROVE  /\ tree' \in Seq(Node) /\ Kept
         /\ variables' \in Seq(VariableSymbol) /\ UNCHANGED functions
         /\ Len(variables') = Len(variables)
         /\ \A k \in 1 .. Len(tree) :
              /\ tree'[k].ltype = tree[k].ltype /\ tree'[k].cut = tree[k].cut
              /\ k = at /\ Mangles(v) => tree'[k].label = Mangled(variables[v])
              /\ ~ (k = at /\ Mangles(v)) => tree'[k].label = tree[k].label
         /\ \A i \in 1 .. Len(variables) :
              /\ i = v /\ Mangles(v) => variables'[i] = Relabelled(variables[v], Mangled(variables[v]))
              /\ ~ (i = v /\ Mangles(v)) => variables'[i] = variables[i]
<1> DEFINE b == Mangled(variables[v])
           e == Relabelled(tree[at], b)
           x == Relabelled(variables[v], b)
<1>1. tree[at] \in Node
  BY View
<1>2. tree \in Seq(Node) /\ variables \in Seq(VariableSymbol)
  BY DEF LinkTypeOK
<1>3. UNCHANGED functions
  BY DEF Mangling
<1>4. CASE Mangles(v)
  <2>1. v \in 1 .. Len(variables) /\ variables[v] \in VariableSymbol
    BY <1>4, View DEF Mangles
  <2>2. b \in Seq(Name \cup Nat)
    BY <2>1, MangledType
  <2>3. variables' = [variables EXCEPT ![v] = x] /\ tree' = [tree EXCEPT ![at] = e]
    BY <1>4 DEF Mangling
  <2> HIDE DEF b
  <2>4. /\ e \in Node /\ SameSource(e, tree[at]) /\ e.ltype = tree[at].ltype
        /\ e.cut = tree[at].cut /\ e.label = b
    BY <1>1, <2>2, RelabelledNode
  <2>5. x \in VariableSymbol
    BY <2>1, <2>2, RelabelledSymbol
  <2> HIDE DEF e, x
  <2>6. /\ tree' \in Seq(Node) /\ Kept
        /\ \A k \in 1 .. Len(tree) : tree'[k] = IF k = at THEN e ELSE tree[k]
    BY <2>3, <2>4, SetNode
  <2>7. /\ variables' \in Seq(VariableSymbol) /\ Len(variables') = Len(variables)
        /\ \A i \in 1 .. Len(variables) :
             variables'[i] = IF i = v THEN x ELSE variables[i]
    BY <2>1, <2>3, <2>5, SetVariable
  <2>8. \A k \in 1 .. Len(tree) :
          /\ tree'[k].ltype = tree[k].ltype /\ tree'[k].cut = tree[k].cut
          /\ k = at => tree'[k].label = b
          /\ k # at => tree'[k].label = tree[k].label
    BY <2>4, <2>6
  <2>9. \A i \in 1 .. Len(variables) :
          /\ i = v => variables'[i] = x
          /\ i # v => variables'[i] = variables[i]
    BY <2>7
  <2> QED BY <1>3, <1>4, <2>6, <2>7, <2>8, <2>9 DEF b, x
<1>5. CASE ~ Mangles(v)
  <2>1. tree' = tree /\ variables' = variables
    BY <1>5 DEF Mangling
  <2> HIDE DEF b, e, x
  <2> QED BY <1>2, <1>3, <1>5, <2>1, SameTree
<1> QED BY <1>4, <1>5

LEMMA NamingType ==
  ASSUME LinkTypeOK, at \in 1 .. Len(tree), NEW v \in 0 .. Len(variables),
         Naming(v)
  PROVE  /\ tree' \in Seq(Node) /\ Kept
         /\ UNCHANGED <<functions, variables>>
         /\ \A k \in 1 .. Len(tree) :
              /\ tree'[k].ltype = tree[k].ltype /\ tree'[k].cut = tree[k].cut
              /\ k = at /\ Mangles(v) => tree'[k].label = variables[v].label
              /\ ~ (k = at /\ Mangles(v)) => tree'[k].label = tree[k].label
<1> DEFINE b == variables[v].label
           e == Relabelled(tree[at], b)
<1>1. tree[at] \in Node
  BY View
<1>2. tree \in Seq(Node)
  BY DEF LinkTypeOK
<1>3. UNCHANGED <<functions, variables>>
  BY DEF Naming
<1>4. CASE Mangles(v)
  <2>1. b \in Seq(Name \cup Nat)
    <3>1. variables[v] \in VariableSymbol
      BY <1>4, View DEF Mangles
    <3> QED BY <3>1 DEF VariableSymbol
  <2>2. tree' = [tree EXCEPT ![at] = e]
    BY <1>4 DEF Naming
  <2> HIDE DEF b
  <2>3. /\ e \in Node /\ SameSource(e, tree[at]) /\ e.ltype = tree[at].ltype
        /\ e.cut = tree[at].cut /\ e.label = b
    BY <1>1, <2>1, RelabelledNode
  <2> HIDE DEF e
  <2>4. /\ tree' \in Seq(Node) /\ Kept
        /\ \A k \in 1 .. Len(tree) : tree'[k] = IF k = at THEN e ELSE tree[k]
    BY <2>2, <2>3, SetNode
  <2> QED BY <1>3, <1>4, <2>3, <2>4 DEF b
<1>5. CASE ~ Mangles(v)
  <2>1. tree' = tree
    BY <1>5 DEF Naming
  <2> QED BY <1>2, <1>3, <1>5, <2>1, SameTree
<1> QED BY <1>4, <1>5

LEMMA UsageBase ==
  ASSUME LinkBase, LinkUsage
  PROVE  LinkBase'
<1> DEFINE v == WithId(tree[at].id)
<1>1. LinkTypeOK /\ Visits("linkage") /\ walk = "linkage"
  BY DEF LinkBase, LinkUsage, Visits
<1>2. at \in 1 .. Len(tree) /\ v \in 0 .. Len(variables)
  BY <1>1, Entered, WithIdIs, View
<1>3. UsesSymbol(v)
  BY <1>1, LinkUsageView
<1> HIDE DEF v
<1>4. tree' \in Seq(Node) /\ Kept /\ UNCHANGED <<functions, variables>>
  BY <1>1, <1>2, <1>3, UsesSymbolType
<1>5. /\ Pass /\ Len(tree') = Len(tree) /\ functions' \in Seq(FunctionSymbol)
      /\ variables' \in Seq(VariableSymbol)
  BY <1>1, <1>3, <1>4 DEF UsesSymbol, Kept, LinkTypeOK
<1> QED BY <1>1, <1>4, <1>5, PassBase

LEMMA MangleBase ==
  ASSUME LinkBase, MangleDeclaration
  PROVE  LinkBase'
<1> DEFINE v == WithId(tree[at].id)
<1>1. LinkTypeOK /\ Visits("mangle") /\ walk = "mangle"
  BY DEF LinkBase, MangleDeclaration, Visits
<1>2. at \in 1 .. Len(tree) /\ v \in 0 .. Len(variables)
  BY <1>1, Entered, WithIdIs, View
<1>3. Mangling(v)
  BY <1>1, MangleView
<1> HIDE DEF v
<1>4. /\ tree' \in Seq(Node) /\ Kept /\ UNCHANGED functions
      /\ variables' \in Seq(VariableSymbol)
  BY <1>1, <1>2, <1>3, ManglingType
<1>5. Pass /\ Len(tree') = Len(tree) /\ functions' \in Seq(FunctionSymbol)
  BY <1>1, <1>3, <1>4 DEF Mangling, Kept, LinkTypeOK
<1> QED BY <1>1, <1>4, <1>5, PassBase

LEMMA NamingBase ==
  ASSUME LinkBase, MangleUsage
  PROVE  LinkBase'
<1> DEFINE v == WithId(tree[at].id)
<1>1. LinkTypeOK /\ Visits("mangle") /\ walk = "mangle"
  BY DEF LinkBase, MangleUsage, Visits
<1>2. at \in 1 .. Len(tree) /\ v \in 0 .. Len(variables)
  BY <1>1, Entered, WithIdIs, View
<1>3. Naming(v)
  BY <1>1, MangleUsageView
<1> HIDE DEF v
<1>4. tree' \in Seq(Node) /\ Kept /\ UNCHANGED <<functions, variables>>
  BY <1>1, <1>2, <1>3, NamingType
<1>5. /\ Pass /\ Len(tree') = Len(tree) /\ functions' \in Seq(FunctionSymbol)
      /\ variables' \in Seq(VariableSymbol)
  BY <1>1, <1>3, <1>4 DEF Naming, Kept, LinkTypeOK
<1> QED BY <1>1, <1>4, <1>5, PassBase

LEMMA ParseBase ==
  ASSUME LinkBase,
         \/ \E n \in Functions, spec \in Specifiers, type \in Type :
              ParseFunction(n, spec, type)
         \/ \E n \in Variables, spec \in Specifiers, type \in Type, init \in Inits :
              ParseDeclaration(n, spec, init, type)
         \/ \E n \in Name : ParseUsage(n)
         \/ ParseBody \/ ParseScope \/ ParseEnd
  PROVE  LinkBase'
<1>1. IInv /\ LinkTypeOK /\ Walks
  BY DEF LinkBase
<1>2. ASSUME NEW n \in Functions, NEW spec \in Specifiers, NEW type \in Type,
             ParseFunction(n, spec, type)
      PROVE  LinkBase'
  <2>1. n \in Name
    BY NodesAssumption
  <2> DEFINE r == [Resolved("function", n, spec, "none", type) EXCEPT !.ltype = NoLinkage]
  <2>2. IInv' /\ Growing /\ Grow(r) /\ r \in Node
    BY <1>1, <1>2, <2>1, FunctionNode
  <2> HIDE DEF r
  <2> QED BY <1>1, <2>2, GrowBase DEF LinkBase
<1>3. ASSUME NEW n \in Variables, NEW spec \in Specifiers, NEW type \in Type,
             NEW init \in Inits, ParseDeclaration(n, spec, init, type)
      PROVE  LinkBase'
  <2>1. n \in Name /\ init \in {"none", "constant", "expression"}
    BY NodesAssumption
  <2> DEFINE r == Resolved("declare", n, spec, init, type)
  <2>2. IInv' /\ Growing /\ Grow(r) /\ (status' = "ok" => r \in Node)
    BY <1>1, <1>3, <2>1, DeclarationNode
  <2> HIDE DEF r
  <2> QED BY <1>1, <2>2, GrowBase DEF LinkBase
<1>4. ASSUME NEW n \in Name, ParseUsage(n)
      PROVE  LinkBase'
  <2> DEFINE r == UsageNode(n)
  <2>1. IInv' /\ Growing /\ Grow(r) /\ (status' = "ok" => r \in Node)
    BY <1>1, <1>4, UsageNodeIs
  <2> HIDE DEF r
  <2> QED BY <1>1, <2>1, GrowBase DEF LinkBase
<1>5. CASE ParseBody
  <2>1. /\ walk = "parse" /\ OpenBody /\ UNCHANGED semaVars
        /\ tree' = [tree EXCEPT ![Len(tree)].def = TRUE]
    BY <1>5 DEF ParseBody
  <2>2. IInv'
    BY <1>1, <2>1, NextIInv DEF Next
  <2>3. tree' \in Seq(Node) /\ Len(tree') = Len(tree)
    BY <1>1, <2>1, BodyNode
  <2>4. UNCHANGED <<walk, at, functions, variables, verdict>>
    BY <2>1 DEF semaVars
  <2>5. LinkTypeOK'
    BY <1>1, <2>3, <2>4 DEF LinkTypeOK
  <2>6. Walks'
    BY <1>1, <2>4 DEF Walks
  <2> QED BY <2>2, <2>5, <2>6 DEF LinkBase
<1>6. CASE ParseScope
  <2>1. IInv'
    <3>1. \A n \in Variables : n \in Name
      BY NodesAssumption
    <3>2. Next
      BY <1>6, <3>1 DEF ParseScope, Next
    <3> QED BY <1>1, <3>2, NextIInv
  <2>2. UNCHANGED <<tree, walk, at, functions, variables, verdict>>
    BY <1>6 DEF ParseScope, semaVars
  <2>3. LinkTypeOK' /\ Walks'
    BY <1>1, <2>2 DEF LinkTypeOK, Walks
  <2> QED BY <2>1, <2>3 DEF LinkBase
<1>7. CASE ParseEnd
  <2>1. /\ walk = "parse" /\ Finish /\ walk' = "usage"
        /\ UNCHANGED <<tree, at, functions, variables, verdict>>
    BY <1>7 DEF ParseEnd
  <2>2. IInv'
    BY <1>1, <2>1, NextIInv DEF Next
  <2>3. LinkTypeOK' /\ Walks'
    BY <1>1, <2>1 DEF LinkTypeOK, Walks
  <2> QED BY <2>2, <2>3 DEF LinkBase
<1> QED BY <1>2, <1>3, <1>4, <1>5, <1>6, <1>7

LEMMA InitBase == LinkInit => LinkBase
<1> SUFFICES ASSUME LinkInit PROVE LinkBase
  OBVIOUS
<1>1. IInv
  BY InitIInv DEF LinkInit
<1>2. LinkTypeOK
  BY NodesAssumption DEF LinkInit, LinkTypeOK
<1>3. Walks
  BY DEF LinkInit, Walks
<1> QED BY <1>1, <1>2, <1>3 DEF LinkBase

LEMMA NextBase == LinkBase /\ [LinkNext]_linkVars => LinkBase'
<1> SUFFICES ASSUME LinkBase, [LinkNext]_linkVars PROVE LinkBase'
  OBVIOUS
<1>1. IInv /\ LinkTypeOK /\ Walks
  BY DEF LinkBase
<1>2. CASE \/ \E n \in Functions, spec \in Specifiers, type \in Type :
                ParseFunction(n, spec, type)
           \/ \E n \in Variables, spec \in Specifiers, type \in Type, init \in Inits :
                ParseDeclaration(n, spec, init, type)
           \/ \E n \in Name : ParseUsage(n)
           \/ ParseBody \/ ParseScope \/ ParseEnd
  BY <1>2, ParseBase
<1>3. CASE CheckUsages
  <2>1. /\ walk = "usage" /\ walk' \in {"usage", "signatures"}
        /\ verdict' \in {"ok", "refused"}
        /\ UNCHANGED <<vars, tree, at, functions, variables>>
    BY <1>1, <1>3 DEF CheckUsages, LinkTypeOK
  <2>2. IInv'
    BY <1>1, <2>1, NextIInv
  <2>3. LinkTypeOK' /\ Walks'
    BY <1>1, <2>1 DEF LinkTypeOK, Walks
  <2> QED BY <2>2, <2>3 DEF LinkBase
<1>4. CASE Signature
  BY <1>4, SignatureBase
<1>5. CASE LinkDeclaration
  BY <1>5, DeclarationBase
<1>6. CASE LinkUsage
  BY <1>6, UsageBase
<1>7. CASE MangleDeclaration
  BY <1>7, MangleBase
<1>8. CASE MangleUsage
  BY <1>8, NamingBase
<1>9. CASE EndWalk("signatures", "linkage") \/ EndWalk("linkage", "mangle") \/ EndWalk("mangle", "done")
  BY <1>9, EndWalkBase
<1>10. CASE PassBy
  <2>1. /\ Pass /\ UNCHANGED <<tree, functions, variables>>
        /\ Visits("signatures") \/ Visits("linkage") \/ Visits("mangle")
    BY <1>10 DEF PassBy
  <2>2. /\ tree' \in Seq(Node) /\ Len(tree') = Len(tree)
        /\ functions' \in Seq(FunctionSymbol) /\ variables' \in Seq(VariableSymbol)
    BY <1>1, <2>1 DEF LinkTypeOK
  <2> QED BY <2>1, <2>2, PassBase
<1>11. CASE UNCHANGED linkVars
  <2>1. UNCHANGED vars /\ UNCHANGED <<tree, walk, at, functions, variables, verdict>>
    BY <1>11 DEF linkVars, semaVars
  <2>2. IInv'
    BY <1>1, <2>1, NextIInv
  <2>3. LinkTypeOK' /\ Walks'
    BY <1>1, <2>1 DEF LinkTypeOK, Walks
  <2> QED BY <2>2, <2>3 DEF LinkBase
<1> QED
  BY <1>2, <1>3, <1>4, <1>5, <1>6, <1>7, <1>8, <1>9, <1>10, <1>11 DEF LinkNext

LEMMA BaseInvariance == LinkSpec => []LinkBase
  BY InitBase, NextBase, PTL DEF LinkSpec

(***************************************************************************)
(* What the program says, which the walks do not change.                   *)
(***************************************************************************)
LEMMA FirstOfSome ==
  ASSUME NEW n \in Nat, NEW S \in SUBSET (1 .. n), NEW p \in Nat,
         {k \in S : k =< p} # {}
  PROVE  First({k \in S : k =< p}) = First(S)
<1> DEFINE P == {k \in S : k =< p}
<1>1. P \in SUBSET (1 .. n) /\ P # {}
  OBVIOUS
<1>2. First(P) \in P /\ \A j \in P : First(P) =< j
  <2> HIDE DEF P
  <2> QED BY <1>1, FirstIs
<1> DEFINE m == First(P)
<1>3. m \in S /\ m =< p /\ \A j \in P : m =< j
  BY <1>2
<1> HIDE DEF m
<1>4. \A j \in S : j \in Nat
  OBVIOUS
<1>5. \A j \in S : m =< j
  <2> SUFFICES ASSUME NEW j \in S PROVE m =< j
    OBVIOUS
  <2>1. CASE j =< p
    BY <1>3, <2>1
  <2>2. CASE ~ (j =< p)
    BY <1>3, <1>4, <2>2
  <2> QED BY <2>1, <2>2
<1>6. First(S) = m
  BY <1>3, <1>5, FirstOf
<1> QED BY <1>6 DEF m

LEMMA FirstWithNext ==
  ASSUME NEW n \in Nat, NEW S \in SUBSET (1 .. n), NEW k \in 1 .. n,
         \A j \in S : j < k
  PROVE  First(S \cup {k}) = IF S = {} THEN k ELSE First(S)
<1>1. S \cup {k} \in SUBSET (1 .. n) /\ \A j \in S : j \in Nat
  OBVIOUS
<1>2. CASE S = {}
  <2>1. k \in S \cup {k} /\ \A j \in S \cup {k} : k =< j
    BY <1>2
  <2> QED BY <1>1, <1>2, <2>1, FirstOf
<1>3. CASE S # {}
  <2> DEFINE m == First(S)
  <2>1. m \in S /\ \A j \in S : m =< j
    BY <1>3, FirstIs
  <2> HIDE DEF m
  <2>2. m \in S \cup {k} /\ \A j \in S \cup {k} : m =< j
    BY <1>1, <2>1
  <2>3. First(S \cup {k}) = m
    BY <1>1, <2>2, FirstOf
  <2> QED BY <1>3, <2>3 DEF m
<1> QED BY <1>2, <1>3

LEMMA NodeSets ==
  ASSUME LinkTypeOK, NEW n
  PROVE  /\ Len(tree) \in Nat
         /\ Shared(n) \in SUBSET (1 .. Len(tree))
         /\ FunctionsOf(n) \in SUBSET (1 .. Len(tree))
         /\ Constants(n) \in SUBSET Shared(n)
         /\ \A k \in Shared(n) : tree[k].name = n /\ tree[k].node = "declare"
         /\ \A k \in FunctionsOf(n) : tree[k].name = n /\ tree[k].node = "function"
  BY View DEF Shared, FunctionsOf, Constants, Nodes

LEMMA KeptNodes ==
  ASSUME Kept, NEW k \in 1 .. Len(tree)
  PROVE  /\ tree'[k].node = tree[k].node /\ tree'[k].name = tree[k].name
         /\ tree'[k].id = tree[k].id /\ tree'[k].spec = tree[k].spec
         /\ tree'[k].init = tree[k].init /\ tree'[k].type = tree[k].type
         /\ tree'[k].def = tree[k].def /\ tree'[k].file = tree[k].file
         /\ k \in 1 .. Len(tree')
  BY DEF Kept, SameSource

LEMMA KeptSets ==
  ASSUME Kept, NEW n
  PROVE  /\ Shared(n)' = Shared(n) /\ FunctionsOf(n)' = FunctionsOf(n)
         /\ Constants(n)' = Constants(n)
<1>1. Nodes("declare")' = Nodes("declare") /\ Nodes("function")' = Nodes("function")
  BY KeptNodes DEF Nodes, Kept
<1>2. /\ Nodes("declare") \in SUBSET (1 .. Len(tree))
      /\ Nodes("function") \in SUBSET (1 .. Len(tree))
  BY DEF Nodes
<1>3. Shared(n)' = Shared(n)
  BY <1>1, <1>2, KeptNodes DEF Shared
<1>4. FunctionsOf(n)' = FunctionsOf(n)
  BY <1>1, <1>2, KeptNodes DEF FunctionsOf
<1>5. Shared(n) \in SUBSET (1 .. Len(tree))
  BY <1>2 DEF Shared
<1>6. Constants(n)' = Constants(n)
  BY <1>3, <1>5, KeptNodes DEF Constants
<1> QED BY <1>3, <1>4, <1>6

LEMMA KeptUsesFunction ==
  ASSUME Kept, NEW k \in 1 .. Len(tree)
  PROVE  UsesFunction(k)' <=> UsesFunction(k)
  BY KeptNodes DEF UsesFunction, Kept

LEMMA KeptIsStatic ==
  ASSUME Kept, NEW k \in 1 .. Len(tree)
  PROVE  IsStatic(k)' <=> IsStatic(k)
  BY KeptNodes DEF IsStatic

LEMMA KeptLinkageOf ==
  ASSUME LinkTypeOK, Kept, NEW S \in SUBSET (1 .. Len(tree)), S # {}
  PROVE  LinkageOf(S)' = LinkageOf(S)
<1>1. First(S) \in 1 .. Len(tree)
  BY View, FirstIs
<1>2. First(S)' = First(S)
  BY DEF First
<1>3. tree'[First(S)].spec = tree[First(S)].spec
  BY <1>1, KeptNodes
<1>4. IsStatic(First(S))' <=> IsStatic(First(S))
  BY <1>2, <1>3 DEF IsStatic
<1> QED BY <1>4 DEF LinkageOf

(***************************************************************************)
(* The walk over the functions: the nodes it is past, and what it knows of *)
(* them.                                                                   *)
(***************************************************************************)
SigDone == IF walk = "signatures" THEN at - 1
           ELSE IF walk \in {"linkage", "mangle", "done"} THEN Len(tree) ELSE 0

SignedOf(n) == {k \in FunctionsOf(n) : k =< SigDone}
FunctionSymbols(n) == {i \in 1 .. Len(functions) : functions[i].name = n}

\* A symbol is what the first of the function nodes F says.
FunctionIs(f, F) ==
  /\ f.type = tree[First(F)].type
  /\ f.linkage = LinkageOf(F)
  /\ f.def => \E k \in F : tree[k].def

\* They are where they may be, and agree with the first.
FunctionsAgree(F) ==
  \A k \in F : /\ ~ Misplaced(tree[k]) /\ tree[k].type = tree[First(F)].type
               /\ IsStatic(k) => IsStatic(First(F))

Signed(n, F) ==
  /\ F = {} => FunctionSymbols(n) = {}
  /\ F # {} => \E i \in 1 .. Len(functions) :
                 FunctionSymbols(n) = {i} /\ FunctionIs(functions[i], F)
  /\ FunctionsAgree(F)

SignaturesOK == \A n \in Name : Signed(n, SignedOf(n))

LEMMA SignedSets ==
  ASSUME LinkTypeOK, NEW n
  PROVE  /\ SigDone \in Nat /\ SigDone =< Len(tree)
         /\ SignedOf(n) \in SUBSET FunctionsOf(n)
         /\ SignedOf(n) \in SUBSET (1 .. Len(tree))
         /\ FunctionsOf(n) \in SUBSET (1 .. Len(tree))
         /\ Len(tree) \in Nat
  BY View, NodeSets DEF SigDone, SignedOf

LEMMA KeptFirst ==
  ASSUME LinkTypeOK, Kept, NEW S \in SUBSET (1 .. Len(tree)), S # {}
  PROVE  /\ First(S) \in S
         /\ tree'[First(S)].type = tree[First(S)].type
         /\ IsStatic(First(S))' <=> IsStatic(First(S))
<1>1. First(S) \in S /\ First(S) \in 1 .. Len(tree)
  BY View, FirstIs
<1>2. /\ tree'[First(S)].type = tree[First(S)].type
      /\ tree'[First(S)].spec = tree[First(S)].spec
  BY <1>1, KeptNodes
<1> QED BY <1>1, <1>2 DEF IsStatic

\* What is known of the functions does not change with the rest of the state.
LEMMA SignedKept ==
  ASSUME LinkTypeOK, Kept, UNCHANGED functions, NEW n, Signed(n, SignedOf(n)),
         SignedOf(n)' = SignedOf(n)
  PROVE  Signed(n, SignedOf(n))'
<1> DEFINE F == SignedOf(n)
<1>1. F \in SUBSET (1 .. Len(tree))
  BY SignedSets
<1>2. F' = F
  OBVIOUS
<1>3. /\ F = {} => FunctionSymbols(n) = {}
      /\ F # {} => \E i \in 1 .. Len(functions) :
                 FunctionSymbols(n) = {i} /\ FunctionIs(functions[i], F)
      /\ FunctionsAgree(F)
  BY DEF Signed
<1> HIDE DEF F
<1>4. FunctionSymbols(n)' = FunctionSymbols(n)
  BY DEF FunctionSymbols
<1>5. ASSUME F # {}
      PROVE  /\ First(F) \in F /\ First(F)' = First(F)
             /\ tree'[First(F)].type = tree[First(F)].type
             /\ IsStatic(First(F))' <=> IsStatic(First(F))
             /\ LinkageOf(F)' = LinkageOf(F)
  <2>1. First(F)' = First(F)
    BY <1>2
  <2> QED BY <1>1, <1>2, <1>5, <2>1, KeptFirst, KeptLinkageOf
<1>6. \A k \in F : /\ tree'[k].type = tree[k].type /\ tree'[k].def = tree[k].def
                   /\ Misplaced(tree[k])' <=> Misplaced(tree[k])
                   /\ IsStatic(k)' <=> IsStatic(k)
  <2>1. ASSUME NEW k \in F
        PROVE  /\ tree'[k].type = tree[k].type /\ tree'[k].def = tree[k].def
               /\ tree'[k].file = tree[k].file /\ tree'[k].spec = tree[k].spec
    BY <1>1, KeptNodes
  <2> QED BY <2>1 DEF Misplaced, IsStatic
<1>7. F # {} => \E i \in 1 .. Len(functions') :
                  FunctionSymbols(n)' = {i} /\ FunctionIs(functions[i], F)'
  <2> SUFFICES ASSUME F # {}
               PROVE  \E i \in 1 .. Len(functions') :
                        FunctionSymbols(n)' = {i} /\ FunctionIs(functions[i], F)'
    OBVIOUS
  <2>1. PICK i \in 1 .. Len(functions) :
          FunctionSymbols(n) = {i} /\ FunctionIs(functions[i], F)
    BY <1>3
  <2>2. FunctionIs(functions[i], F)'
    BY <1>2, <1>5, <1>6, <2>1 DEF FunctionIs
  <2> QED BY <1>4, <2>1, <2>2
<1>8. \A k \in F : /\ ~ Misplaced(tree[k])' /\ tree'[k].type = tree'[First(F)'].type
                   /\ IsStatic(k)' => IsStatic(First(F))'
  BY <1>3, <1>5, <1>6 DEF FunctionsAgree
<1>9. Signed(n, F)'
  BY <1>2, <1>3, <1>4, <1>7, <1>8 DEF Signed, FunctionsAgree
<1> QED BY <1>9 DEF F

\* The conflict found is one of the program.
LEMMA SignatureRefused ==
  ASSUME LinkTypeOK, SignaturesOK, Visits("signatures"), Here.node = "function",
         Misplaced(Here) \/ (FunctionNamed(Here.name) # 0 /\
                             Mismatches(Here, functions[FunctionNamed(Here.name)]))
  PROVE  (\E n \in Name : IllegalFunctions(n)) \/ DefinedTwice
<1> DEFINE d == tree[at]
           n == d.name
           F == SignedOf(n)
           f == FunctionNamed(n)
<1>1. at \in 1 .. Len(tree) /\ Here = d /\ d \in Node /\ SigDone = at - 1
  BY Entered DEF Visits, SigDone
<1>2. n \in Name /\ at \in FunctionsOf(n)
  BY <1>1 DEF Node, FunctionsOf, Nodes
<1>3. CASE Misplaced(d)
  <2>1. IllegalFunctions(n)
    BY <1>2, <1>3 DEF IllegalFunctions, Misplaced, IsStatic
  <2> QED BY <1>2, <2>1
<1>4. CASE f # 0 /\ Mismatches(d, functions[f])
  <2>1. f \in 1 .. Len(functions) /\ functions[f].name = n
    BY <1>4, FunctionNamedIs
  <2>2. Signed(n, F)
    BY <1>2 DEF SignaturesOK
  <2>3. f \in FunctionSymbols(n)
    BY <2>1 DEF FunctionSymbols
  <2>4. F # {} /\ FunctionIs(functions[f], F)
    BY <2>2, <2>3 DEF Signed
  <2>5. First(F) \in F /\ First(F) = First(FunctionsOf(n))
    <3>1. /\ SigDone \in Nat /\ F \in SUBSET (1 .. Len(tree))
          /\ FunctionsOf(n) \in SUBSET (1 .. Len(tree)) /\ Len(tree) \in Nat
      BY SignedSets
    <3>2. First(F) = First(FunctionsOf(n))
      BY <2>4, <3>1, FirstOfSome DEF SignedOf
    <3> HIDE DEF F
    <3> QED BY <2>4, <3>1, <3>2, FirstIs
  <2>6. \A k \in F : k \in FunctionsOf(n) /\ k < at
    BY <1>1, SignedSets DEF SignedOf
  <2> DEFINE g == functions[f]
  <2> HIDE DEF f, F
  <2>7. CASE d.def /\ g.def
    <3>1. PICK k \in F : tree[k].def
      BY <2>4, <2>7 DEF FunctionIs
    <3>2. /\ k \in Nodes("function") /\ at \in Nodes("function") /\ k # at
          /\ tree[k].name = tree[at].name
      BY <1>1, <1>2, <2>6 DEF FunctionsOf
    <3> QED BY <2>7, <3>1, <3>2 DEF DefinedTwice
  <2>8. CASE d.spec = "static" /\ g.linkage = External
    <3>1. ~ IsStatic(First(F))
      BY <2>4, <2>8 DEF FunctionIs, LinkageOf, Internal, External
    <3>2. IsStatic(at)
      BY <2>8 DEF IsStatic
    <3>3. IllegalFunctions(n)
      BY <1>2, <2>5, <3>1, <3>2 DEF IllegalFunctions
    <3> QED BY <1>2, <3>3
  <2>9. CASE d.type # g.type
    <3>1. tree[at].type # tree[First(F)].type /\ First(F) \in FunctionsOf(n)
      BY <2>4, <2>5, <2>6, <2>9 DEF FunctionIs
    <3>2. IllegalFunctions(n)
      BY <1>2, <3>1 DEF IllegalFunctions
    <3> QED BY <1>2, <3>2
  <2> QED BY <1>4, <2>7, <2>8, <2>9 DEF Mismatches
<1> QED BY <1>1, <1>3, <1>4

\* How the walk over the functions goes on, from a node d that is accepted.
Signs(d) ==
  /\ Pass /\ UNCHANGED tree
  /\ ~ Misplaced(d)
  /\ FunctionNamed(d.name) # 0 => ~ Mismatches(d, functions[FunctionNamed(d.name)])
  /\ functions' = IF FunctionNamed(d.name) # 0 THEN functions
                  ELSE Append(functions,
                    [name |-> d.name, def |-> d.def, type |-> d.type,
                     linkage |-> IF d.spec = "static" THEN Internal ELSE External])

\* The tree stays: the nodes the walk is past and the symbols may be more.
LEMMA SignedNext ==
  ASSUME UNCHANGED tree, NEW n, NEW F, SignedOf(n)' = F,
         F = {} => FunctionSymbols(n)' = {},
         F # {} => \E i \in 1 .. Len(functions') :
                     FunctionSymbols(n)' = {i} /\ FunctionIs(functions'[i], F),
         FunctionsAgree(F)
  PROVE  Signed(n, SignedOf(n))'
<1>1. \A i : FunctionIs(functions'[i], F) => FunctionIs(functions[i], F)'
  BY DEF FunctionIs, LinkageOf, IsStatic
<1>2. \A k : (Misplaced(tree[k])' <=> Misplaced(tree[k])) /\ (IsStatic(k)' <=> IsStatic(k))
  BY DEF Misplaced, IsStatic
<1>3. IsStatic(First(F))' <=> IsStatic(First(F))
  BY DEF IsStatic
<1>4. F # {} => \E i \in 1 .. Len(functions') :
                  FunctionSymbols(n)' = {i} /\ FunctionIs(functions[i], F)'
  BY <1>1
<1>5. \A k \in F : /\ ~ Misplaced(tree[k])' /\ tree'[k].type = tree'[First(F)].type
                   /\ IsStatic(k)' => IsStatic(First(F))'
  BY <1>2, <1>3 DEF FunctionsAgree
<1>6. Signed(n, F)'
  BY <1>4, <1>5 DEF Signed, FunctionsAgree
<1> QED BY <1>6

\* The table before had m symbols.
SignedTable(d, m) ==
  /\ m \in Nat
  /\ \A i \in 1 .. m : i \in 1 .. Len(functions') /\ functions'[i] = functions[i]
  /\ FunctionNamed(d.name) # 0 => Len(functions') = m
  /\ FunctionNamed(d.name) = 0 =>
       /\ Len(functions') = m + 1
       /\ functions'[m + 1].name = d.name /\ functions'[m + 1].def = d.def
       /\ functions'[m + 1].type = d.type
       /\ functions'[m + 1].linkage = (IF d.spec = "static" THEN Internal ELSE External)

LEMMA SymbolsAfterSigns ==
  ASSUME LinkTypeOK, NEW d \in Node, Signs(d), NEW m, m = Len(functions)
  PROVE  SignedTable(d, m)
<1> DEFINE l == IF d.spec = "static" THEN Internal ELSE External
           new == [name |-> d.name, def |-> d.def, type |-> d.type, linkage |-> l]
           f == FunctionNamed(d.name)
<1>1. functions \in Seq(FunctionSymbol) /\ m \in Nat
  BY DEF LinkTypeOK
<1>2. functions' = IF f # 0 THEN functions ELSE Append(functions, new)
  BY DEF Signs
<1> HIDE DEF f
<1>3. CASE f # 0
  <2>1. /\ Len(functions') = m /\ functions' = functions
    BY <1>2, <1>3
  <2> QED BY <1>1, <1>3, <2>1 DEF f, SignedTable
<1>4. CASE f = 0
  <2>1. new \in FunctionSymbol
    <3>1. l \in Linkage
      BY DEF Linkage
    <3> HIDE DEF l
    <3> QED BY <3>1 DEF FunctionSymbol, Node
  <2>2. new.name = d.name /\ new.def = d.def /\ new.type = d.type /\ new.linkage = l
    OBVIOUS
  <2> HIDE DEF new, l
  <2>3. /\ Len(functions') = m + 1 /\ functions'[m + 1] = new
        /\ \A i \in 1 .. m : functions'[i] = functions[i]
    BY <1>1, <1>2, <1>4, <2>1, AppendProperties
  <2>4. \A i \in 1 .. m : i \in 1 .. Len(functions')
    BY <1>1, <2>3
  <2> QED BY <1>1, <1>4, <2>2, <2>3, <2>4 DEF f, l, SignedTable
<1> QED BY <1>3, <1>4

LEMMA SignedOther ==
  ASSUME LinkTypeOK, Visits("signatures"), NEW d \in Node, d = tree[at],
         Signs(d), NEW n, n # d.name, Signed(n, SignedOf(n))
  PROVE  Signed(n, SignedOf(n))'
<1>1. /\ at \in 1 .. Len(tree) /\ at \in Nat /\ SigDone = at - 1 /\ SigDone' = at
  BY Entered DEF Visits, SigDone, Signs, Pass
<1>2. PICK F : F = SignedOf(n)
  OBVIOUS
<1>3. SignedOf(n)' = F
  <2>1. FunctionsOf(n)' = FunctionsOf(n) /\ at \notin FunctionsOf(n)
        /\ \A k \in FunctionsOf(n) : k \in Nat
    BY NodeSets DEF FunctionsOf, Nodes, Signs
  <2> QED BY <1>1, <1>2, <2>1 DEF SignedOf
<1>4. PICK m : m = Len(functions)
  OBVIOUS
<1>5. m \in Nat
  BY <1>4, View
<1>6. /\ \A i \in 1 .. m : i \in 1 .. Len(functions') /\ functions'[i] = functions[i]
      /\ \A i \in 1 .. Len(functions') : functions'[i].name = n => i \in 1 .. m
  <2>1. SignedTable(d, m)
    BY <1>4, SymbolsAfterSigns
  <2>2. Len(functions') = m \/ (Len(functions') = m + 1 /\ functions'[m + 1].name = d.name)
    BY <2>1 DEF SignedTable
  <2> QED BY <1>5, <2>1, <2>2 DEF SignedTable
<1>7. FunctionSymbols(n)' = FunctionSymbols(n)
  BY <1>4, <1>6 DEF FunctionSymbols
<1>8. /\ F = {} => FunctionSymbols(n) = {}
      /\ F # {} => \E i \in 1 .. Len(functions) :
                      FunctionSymbols(n) = {i} /\ FunctionIs(functions[i], F)
      /\ FunctionsAgree(F)
  BY <1>2 DEF Signed
<1>9. F # {} => \E i \in 1 .. Len(functions') :
                  FunctionSymbols(n)' = {i} /\ FunctionIs(functions'[i], F)
  BY <1>4, <1>6, <1>7, <1>8
<1>10. UNCHANGED tree
  BY DEF Signs
<1> QED BY <1>3, <1>7, <1>8, <1>9, <1>10, SignedNext

LEMMA SignedHere ==
  ASSUME LinkTypeOK, Visits("signatures"), NEW d \in Node, d = tree[at],
         d.node = "function", Signs(d), NEW n, n = d.name, Signed(n, SignedOf(n))
  PROVE  Signed(n, SignedOf(n))'
<1>1. /\ at \in 1 .. Len(tree) /\ at \in Nat /\ SigDone = at - 1 /\ SigDone' = at
  BY Entered DEF Visits, SigDone, Signs, Pass
<1>2. PICK F : F = SignedOf(n)
  OBVIOUS
<1>3. PICK G : G = F \cup {at}
  OBVIOUS
<1>4. SignedOf(n)' = G
  <2>1. FunctionsOf(n)' = FunctionsOf(n) /\ at \in FunctionsOf(n)
        /\ \A k \in FunctionsOf(n) : k \in Nat
    BY <1>1, NodeSets DEF FunctionsOf, Nodes, Signs
  <2>2. SignedOf(n)' = {k \in FunctionsOf(n) : k =< at}
    BY <1>1, <2>1 DEF SignedOf
  <2>3. F = {k \in FunctionsOf(n) : k =< at - 1}
    BY <1>1, <1>2 DEF SignedOf
  <2>4. \A k \in FunctionsOf(n) : k =< at <=> k =< at - 1 \/ k = at
    BY <1>1, <2>1
  <2> QED BY <1>3, <2>1, <2>2, <2>3, <2>4
<1>5. F \in SUBSET (1 .. Len(tree)) /\ Len(tree) \in Nat /\ \A j \in F : j < at
  BY <1>1, <1>2, SignedSets DEF SignedOf
<1>6. First(G) = IF F = {} THEN at ELSE First(F)
  BY <1>1, <1>3, <1>5, FirstWithNext
<1>7. PICK m : m = Len(functions)
  OBVIOUS
<1>8. m \in Nat /\ UNCHANGED tree /\ ~ Misplaced(d)
  BY <1>7, View DEF Signs
<1>9. /\ F = {} => FunctionSymbols(n) = {}
      /\ F # {} => \E i \in 1 .. Len(functions) :
                      FunctionSymbols(n) = {i} /\ FunctionIs(functions[i], F)
      /\ FunctionsAgree(F)
  BY <1>2 DEF Signed
<1>10. CASE FunctionNamed(n) = 0
  <2>1. FunctionSymbols(n) = {} /\ F = {}
    BY <1>9, <1>10, FunctionNamedIs DEF FunctionSymbols
  <2>2. /\ \A i \in 1 .. m : functions'[i] = functions[i]
        /\ Len(functions') = m + 1
        /\ functions'[m + 1].name = n /\ functions'[m + 1].def = d.def
        /\ functions'[m + 1].type = d.type
        /\ functions'[m + 1].linkage = (IF d.spec = "static" THEN Internal ELSE External)
    <3>1. SignedTable(d, m)
      BY <1>7, SymbolsAfterSigns
    <3> QED BY <1>10, <3>1 DEF SignedTable
  <2>3. FunctionSymbols(n)' = {m + 1} /\ m + 1 \in 1 .. Len(functions')
    BY <1>7, <1>8, <2>1, <2>2 DEF FunctionSymbols
  <2>4. G = {at} /\ First(G) = at
    BY <1>3, <1>6, <2>1
  <2>5. FunctionIs(functions'[m + 1], G)
    BY <2>2, <2>4 DEF FunctionIs, LinkageOf, IsStatic
  <2>6. FunctionsAgree(G)
    BY <1>8, <2>4 DEF FunctionsAgree
  <2> QED BY <1>4, <1>8, <2>3, <2>4, <2>5, <2>6, SignedNext
<1>11. CASE FunctionNamed(n) # 0
  <2> DEFINE f == FunctionNamed(n)
  <2>1. f \in FunctionSymbols(n)
    BY <1>11, FunctionNamedIs DEF FunctionSymbols
  <2>2. /\ F # {} /\ f \in 1 .. Len(functions) /\ FunctionSymbols(n) = {f}
        /\ FunctionIs(functions[f], F)
    BY <1>9, <2>1
  <2>3. functions' = functions /\ ~ Mismatches(d, functions[f])
    BY <1>11 DEF Signs
  <2>4. G # {} /\ First(G) = First(F)
    BY <1>3, <1>6, <2>2
  <2>5. PICK i : i = f
    OBVIOUS
  <2> HIDE DEF f
  <2>6. FunctionIs(functions'[i], G)
    BY <1>3, <2>2, <2>3, <2>4, <2>5 DEF FunctionIs, LinkageOf
  <2>7. FunctionSymbols(n)' = {i} /\ i \in 1 .. Len(functions')
    BY <2>2, <2>3, <2>5 DEF FunctionSymbols
  <2>8. /\ tree[at].type = tree[First(F)].type
        /\ IsStatic(at) => IsStatic(First(F))
    BY <2>2, <2>3 DEF Mismatches, FunctionIs, LinkageOf, IsStatic
  <2>9. FunctionsAgree(G)
    <3>1. ~ Misplaced(tree[at])
      BY <1>8
    <3>2. \A k \in G : k \in F \/ k = at
      BY <1>3
    <3> QED BY <1>9, <2>4, <2>8, <3>1, <3>2 DEF FunctionsAgree
  <2> QED BY <1>4, <1>8, <2>4, <2>6, <2>7, <2>9, SignedNext
<1> QED BY <1>10, <1>11

LEMMA NothingSigned ==
  LinkTypeOK /\ SigDone = 0 /\ functions = <<>> => SignaturesOK
<1> SUFFICES ASSUME LinkTypeOK, SigDone = 0, functions = <<>>, NEW n \in Name
             PROVE  Signed(n, SignedOf(n))
  BY DEF SignaturesOK
<1>1. SignedOf(n) = {} /\ FunctionSymbols(n) = {}
  BY NodeSets DEF SignedOf, FunctionSymbols
<1> QED BY <1>1 DEF Signed, FunctionsAgree

LEMMA NothingSignedNext ==
  LinkTypeOK' /\ (SigDone = 0)' /\ (functions = <<>>)' => SignaturesOK'
  BY NothingSigned, PTL

LEMMA SignaturesKept ==
  ASSUME LinkTypeOK, SignaturesOK, Kept, UNCHANGED functions, SigDone' = SigDone
  PROVE  SignaturesOK'
<1> SUFFICES ASSUME NEW n \in Name PROVE Signed(n, SignedOf(n))'
  BY DEF SignaturesOK
<1>1. SignedOf(n)' = SignedOf(n)
  BY KeptSets DEF SignedOf
<1>2. Signed(n, SignedOf(n))
  BY DEF SignaturesOK
<1> QED BY <1>1, <1>2, SignedKept

LEMMA SignatureStep ==
  ASSUME LinkBase, SignaturesOK, Signature
  PROVE  /\ SignaturesOK' /\ Kept
         /\ \/ UNCHANGED verdict
            \/ UNCHANGED tree /\ ((\E n \in Name : IllegalFunctions(n)) \/ DefinedTwice)
<1>1. LinkTypeOK /\ Visits("signatures") /\ Here.node = "function"
  BY DEF LinkBase, Signature
<1>2. at \in 1 .. Len(tree) /\ Here \in Node /\ Here = tree[at]
  BY <1>1, Entered
<1>3. CASE Misplaced(Here) \/ (FunctionNamed(Here.name) # 0 /\
                               Mismatches(Here, functions[FunctionNamed(Here.name)]))
  <2>1. Refuse
    BY <1>3 DEF Signature
  <2>2. UNCHANGED <<tree, walk, at, functions, variables>>
    BY <2>1 DEF Refuse
  <2>3. Kept /\ SigDone' = SigDone
    BY <2>2, SameTree DEF SigDone
  <2>4. (\E n \in Name : IllegalFunctions(n)) \/ DefinedTwice
    BY <1>1, <1>3, SignatureRefused
  <2> QED BY <1>1, <2>2, <2>3, <2>4, SignaturesKept
<1>4. CASE ~ (Misplaced(Here) \/ (FunctionNamed(Here.name) # 0 /\
                                  Mismatches(Here, functions[FunctionNamed(Here.name)])))
  <2>1. PICK d \in Node : d = tree[at]
    BY <1>2
  <2>2. Signs(d)
    BY <1>2, <1>4, <2>1 DEF Signature, Signs
  <2>3. d.node = "function"
    BY <1>1, <1>2, <2>1
  <2>4. \A n \in Name : Signed(n, SignedOf(n))
    BY DEF SignaturesOK
  <2>5. ASSUME NEW n \in Name PROVE Signed(n, SignedOf(n))'
    <3>1. CASE n = d.name
      BY <1>1, <2>1, <2>2, <2>3, <2>4, <3>1, SignedHere
    <3>2. CASE n # d.name
      BY <1>1, <2>1, <2>2, <2>4, <3>2, SignedOther
    <3> QED BY <3>1, <3>2
  <2>6. SignaturesOK'
    BY <2>5 DEF SignaturesOK
  <2> QED BY <2>2, <2>6, SameTree DEF Signs, Pass
<1> QED BY <1>3, <1>4

\* A walk over other things than functions.
LEMMA SignaturesStay ==
  ASSUME LinkBase, SignaturesOK, Kept, UNCHANGED functions,
         walk \in {"linkage", "mangle", "done"}, walk' \in {"linkage", "mangle", "done"}
  PROVE  SignaturesOK'
<1>1. SigDone' = SigDone
  BY DEF SigDone, Kept
<1> QED BY <1>1, SignaturesKept DEF LinkBase

\* What a step of the later walks leaves alone.
LEMMA LaterSteps ==
  ASSUME LinkBase, LinkDeclaration \/ LinkUsage \/ MangleDeclaration \/ MangleUsage
  PROVE  /\ Kept /\ UNCHANGED <<functions, walk>> /\ walk \in {"linkage", "mangle"}
         /\ at \in 1 .. Len(tree) /\ verdict = "ok"
         /\ verdict' = "ok" => at' = at + 1
<1>1. LinkTypeOK
  BY DEF LinkBase
<1>2. CASE LinkDeclaration
  <2> DEFINE v == Earlier(tree[at])
             s == DeclaredState(tree[at], v)
  <2>1. at \in 1 .. Len(tree) /\ v \in 0 .. Len(variables) /\ s \in States
        /\ Visits("linkage")
    BY <1>1, <1>2, AtDeclaration
  <2>2. Refuse \/ Declares(v, s)
    BY <1>1, <1>2, DeclarationView
  <2> HIDE DEF v, s
  <2>3. CASE Refuse
    BY <2>1, <2>3, SameTree DEF Refuse, Visits
  <2>4. CASE Declares(v, s)
    BY <1>1, <2>1, <2>4, DeclaresType DEF Declares, Pass, Visits
  <2> QED BY <2>2, <2>3, <2>4
<1>3. CASE LinkUsage
  <2> DEFINE v == WithId(tree[at].id)
  <2>1. at \in 1 .. Len(tree) /\ v \in 0 .. Len(variables) /\ Visits("linkage")
    BY <1>1, <1>3, Entered, WithIdIs, View DEF LinkUsage
  <2>2. UsesSymbol(v)
    BY <1>1, <1>3, LinkUsageView
  <2> HIDE DEF v
  <2> QED BY <1>1, <2>1, <2>2, UsesSymbolType DEF UsesSymbol, Pass, Visits
<1>4. CASE MangleDeclaration
  <2> DEFINE v == WithId(tree[at].id)
  <2>1. at \in 1 .. Len(tree) /\ v \in 0 .. Len(variables) /\ Visits("mangle")
    BY <1>1, <1>4, Entered, WithIdIs, View DEF MangleDeclaration
  <2>2. Mangling(v)
    BY <1>1, <1>4, MangleView
  <2> HIDE DEF v
  <2> QED BY <1>1, <2>1, <2>2, ManglingType DEF Mangling, Pass, Visits
<1>5. CASE MangleUsage
  <2> DEFINE v == WithId(tree[at].id)
  <2>1. at \in 1 .. Len(tree) /\ v \in 0 .. Len(variables) /\ Visits("mangle")
    BY <1>1, <1>5, Entered, WithIdIs, View DEF MangleUsage
  <2>2. Naming(v)
    BY <1>1, <1>5, MangleUsageView
  <2> HIDE DEF v
  <2> QED BY <1>1, <2>1, <2>2, NamingType DEF Naming, Pass, Visits
<1> QED BY <1>2, <1>3, <1>4, <1>5

\* Parsing leaves the tables alone; so do the ends of walks.
LEMMA ParseSteps ==
  ASSUME \/ \E n \in Functions, spec \in Specifiers, type \in Type :
              ParseFunction(n, spec, type)
         \/ \E n \in Variables, spec \in Specifiers, type \in Type, init \in Inits :
              ParseDeclaration(n, spec, init, type)
         \/ \E n \in Name : ParseUsage(n)
         \/ ParseBody \/ ParseScope \/ ParseEnd
  PROVE  /\ walk = "parse" /\ walk' \in {"parse", "usage"}
         /\ UNCHANGED <<at, functions, variables, verdict>>
  BY DEF ParseFunction, ParseDeclaration, ParseUsage, ParseBody, ParseScope, ParseEnd,
         Growing, Grow, semaVars

Early == walk \in {"parse", "usage"}

\* What a step of the walks can be.
Steps ==
  \/ /\ Early /\ walk' \in {"parse", "usage"}
     /\ UNCHANGED <<at, functions, variables>>
     /\ verdict' # verdict => CheckUsages
  \/ /\ walk = "usage" /\ walk' = "signatures" /\ CheckUsages
     /\ UNCHANGED <<tree, at, functions, variables, verdict>>
  \/ Signature
  \/ LinkDeclaration \/ LinkUsage \/ MangleDeclaration \/ MangleUsage
  \/ /\ EndWalk("signatures", "linkage") \/ EndWalk("linkage", "mangle")
          \/ EndWalk("mangle", "done")
     /\ UNCHANGED <<tree, functions, variables, verdict>>
  \/ /\ PassBy /\ at \in 1 .. Len(tree) /\ at' = at + 1
     /\ UNCHANGED <<tree, walk, functions, variables, verdict>>
  \/ UNCHANGED <<tree, walk, at, functions, variables, verdict>>

LEMMA StepsAre ==
  ASSUME LinkBase, [LinkNext]_linkVars
  PROVE  Steps
<1>1. LinkTypeOK /\ Walks
  BY DEF LinkBase
<1>2. CASE \/ \E n \in Functions, spec \in Specifiers, type \in Type :
                ParseFunction(n, spec, type)
           \/ \E n \in Variables, spec \in Specifiers, type \in Type, init \in Inits :
                ParseDeclaration(n, spec, init, type)
           \/ \E n \in Name : ParseUsage(n)
           \/ ParseBody \/ ParseScope \/ ParseEnd
  <2>1. /\ walk = "parse" /\ walk' \in {"parse", "usage"}
        /\ UNCHANGED <<at, functions, variables, verdict>>
    BY <1>2, ParseSteps
  <2> QED BY <2>1 DEF Steps, Early
<1>3. CASE CheckUsages
  BY <1>3 DEF CheckUsages, Steps, Early
<1>4. CASE Signature \/ LinkDeclaration \/ LinkUsage \/ MangleDeclaration \/ MangleUsage
  BY <1>4 DEF Steps
<1>5. CASE EndWalk("signatures", "linkage") \/ EndWalk("linkage", "mangle")
             \/ EndWalk("mangle", "done")
  <2>1. UNCHANGED <<tree, functions, variables, verdict>>
    BY <1>5 DEF EndWalk
  <2> QED BY <1>5, <2>1 DEF Steps
<1>6. CASE PassBy
  <2>1. PICK w : Visits(w)
    BY <1>6 DEF PassBy
  <2>2. at \in 1 .. Len(tree)
    BY <1>1, <2>1, Entered
  <2> QED BY <1>6, <2>2 DEF Steps, PassBy, Pass
<1>7. CASE UNCHANGED linkVars
  BY <1>7 DEF linkVars, semaVars, Steps
<1> QED BY <1>2, <1>3, <1>4, <1>5, <1>6, <1>7 DEF LinkNext

LEMMA PassedBy ==
  ASSUME LinkTypeOK, SignaturesOK, PassBy, at \in 1 .. Len(tree), at' = at + 1,
         UNCHANGED <<tree, walk, functions, variables, verdict>>
  PROVE  SignaturesOK'
<1>1. Len(tree) \in Nat /\ at \in Nat
  BY View
<1> SUFFICES ASSUME NEW n \in Name PROVE Signed(n, SignedOf(n))'
  BY DEF SignaturesOK
<1>2. Kept /\ FunctionsOf(n)' = FunctionsOf(n)
  BY SameTree, KeptSets
<1>3. Signed(n, SignedOf(n))
  BY DEF SignaturesOK
<1>4. SignedOf(n)' = SignedOf(n)
  <2>1. CASE walk = "signatures"
    <3>1. Here.node # "function"
      BY <1>1, <2>1 DEF PassBy, Visits
    <3>2. at \notin FunctionsOf(n)
      BY <3>1, NodeSets DEF Here
    <3>3. SigDone = at - 1 /\ SigDone' = at
      BY <1>1, <2>1 DEF SigDone
    <3>4. \A k \in FunctionsOf(n) : k \in Nat
      BY NodeSets
    <3>5. \A k \in FunctionsOf(n) : k =< at - 1 <=> k =< at
      BY <1>1, <3>2, <3>4
    <3> QED BY <1>2, <3>3, <3>5 DEF SignedOf
  <2>2. CASE walk # "signatures"
    BY <1>2, <2>2 DEF SignedOf, SigDone
  <2> QED BY <2>1, <2>2
<1> QED BY <1>2, <1>3, <1>4, SignedKept

LEMMA InitSignatures == LinkInit => SignaturesOK
<1> SUFFICES ASSUME LinkInit PROVE SignaturesOK
  OBVIOUS
<1>1. LinkTypeOK
  BY InitBase DEF LinkBase
<1>2. SigDone = 0 /\ functions = <<>>
  BY DEF LinkInit, SigDone
<1> QED BY <1>1, <1>2, NothingSigned

LEMMA NextSignatures ==
  LinkBase /\ SignaturesOK /\ LinkBase' /\ [LinkNext]_linkVars => SignaturesOK'
<1> SUFFICES ASSUME LinkBase, SignaturesOK, LinkBase', [LinkNext]_linkVars
             PROVE  SignaturesOK'
  OBVIOUS
<1>1. LinkTypeOK /\ Walks /\ LinkTypeOK'
  BY DEF LinkBase
<1>2. Steps
  BY StepsAre
<1>3. CASE Early /\ walk' \in {"parse", "usage"} /\ UNCHANGED <<at, functions, variables>>
  <2>1. (SigDone = 0)' /\ (functions = <<>>)'
    BY <1>1, <1>3 DEF SigDone, Early, Walks
  <2> QED BY <1>1, <2>1, NothingSignedNext
<1>4. CASE /\ walk = "usage" /\ walk' = "signatures"
           /\ UNCHANGED <<tree, at, functions, variables, verdict>>
  <2>1. (SigDone = 0)' /\ (functions = <<>>)'
    BY <1>1, <1>4 DEF SigDone, Walks
  <2> QED BY <1>1, <2>1, NothingSignedNext
<1>5. CASE Signature
  BY <1>5, SignatureStep
<1>6. CASE LinkDeclaration \/ LinkUsage \/ MangleDeclaration \/ MangleUsage
  <2>1. Kept /\ UNCHANGED functions /\ walk \in {"linkage", "mangle"} /\ walk' = walk
    BY <1>6, LaterSteps
  <2> QED BY <2>1, SignaturesStay
<1>7. CASE /\ EndWalk("signatures", "linkage") \/ EndWalk("linkage", "mangle")
                \/ EndWalk("mangle", "done")
           /\ UNCHANGED <<tree, functions, variables, verdict>>
  <2>1. SigDone' = SigDone
    BY <1>1, <1>7, View DEF EndWalk, SigDone
  <2> QED BY <1>1, <1>7, <2>1, SameTree, SignaturesKept
<1>8. CASE /\ PassBy /\ at \in 1 .. Len(tree) /\ at' = at + 1
           /\ UNCHANGED <<tree, walk, functions, variables, verdict>>
  BY <1>1, <1>8, PassedBy
<1>9. CASE UNCHANGED <<tree, walk, at, functions, variables, verdict>>
  <2>1. SigDone' = SigDone
    BY <1>9 DEF SigDone
  <2> QED BY <1>1, <1>9, <2>1, SameTree, SignaturesKept
<1> QED BY <1>2, <1>3, <1>4, <1>5, <1>6, <1>7, <1>8, <1>9 DEF Steps

LEMMA SignaturesInvariance == LinkSpec => [](LinkBase /\ SignaturesOK)
  BY InitBase, NextBase, InitSignatures, NextSignatures, PTL DEF LinkSpec

(***************************************************************************)
(* The usages were looked at before the walks.                             *)
(***************************************************************************)
UsagesChecked ==
  walk \in {"signatures", "linkage", "mangle", "done"} =>
    \A k \in 1 .. Len(tree) : ~ UsesFunction(k)

LEMMA NextUsages ==
  LinkBase /\ SignaturesOK /\ UsagesChecked /\ [LinkNext]_linkVars => UsagesChecked'
<1> SUFFICES ASSUME LinkBase, SignaturesOK, UsagesChecked, [LinkNext]_linkVars
             PROVE  UsagesChecked'
  OBVIOUS
<1>1. Steps
  BY StepsAre
<1>2. ASSUME Kept, walk \in {"signatures", "linkage", "mangle", "done"}
      PROVE  UsagesChecked'
  <2>1. \A k \in 1 .. Len(tree') : ~ UsesFunction(k)'
    BY <1>2, KeptUsesFunction DEF UsagesChecked, Kept
  <2> QED BY <2>1 DEF UsagesChecked
<1>3. CASE walk' \in {"parse", "usage"}
  BY <1>3 DEF UsagesChecked
<1>4. CASE walk = "usage" /\ walk' = "signatures" /\ CheckUsages /\ UNCHANGED tree
  <2>1. \A k \in 1 .. Len(tree) : ~ UsesFunction(k)
    BY <1>4 DEF CheckUsages
  <2>2. \A k \in 1 .. Len(tree') : ~ UsesFunction(k)'
    BY <1>4, <2>1, KeptUsesFunction, SameTree
  <2> QED BY <2>2 DEF UsagesChecked
<1>5. CASE Signature
  <2>1. Kept /\ walk = "signatures"
    BY <1>5, SignatureStep DEF Signature, Visits
  <2> QED BY <1>2, <2>1
<1>6. CASE LinkDeclaration \/ LinkUsage \/ MangleDeclaration \/ MangleUsage
  <2>1. Kept /\ walk \in {"linkage", "mangle"}
    BY <1>6, LaterSteps
  <2> QED BY <1>2, <2>1
<1>7. CASE /\ EndWalk("signatures", "linkage") \/ EndWalk("linkage", "mangle")
                \/ EndWalk("mangle", "done")
           /\ UNCHANGED tree
  BY <1>2, <1>7, SameTree DEF EndWalk
<1>8. CASE PassBy /\ UNCHANGED tree
  BY <1>2, <1>8, SameTree DEF PassBy, Visits
<1>9. CASE UNCHANGED <<tree, walk>>
  <2>1. CASE walk \in {"signatures", "linkage", "mangle", "done"}
    BY <1>2, <1>9, <2>1, SameTree
  <2>2. CASE walk \notin {"signatures", "linkage", "mangle", "done"}
    BY <1>9, <2>2 DEF UsagesChecked
  <2> QED BY <2>1, <2>2
<1> QED BY <1>1, <1>3, <1>4, <1>5, <1>6, <1>7, <1>8, <1>9 DEF Steps

(***************************************************************************)
(* The walk over the variables: the nodes it is past, and what it knows of *)
(* the objects that the translation unit shares.                           *)
(***************************************************************************)
LinkDone == IF walk = "linkage" THEN at - 1
            ELSE IF walk \in {"mangle", "done"} THEN Len(tree) ELSE 0

MergedOf(n) == {k \in Shared(n) : k =< LinkDone}
ConstantsIn(G) == {k \in G : tree[k].init = "constant"}
FileSymbols(n) ==
  {i \in 1 .. Len(variables) : variables[i].name = n /\ variables[i].dscope = "file"}

InitialIn(G) ==
  IF ConstantsIn(G) # {} THEN Constant
  ELSE IF \A k \in G : tree[k].spec = "extern" THEN NoInitializer ELSE Tentative

InitIn(G) == IF ConstantsIn(G) = {} THEN 0 ELSE First(ConstantsIn(G))

\* A symbol is what the declarations G of its object say together.
VariableIs(v, G) ==
  /\ v.type = tree[First(G)].type /\ v.linkage = LinkageOf(G)
  /\ v.initial = InitialIn(G) /\ v.init = InitIn(G)

InitAllowed(k) == IF tree[k].file THEN tree[k].init # "expression"
                  ELSE tree[k].init = "none"

StaticLikeFirst(k, G) ==
  tree[k].file /\ tree[k].spec # "extern" => (IsStatic(k) <=> IsStatic(First(G)))

VariablesAgree(G) ==
  /\ \A k \in G : /\ tree[k].type = tree[First(G)].type
                  /\ StaticLikeFirst(k, G) /\ InitAllowed(k)
  /\ \A j, k \in ConstantsIn(G) : j = k

Merge(n, G) ==
  /\ G = {} => FileSymbols(n) = {}
  /\ G # {} => \E i \in 1 .. Len(variables) :
                 FileSymbols(n) = {i} /\ VariableIs(variables[i], G)
  /\ VariablesAgree(G)
  /\ G # {} => FunctionsOf(n) = {}

MergesOK == \A n \in Name : Merge(n, MergedOf(n))

LEMMA MergedSets ==
  ASSUME LinkTypeOK, NEW n
  PROVE  /\ LinkDone \in Nat /\ LinkDone =< Len(tree)
         /\ MergedOf(n) \in SUBSET Shared(n)
         /\ MergedOf(n) \in SUBSET (1 .. Len(tree))
         /\ Shared(n) \in SUBSET (1 .. Len(tree))
         /\ Len(tree) \in Nat
  BY View, NodeSets DEF LinkDone, MergedOf

LEMMA KeptConstants ==
  ASSUME LinkTypeOK, Kept, NEW G \in SUBSET (1 .. Len(tree))
  PROVE  ConstantsIn(G)' = ConstantsIn(G)
<1>1. \A k \in G : tree'[k].init = tree[k].init
  BY KeptNodes
<1> QED BY <1>1 DEF ConstantsIn

LEMMA KeptInitial ==
  ASSUME LinkTypeOK, Kept, NEW G \in SUBSET (1 .. Len(tree))
  PROVE  InitialIn(G)' = InitialIn(G) /\ InitIn(G)' = InitIn(G)
<1>1. ConstantsIn(G)' = ConstantsIn(G)
  BY KeptConstants
<1>2. \A k \in G : tree'[k].spec = tree[k].spec
  BY KeptNodes
<1>3. First(ConstantsIn(G))' = First(ConstantsIn(G))
  BY <1>1 DEF First
<1>4. InitialIn(G)' = InitialIn(G)
  BY <1>1, <1>2 DEF InitialIn
<1>5. InitIn(G)' = InitIn(G)
  BY <1>1, <1>3 DEF InitIn
<1> QED BY <1>4, <1>5

\* What the declarations G say does not change.
LEMMA KeptAgree ==
  ASSUME LinkTypeOK, Kept, NEW G \in SUBSET (1 .. Len(tree)), VariablesAgree(G)
  PROVE  VariablesAgree(G)'
<1>1. ConstantsIn(G)' = ConstantsIn(G)
  BY KeptConstants
<1>2. G # {} => /\ tree'[First(G)].type = tree[First(G)].type
                /\ (IsStatic(First(G))' <=> IsStatic(First(G)))
  BY KeptFirst
<1>3. ASSUME NEW k \in G
      PROVE  /\ tree'[k].type = tree'[First(G)].type
             /\ StaticLikeFirst(k, G)' /\ InitAllowed(k)'
  <2>1. k \in 1 .. Len(tree) /\ G # {}
    BY <1>3
  <2>2. /\ tree'[k].type = tree[k].type /\ tree'[k].file = tree[k].file
        /\ tree'[k].spec = tree[k].spec /\ tree'[k].init = tree[k].init
    BY <2>1, KeptNodes
  <2>3. tree[k].type = tree[First(G)].type /\ StaticLikeFirst(k, G) /\ InitAllowed(k)
    BY DEF VariablesAgree
  <2>4. IsStatic(k)' <=> IsStatic(k)
    BY <2>1, KeptIsStatic
  <2>5. StaticLikeFirst(k, G)'
    BY <1>2, <2>1, <2>2, <2>3, <2>4 DEF StaticLikeFirst
  <2> QED BY <1>2, <2>1, <2>2, <2>3, <2>5 DEF InitAllowed
<1>4. \A j, k \in ConstantsIn(G)' : j = k
  BY <1>1 DEF VariablesAgree
<1> QED BY <1>3, <1>4 DEF VariablesAgree

LEMMA KeptVariableIs ==
  ASSUME LinkTypeOK, Kept, NEW G \in SUBSET (1 .. Len(tree)), G # {},
         NEW i, VariableIs(variables[i], G),
         variables'[i].type = variables[i].type,
         variables'[i].linkage = variables[i].linkage,
         variables'[i].initial = variables[i].initial,
         variables'[i].init = variables[i].init
  PROVE  VariableIs(variables[i], G)'
<1>1. First(G)' = First(G)
  BY DEF First
<1>2. tree'[First(G)].type = tree[First(G)].type
  BY KeptFirst
<1>3. LinkageOf(G)' = LinkageOf(G) /\ InitialIn(G)' = InitialIn(G) /\ InitIn(G)' = InitIn(G)
  BY KeptLinkageOf, KeptInitial
<1> QED BY <1>1, <1>2, <1>3 DEF VariableIs

\* The symbol of a shared object, as far as it is known from its declarations.
SameFileSymbols(n) ==
  /\ FileSymbols(n)' = FileSymbols(n)
  /\ \A i \in FileSymbols(n) :
       /\ variables'[i].type = variables[i].type
       /\ variables'[i].linkage = variables[i].linkage
       /\ variables'[i].initial = variables[i].initial
       /\ variables'[i].init = variables[i].init

LEMMA MergeKept ==
  ASSUME LinkTypeOK, Kept, NEW n, Merge(n, MergedOf(n)),
         MergedOf(n)' = MergedOf(n), SameFileSymbols(n)
  PROVE  Merge(n, MergedOf(n))'
<1> DEFINE G == MergedOf(n)
<1>1. G \in SUBSET (1 .. Len(tree)) /\ G' = G
  BY MergedSets
<1>2. Merge(n, G)
  OBVIOUS
<1> HIDE DEF G
<1>3. VariablesAgree(G)'
  <2>1. PICK H : H = G
    OBVIOUS
  <2>2. H \in SUBSET (1 .. Len(tree)) /\ VariablesAgree(H)
    BY <1>1, <1>2, <2>1 DEF Merge
  <2>3. VariablesAgree(H)'
    BY <2>2, KeptAgree
  <2>4. G' = H
    BY <1>1, <2>1
  <2> QED BY <2>3, <2>4
<1>4. G' # {} => FunctionsOf(n)' = {}
  BY <1>1, <1>2, KeptSets DEF Merge
<1>5. G' = {} => FileSymbols(n)' = {}
  BY <1>1, <1>2 DEF Merge, SameFileSymbols
<1>6. G' # {} => \E i \in 1 .. Len(variables') :
                   FileSymbols(n)' = {i} /\ VariableIs(variables[i], G)'
  <2> SUFFICES ASSUME G # {}
               PROVE  \E i \in 1 .. Len(variables') :
                        FileSymbols(n)' = {i} /\ VariableIs(variables[i], G)'
    BY <1>1
  <2>1. PICK i \in 1 .. Len(variables) :
          FileSymbols(n) = {i} /\ VariableIs(variables[i], G)
    BY <1>2 DEF Merge
  <2>2. FileSymbols(n)' = {i} /\ i \in FileSymbols(n) /\ i \in FileSymbols(n)'
    BY <2>1 DEF SameFileSymbols
  <2>3. /\ variables'[i].type = variables[i].type
        /\ variables'[i].linkage = variables[i].linkage
        /\ variables'[i].initial = variables[i].initial
        /\ variables'[i].init = variables[i].init
    BY <2>2 DEF SameFileSymbols
  <2>4. i \in 1 .. Len(variables')
    BY <2>2 DEF FileSymbols
  <2>5. PICK H : H = G
    OBVIOUS
  <2>6. VariableIs(variables[i], H)'
    BY <1>1, <2>1, <2>3, <2>5, KeptVariableIs
  <2>7. VariableIs(variables[i], G)'
    BY <1>1, <2>5, <2>6
  <2> QED BY <2>2, <2>4, <2>7
<1>7. Merge(n, G)'
  BY <1>3, <1>4, <1>5, <1>6 DEF Merge
<1> QED BY <1>7 DEF G

\* Nothing is known at first.
LEMMA NothingMerged ==
  LinkTypeOK /\ LinkDone = 0 /\ variables = <<>> => MergesOK
<1> SUFFICES ASSUME LinkTypeOK, LinkDone = 0, variables = <<>>, NEW n \in Name
             PROVE  Merge(n, MergedOf(n))
  BY DEF MergesOK
<1>1. MergedOf(n) = {} /\ FileSymbols(n) = {}
  BY NodeSets DEF MergedOf, FileSymbols
<1> QED BY <1>1 DEF Merge, VariablesAgree, ConstantsIn

LEMMA NothingMergedNext ==
  LinkTypeOK' /\ (LinkDone = 0)' /\ (variables = <<>>)' => MergesOK'
  BY NothingMerged, PTL

LEMMA MergesKept ==
  ASSUME LinkTypeOK, MergesOK, Kept, LinkDone' = LinkDone,
         \A n \in Name : SameFileSymbols(n)
  PROVE  MergesOK'
<1> SUFFICES ASSUME NEW n \in Name PROVE Merge(n, MergedOf(n))'
  BY DEF MergesOK
<1>1. MergedOf(n)' = MergedOf(n)
  BY KeptSets DEF MergedOf
<1>2. Merge(n, MergedOf(n))
  BY DEF MergesOK
<1> QED BY <1>1, <1>2, MergeKept

(***************************************************************************)
(* One more declaration of a shared object.                                *)
(***************************************************************************)
\* G: the declarations so far.  v: their symbol.
SoFar(v, G) ==
  /\ G = {} => v = 0
  /\ G # {} => v \in 1 .. Len(variables) /\ VariableIs(variables[v], G)
  /\ VariablesAgree(G)

OneMore(G) ==
  /\ at \in 1 .. Len(tree) /\ tree[at] \in Node
  /\ G \in SUBSET (1 .. Len(tree)) /\ \A j \in G : j < at

LEMMA OneMoreFirst ==
  ASSUME LinkTypeOK, NEW G, OneMore(G)
  PROVE  /\ First(G \cup {at}) = IF G = {} THEN at ELSE First(G)
         /\ G # {} => First(G) \in G
  BY View, FirstIs, FirstWithNext DEF OneMore

LEMMA OneMoreConstant ==
  ASSUME LinkTypeOK, NEW G, OneMore(G), VariablesAgree(G),
         tree[at].init = "constant" => ConstantsIn(G) = {}
  PROVE  /\ \A j, k \in ConstantsIn(G \cup {at}) : j = k
         /\ ConstantsIn(G \cup {at}) = {} <=> ConstantsIn(G) = {} /\ tree[at].init # "constant"
         /\ InitIn(G \cup {at}) = IF tree[at].init = "constant" THEN at ELSE InitIn(G)
<1> DEFINE C == ConstantsIn(G)
           D == ConstantsIn(G \cup {at})
<1>1. at \in 1 .. Len(tree) /\ Len(tree) \in Nat
  BY View DEF OneMore
<1>2. CASE tree[at].init = "constant"
  <2>1. D = {at}
    BY <1>2 DEF ConstantsIn
  <2>2. First({at}) = at
    <3>1. /\ {at} \in SUBSET (1 .. Len(tree)) /\ at \in {at}
          /\ \A j \in {at} : at =< j
      BY <1>1
    <3> QED BY <1>1, <3>1, FirstOf
  <2>3. InitIn(G \cup {at}) = at
    BY <2>1, <2>2 DEF InitIn
  <2> QED BY <1>2, <2>1, <2>3
<1>3. CASE tree[at].init # "constant"
  <2>1. D = C
    BY <1>3 DEF ConstantsIn
  <2>2. InitIn(G \cup {at}) = InitIn(G)
    BY <2>1 DEF InitIn
  <2> QED BY <1>3, <2>1, <2>2 DEF VariablesAgree
<1> QED BY <1>2, <1>3

LEMMA OneMoreAgrees ==
  ASSUME LinkTypeOK, NEW G, OneMore(G), VariablesAgree(G), InitAllowed(at),
         tree[at].init = "constant" => ConstantsIn(G) = {},
         G # {} => tree[at].type = tree[First(G)].type /\ StaticLikeFirst(at, G)
  PROVE  VariablesAgree(G \cup {at})
<1> DEFINE H == G \cup {at}
<1>1. \A j, k \in ConstantsIn(H) : j = k
  BY OneMoreConstant
<1>2. First(H) = IF G = {} THEN at ELSE First(G)
  BY OneMoreFirst
<1>3. ASSUME NEW k \in H
      PROVE  tree[k].type = tree[First(H)].type /\ StaticLikeFirst(k, H) /\ InitAllowed(k)
  <2>1. CASE k \in G
    <3>1. First(H) = First(G)
      BY <1>2, <2>1
    <3> HIDE DEF H
    <3> QED BY <2>1, <3>1 DEF VariablesAgree, StaticLikeFirst
  <2>2. CASE k \notin G
    <3>1. k = at
      BY <2>2
    <3> HIDE DEF H
    <3> QED BY <1>2, <3>1 DEF StaticLikeFirst
  <2> QED BY <2>1, <2>2
<1> HIDE DEF H
<1>4. VariablesAgree(H)
  BY <1>1, <1>3 DEF VariablesAgree
<1> QED BY <1>4 DEF H

StateIs(s, G) ==
  s.linkage = LinkageOf(G) /\ s.initial = InitialIn(G) /\ s.init = InitIn(G)

LEMMA LinkageIsStatic ==
  ASSUME NEW G
  PROVE  /\ LinkageOf(G) = Internal <=> IsStatic(First(G))
         /\ LinkageOf(G) \in {Internal, External}
  BY DEF LinkageOf, Internal, External

LEMMA SoFarSymbol ==
  ASSUME LinkTypeOK, NEW G, NEW v, OneMore(G), SoFar(v, G)
  PROVE  /\ v = 0 <=> G = {}
         /\ v # 0 => /\ variables[v].type = tree[First(G)].type
                     /\ variables[v].linkage = LinkageOf(G)
                     /\ variables[v].initial = InitialIn(G)
                     /\ variables[v].init = InitIn(G)
  BY DEF SoFar, VariableIs

\* At file scope.
LEMMA FileDeclared ==
  ASSUME LinkTypeOK, NEW G, NEW v, OneMore(G), SoFar(v, G), tree[at].file,
         ~ FileRefused(tree[at], v), v # 0 => variables[v].type = tree[at].type
  PROVE  StateIs(FileState(tree[at], v), G \cup {at}) /\ VariablesAgree(G \cup {at})
<1> DEFINE H == G \cup {at}
<1>1. PICK d \in Node : d = tree[at]
  BY DEF OneMore
<1>2. d.file /\ d.init # "expression" /\ (v # 0 => variables[v].type = d.type)
      /\ (v # 0 /\ d.spec # "extern" => OwnLinkage(d) = variables[v].linkage)
      /\ (v # 0 /\ d.init = "constant" => variables[v].initial # Constant)
  BY <1>1 DEF FileRefused
<1>3. /\ v = 0 <=> G = {}
      /\ v # 0 => /\ variables[v].type = tree[First(G)].type
                  /\ variables[v].linkage = LinkageOf(G)
                  /\ variables[v].initial = InitialIn(G)
                  /\ variables[v].init = InitIn(G)
  BY SoFarSymbol
<1>4. d.init = "constant" => ConstantsIn(G) = {}
  <2>1. G = {} => ConstantsIn(G) = {}
    BY DEF ConstantsIn
  <2> QED BY <1>2, <1>3, <2>1 DEF InitialIn
<1>5. G # {} => StaticLikeFirst(at, G)
  BY <1>1, <1>2, <1>3, LinkageIsStatic DEF StaticLikeFirst, OwnLinkage, IsStatic, Internal, External
<1>6. VariablesAgree(H)
  BY <1>1, <1>2, <1>3, <1>4, <1>5, OneMoreAgrees DEF SoFar, InitAllowed
<1>7. First(H) = IF G = {} THEN at ELSE First(G)
  BY OneMoreFirst
<1>8. /\ ConstantsIn(H) = {} <=> ConstantsIn(G) = {} /\ d.init # "constant"
      /\ InitIn(H) = IF d.init = "constant" THEN at ELSE InitIn(G)
  BY <1>1, <1>4, OneMoreConstant DEF SoFar
<1>9. LinkageOf(H) = IF v # 0 /\ d.spec = "extern" THEN variables[v].linkage ELSE OwnLinkage(d)
  <2>1. CASE G = {}
    <3>1. First(H) = at
      BY <1>7, <2>1
    <3> HIDE DEF H
    <3> QED BY <1>1, <1>3, <2>1, <3>1 DEF LinkageOf, IsStatic, OwnLinkage
  <2>2. CASE G # {}
    <3>1. First(H) = First(G)
      BY <1>7, <2>2
    <3>2. LinkageOf(H) = LinkageOf(G)
      BY <3>1 DEF LinkageOf
    <3> QED BY <1>2, <1>3, <2>2, <3>2
  <2> QED BY <2>1, <2>2
<1>10. InitialIn(H) = IF v = 0 THEN OwnInitial(d)
                      ELSE Larger(OwnInitial(d), variables[v].initial)
  <2>1. (\A k \in H : tree[k].spec = "extern") <=>
           (\A k \in G : tree[k].spec = "extern") /\ d.spec = "extern"
    BY <1>1
  <2>2. G = {} => ConstantsIn(G) = {} /\ \A k \in G : tree[k].spec = "extern"
    BY DEF ConstantsIn
  <2> HIDE DEF H
  <2> DEFINE A == \A k \in G : tree[k].spec = "extern"
             C == ConstantsIn(G)
  <2>3. InitialIn(G) = IF C # {} THEN Constant ELSE IF A THEN NoInitializer ELSE Tentative
    BY DEF InitialIn
  <2>4. InitialIn(H) = IF C # {} \/ d.init = "constant" THEN Constant
                       ELSE IF A /\ d.spec = "extern" THEN NoInitializer ELSE Tentative
    BY <1>8, <2>1 DEF InitialIn
  <2> HIDE DEF A, C
  <2>5. v = 0 => C = {} /\ A
    BY <1>3, <2>2 DEF A, C
  <2> QED BY <1>3, <2>3, <2>4, <2>5
          DEF OwnInitial, Larger, Constant, NoInitializer, Tentative
<1>11. v = 0 => InitIn(G) = 0
  BY <1>3 DEF InitIn, ConstantsIn
<1>12. /\ FileState(d, v).linkage =
            (IF v # 0 /\ d.spec = "extern" THEN variables[v].linkage ELSE OwnLinkage(d))
       /\ FileState(d, v).initial =
            (IF v = 0 THEN OwnInitial(d) ELSE Larger(OwnInitial(d), variables[v].initial))
       /\ FileState(d, v).init =
            (IF d.init = "constant" THEN at ELSE IF v # 0 THEN variables[v].init ELSE 0)
  BY DEF FileState, State
<1> HIDE DEF H
<1>13. FileState(d, v).init = InitIn(H)
  BY <1>3, <1>8, <1>11, <1>12
<1>14. StateIs(FileState(d, v), H)
  BY <1>9, <1>10, <1>12, <1>13 DEF StateIs
<1> QED BY <1>1, <1>6, <1>14 DEF H

\* `extern' in a block.
LEMMA BlockDeclared ==
  ASSUME LinkTypeOK, NEW G, NEW v, OneMore(G), SoFar(v, G), ~ tree[at].file,
         tree[at].spec = "extern",
         ~ BlockRefused(tree[at]), v # 0 => variables[v].type = tree[at].type
  PROVE  StateIs(BlockState(tree[at], v), G \cup {at}) /\ VariablesAgree(G \cup {at})
<1> DEFINE H == G \cup {at}
<1>1. PICK d \in Node : d = tree[at]
  BY DEF OneMore
<1>2. ~ d.file /\ d.spec = "extern" /\ d.init = "none"
      /\ (v # 0 => variables[v].type = d.type)
  BY <1>1 DEF BlockRefused
<1>3. /\ v = 0 <=> G = {}
      /\ v # 0 => /\ variables[v].type = tree[First(G)].type
                  /\ variables[v].linkage = LinkageOf(G)
                  /\ variables[v].initial = InitialIn(G)
                  /\ variables[v].init = InitIn(G)
  BY SoFarSymbol
<1>4. G # {} => tree[at].type = tree[First(G)].type /\ StaticLikeFirst(at, G)
  BY <1>1, <1>2, <1>3 DEF StaticLikeFirst
<1>5. VariablesAgree(H)
  BY <1>1, <1>2, <1>4, OneMoreAgrees DEF SoFar, InitAllowed
<1>6. First(H) = IF G = {} THEN at ELSE First(G)
  BY OneMoreFirst
<1>7. /\ ConstantsIn(H) = {} <=> ConstantsIn(G) = {}
      /\ InitIn(H) = InitIn(G)
  BY <1>1, <1>2, OneMoreConstant DEF SoFar
<1>8. (\A k \in H : tree[k].spec = "extern") <=> (\A k \in G : tree[k].spec = "extern")
  BY <1>1, <1>2
<1>9. BlockState(d, v) = IF v # 0 THEN Known(v) ELSE State(External, NoInitializer, 0)
  BY <1>2 DEF BlockState
<1>10. InitialIn(H) = InitialIn(G)
  <2> HIDE DEF H
  <2> QED BY <1>7, <1>8 DEF InitialIn
<1>11. CASE G = {}
  <2>1. First(H) = at
    BY <1>6, <1>11
  <2>2. LinkageOf(H) = External
    <3> HIDE DEF H
    <3> QED BY <1>1, <1>2, <2>1 DEF LinkageOf, IsStatic
  <2>3. InitialIn(G) = NoInitializer /\ InitIn(G) = 0
    BY <1>11 DEF InitialIn, InitIn, ConstantsIn
  <2>4. BlockState(d, v) = State(External, NoInitializer, 0)
    BY <1>3, <1>9, <1>11
  <2> HIDE DEF H
  <2>5. StateIs(BlockState(d, v), H)
    BY <1>7, <1>10, <2>2, <2>3, <2>4 DEF StateIs, State
  <2> QED BY <1>1, <1>5, <2>5 DEF H
<1>12. CASE G # {}
  <2>1. First(H) = First(G)
    BY <1>6, <1>12
  <2>2. LinkageOf(H) = LinkageOf(G)
    BY <2>1 DEF LinkageOf
  <2>3. BlockState(d, v) = Known(v)
    BY <1>3, <1>9, <1>12
  <2> HIDE DEF H
  <2>4. StateIs(BlockState(d, v), H)
    BY <1>3, <1>7, <1>10, <1>12, <2>2, <2>3 DEF StateIs, State, Known
  <2> QED BY <1>1, <1>5, <2>4 DEF H
<1> QED BY <1>11, <1>12

(***************************************************************************)
(* What the table and the tree are after a declaration.                    *)
(***************************************************************************)
SharedDeclaration(d) == d.file \/ d.spec = "extern"

\* The table before had m symbols, v of them is the one d goes by.
DeclaredTable(d, v, s, m) ==
  /\ m \in Nat
  /\ \A i \in 1 .. m : i \in 1 .. Len(variables')
  /\ \A i \in 1 .. m : i # v => variables'[i] = variables[i]
  /\ v = 0 => /\ Len(variables') = m + 1
              /\ variables'[m + 1].name = d.name
              /\ variables'[m + 1].label = <<d.name>>
              /\ variables'[m + 1].type = d.type
              /\ variables'[m + 1].unique = d.id
              /\ variables'[m + 1].dscope =
                   (IF d.file \/ s.linkage = External THEN "file" ELSE "block")
              /\ variables'[m + 1].linkage = s.linkage
              /\ variables'[m + 1].initial = s.initial
              /\ variables'[m + 1].init = s.init
  /\ v # 0 => /\ Len(variables') = m
              /\ variables'[v].name = variables[v].name
              /\ variables'[v].label = variables[v].label
              /\ variables'[v].type = variables[v].type
              /\ variables'[v].unique = d.id
              /\ variables'[v].dscope = variables[v].dscope
              /\ variables'[v].linkage = s.linkage
              /\ variables'[v].initial = s.initial
              /\ variables'[v].init = s.init

LEMMA SymbolsAfterDeclares ==
  ASSUME LinkTypeOK, at \in 1 .. Len(tree), NEW d \in Node, d = tree[at],
         NEW v \in 0 .. Len(variables), NEW s \in States, Declares(v, s),
         NEW m, m = Len(variables)
  PROVE  DeclaredTable(d, v, s, m)
<1>1. m \in Nat
  BY View
<1>2. /\ v = 0 => /\ Len(variables') = m + 1
                  /\ variables'[m + 1] = NewSymbol(d, s)
                  /\ \A i \in 1 .. m : variables'[i] = variables[i]
      /\ v # 0 => /\ Len(variables') = m
                  /\ \A i \in 1 .. m :
                       variables'[i] = IF i = v THEN Restated(variables[v], d.id, s)
                                       ELSE variables[i]
  BY DeclaresType
<1>3. CASE v = 0
  <2> DEFINE x == NewSymbol(d, s)
  <2>1. /\ x.name = d.name /\ x.label = <<d.name>>
        /\ x.type = d.type /\ x.unique = d.id
        /\ x.dscope = (IF d.file \/ s.linkage = External THEN "file" ELSE "block")
        /\ x.linkage = s.linkage /\ x.initial = s.initial /\ x.init = s.init
    BY NewSymbolIs
  <2> HIDE DEF x
  <2>2. /\ Len(variables') = m + 1 /\ variables'[m + 1] = x
        /\ \A i \in 1 .. m : variables'[i] = variables[i]
    BY <1>2, <1>3 DEF x
  <2>3. \A i \in 1 .. m : i \in 1 .. Len(variables')
    BY <1>1, <2>2
  <2> QED BY <1>1, <1>3, <2>1, <2>2, <2>3 DEF DeclaredTable
<1>4. CASE v # 0
  <2> DEFINE x == Restated(variables[v], d.id, s)
  <2>1. v \in 1 .. m /\ variables[v] \in VariableSymbol /\ d.id \in Nat
    BY <1>1, <1>4, View DEF Node
  <2>2. /\ x.name = variables[v].name /\ x.label = variables[v].label
        /\ x.type = variables[v].type /\ x.unique = d.id
        /\ x.dscope = variables[v].dscope
        /\ x.linkage = s.linkage /\ x.initial = s.initial /\ x.init = s.init
    BY <2>1, RestatedSymbol
  <2> HIDE DEF x
  <2>3. /\ Len(variables') = m
        /\ \A i \in 1 .. m : variables'[i] = IF i = v THEN x ELSE variables[i]
    BY <1>2, <1>4 DEF x
  <2> QED BY <1>1, <1>4, <2>1, <2>2, <2>3 DEF DeclaredTable
<1> QED BY <1>3, <1>4

LEMMA MergedNext ==
  ASSUME LinkTypeOK, walk = "linkage", at \in 1 .. Len(tree), at' = at + 1,
         walk' = walk, Kept, NEW d \in Node, d = tree[at], NEW n
  PROVE  /\ MergedOf(n)' = IF d.node = "declare" /\ n = d.name /\ SharedDeclaration(d)
                           THEN MergedOf(n) \cup {at} ELSE MergedOf(n)
         /\ \A k \in MergedOf(n) : k < at
<1>1. Shared(n)' = Shared(n) /\ Shared(n) \in SUBSET (1 .. Len(tree))
      /\ Len(tree) \in Nat /\ at \in Nat
  BY KeptSets, MergedSets, View
<1>2. LinkDone = at - 1 /\ LinkDone' = at
  BY <1>1 DEF LinkDone
<1>3. \A k \in Shared(n) : k \in Nat
  BY <1>1
<1>4. \A k \in Shared(n) : k =< at <=> k =< at - 1 \/ k = at
  BY <1>1, <1>3
<1>5. at \in Shared(n) <=> d.node = "declare" /\ n = d.name /\ SharedDeclaration(d)
  BY DEF Shared, Nodes, SharedDeclaration
<1> DEFINE S == Shared(n)
<1>6. MergedOf(n) = {k \in S : k =< at - 1} /\ MergedOf(n)' = {k \in S : k =< at}
  BY <1>1, <1>2 DEF MergedOf
<1>7. \A k \in MergedOf(n) : k < at
  BY <1>1, <1>3, <1>6
<1>8. MergedOf(n)' = IF at \in S THEN MergedOf(n) \cup {at} ELSE MergedOf(n)
  <2> HIDE DEF S
  <2>1. \A k \in S : k =< at <=> k =< at - 1 \/ k = at
    BY <1>4 DEF S
  <2>2. {k \in S : k =< at} = IF at \in S THEN {k \in S : k =< at - 1} \cup {at}
                              ELSE {k \in S : k =< at - 1}
    BY <2>1
  <2> QED BY <1>6, <2>2
<1> QED BY <1>5, <1>7, <1>8

\* The declaration is of another object than the one of this name.
LEMMA DeclaresOther ==
  ASSUME LinkTypeOK, at \in 1 .. Len(tree), NEW d \in Node, d = tree[at],
         NEW v \in 0 .. Len(variables), NEW s \in States, Declares(v, s),
         NEW n,
         v # 0 => variables[v].name = d.name,
         \/ n # d.name
         \/ v = 0 /\ ~ d.file /\ s.linkage # External
  PROVE  SameFileSymbols(n)
<1>1. PICK m : m = Len(variables)
  OBVIOUS
<1> DEFINE S == FileSymbols(n)
<1>2. /\ m \in Nat
      /\ \A i \in 1 .. m : i \in 1 .. Len(variables')
      /\ \A i \in 1 .. m : i # v => variables'[i] = variables[i]
      /\ v = 0 => /\ Len(variables') = m + 1
                  /\ variables'[m + 1].name = d.name
                  /\ variables'[m + 1].dscope =
                       (IF d.file \/ s.linkage = External THEN "file" ELSE "block")
      /\ v # 0 => /\ Len(variables') = m
                  /\ variables'[v].name = variables[v].name
  <2>1. DeclaredTable(d, v, s, m)
    BY <1>1, SymbolsAfterDeclares
  <2> QED BY <2>1 DEF DeclaredTable
<1>3. ASSUME NEW i \in S
      PROVE  i \in 1 .. m /\ variables'[i] = variables[i]
  <2>1. i \in 1 .. m /\ variables[i].name = n
    BY <1>1 DEF FileSymbols
  <2>2. i # v
    BY <1>2, <2>1
  <2> QED BY <1>2, <2>1, <2>2
<1>4. ASSUME NEW i \in FileSymbols(n)'
      PROVE  i \in S
  <2>1. i \in 1 .. Len(variables') /\ variables'[i].name = n /\ variables'[i].dscope = "file"
    BY DEF FileSymbols
  <2>2. i \in 1 .. m
    BY <1>2, <2>1
  <2>3. i # v
    BY <1>2, <2>1, <2>2
  <2>4. variables'[i] = variables[i]
    BY <1>2, <2>2, <2>3
  <2> QED BY <1>1, <2>1, <2>2, <2>4 DEF FileSymbols
<1>5. ASSUME NEW i \in S
      PROVE  i \in FileSymbols(n)'
  <2>1. i \in 1 .. m /\ variables'[i] = variables[i]
    BY <1>3
  <2>2. variables[i].name = n /\ variables[i].dscope = "file"
    BY DEF FileSymbols
  <2> QED BY <1>2, <2>1, <2>2 DEF FileSymbols
<1>6. FileSymbols(n)' = FileSymbols(n)
  BY <1>4, <1>5
<1> QED BY <1>3, <1>6 DEF SameFileSymbols

\* The object the declaration is of.
LEMMA DeclaresShared ==
  ASSUME LinkTypeOK, at \in 1 .. Len(tree), NEW d \in Node, d = tree[at],
         NEW v \in 0 .. Len(variables), NEW s \in States, Declares(v, s),
         SharedDeclaration(d), d.file \/ v # 0 \/ s.linkage = External,
         NEW H, H \in SUBSET (1 .. Len(tree)), H # {},
         StateIs(s, H), d.type = tree[First(H)].type,
         v = 0 => FileSymbols(d.name) = {},
         v # 0 => FileSymbols(d.name) = {v} /\ variables[v].type = d.type
  PROVE  \E i \in 1 .. Len(variables') :
           FileSymbols(d.name)' = {i} /\ VariableIs(variables[i], H)'
<1>1. PICK m : m = Len(variables)
  OBVIOUS
<1>2. /\ m \in Nat
      /\ \A i \in 1 .. m : i \in 1 .. Len(variables')
      /\ \A i \in 1 .. m : i # v => variables'[i] = variables[i]
      /\ v = 0 => /\ Len(variables') = m + 1
                  /\ variables'[m + 1].name = d.name
                  /\ variables'[m + 1].type = d.type
                  /\ variables'[m + 1].dscope =
                       (IF d.file \/ s.linkage = External THEN "file" ELSE "block")
                  /\ variables'[m + 1].linkage = s.linkage
                  /\ variables'[m + 1].initial = s.initial
                  /\ variables'[m + 1].init = s.init
      /\ v # 0 => /\ Len(variables') = m
                  /\ variables'[v].name = variables[v].name
                  /\ variables'[v].type = variables[v].type
                  /\ variables'[v].dscope = variables[v].dscope
                  /\ variables'[v].linkage = s.linkage
                  /\ variables'[v].initial = s.initial
                  /\ variables'[v].init = s.init
  <2>1. DeclaredTable(d, v, s, m)
    BY <1>1, SymbolsAfterDeclares
  <2> QED BY <2>1 DEF DeclaredTable
<1>3. PICK n : n = d.name
  OBVIOUS
<1> DEFINE j == IF v = 0 THEN m + 1 ELSE v
<1>4. PICK i : i = j
  OBVIOUS
<1>5. /\ i \in 1 .. Len(variables')
      /\ variables'[i].name = n /\ variables'[i].dscope = "file"
      /\ variables'[i].type = d.type /\ variables'[i].linkage = s.linkage
      /\ variables'[i].initial = s.initial /\ variables'[i].init = s.init
  <2>1. CASE v = 0
    BY <1>2, <1>3, <1>4, <2>1
  <2>2. CASE v # 0
    <3>1. variables[v].name = n /\ variables[v].dscope = "file"
      BY <1>3, <2>2 DEF FileSymbols
    <3> QED BY <1>1, <1>2, <1>3, <1>4, <2>2, <3>1
  <2> QED BY <2>1, <2>2
<1>6. FileSymbols(n)' = {i}
  <2>1. i \in FileSymbols(n)'
    BY <1>5 DEF FileSymbols
  <2>2. ASSUME NEW k \in FileSymbols(n)'
        PROVE  k = i
    <3>1. k \in 1 .. Len(variables') /\ variables'[k].name = n /\ variables'[k].dscope = "file"
      BY DEF FileSymbols
    <3>2. CASE k \in 1 .. m /\ k # v
      <4>1. variables'[k] = variables[k]
        BY <1>2, <3>2
      <4>2. k \in FileSymbols(n)
        BY <1>1, <3>1, <3>2, <4>1 DEF FileSymbols
      <4> QED BY <1>3, <3>2, <4>2
    <3>3. CASE ~ (k \in 1 .. m /\ k # v)
      <4>1. k = j
        BY <1>1, <1>2, <3>1, <3>3
      <4> QED BY <1>4, <4>1
    <3> QED BY <3>2, <3>3
  <2> QED BY <2>1, <2>2
<1>7. Kept
  BY DeclaresType
<1>8. /\ LinkageOf(H)' = LinkageOf(H) /\ InitialIn(H)' = InitialIn(H) /\ InitIn(H)' = InitIn(H)
      /\ tree'[First(H)].type = tree[First(H)].type
  BY <1>7, KeptLinkageOf, KeptInitial, KeptFirst
<1>9. First(H)' = First(H)
  BY DEF First
<1>10. VariableIs(variables[i], H)'
  BY <1>5, <1>8, <1>9 DEF VariableIs, StateIs
<1> QED BY <1>3, <1>5, <1>6, <1>10

(***************************************************************************)
(* A declaration meets its earlier ones, or a conflict with them.          *)
(***************************************************************************)
\* Past the walk over the functions, the table has them all.
LEMMA FunctionsKnown ==
  ASSUME LinkTypeOK, SignaturesOK, walk \in {"linkage", "mangle", "done"}, NEW n \in Name
  PROVE  IsFunction(n) <=> FunctionsOf(n) # {}
<1>1. /\ FunctionsOf(n) \in SUBSET (1 .. Len(tree)) /\ Len(tree) \in Nat
      /\ SigDone = Len(tree)
  BY SignedSets DEF SigDone
<1>2. SignedOf(n) = FunctionsOf(n)
  <2>1. \A k \in FunctionsOf(n) : k =< SigDone
    BY <1>1
  <2> QED BY <2>1 DEF SignedOf
<1>3. Signed(n, FunctionsOf(n))
  BY <1>2 DEF SignaturesOK
<1>4. FunctionSymbols(n) = {} <=> FunctionNamed(n) = 0
  BY FunctionNamedIs DEF FunctionSymbols
<1> QED BY <1>3, <1>4 DEF Signed, IsFunction

LEMMA FileVariableSoFar ==
  ASSUME LinkTypeOK, NEW n, NEW G, Merge(n, G)
  PROVE  /\ SoFar(FileVariable(n), G)
         /\ FileVariable(n) = 0 => FileSymbols(n) = {}
         /\ FileVariable(n) # 0 => FileSymbols(n) = {FileVariable(n)}
<1> DEFINE v == FileVariable(n)
<1>1. /\ v = 0 => FileSymbols(n) = {}
      /\ v # 0 => v \in FileSymbols(n) /\ v \in 1 .. Len(variables)
  BY FileVariableIs DEF FileSymbols
<1> HIDE DEF v
<1>2. v = 0 => G = {}
  BY <1>1 DEF Merge
<1>3. v # 0 => G # {} /\ FileSymbols(n) = {v} /\ VariableIs(variables[v], G)
  BY <1>1 DEF Merge
<1>4. SoFar(v, G)
  BY <1>1, <1>2, <1>3 DEF SoFar, Merge
<1> QED BY <1>1, <1>3, <1>4 DEF v

\* The conflict found is one of the program.
LEMMA DeclarationConflict ==
  ASSUME LinkTypeOK, SignaturesOK, MergesOK, LinkDeclaration,
         DeclarationRefused(tree[at], Earlier(tree[at]))
  PROVE  Illegal
<1>1. /\ Visits("linkage") /\ walk = "linkage" /\ at \in 1 .. Len(tree)
      /\ tree[at] \in Node /\ tree[at].node = "declare"
  BY AtDeclaration DEF Visits
<1>2. PICK d \in Node : d = tree[at]
  BY <1>1
<1>3. PICK n \in Name : n = d.name
  BY DEF Node
<1> DEFINE v == Earlier(d)
           G == MergedOf(n)
<1>4. at \in Nodes("declare")
  BY <1>1 DEF Nodes
<1>5. SharedDeclaration(d) => at \in Shared(n)
  BY <1>2, <1>3, <1>4 DEF Shared, SharedDeclaration
<1>6. DeclarationRefused(d, v)
  BY <1>2
<1>7. IsFunction(n) <=> FunctionsOf(n) # {}
  BY <1>1, FunctionsKnown
<1>8. SharedDeclaration(d) => v = FileVariable(n) /\ SoFar(v, G)
  <2>1. Merge(n, G)
    BY DEF MergesOK
  <2>2. SoFar(FileVariable(n), G)
    BY <2>1, FileVariableSoFar
  <2> QED BY <1>3, <2>2, EarlierIs DEF SharedDeclaration
<1>9. ~ SharedDeclaration(d) => v = 0
  BY DEF Earlier, SharedDeclaration
<1>10. /\ G \in SUBSET Shared(n) /\ G \in SUBSET (1 .. Len(tree)) /\ LinkDone = at - 1
       /\ Shared(n) \in SUBSET (1 .. Len(tree)) /\ Len(tree) \in Nat /\ LinkDone \in Nat
  BY <1>1, MergedSets DEF LinkDone
<1>11. \A k \in G : k < at
  BY <1>1, <1>10 DEF MergedOf
<1>12. G # {} => First(G) \in G /\ First(G) = First(Shared(n))
  <2> SUFFICES ASSUME G # {} PROVE First(G) \in G /\ First(G) = First(Shared(n))
    OBVIOUS
  <2>1. First(G) = First(Shared(n))
    BY <1>10, FirstOfSome DEF MergedOf
  <2> HIDE DEF G
  <2> QED BY <1>10, <2>1, FirstIs
<1>13. OneMore(G)
  BY <1>1, <1>10, <1>11 DEF OneMore
<1> HIDE DEF G, v
<1>14. SharedDeclaration(d) /\ v # 0 =>
          /\ G # {} /\ variables[v].type = tree[First(G)].type
          /\ variables[v].linkage = LinkageOf(G) /\ variables[v].initial = InitialIn(G)
  BY <1>8, <1>13, SoFarSymbol
<1>15. CASE v # 0 /\ variables[v].type # d.type
  <2>1. SharedDeclaration(d)
    BY <1>9, <1>15
  <2>2. /\ at \in Shared(n) /\ First(G) \in Shared(n)
        /\ tree[First(G)].type # tree[at].type
    BY <1>2, <1>5, <1>10, <1>12, <1>14, <1>15, <2>1
  <2>3. IllegalVariables(n)
    BY <2>2 DEF IllegalVariables
  <2> QED BY <2>3 DEF Illegal
<1>16. CASE d.file /\ FileRefused(d, v)
  <2>1. SharedDeclaration(d) /\ at \in Shared(n) /\ tree[at].file
    BY <1>2, <1>5, <1>16 DEF SharedDeclaration
  <2>2. CASE d.init = "expression"
    <3>1. IllegalVariables(n)
      BY <1>2, <2>1, <2>2 DEF IllegalVariables
    <3> QED BY <3>1 DEF Illegal
  <2>3. CASE IsFunction(d.name)
    <3>1. IllegalVariables(n)
      BY <1>3, <1>7, <2>1, <2>3 DEF IllegalVariables
    <3> QED BY <3>1 DEF Illegal
  <2>4. CASE v # 0 /\ d.spec # "extern" /\ OwnLinkage(d) # variables[v].linkage
    <3>1. First(G) = First(Shared(n)) /\ variables[v].linkage = LinkageOf(G)
      BY <1>12, <1>14, <2>1, <2>4
    <3>2. IsStatic(at) # IsStatic(First(G))
      BY <1>2, <2>4, <3>1 DEF LinkageOf, IsStatic, OwnLinkage, Internal, External
    <3>3. IllegalVariables(n)
      BY <1>2, <2>1, <2>4, <3>1, <3>2 DEF IllegalVariables
    <3> QED BY <3>3 DEF Illegal
  <2>5. CASE v # 0 /\ d.init = "constant" /\ variables[v].initial = Constant
    <3>1. ConstantsIn(G) # {}
      BY <1>14, <2>1, <2>5 DEF InitialIn, Constant, NoInitializer, Tentative
    <3>2. PICK j \in ConstantsIn(G) : TRUE
      BY <3>1
    <3>3. j \in G /\ tree[j].init = "constant"
      BY <3>2 DEF ConstantsIn
    <3>4. j \in Constants(n) /\ j < at
      BY <1>10, <1>11, <3>3 DEF Constants
    <3>5. at \in Constants(n)
      BY <1>2, <2>1, <2>5 DEF Constants
    <3>6. j # at
      BY <1>1, <3>4
    <3>7. IllegalVariables(n)
      BY <3>4, <3>5, <3>6 DEF IllegalVariables
    <3> QED BY <3>7 DEF Illegal
  <2> QED BY <1>16, <2>2, <2>3, <2>4, <2>5 DEF FileRefused
<1>17. CASE ~ d.file /\ BlockRefused(d)
  <2>1. CASE d.spec = "extern"
    <3>1. at \in Shared(n) /\ ~ tree[at].file
      BY <1>2, <1>5, <1>17, <2>1 DEF SharedDeclaration
    <3>2. tree[at].init # "none" \/ FunctionsOf(n) # {}
      BY <1>2, <1>3, <1>7, <1>17, <2>1 DEF BlockRefused
    <3>3. IllegalVariables(n)
      BY <3>1, <3>2 DEF IllegalVariables
    <3> QED BY <3>3 DEF Illegal
  <2>2. CASE d.spec # "extern"
    <3>1. IllegalStatic(at)
      BY <1>2, <1>17, <2>2 DEF IllegalStatic, IsStatic, BlockRefused
    <3> QED BY <1>4, <3>1 DEF Illegal
  <2> QED BY <2>1, <2>2
<1> QED BY <1>6, <1>15, <1>16, <1>17 DEF DeclarationRefused

\* What the tree says of an initializer, once the walk is past it.
InitRuns(d) == d.init # "none" => (d.cut <=> d.ltype # NoLinkage)

\* What is known once the declaration has been accepted.
LEMMA DeclarationMerges ==
  ASSUME LinkTypeOK, SignaturesOK, MergesOK, LinkDeclaration,
         NEW d \in Node, d = tree[at], NEW v, v = Earlier(d), NEW s, s = DeclaredState(d, v),
         ~ DeclarationRefused(d, v)
  PROVE  /\ v # 0 => variables[v].name = d.name
         /\ IF SharedDeclaration(d)
            THEN /\ LET H == MergedOf(d.name) \cup {at}
                    IN  StateIs(s, H) /\ VariablesAgree(H) /\ d.type = tree[First(H)].type
                 /\ FunctionsOf(d.name) = {}
                 /\ d.file \/ v # 0 \/ s.linkage = External
                 /\ v = 0 => FileSymbols(d.name) = {}
                 /\ v # 0 => FileSymbols(d.name) = {v} /\ variables[v].type = d.type
            ELSE v = 0 /\ ~ d.file /\ s.linkage # External
         /\ InitRuns(Linked(d, s.linkage, InitMoves(d)))
         /\ ~ IllegalStatic(at)
<1>1. /\ Visits("linkage") /\ walk = "linkage" /\ at \in 1 .. Len(tree)
      /\ tree[at] \in Node /\ tree[at].node = "declare"
      /\ v \in 0 .. Len(variables) /\ s \in States
  BY AtDeclaration DEF Visits
<1>2. PICK n \in Name : n = d.name
  BY DEF Node
<1>3. PICK G : G = MergedOf(n)
  OBVIOUS
<1>4. v # 0 => SharedDeclaration(d) /\ variables[v].name = d.name
  BY EarlierIs DEF SharedDeclaration
<1>5. /\ ~ IF d.file THEN FileRefused(d, v) ELSE BlockRefused(d)
      /\ v # 0 => variables[v].type = d.type
  BY DEF DeclarationRefused
<1>6. d.file \in BOOLEAN /\ d.spec \in Specifiers /\ d.init \in {"none", "constant", "expression"}
      /\ InitMoves(d) \in BOOLEAN /\ s.linkage \in Linkage
  BY <1>1 DEF Node, InitMoves, States
<1>7. s = IF d.file THEN FileState(d, v) ELSE BlockState(d, v)
  BY DEF DeclaredState
<1>8. ~ IllegalStatic(at)
  BY <1>5 DEF IllegalStatic, IsStatic, BlockRefused
<1>9. Linked(d, s.linkage, InitMoves(d)).ltype = s.linkage
      /\ (Linked(d, s.linkage, InitMoves(d)).cut <=> InitMoves(d))
      /\ Linked(d, s.linkage, InitMoves(d)).init = d.init
  <2>1. PICK c \in BOOLEAN : c = InitMoves(d)
    BY <1>6
  <2>2. Linked(d, s.linkage, c).ltype = s.linkage /\ Linked(d, s.linkage, c).cut = c
        /\ SameSource(Linked(d, s.linkage, c), d)
    BY <1>6, LinkedNode
  <2> QED BY <2>1, <2>2 DEF SameSource
<1>10. CASE SharedDeclaration(d)
  <2>1. Merge(n, G)
    BY <1>3 DEF MergesOK
  <2>2. v = FileVariable(n)
    BY <1>2, <1>10, EarlierIs DEF SharedDeclaration
  <2>3. SoFar(v, G) /\ (v = 0 => FileSymbols(n) = {}) /\ (v # 0 => FileSymbols(n) = {v})
    BY <2>1, <2>2, FileVariableSoFar
  <2>4. OneMore(G)
    <3>1. G \in SUBSET (1 .. Len(tree)) /\ Len(tree) \in Nat /\ LinkDone = at - 1
      BY <1>1, <1>3, MergedSets DEF LinkDone
    <3>2. \A k \in G : k < at
      BY <1>1, <1>3, <3>1 DEF MergedOf
    <3> QED BY <1>1, <3>1, <3>2 DEF OneMore
  <2>5. StateIs(s, G \cup {at}) /\ VariablesAgree(G \cup {at})
    <3>1. CASE d.file
      BY <1>5, <1>7, <2>3, <2>4, <3>1, FileDeclared
    <3>2. CASE ~ d.file
      <4>1. tree[at].spec = "extern"
        BY <1>10, <3>2 DEF SharedDeclaration
      <4> QED BY <1>5, <1>7, <2>3, <2>4, <3>2, <4>1, BlockDeclared
    <3> QED BY <3>1, <3>2
  <2>6. d.type = tree[First(G \cup {at})].type
    BY <2>5 DEF VariablesAgree
  <2>7. FunctionsOf(n) = {}
    <3>1. ~ IsFunction(n)
      BY <1>2, <1>5, <1>10 DEF SharedDeclaration, FileRefused, BlockRefused
    <3> QED BY <1>1, <3>1, FunctionsKnown
  <2>8. s.linkage \in {Internal, External}
    BY <2>5, LinkageIsStatic DEF StateIs
  <2>9. d.file \/ v # 0 \/ s.linkage = External
    <3> SUFFICES ASSUME ~ d.file, v = 0 PROVE s.linkage = External
      OBVIOUS
    <3>1. s = State(External, NoInitializer, 0)
      BY <1>7, <1>10 DEF SharedDeclaration, BlockState
    <3> QED BY <3>1 DEF State
  <2>10. InitRuns(Linked(d, s.linkage, InitMoves(d)))
    <3>1. d.init # "none" => d.file /\ d.init = "constant"
      BY <1>5, <1>6, <1>10 DEF SharedDeclaration, FileRefused, BlockRefused
    <3>2. d.init # "none" => InitMoves(d) /\ s.linkage # NoLinkage
      BY <2>8, <3>1 DEF InitMoves, Internal, External, NoLinkage
    <3> QED BY <1>9, <3>2 DEF InitRuns
  <2> QED BY <1>2, <1>3, <1>4, <1>5, <1>8, <1>10, <2>3, <2>5, <2>6, <2>7, <2>9, <2>10
<1>11. CASE ~ SharedDeclaration(d)
  <2>1. v = 0 /\ ~ d.file /\ d.spec # "extern"
    BY <1>4, <1>11 DEF SharedDeclaration
  <2>2. /\ d.spec = "static" => s.linkage = Internal
        /\ d.spec = "none" => s.linkage = NoLinkage
    BY <1>7, <2>1 DEF BlockState, State
  <2>3. s.linkage # External
    BY <1>6, <2>1, <2>2 DEF Specifiers, Internal, External, NoLinkage
  <2>4. InitRuns(Linked(d, s.linkage, InitMoves(d)))
    <3>1. d.spec = "static" => d.init # "expression"
      BY <1>5, <2>1 DEF BlockRefused
    <3>2. d.init # "none" => (InitMoves(d) <=> s.linkage # NoLinkage)
      BY <1>6, <2>1, <2>2, <3>1 DEF InitMoves, Internal, NoLinkage, Specifiers
    <3> QED BY <1>9, <3>2 DEF InitRuns
  <2> QED BY <1>4, <1>8, <1>11, <2>1, <2>3, <2>4
<1> QED BY <1>10, <1>11

LEMMA DeclaredMerges ==
  ASSUME LinkTypeOK, SignaturesOK, MergesOK, LinkDeclaration,
         NEW d \in Node, d = tree[at], NEW v \in 0 .. Len(variables), v = Earlier(d),
         NEW s \in States, s = DeclaredState(d, v), ~ DeclarationRefused(d, v), Declares(v, s),
         NEW n \in Name
  PROVE  Merge(n, MergedOf(n))'
<1>1. /\ walk = "linkage" /\ walk' = walk /\ at \in 1 .. Len(tree) /\ at' = at + 1
      /\ d.node = "declare"
  BY AtDeclaration DEF Visits, Declares, Pass
<1>2. Kept
  BY <1>1, DeclaresType
<1>3. PICK G : G = MergedOf(n)
  OBVIOUS
<1>4. Merge(n, G)
  BY <1>3 DEF MergesOK
<1>5. /\ v # 0 => variables[v].name = d.name
      /\ IF SharedDeclaration(d)
         THEN /\ LET H == MergedOf(d.name) \cup {at}
                 IN  StateIs(s, H) /\ VariablesAgree(H) /\ d.type = tree[First(H)].type
              /\ FunctionsOf(d.name) = {}
              /\ d.file \/ v # 0 \/ s.linkage = External
              /\ v = 0 => FileSymbols(d.name) = {}
              /\ v # 0 => FileSymbols(d.name) = {v} /\ variables[v].type = d.type
         ELSE v = 0 /\ ~ d.file /\ s.linkage # External
  BY DeclarationMerges
<1>6. MergedOf(n)' = IF n = d.name /\ SharedDeclaration(d) THEN G \cup {at} ELSE G
  BY <1>1, <1>2, <1>3, MergedNext
<1>7. CASE n = d.name /\ SharedDeclaration(d)
  <2>1. PICK H : H = G \cup {at}
    OBVIOUS
  <2>2. /\ StateIs(s, H) /\ VariablesAgree(H) /\ d.type = tree[First(H)].type
        /\ FunctionsOf(n) = {} /\ (d.file \/ v # 0 \/ s.linkage = External)
        /\ v = 0 => FileSymbols(d.name) = {}
        /\ v # 0 => FileSymbols(d.name) = {v} /\ variables[v].type = d.type
    BY <1>3, <1>5, <1>7, <2>1
  <2>3. H \in SUBSET (1 .. Len(tree)) /\ H # {}
    BY <1>1, <1>3, <2>1, MergedSets
  <2>4. \E i \in 1 .. Len(variables') :
           FileSymbols(d.name)' = {i} /\ VariableIs(variables[i], H)'
    BY <1>1, <1>7, <2>2, <2>3, DeclaresShared
  <2>5. VariablesAgree(H)'
    BY <1>2, <2>2, <2>3, KeptAgree
  <2>6. FunctionsOf(n)' = {}
    BY <1>2, <2>2, KeptSets
  <2>7. PICK i \in 1 .. Len(variables') :
          FileSymbols(n)' = {i} /\ VariableIs(variables[i], H)'
    BY <1>7, <2>4
  <2>8. Merge(n, H)'
    BY <2>3, <2>5, <2>6, <2>7 DEF Merge
  <2>9. MergedOf(n)' = H
    BY <1>6, <1>7, <2>1
  <2> QED BY <2>8, <2>9
<1>8. CASE ~ (n = d.name /\ SharedDeclaration(d))
  <2>1. MergedOf(n)' = MergedOf(n)
    BY <1>3, <1>6, <1>8
  <2>2. n # d.name \/ (v = 0 /\ ~ d.file /\ s.linkage # External)
    BY <1>5, <1>8
  <2>3. SameFileSymbols(n)
    BY <1>1, <1>5, <2>2, DeclaresOther
  <2> QED BY <1>2, <1>3, <1>4, <2>1, <2>3, MergeKept
<1> QED BY <1>7, <1>8

LEMMA SameSymbols ==
  ASSUME UNCHANGED variables, NEW n
  PROVE  SameFileSymbols(n)
  BY DEF SameFileSymbols, FileSymbols

\* A step that does not come to a declaration leaves what is known.
LEMMA MergesStay ==
  ASSUME LinkTypeOK, MergesOK, Kept, UNCHANGED <<walk, variables>>,
         walk \in {"linkage", "mangle"}, at \in 1 .. Len(tree), at' = at + 1,
         walk = "linkage" => tree[at].node # "declare"
  PROVE  MergesOK'
<1> SUFFICES ASSUME NEW n \in Name PROVE Merge(n, MergedOf(n))'
  BY DEF MergesOK
<1>1. tree[at] \in Node
  BY View
<1>2. MergedOf(n)' = MergedOf(n)
  <2>1. CASE walk = "linkage"
    <3>1. PICK d \in Node : d = tree[at]
      BY <1>1
    <3> QED BY <2>1, <3>1, MergedNext
  <2>2. CASE walk = "mangle"
    BY <2>2, KeptSets DEF MergedOf, LinkDone, Kept
  <2> QED BY <2>1, <2>2
<1>3. Merge(n, MergedOf(n))
  BY DEF MergesOK
<1> QED BY <1>2, <1>3, SameSymbols, MergeKept

\* A new name for a variable says nothing else of it.
LEMMA ManglingSymbols ==
  ASSUME LinkTypeOK, at \in 1 .. Len(tree), NEW v \in 0 .. Len(variables), Mangling(v)
  PROVE  /\ Len(variables') = Len(variables)
         /\ \A i \in 1 .. Len(variables) :
              /\ variables'[i].name = variables[i].name
              /\ variables'[i].dscope = variables[i].dscope
              /\ variables'[i].type = variables[i].type
              /\ variables'[i].unique = variables[i].unique
              /\ variables'[i].linkage = variables[i].linkage
              /\ variables'[i].initial = variables[i].initial
              /\ variables'[i].init = variables[i].init
<1>1. CASE Mangles(v)
  <2>1. v \in 1 .. Len(variables) /\ variables[v] \in VariableSymbol
    BY <1>1, View DEF Mangles
  <2> DEFINE b == Mangled(variables[v])
             x == Relabelled(variables[v], b)
  <2>2. b \in Seq(Name \cup Nat)
    BY <2>1, MangledType
  <2> HIDE DEF b
  <2>3. /\ x \in VariableSymbol
        /\ x.name = variables[v].name /\ x.dscope = variables[v].dscope
        /\ x.type = variables[v].type /\ x.unique = variables[v].unique
        /\ x.linkage = variables[v].linkage
        /\ x.initial = variables[v].initial /\ x.init = variables[v].init
    BY <2>1, <2>2, RelabelledSymbol
  <2>4. variables' = [variables EXCEPT ![v] = x]
    BY <1>1 DEF Mangling, b
  <2> HIDE DEF x
  <2>5. /\ Len(variables') = Len(variables)
        /\ \A i \in 1 .. Len(variables) : variables'[i] = IF i = v THEN x ELSE variables[i]
    BY <2>1, <2>3, <2>4, SetVariable
  <2> QED BY <2>3, <2>5
<1>2. CASE ~ Mangles(v)
  BY <1>2 DEF Mangling
<1> QED BY <1>1, <1>2

LEMMA ManglingMerges ==
  ASSUME LinkTypeOK, MergesOK, MangleDeclaration
  PROVE  MergesOK' /\ Kept
<1> DEFINE v == WithId(tree[at].id)
<1>1. at \in 1 .. Len(tree) /\ v \in 0 .. Len(variables) /\ Visits("mangle")
  BY Entered, WithIdIs, View DEF MangleDeclaration
<1>2. Mangling(v)
  BY MangleView
<1> HIDE DEF v
<1>3. Kept
  BY <1>1, <1>2, ManglingType
<1>4. LinkDone' = LinkDone
  BY <1>1, <1>2, <1>3 DEF LinkDone, Visits, Mangling, Pass, Kept
<1>5. /\ Len(variables') = Len(variables)
      /\ \A i \in 1 .. Len(variables) :
           /\ variables'[i].name = variables[i].name
           /\ variables'[i].dscope = variables[i].dscope
           /\ variables'[i].type = variables[i].type
           /\ variables'[i].linkage = variables[i].linkage
           /\ variables'[i].initial = variables[i].initial
           /\ variables'[i].init = variables[i].init
  BY <1>1, <1>2, ManglingSymbols
<1>6. \A n \in Name : SameFileSymbols(n)
  BY <1>5 DEF SameFileSymbols, FileSymbols
<1> QED BY <1>3, <1>4, <1>6, MergesKept

LEMMA InitMerges == LinkInit => MergesOK
<1> SUFFICES ASSUME LinkInit PROVE MergesOK
  OBVIOUS
<1>1. LinkTypeOK
  BY InitBase DEF LinkBase
<1>2. LinkDone = 0 /\ variables = <<>>
  BY DEF LinkInit, LinkDone
<1> QED BY <1>1, <1>2, NothingMerged

LEMMA NextMerges ==
  LinkBase /\ SignaturesOK /\ MergesOK /\ LinkBase' /\ [LinkNext]_linkVars => MergesOK'
<1> SUFFICES ASSUME LinkBase, SignaturesOK, MergesOK, LinkBase', [LinkNext]_linkVars
             PROVE  MergesOK'
  OBVIOUS
<1>1. LinkTypeOK /\ Walks /\ LinkTypeOK' /\ Walks'
  BY DEF LinkBase
<1>2. Steps
  BY StepsAre
<1>3. ASSUME walk' \in {"parse", "usage", "signatures"} PROVE MergesOK'
  <2>1. (LinkDone = 0)' /\ (variables = <<>>)'
    BY <1>1, <1>3 DEF LinkDone, Walks
  <2> QED BY <1>1, <2>1, NothingMergedNext
<1>4. CASE Signature
  <2>1. walk' = "signatures"
    BY <1>4 DEF Signature, Visits, Refuse, Pass
  <2> QED BY <1>3, <2>1
<1>5. CASE LinkDeclaration
  <2>1. PICK d \in Node : d = tree[at]
    BY <1>1, <1>5, AtDeclaration
  <2>2. PICK v \in 0 .. Len(variables) : v = Earlier(d)
    BY <1>1, <1>5, <2>1, AtDeclaration
  <2>3. PICK s \in States : s = DeclaredState(d, v)
    BY <1>1, <1>5, <2>1, <2>2, AtDeclaration
  <2>4. \/ DeclarationRefused(d, v) /\ Refuse
        \/ ~ DeclarationRefused(d, v) /\ Declares(v, s)
    BY <1>1, <1>5, <2>1, <2>2, <2>3, DeclarationView
  <2>5. CASE Refuse
    <3>1. UNCHANGED <<tree, walk, at, variables>>
      BY <2>5 DEF Refuse
    <3>2. LinkDone' = LinkDone
      BY <3>1 DEF LinkDone
    <3> QED BY <1>1, <3>1, <3>2, SameTree, SameSymbols, MergesKept
  <2>6. CASE ~ DeclarationRefused(d, v) /\ Declares(v, s)
    <3>1. \A n \in Name : Merge(n, MergedOf(n))'
      BY <1>1, <1>5, <2>1, <2>2, <2>3, <2>6, DeclaredMerges
    <3> QED BY <3>1 DEF MergesOK
  <2> QED BY <2>4, <2>5, <2>6
<1>6. CASE LinkUsage \/ MangleUsage
  <2>1. /\ Kept /\ UNCHANGED walk /\ walk \in {"linkage", "mangle"}
        /\ at \in 1 .. Len(tree) /\ verdict = "ok"
        /\ verdict' = "ok" => at' = at + 1
    BY <1>6, LaterSteps
  <2>2. UNCHANGED <<verdict, variables>>
    BY <1>6 DEF LinkUsage, MangleUsage, Pass
  <2>3. walk = "linkage" => tree[at].node # "declare"
    BY <1>6 DEF LinkUsage, MangleUsage, Visits, Here
  <2> QED BY <1>1, <2>1, <2>2, <2>3, MergesStay
<1>7. CASE MangleDeclaration
  BY <1>1, <1>7, ManglingMerges
<1>8. CASE /\ EndWalk("signatures", "linkage") \/ EndWalk("linkage", "mangle")
                \/ EndWalk("mangle", "done")
           /\ UNCHANGED <<tree, functions, variables, verdict>>
  <2>1. Len(tree) \in Nat
    BY <1>1, View
  <2>2. CASE EndWalk("linkage", "mangle")
    <3>1. LinkDone = Len(tree) /\ LinkDone' = Len(tree)
      BY <2>1, <2>2 DEF EndWalk, LinkDone
    <3> QED BY <1>1, <1>8, <3>1, SameTree, SameSymbols, MergesKept
  <2>3. LinkDone' = LinkDone \/ EndWalk("linkage", "mangle")
    BY <1>8 DEF EndWalk, LinkDone
  <2> QED BY <1>1, <1>8, <2>2, <2>3, SameTree, SameSymbols, MergesKept
<1>9. CASE /\ PassBy /\ at \in 1 .. Len(tree) /\ at' = at + 1
           /\ UNCHANGED <<tree, walk, functions, variables, verdict>>
  <2>1. CASE walk = "signatures"
    BY <1>3, <1>9, <2>1
  <2>2. CASE walk # "signatures"
    <3>1. walk \in {"linkage", "mangle"} /\ tree[at].node # "declare"
      BY <1>9, <2>2 DEF PassBy, Visits, Here
    <3> QED BY <1>1, <1>9, <3>1, SameTree, MergesStay
  <2> QED BY <2>1, <2>2
<1>10. CASE UNCHANGED <<tree, walk, at, functions, variables, verdict>>
  <2>1. LinkDone' = LinkDone
    BY <1>10 DEF LinkDone
  <2> QED BY <1>1, <1>10, <2>1, SameTree, SameSymbols, MergesKept
<1> QED BY <1>2, <1>3, <1>4, <1>5, <1>6, <1>7, <1>8, <1>9, <1>10 DEF Steps

(***************************************************************************)
(* Each declaration the walk is past, and what a refusal is due to.        *)
(***************************************************************************)
DeclaresOK ==
  \A k \in Nodes("declare") : k =< LinkDone => InitRuns(tree[k]) /\ ~ IllegalStatic(k)

SameRun(e, d) == e.cut = d.cut /\ e.ltype = d.ltype

LEMMA DeclareKept ==
  ASSUME LinkTypeOK, Kept, NEW k \in 1 .. Len(tree), SameRun(tree'[k], tree[k]),
         InitRuns(tree[k]) /\ ~ IllegalStatic(k)
  PROVE  InitRuns(tree'[k]) /\ ~ IllegalStatic(k)'
<1>1. /\ tree'[k].init = tree[k].init /\ tree'[k].file = tree[k].file
      /\ tree'[k].spec = tree[k].spec
  BY KeptNodes
<1> QED BY <1>1 DEF InitRuns, IllegalStatic, IsStatic, SameRun

\* A step that comes to no declaration, or the walk to its next one.
LEMMA DeclaresKept ==
  ASSUME LinkTypeOK, DeclaresOK, Kept,
         \A k \in Nodes("declare") :
           k =< LinkDone' => \/ k =< LinkDone /\ SameRun(tree'[k], tree[k])
                             \/ InitRuns(tree'[k]) /\ ~ IllegalStatic(k)'
  PROVE  DeclaresOK'
<1>1. Nodes("declare")' = Nodes("declare") /\ Nodes("declare") \in SUBSET (1 .. Len(tree))
  BY KeptNodes DEF Nodes, Kept
<1> SUFFICES ASSUME NEW k \in Nodes("declare"), k =< LinkDone'
             PROVE  InitRuns(tree'[k]) /\ ~ IllegalStatic(k)'
  BY <1>1 DEF DeclaresOK
<1>2. CASE k =< LinkDone /\ SameRun(tree'[k], tree[k])
  <2>1. k \in 1 .. Len(tree) /\ InitRuns(tree[k]) /\ ~ IllegalStatic(k)
    BY <1>1, <1>2 DEF DeclaresOK
  <2> QED BY <1>2, <2>1, DeclareKept
<1> QED BY <1>2

LEMMA DeclaresStep ==
  ASSUME LinkBase, SignaturesOK, MergesOK, DeclaresOK, LinkDeclaration
  PROVE  DeclaresOK'
<1>1. LinkTypeOK
  BY DEF LinkBase
<1>2. PICK d \in Node : d = tree[at]
  BY <1>1, AtDeclaration
<1>3. PICK v \in 0 .. Len(variables) : v = Earlier(d)
  BY <1>1, <1>2, AtDeclaration
<1>4. PICK s \in States : s = DeclaredState(d, v)
  BY <1>1, <1>2, <1>3, AtDeclaration
<1>5. \/ DeclarationRefused(d, v) /\ Refuse
      \/ ~ DeclarationRefused(d, v) /\ Declares(v, s)
  BY <1>1, <1>2, <1>3, <1>4, DeclarationView
<1>6. CASE Refuse
  <2>1. UNCHANGED <<tree, walk, at>>
    BY <1>6 DEF Refuse
  <2>2. LinkDone' = LinkDone
    BY <2>1 DEF LinkDone
  <2> QED BY <1>1, <2>1, <2>2, SameTree, DeclaresKept DEF SameRun
<1>7. CASE ~ DeclarationRefused(d, v) /\ Declares(v, s)
  <2>1. at \in 1 .. Len(tree) /\ walk = "linkage" /\ walk' = walk /\ at' = at + 1
    BY <1>1, <1>7, AtDeclaration DEF Visits, Declares, Pass
  <2>2. PICK e : e = Linked(d, s.linkage, InitMoves(d))
    OBVIOUS
  <2>3. Kept /\ \A k \in 1 .. Len(tree) : tree'[k] = IF k = at THEN e ELSE tree[k]
    BY <1>1, <1>2, <1>7, <2>1, <2>2, DeclaresType
  <2>4. InitRuns(e) /\ ~ IllegalStatic(at)
    BY <1>1, <1>2, <1>3, <1>4, <1>7, <2>2, DeclarationMerges
  <2>5. PICK x : x = at
    OBVIOUS
  <2>51. ~ IllegalStatic(x)'
    <3>1. /\ tree'[x].file = tree[x].file /\ tree'[x].spec = tree[x].spec
          /\ tree'[x].init = tree[x].init
      BY <2>1, <2>3, <2>5, KeptNodes
    <3> QED BY <2>4, <2>5, <3>1 DEF IllegalStatic, IsStatic
  <2>6. LinkDone = at - 1 /\ LinkDone' = at /\ at \in Nat
    BY <1>1, <2>1, View DEF LinkDone
  <2>7. ASSUME NEW k \in Nodes("declare"), k =< LinkDone'
        PROVE  \/ k =< LinkDone /\ SameRun(tree'[k], tree[k])
               \/ InitRuns(tree'[k]) /\ ~ IllegalStatic(k)'
    <3>1. k \in 1 .. Len(tree) /\ k \in Nat
      BY DEF Nodes
    <3>2. CASE k = at
      BY <2>1, <2>3, <2>4, <2>5, <2>51, <3>2
    <3>3. CASE k # at
      BY <2>3, <2>6, <2>7, <3>1, <3>3 DEF SameRun
    <3> QED BY <3>2, <3>3
  <2> QED BY <1>1, <2>3, <2>7, DeclaresKept
<1> QED BY <1>5, <1>6, <1>7

\* The walks leave alone what the tree says of linkage.
LEMMA LaterRuns ==
  ASSUME LinkBase, LinkUsage \/ MangleDeclaration \/ MangleUsage
  PROVE  \A k \in Nodes("declare") : SameRun(tree'[k], tree[k])
<1> SUFFICES ASSUME NEW k \in Nodes("declare") PROVE SameRun(tree'[k], tree[k])
  OBVIOUS
<1>1. LinkTypeOK /\ k \in 1 .. Len(tree) /\ tree[k].node = "declare" /\ tree[k] \in Node
  BY View DEF LinkBase, Nodes
<1>2. CASE LinkUsage
  <2> DEFINE v == WithId(tree[at].id)
  <2>1. at \in 1 .. Len(tree) /\ k # at
    BY <1>1, <1>2, Entered DEF LinkUsage
  <2>2. UsesSymbol(v)
    BY <1>1, <1>2, LinkUsageView
  <2> HIDE DEF v
  <2>3. tree'[k] = tree[k]
    BY <1>1, <2>1, <2>2 DEF UsesSymbol, LinkTypeOK
  <2> QED BY <2>3 DEF SameRun
<1>3. CASE MangleUsage
  <2> DEFINE v == WithId(tree[at].id)
  <2>1. at \in 1 .. Len(tree) /\ k # at
    BY <1>1, <1>3, Entered DEF MangleUsage
  <2>2. Naming(v)
    BY <1>1, <1>3, MangleUsageView
  <2> HIDE DEF v
  <2>3. tree'[k] = tree[k]
    BY <1>1, <2>1, <2>2 DEF Naming, LinkTypeOK
  <2> QED BY <2>3 DEF SameRun
<1>4. CASE MangleDeclaration
  <2> DEFINE v == WithId(tree[at].id)
             b == Mangled(variables[v])
             e == Relabelled(tree[at], b)
  <2>1. at \in 1 .. Len(tree) /\ v \in 0 .. Len(variables) /\ tree[at] \in Node
    BY <1>1, <1>4, Entered, WithIdIs, View DEF MangleDeclaration
  <2>2. Mangling(v)
    BY <1>1, <1>4, MangleView
  <2>3. CASE Mangles(v)
    <3>1. variables[v] \in VariableSymbol
      BY <1>1, <2>1, <2>3, View DEF Mangles
    <3>2. b \in Seq(Name \cup Nat)
      BY <3>1, MangledType
    <3>3. tree' = [tree EXCEPT ![at] = e]
      BY <2>2, <2>3 DEF Mangling
    <3> HIDE DEF b
    <3>4. e.cut = tree[at].cut /\ e.ltype = tree[at].ltype
      BY <2>1, <3>2, RelabelledNode
    <3> HIDE DEF e
    <3>5. tree'[k] = IF k = at THEN e ELSE tree[k]
      BY <1>1, <2>1, <3>3 DEF LinkTypeOK
    <3> QED BY <3>4, <3>5 DEF SameRun
  <2>4. CASE ~ Mangles(v)
    BY <2>2, <2>4 DEF Mangling, SameRun
  <2> QED BY <2>3, <2>4
<1> QED BY <1>2, <1>3, <1>4

LEMMA NothingDeclared == LinkDone = 0 => DeclaresOK
<1>1. \A k \in Nodes("declare") : ~ (k =< 0)
  BY DEF Nodes
<1> QED BY <1>1 DEF DeclaresOK

LEMMA NothingDeclaredNext == (LinkDone = 0)' => DeclaresOK'
  BY NothingDeclared, PTL

LEMMA NextDeclares ==
  LinkBase /\ SignaturesOK /\ MergesOK /\ DeclaresOK /\ LinkBase' /\ [LinkNext]_linkVars
    => DeclaresOK'
<1> SUFFICES ASSUME LinkBase, SignaturesOK, MergesOK, DeclaresOK, LinkBase', [LinkNext]_linkVars
             PROVE  DeclaresOK'
  OBVIOUS
<1>1. LinkTypeOK /\ LinkTypeOK'
  BY DEF LinkBase
<1>2. Steps
  BY StepsAre
<1>3. ASSUME LinkDone' = 0 PROVE DeclaresOK'
  BY <1>3, NothingDeclaredNext
<1>4. ASSUME UNCHANGED tree, LinkDone' = LinkDone PROVE DeclaresOK'
  BY <1>1, <1>4, SameTree, DeclaresKept DEF SameRun
<1>5. CASE walk' \in {"parse", "usage", "signatures"}
  BY <1>3, <1>5 DEF LinkDone
<1>6. CASE Signature
  <2>1. walk' = "signatures"
    BY <1>6 DEF Signature, Visits, Refuse, Pass
  <2> QED BY <1>5, <2>1
<1>7. CASE LinkDeclaration
  BY <1>7, DeclaresStep
<1>8. CASE LinkUsage \/ MangleDeclaration \/ MangleUsage
  <2>1. /\ Kept /\ UNCHANGED walk /\ walk \in {"linkage", "mangle"}
        /\ at \in 1 .. Len(tree) /\ verdict = "ok"
        /\ verdict' = "ok" => at' = at + 1
    BY <1>8, LaterSteps
  <2>2. UNCHANGED verdict
    BY <1>8 DEF LinkUsage, MangleDeclaration, MangleUsage, Pass
  <2>3. \A k \in Nodes("declare") : SameRun(tree'[k], tree[k]) /\ k \in 1 .. Len(tree)
    BY <1>8, LaterRuns DEF Nodes
  <2>4. ASSUME NEW k \in Nodes("declare"), k =< LinkDone' PROVE k =< LinkDone
    <3>1. CASE walk = "mangle"
      BY <2>1, <2>4, <3>1 DEF LinkDone, Kept
    <3>2. CASE walk = "linkage"
      <4>1. tree[at].node # "declare"
        BY <1>8, <3>2 DEF LinkUsage, MangleDeclaration, MangleUsage, Visits, Here
      <4>2. k # at /\ k \in Nat /\ at \in Nat
        BY <1>1, <2>3, <4>1, View DEF Nodes
      <4>3. LinkDone = at - 1 /\ LinkDone' = at
        BY <2>1, <2>2, <3>2, <4>2 DEF LinkDone
      <4> QED BY <2>4, <4>2, <4>3
    <3> QED BY <2>1, <3>1, <3>2
  <2> QED BY <1>1, <2>1, <2>3, <2>4, DeclaresKept
<1>9. CASE /\ EndWalk("signatures", "linkage") \/ EndWalk("linkage", "mangle")
                \/ EndWalk("mangle", "done")
           /\ UNCHANGED <<tree, functions, variables, verdict>>
  <2>1. Len(tree) \in Nat
    BY <1>1, View
  <2>2. CASE EndWalk("linkage", "mangle")
    <3>1. LinkDone = Len(tree) /\ LinkDone' = Len(tree)
      BY <2>1, <2>2 DEF EndWalk, LinkDone
    <3> QED BY <1>4, <1>9, <3>1
  <2>3. LinkDone' = LinkDone \/ EndWalk("linkage", "mangle")
    BY <1>9 DEF EndWalk, LinkDone
  <2> QED BY <1>4, <1>9, <2>2, <2>3
<1>10. CASE /\ PassBy /\ at \in 1 .. Len(tree) /\ at' = at + 1
            /\ UNCHANGED <<tree, walk, functions, variables, verdict>>
  <2>1. CASE walk = "linkage"
    <3>1. tree[at].node # "declare"
      BY <1>10, <2>1 DEF PassBy, Visits, Here
    <3>2. LinkDone = at - 1 /\ LinkDone' = at /\ at \in Nat
      BY <1>1, <1>10, <2>1, View DEF LinkDone
    <3>3. ASSUME NEW k \in Nodes("declare"), k =< LinkDone' PROVE k =< LinkDone
      <4>1. k # at /\ k \in Nat
        BY <3>1 DEF Nodes
      <4> QED BY <3>2, <3>3, <4>1
    <3> QED BY <1>1, <1>10, <3>3, SameTree, DeclaresKept DEF SameRun
  <2>2. CASE walk # "linkage"
    <3>1. LinkDone' = LinkDone
      BY <1>10, <2>2 DEF LinkDone
    <3> QED BY <1>4, <1>10, <3>1
  <2> QED BY <2>1, <2>2
<1>11. CASE UNCHANGED <<tree, walk, at, functions, variables, verdict>>
  <2>1. LinkDone' = LinkDone
    BY <1>11 DEF LinkDone
  <2> QED BY <1>4, <1>11, <2>1
<1> QED BY <1>2, <1>5, <1>6, <1>7, <1>8, <1>9, <1>10, <1>11 DEF Steps

(***************************************************************************)
(* Refusals.                                                               *)
(***************************************************************************)
RefusalsOK == verdict = "refused" => Illegal \/ DefinedTwice

LEMMA SameConflicts ==
  ASSUME UNCHANGED tree, Illegal \/ DefinedTwice
  PROVE  (Illegal \/ DefinedTwice)'
<1>1. /\ Nodes("function")' = Nodes("function") /\ Nodes("declare")' = Nodes("declare")
      /\ Nodes("use")' = Nodes("use")
  BY DEF Nodes
<1>2. \A n : Shared(n)' = Shared(n) /\ FunctionsOf(n)' = FunctionsOf(n) /\ Constants(n)' = Constants(n)
  BY SameTree, KeptSets
<1>3. ASSUME NEW n, IllegalVariables(n) PROVE IllegalVariables(n)'
  <2>1. First(Shared(n))' = First(Shared(n))
    BY <1>2 DEF First
  <2> QED BY <1>2, <1>3, <2>1 DEF IllegalVariables, IsStatic
<1>4. ASSUME NEW n, IllegalFunctions(n) PROVE IllegalFunctions(n)'
  <2>1. First(FunctionsOf(n))' = First(FunctionsOf(n))
    BY <1>2 DEF First
  <2> QED BY <1>2, <1>4, <2>1 DEF IllegalFunctions, IsStatic
<1>5. \A k : (IllegalStatic(k)' <=> IllegalStatic(k)) /\ (UsesFunction(k)' <=> UsesFunction(k))
  BY DEF IllegalStatic, UsesFunction, IsStatic
<1>6. DefinedTwice' <=> DefinedTwice
  BY <1>1 DEF DefinedTwice
<1>7. Illegal => Illegal'
  <2> SUFFICES ASSUME Illegal PROVE Illegal'
    OBVIOUS
  <2>1. Nodes("declare")' = Nodes("declare") /\ Nodes("use")' = Nodes("use")
    BY <1>1
  <2>2. CASE \E n \in Name : IllegalVariables(n) \/ IllegalFunctions(n)
    <3>1. PICK n \in Name : IllegalVariables(n) \/ IllegalFunctions(n)
      BY <2>2
    <3>2. IllegalVariables(n)' \/ IllegalFunctions(n)'
      BY <1>3, <1>4, <3>1
    <3> QED BY <3>2 DEF Illegal
  <2>3. CASE \E k \in Nodes("declare") : IllegalStatic(k)
    BY <1>5, <2>1, <2>3 DEF Illegal
  <2>4. CASE \E k \in Nodes("use") : UsesFunction(k)
    BY <1>5, <2>1, <2>4 DEF Illegal
  <2> QED BY <2>2, <2>3, <2>4 DEF Illegal
<1> QED BY <1>6, <1>7

LEMMA NextRefusals ==
  LinkBase /\ SignaturesOK /\ MergesOK /\ RefusalsOK /\ [LinkNext]_linkVars => RefusalsOK'
<1> SUFFICES ASSUME LinkBase, SignaturesOK, MergesOK, RefusalsOK, [LinkNext]_linkVars,
                    verdict' = "refused"
             PROVE  (Illegal \/ DefinedTwice)'
  BY DEF RefusalsOK
<1>1. LinkTypeOK /\ Walks
  BY DEF LinkBase
<1>2. SUFFICES UNCHANGED tree /\ (Illegal \/ DefinedTwice)
  BY SameConflicts
<1>3. CASE \/ \E n \in Functions, spec \in Specifiers, type \in Type :
                ParseFunction(n, spec, type)
           \/ \E n \in Variables, spec \in Specifiers, type \in Type, init \in Inits :
                ParseDeclaration(n, spec, init, type)
           \/ \E n \in Name : ParseUsage(n)
           \/ ParseBody \/ ParseScope \/ ParseEnd
  <2>1. walk = "parse" /\ UNCHANGED verdict
    BY <1>3, ParseSteps
  <2> QED BY <1>1, <2>1 DEF Walks
<1>4. CASE CheckUsages
  <2>1. PICK k \in 1 .. Len(tree) : UsesFunction(k)
    BY <1>4 DEF CheckUsages
  <2>2. k \in Nodes("use")
    BY <2>1 DEF Nodes, UsesFunction
  <2>3. Illegal
    BY <2>1, <2>2 DEF Illegal
  <2> QED BY <1>4, <2>3 DEF CheckUsages
<1>5. CASE Signature
  <2>1. verdict = "ok"
    BY <1>5 DEF Signature, Visits
  <2>2. UNCHANGED tree /\ ((\E n \in Name : IllegalFunctions(n)) \/ DefinedTwice)
    BY <1>5, <2>1, SignatureStep
  <2> QED BY <2>2 DEF Illegal
<1>6. CASE LinkDeclaration
  <2>1. \/ DeclarationRefused(tree[at], Earlier(tree[at])) /\ Refuse
        \/ Pass
    BY <1>1, <1>6, DeclarationView DEF Declares
  <2>2. verdict = "ok"
    BY <1>6 DEF LinkDeclaration, Visits
  <2>3. DeclarationRefused(tree[at], Earlier(tree[at])) /\ Refuse
    BY <2>1, <2>2 DEF Pass
  <2>4. Illegal
    BY <1>1, <1>6, <2>3, DeclarationConflict
  <2> QED BY <2>3, <2>4 DEF Refuse
<1>7. CASE LinkUsage \/ MangleDeclaration \/ MangleUsage \/ PassBy
           \/ EndWalk("signatures", "linkage") \/ EndWalk("linkage", "mangle")
           \/ EndWalk("mangle", "done")
  BY <1>7 DEF LinkUsage, MangleDeclaration, MangleUsage, PassBy, Pass, Visits, EndWalk
<1>8. CASE UNCHANGED linkVars
  BY <1>8 DEF linkVars, semaVars, RefusalsOK
<1> QED BY <1>3, <1>4, <1>5, <1>6, <1>7, <1>8 DEF LinkNext

(***************************************************************************)
(* The invariant of the walks, and what it says once they are done.        *)
(***************************************************************************)
LinkInv ==
  /\ LinkBase /\ SignaturesOK /\ UsagesChecked
  /\ MergesOK /\ DeclaresOK /\ RefusalsOK

LEMMA InitLink == LinkInit => LinkInv
<1> SUFFICES ASSUME LinkInit PROVE LinkInv
  OBVIOUS
<1>1. LinkBase /\ SignaturesOK /\ MergesOK
  BY InitBase, InitSignatures, InitMerges
<1>2. LinkDone = 0 /\ verdict = "ok" /\ walk = "parse"
  BY DEF LinkInit, LinkDone
<1>3. DeclaresOK
  BY <1>2, NothingDeclared
<1>4. UsagesChecked /\ RefusalsOK
  BY <1>2 DEF UsagesChecked, RefusalsOK
<1> QED BY <1>1, <1>3, <1>4 DEF LinkInv

LEMMA NextLink == LinkInv /\ [LinkNext]_linkVars => LinkInv'
<1> SUFFICES ASSUME LinkInv, [LinkNext]_linkVars PROVE LinkInv'
  OBVIOUS
<1>1. LinkBase /\ SignaturesOK /\ UsagesChecked /\ MergesOK /\ DeclaresOK /\ RefusalsOK
  BY DEF LinkInv
<1>2. LinkBase'
  BY <1>1, NextBase
<1>3. SignaturesOK' /\ UsagesChecked'
  BY <1>1, <1>2, NextSignatures, NextUsages
<1>4. MergesOK' /\ DeclaresOK'
  BY <1>1, <1>2, NextMerges, NextDeclares
<1>5. RefusalsOK'
  BY <1>1, NextRefusals
<1> QED BY <1>2, <1>3, <1>4, <1>5 DEF LinkInv

LEMMA LinkInvariance == LinkSpec => []LinkInv
  BY InitLink, NextLink, PTL DEF LinkSpec

\* At the end the walks are past every node.
LEMMA AllWalked ==
  ASSUME LinkInv, Accepted, NEW n \in Name
  PROVE  /\ Signed(n, FunctionsOf(n)) /\ Merge(n, Shared(n))
         /\ FunctionsOf(n) \in SUBSET (1 .. Len(tree))
         /\ Shared(n) \in SUBSET (1 .. Len(tree)) /\ Len(tree) \in Nat
<1>1. LinkTypeOK /\ SignaturesOK /\ MergesOK
  BY DEF LinkInv, LinkBase
<1>2. /\ FunctionsOf(n) \in SUBSET (1 .. Len(tree))
      /\ Shared(n) \in SUBSET (1 .. Len(tree)) /\ Len(tree) \in Nat
      /\ SigDone = Len(tree) /\ LinkDone = Len(tree)
  BY <1>1, MergedSets, SignedSets DEF Accepted, SigDone, LinkDone
<1>3. SignedOf(n) = FunctionsOf(n)
  <2>1. \A k \in FunctionsOf(n) : k =< SigDone
    BY <1>2
  <2> QED BY <2>1 DEF SignedOf
<1>4. MergedOf(n) = Shared(n)
  <2>1. \A k \in Shared(n) : k =< LinkDone
    BY <1>2
  <2> QED BY <2>1 DEF MergedOf
<1> QED BY <1>1, <1>2, <1>3, <1>4 DEF SignaturesOK, MergesOK

LEMMA InitialIs ==
  ASSUME NEW n
  PROVE  /\ InitialIn(Shared(n)) = InitialOf(n)
         /\ InitIn(Shared(n)) = IF Constants(n) = {} THEN 0 ELSE First(Constants(n))
<1>1. ConstantsIn(Shared(n)) = Constants(n)
  BY DEF ConstantsIn, Constants
<1>2. InitIn(Shared(n)) = IF Constants(n) = {} THEN 0 ELSE First(Constants(n))
  BY <1>1 DEF InitIn
<1> DEFINE C == Constants(n)
           A == \A k \in Shared(n) : tree[k].spec = "extern"
<1>3. InitialIn(Shared(n)) = IF C # {} THEN Constant
                             ELSE IF A THEN NoInitializer ELSE Tentative
  BY <1>1 DEF InitialIn
<1>4. InitialOf(n) = CASE C # {} -> Constant [] C = {} /\ A -> NoInitializer
                       [] OTHER -> Tentative
  BY DEF InitialOf
<1> HIDE DEF C, A
<1>5. InitialIn(Shared(n)) = InitialOf(n)
  <2>1. CASE C # {}
    BY <1>3, <1>4, <2>1
  <2>2. CASE C = {} /\ A
    BY <1>3, <1>4, <2>2
  <2>3. CASE C = {} /\ ~ A
    BY <1>3, <1>4, <2>3
  <2> QED BY <2>1, <2>2, <2>3
<1> QED BY <1>2, <1>5

LEMMA MergedAtEnd == LinkInv => SharedObjectsMerged
<1> SUFFICES ASSUME LinkInv, Accepted, NEW n \in Name
             PROVE  /\ Cardinality(FileSymbols(n)) = (IF Shared(n) = {} THEN 0 ELSE 1)
                    /\ \A i \in FileSymbols(n) :
                         /\ variables[i].linkage = LinkageOf(Shared(n))
                         /\ variables[i].initial = InitialOf(n)
                         /\ variables[i].init =
                              IF Constants(n) = {} THEN 0 ELSE First(Constants(n))
                    /\ \A i \in 1 .. Len(functions) :
                         functions[i].name = n =>
                           functions[i].linkage = LinkageOf(FunctionsOf(n))
  BY DEF SharedObjectsMerged, FileSymbols
<1>1. Signed(n, FunctionsOf(n)) /\ Merge(n, Shared(n))
  BY AllWalked
<1>2. \A i \in 1 .. Len(functions) :
        functions[i].name = n => functions[i].linkage = LinkageOf(FunctionsOf(n))
  <2> SUFFICES ASSUME NEW i \in 1 .. Len(functions), functions[i].name = n
               PROVE  functions[i].linkage = LinkageOf(FunctionsOf(n))
    OBVIOUS
  <2>1. i \in FunctionSymbols(n)
    BY DEF FunctionSymbols
  <2>2. PICK j \in 1 .. Len(functions) :
          FunctionSymbols(n) = {j} /\ FunctionIs(functions[j], FunctionsOf(n))
    BY <1>1, <2>1 DEF Signed
  <2> QED BY <2>1, <2>2 DEF FunctionIs
<1>3. CASE Shared(n) = {}
  <2>1. FileSymbols(n) = {}
    BY <1>1, <1>3 DEF Merge
  <2> QED BY <1>2, <1>3, <2>1, FS_EmptySet
<1>4. CASE Shared(n) # {}
  <2>1. PICK i \in 1 .. Len(variables) :
          FileSymbols(n) = {i} /\ VariableIs(variables[i], Shared(n))
    BY <1>1, <1>4 DEF Merge
  <2>2. Cardinality(FileSymbols(n)) = 1
    BY <2>1, FS_Singleton
  <2>3. /\ variables[i].linkage = LinkageOf(Shared(n))
        /\ variables[i].initial = InitialOf(n)
        /\ variables[i].init = IF Constants(n) = {} THEN 0 ELSE First(Constants(n))
    BY <2>1, InitialIs DEF VariableIs
  <2> QED BY <1>2, <1>4, <2>1, <2>2, <2>3
<1> QED BY <1>3, <1>4

LEMMA LegalAtEnd == LinkInv => ConflictsRefusedExactly
<1> SUFFICES ASSUME LinkInv, Accepted PROVE ~ Illegal
  BY DEF ConflictsRefusedExactly, LinkInv, RefusalsOK
<1>1. LinkTypeOK
  BY DEF LinkInv, LinkBase
<1>2. ASSUME NEW n \in Name PROVE ~ IllegalVariables(n)
  <2>1. PICK G : G = Shared(n)
    OBVIOUS
  <2>2. Merge(n, G) /\ G \in SUBSET (1 .. Len(tree))
    BY <2>1, AllWalked
  <2>3. VariablesAgree(G) /\ (G # {} => FunctionsOf(n) = {})
    BY <2>2 DEF Merge
  <2>4. ASSUME NEW k \in G
        PROVE  /\ ~ (tree[k].file /\ tree[k].spec # "extern"
                       /\ IsStatic(k) # IsStatic(First(G)))
               /\ ~ IF tree[k].file THEN tree[k].init = "expression" ELSE tree[k].init # "none"
    <3>1. StaticLikeFirst(k, G) /\ InitAllowed(k)
      BY <2>3 DEF VariablesAgree
    <3> QED BY <3>1 DEF StaticLikeFirst, InitAllowed, IsStatic
  <2>5. \A j, k \in G : tree[j].type = tree[k].type
    BY <2>3 DEF VariablesAgree
  <2>6. \A j, k \in Constants(n) : j = k
    BY <2>1, <2>3 DEF VariablesAgree, ConstantsIn, Constants
  <2> QED BY <2>1, <2>3, <2>4, <2>5, <2>6 DEF IllegalVariables
<1>3. ASSUME NEW n \in Name PROVE ~ IllegalFunctions(n)
  <2>1. PICK F : F = FunctionsOf(n)
    OBVIOUS
  <2>2. FunctionsAgree(F)
    BY <2>1, AllWalked DEF Signed
  <2>3. \A j, k \in F : tree[j].type = tree[k].type
    BY <2>2 DEF FunctionsAgree
  <2>4. \A k \in F : ~ (~ tree[k].file /\ (tree[k].def \/ IsStatic(k)))
    BY <2>2 DEF FunctionsAgree, Misplaced, IsStatic
  <2>5. \A k \in F : IsStatic(k) => IsStatic(First(F))
    BY <2>2 DEF FunctionsAgree
  <2> QED BY <2>1, <2>3, <2>4, <2>5 DEF IllegalFunctions
<1>4. \A k \in Nodes("declare") : ~ IllegalStatic(k)
  <2>1. LinkDone = Len(tree) /\ Len(tree) \in Nat
    BY <1>1, View DEF LinkDone, Accepted
  <2>2. \A k \in Nodes("declare") : k =< LinkDone
    BY <2>1 DEF Nodes
  <2> QED BY <2>2 DEF LinkInv, DeclaresOK
<1>5. \A k \in Nodes("use") : ~ UsesFunction(k)
  BY DEF LinkInv, UsagesChecked, Accepted, Nodes
<1> QED BY <1>2, <1>3, <1>4, <1>5 DEF Illegal

LEMMA RunAtEnd == LinkInv => InitializersWhereTheyRun
<1> SUFFICES ASSUME LinkInv, Accepted, NEW k \in Nodes("declare")
             PROVE  InitRuns(tree[k])
  BY DEF InitializersWhereTheyRun, InitRuns
<1>1. LinkTypeOK
  BY DEF LinkInv, LinkBase
<1>2. LinkDone = Len(tree) /\ Len(tree) \in Nat
  BY <1>1, View DEF LinkDone, Accepted
<1>3. k =< LinkDone
  BY <1>2 DEF Nodes
<1> QED BY <1>3 DEF LinkInv, DeclaresOK

(***************************************************************************)
(* The IDs in the tree.  A declaration of an object of its own has an ID   *)
(* that no other declaration has, and a usage follows a declaration with   *)
(* its ID, or there is none (it names a parameter).  While the resolver is *)
(* at work, its table vouches for this: nothing can be declared to be an   *)
(* object once more whose symbols have no linkage.  q: the IDs issued.  t: *)
(* the table.  tr: the tree.                                               *)
(***************************************************************************)
Issued(q, x, n) == \E m \in 1 .. Len(q) : q[m].id = x /\ q[m].name = n
Private(t, x) == \A i \in 1 .. Len(t) : t[i].unique = x => t[i].linkage = NoLinkage

DeclarationsIn(tr) == {k \in 1 .. Len(tr) : tr[k].node = "declare"}
DeclaresId(tr, x) == \E k \in DeclarationsIn(tr) : tr[k].id = x

OwnsId(tr, t, k) ==
  /\ Private(t, tr[k].id)
  /\ \A j \in DeclarationsIn(tr) : tr[j].id = tr[k].id => j = k

DeclaredBefore(tr, u) == \E k \in DeclarationsIn(tr) : k < u /\ tr[k].id = tr[u].id
NotDeclared(tr, t, u) == Private(t, tr[u].id) /\ ~ DeclaresId(tr, tr[u].id)

TreeIssued(tr, q) == \A k \in 1 .. Len(tr) : Issued(q, tr[k].id, tr[k].name)
ExternalsDeclared(tr, t) ==
  \A i \in 1 .. Len(t) : t[i].linkage = External => DeclaresId(tr, t[i].unique)
OwnIds(tr, t) ==
  \A k \in DeclarationsIn(tr) : SharedDeclaration(tr[k]) \/ OwnsId(tr, t, k)
UsesAfter(tr, t) ==
  \A u \in 1 .. Len(tr) :
    tr[u].node = "use" => DeclaredBefore(tr, u) \/ NotDeclared(tr, t, u)

IdsIn(tr, t, q) ==
  /\ TreeIssued(tr, q) /\ ExternalsDeclared(tr, t) /\ OwnIds(tr, t) /\ UsesAfter(tr, t)

TreeIds == IdsIn(tree, symbols, issued)

\* The tree keeps its nodes, as far as IDs go, and may get some more.
SameIdentity(a, b) ==
  /\ a.node = b.node /\ a.name = b.name /\ a.id = b.id
  /\ a.spec = b.spec /\ a.file = b.file
Extends(ur, tr) ==
  /\ Len(ur) \in Nat /\ Len(tr) \in Nat /\ Len(tr) =< Len(ur)
  /\ \A k \in 1 .. Len(tr) : SameIdentity(ur[k], tr[k])

\* What was issued stays issued, what was private stays private.
Stays(t, q, s, p) ==
  \A x, n : Issued(q, x, n) =>
    /\ Issued(p, x, n)
    /\ Private(t, x) => Private(s, x)

NotPrivate(t, q, x) == \A y, n : Issued(q, y, n) /\ Private(t, y) => x # y

\* What the nodes from m on must be like in a larger tree.
NewIds(ur, s, p, t, q, m) ==
  \A k \in m .. Len(ur) :
    /\ Issued(p, ur[k].id, ur[k].name)
    /\ ur[k].node = "declare" =>
         /\ NotPrivate(t, q, ur[k].id)
         /\ SharedDeclaration(ur[k]) \/ OwnsId(ur, s, k)
    /\ ur[k].node = "use" => DeclaredBefore(ur, k) \/ NotDeclared(ur, s, k)

Externals(ur, s, t) ==
  \A i \in 1 .. Len(s) : s[i].linkage = External =>
    \/ \E j \in 1 .. Len(t) : SameNode(s[i], t[j])
    \/ DeclaresId(ur, s[i].unique)

LEMMA ExtendsNodes ==
  ASSUME NEW ur, NEW tr, Extends(ur, tr)
  PROVE  /\ \A k \in 1 .. Len(tr) : k \in 1 .. Len(ur)
         /\ \A k \in 1 .. Len(ur) : k \in 1 .. Len(tr) \/ k \in Len(tr) + 1 .. Len(ur)
         /\ \A k \in DeclarationsIn(tr) : k \in DeclarationsIn(ur) /\ ur[k].id = tr[k].id
         /\ \A k \in DeclarationsIn(ur) :
              k \in DeclarationsIn(tr) \/ k \in Len(tr) + 1 .. Len(ur)
         /\ \A x : DeclaresId(tr, x) => DeclaresId(ur, x)
<1>1. /\ \A k \in 1 .. Len(tr) : k \in 1 .. Len(ur)
      /\ \A k \in 1 .. Len(ur) : k \in 1 .. Len(tr) \/ k \in Len(tr) + 1 .. Len(ur)
  BY DEF Extends
<1>2. \A k \in 1 .. Len(tr) : ur[k].node = tr[k].node /\ ur[k].id = tr[k].id
  BY DEF Extends, SameIdentity
<1>3. \A k \in DeclarationsIn(tr) : k \in DeclarationsIn(ur) /\ ur[k].id = tr[k].id
  BY <1>1, <1>2 DEF DeclarationsIn
<1>4. \A k \in DeclarationsIn(ur) : k \in DeclarationsIn(tr) \/ k \in Len(tr) + 1 .. Len(ur)
  BY <1>1, <1>2 DEF DeclarationsIn
<1>5. \A x : DeclaresId(tr, x) => DeclaresId(ur, x)
  BY <1>3 DEF DeclaresId
<1> QED BY <1>1, <1>3, <1>4, <1>5

LEMMA IdsExtended ==
  ASSUME NEW tr, NEW t, NEW q, NEW ur, NEW s, NEW p, IdsIn(tr, t, q),
         Extends(ur, tr), Stays(t, q, s, p), Externals(ur, s, t),
         NewIds(ur, s, p, t, q, Len(tr) + 1)
  PROVE  IdsIn(ur, s, p)
<1> DEFINE new == Len(tr) + 1 .. Len(ur)
<1>1. /\ \A k \in 1 .. Len(tr) : k \in 1 .. Len(ur)
      /\ \A k \in 1 .. Len(ur) : k \in 1 .. Len(tr) \/ k \in new
      /\ \A k \in DeclarationsIn(tr) : k \in DeclarationsIn(ur) /\ ur[k].id = tr[k].id
      /\ \A k \in DeclarationsIn(ur) : k \in DeclarationsIn(tr) \/ k \in new
      /\ \A x : DeclaresId(tr, x) => DeclaresId(ur, x)
  BY ExtendsNodes
<1>2. \A k \in 1 .. Len(tr) : /\ ur[k].node = tr[k].node /\ ur[k].name = tr[k].name
                              /\ ur[k].id = tr[k].id
                              /\ SharedDeclaration(ur[k]) <=> SharedDeclaration(tr[k])
  BY DEF Extends, SameIdentity, SharedDeclaration
<1>3. \A k \in 1 .. Len(tr) : Issued(q, tr[k].id, tr[k].name)
  BY DEF IdsIn, TreeIssued
<1>4. \A k \in new :
        /\ Issued(p, ur[k].id, ur[k].name)
        /\ ur[k].node = "declare" => /\ NotPrivate(t, q, ur[k].id)
                                     /\ SharedDeclaration(ur[k]) \/ OwnsId(ur, s, k)
        /\ ur[k].node = "use" => DeclaredBefore(ur, k) \/ NotDeclared(ur, s, k)
  BY DEF NewIds
<1> HIDE DEF new
<1>5. TreeIssued(ur, p)
  BY <1>1, <1>2, <1>3, <1>4 DEF TreeIssued, Stays
<1>6. ExternalsDeclared(ur, s)
  <2> SUFFICES ASSUME NEW i \in 1 .. Len(s), s[i].linkage = External
               PROVE  DeclaresId(ur, s[i].unique)
    BY DEF ExternalsDeclared
  <2>1. CASE DeclaresId(ur, s[i].unique)
    BY <2>1
  <2>2. ASSUME NEW j \in 1 .. Len(t), SameNode(s[i], t[j])
        PROVE  DeclaresId(ur, s[i].unique)
    BY <1>1, <2>2 DEF SameNode, IdsIn, ExternalsDeclared
  <2> QED BY <2>1, <2>2 DEF Externals
\* A node to which nothing else may be tied stays alone.
<1>7. ASSUME NEW k \in 1 .. Len(tr), Private(t, tr[k].id)
      PROVE  /\ Private(s, ur[k].id)
             /\ \A j \in DeclarationsIn(ur) : ur[j].id = ur[k].id => j \in DeclarationsIn(tr)
  <2>1. Private(s, ur[k].id)
    BY <1>2, <1>3, <1>7 DEF Stays
  <2>2. ASSUME NEW j \in new, j \in DeclarationsIn(ur) PROVE ur[j].id # ur[k].id
    <3>1. NotPrivate(t, q, ur[j].id)
      BY <1>4, <2>2 DEF DeclarationsIn
    <3>2. ur[j].id # tr[k].id
      BY <1>3, <1>7, <3>1 DEF NotPrivate
    <3> QED BY <1>2, <3>2
  <2> QED BY <1>1, <2>1, <2>2
<1>8. OwnIds(ur, s)
  <2> SUFFICES ASSUME NEW k \in DeclarationsIn(ur), ~ SharedDeclaration(ur[k])
               PROVE  OwnsId(ur, s, k)
    BY DEF OwnIds
  <2>1. CASE k \in new
    BY <1>4, <2>1 DEF DeclarationsIn
  <2>2. CASE k \in DeclarationsIn(tr)
    <3>1. k \in 1 .. Len(tr) /\ OwnsId(tr, t, k)
      BY <1>2, <2>2 DEF DeclarationsIn, IdsIn, OwnIds
    <3>2. /\ Private(s, ur[k].id)
          /\ \A j \in DeclarationsIn(ur) : ur[j].id = ur[k].id => j \in DeclarationsIn(tr)
      BY <1>7, <3>1 DEF OwnsId
    <3>3. \A j \in DeclarationsIn(tr) : ur[j].id = ur[k].id => j = k
      BY <1>1, <2>2, <3>1 DEF OwnsId
    <3> QED BY <3>2, <3>3 DEF OwnsId
  <2> QED BY <1>1, <2>1, <2>2
<1>9. UsesAfter(ur, s)
  <2> SUFFICES ASSUME NEW u \in 1 .. Len(ur), ur[u].node = "use"
               PROVE  DeclaredBefore(ur, u) \/ NotDeclared(ur, s, u)
    BY DEF UsesAfter
  <2>1. CASE u \in new
    BY <1>4, <2>1
  <2>2. CASE u \in 1 .. Len(tr)
    <3>1. DeclaredBefore(tr, u) \/ NotDeclared(tr, t, u)
      BY <1>2, <2>2 DEF IdsIn, UsesAfter
    <3>2. CASE DeclaredBefore(tr, u)
      BY <1>1, <1>2, <2>2, <3>2 DEF DeclaredBefore
    <3>3. CASE NotDeclared(tr, t, u)
      <4>1. /\ Private(s, ur[u].id)
            /\ \A j \in DeclarationsIn(ur) : ur[j].id = ur[u].id => j \in DeclarationsIn(tr)
        BY <1>7, <2>2, <3>3 DEF NotDeclared
      <4>2. \A j \in DeclarationsIn(tr) : tr[j].id # tr[u].id
        BY <3>3 DEF NotDeclared, DeclaresId
      <4>3. \A j \in DeclarationsIn(ur) : ur[j].id # ur[u].id
        BY <1>1, <1>2, <2>2, <4>1, <4>2
      <4> QED BY <4>1, <4>3 DEF NotDeclared, DeclaresId
    <3> QED BY <3>1, <3>2, <3>3
  <2> QED BY <1>1, <2>1, <2>2
<1> QED BY <1>5, <1>6, <1>8, <1>9 DEF IdsIn

(***************************************************************************)
(* What the resolver's steps do to the table.                              *)
(***************************************************************************)
Older == UNCHANGED issued /\ \A i \in 1 .. Len(symbols') : OldNode(symbols'[i])

Renewed(n, l) ==
  /\ Issue(n)
  /\ \A i \in 1 .. Len(symbols') :
       \/ OldNode(symbols'[i])
       \/ symbols'[i].unique = NextUnique(symbols) /\ symbols'[i].linkage = l

LEMMA IssuedAreOld ==
  ASSUME IInv
  PROVE  /\ \A x, n : Issued(issued, x, n) => x # NextUnique(symbols)
         /\ \A i \in 1 .. Len(symbols) :
              Issued(issued, symbols[i].unique, symbols[i].name)
<1>1. TypeOK /\ IdsOK /\ NodesKeepTheirName /\ issued \in Seq([id: Nat, name: Name])
  BY DEF IInv, TypeOK, IdsOK
<1>2. \A k \in 1 .. Len(issued) : issued[k].id < NextUnique(symbols)
  BY <1>1, NextIsFresh
<1>3. ASSUME NEW k \in 1 .. Len(issued) PROVE issued[k].id # NextUnique(symbols)
  <2> DEFINE S == [id: Nat, name: Name]
  <2>1. issued \in Seq(S)
    BY <1>1
  <2>2. issued[k] \in S
    <3> HIDE DEF S
    <3> QED BY <2>1, ElementOfSeq
  <2>3. issued[k].id \in Nat
    BY <2>2
  <2>4. issued[k].id < NextUnique(symbols)
    BY <1>2
  <2> QED BY <2>3, <2>4
<1>4. ASSUME NEW i \in 1 .. Len(symbols)
      PROVE  Issued(issued, symbols[i].unique, symbols[i].name)
  <2> DEFINE e == [id |-> symbols[i].unique, name |-> symbols[i].name]
  <2>1. PICK k \in 1 .. Len(issued) : issued[k] = e
    BY <1>1 DEF NodesKeepTheirName
  <2>2. e.id = symbols[i].unique /\ e.name = symbols[i].name
    OBVIOUS
  <2> HIDE DEF e
  <2> QED BY <2>1, <2>2 DEF Issued
<1> QED BY <1>3, <1>4 DEF Issued

LEMMA IssuedOnce ==
  ASSUME IInv, NEW x, NEW m, NEW n, Issued(issued, x, m), Issued(issued, x, n)
  PROVE  m = n
  BY DEF IInv, IdsOK, IdsNeverReused, Issued

LEMMA OlderStays ==
  ASSUME Older
  PROVE  Stays(symbols, issued, symbols', issued')
<1>1. \A i \in 1 .. Len(symbols') : \E j \in 1 .. Len(symbols) :
        symbols'[i].unique = symbols[j].unique /\ symbols'[i].linkage = symbols[j].linkage
  BY DEF Older, OldNode, SameNode
<1>2. \A x : Private(symbols, x) => Private(symbols', x)
  BY <1>1 DEF Private
<1>3. issued' = issued
  BY DEF Older
<1> QED BY <1>2, <1>3 DEF Stays

LEMMA RenewedStays ==
  ASSUME IInv, NEW n \in Name, NEW l, Renewed(n, l)
  PROVE  /\ Stays(symbols, issued, symbols', issued')
         /\ Issued(issued', NextUnique(symbols), n)
<1>1. issued \in Seq([id: Nat, name: Name]) /\ Len(issued) \in Nat
  BY DEF IInv, TypeOK
<1> DEFINE e == [id |-> NextUnique(symbols), name |-> n]
<1>2. issued' = Append(issued, e)
  BY DEF Renewed, Issue
<1> DEFINE m == Len(issued)
<1>3. /\ Len(issued') = m + 1 /\ issued'[m + 1] = e
      /\ \A k \in 1 .. m : issued'[k] = issued[k]
  <2> HIDE DEF e
  <2> QED BY <1>1, <1>2
<1>4. /\ issued'[m + 1].id = NextUnique(symbols) /\ issued'[m + 1].name = n
      /\ m + 1 \in 1 .. Len(issued') /\ \A k \in 1 .. m : k \in 1 .. Len(issued')
  BY <1>1, <1>3
<1>5. Issued(issued', NextUnique(symbols), n)
  <2>1. PICK j \in 1 .. Len(issued') :
          issued'[j].id = NextUnique(symbols) /\ issued'[j].name = n
    BY <1>4
  <2> QED BY <2>1 DEF Issued
<1>6. \A x, a : Issued(issued, x, a) => Issued(issued', x, a)
  BY <1>3, <1>4 DEF Issued
<1>7. ASSUME NEW x, NEW a, Issued(issued, x, a), Private(symbols, x)
      PROVE  Private(symbols', x)
  <2>1. x # NextUnique(symbols)
    BY <1>7, IssuedAreOld
  <2>2. ASSUME NEW i \in 1 .. Len(symbols'), symbols'[i].unique = x
        PROVE  symbols'[i].linkage = NoLinkage
    <3>1. OldNode(symbols'[i])
      BY <2>1, <2>2 DEF Renewed
    <3> QED BY <1>7, <2>2, <3>1 DEF OldNode, SameNode, Private
  <2> QED BY <2>2 DEF Private
<1> QED BY <1>5, <1>6, <1>7 DEF Stays

\* Scopes that open and close, and parameters.
LEMMA ScopeTable ==
  ASSUME IInv, ParseScope \/ ParseBody \/ ParseEnd
  PROVE  Older \/ \E n \in Name : Renewed(n, NoLinkage)
<1>1. symbols \in Table /\ frames \in Seq(Frame) /\ ScopesOK(symbols, frames)
      /\ Len(symbols) \in Nat
  BY DEF IInv, TypeOK, Table
<1>2. ASSUME Len(symbols') =< Len(symbols), Len(symbols') \in Nat, UNCHANGED issued,
             \A i \in 1 .. Len(symbols') : SameNode(symbols'[i], symbols[i])
      PROVE  Older
  <2>1. \A i \in 1 .. Len(symbols') : i \in 1 .. Len(symbols)
    BY <1>1, <1>2
  <2> QED BY <1>2, <2>1 DEF Older, OldNode
<1>3. ASSUME NEW p \in 1 .. Len(symbols), symbols' = SetDelim(symbols, p, TRUE),
             UNCHANGED issued
      PROVE  Older
  <2>1. /\ Len(SetDelim(symbols, p, TRUE)) = Len(symbols)
        /\ \A i \in 1 .. Len(symbols) : SameNode(SetDelim(symbols, p, TRUE)[i], symbols[i])
    BY <1>1, MarkedTable
  <2>2. Len(symbols') = Len(symbols)
    BY <1>3, <2>1
  <2>3. \A i \in 1 .. Len(symbols') : SameNode(symbols'[i], symbols[i])
    BY <1>3, <2>1, <2>2
  <2>4. Len(symbols') =< Len(symbols) /\ Len(symbols') \in Nat
    BY <1>1, <2>2
  <2> QED BY <1>2, <1>3, <2>3, <2>4
<1>4. ASSUME symbols' = Leave(symbols, TopFrame), frames # <<>>, UNCHANGED issued
      PROVE  Older
  <2>1. /\ Len(Leave(symbols, frames[Len(frames)])) \in 1 .. Len(symbols)
        /\ \A i \in 1 .. Len(Leave(symbols, frames[Len(frames)])) :
             SameNode(Leave(symbols, frames[Len(frames)])[i], symbols[i])
    BY <1>1, <1>4, PopNode
  <2>2. TopFrame = frames[Len(frames)]
    BY DEF TopFrame, Depth
  <2>3. /\ Len(symbols') \in 1 .. Len(symbols)
        /\ \A i \in 1 .. Len(symbols') : SameNode(symbols'[i], symbols[i])
    BY <1>4, <2>1, <2>2
  <2>4. Len(symbols') \in Nat /\ Len(symbols') =< Len(symbols)
    BY <1>1, <2>3
  <2> QED BY <1>2, <1>4, <2>3, <2>4
<1>5. ASSUME NEW n \in Variables, Parameter(n)
      PROVE  \E a \in Name : Renewed(a, NoLinkage)
  <2>1. n \in Name
    BY NodesAssumption
  <2>2. Issue(n) /\ symbols' = Prepend(symbols, n)
    BY <1>5 DEF Parameter
  <2>3. /\ Len(symbols') = Len(symbols) + 1
        /\ \A i \in 1 .. Len(symbols) : symbols'[i] = symbols[i]
    BY <1>1, <2>1, <2>2, PrependNode
  <2>4. HeadOf(symbols') = [name |-> n, unique |-> NextUnique(symbols),
                            cookie |-> NextCookie(symbols), delim |-> FALSE,
                            linkage |-> NoLinkage]
    BY <1>1, <2>1, <2>2, PrependNode
  <2>5. /\ HeadOf(symbols').unique = NextUnique(symbols)
        /\ HeadOf(symbols').linkage = NoLinkage
    BY <2>4
  <2>6. \A i \in 1 .. Len(symbols) : OldNode(symbols'[i])
    BY <2>3 DEF OldNode, SameNode
  <2>7. \A i \in 1 .. Len(symbols') : i = Len(symbols') \/ i \in 1 .. Len(symbols)
    BY <1>1, <2>3
  <2>8. Renewed(n, NoLinkage)
    BY <2>2, <2>5, <2>6, <2>7 DEF Renewed, HeadOf
  <2> QED BY <2>1, <2>8
<1>6. CASE OpenBlock
  <2>1. Len(symbols) \in 1 .. Len(symbols)
    BY <1>6, OpenScope DEF OpenBlock, InBlock, FileScope
  <2> QED BY <1>3, <1>6, <2>1 DEF OpenBlock
<1>7. CASE CloseBlock
  BY <1>4, <1>7 DEF CloseBlock, InBlock, FileScope
<1>8. CASE CloseDeclaration
  BY <1>4, <1>8 DEF CloseDeclaration, InHeader, FileScope
<1>9. CASE CloseFunction
  <2>1. /\ UNCHANGED issued /\ Len(symbols') \in 1 .. Len(symbols)
        /\ \A i \in 1 .. Len(symbols') : SameNode(symbols'[i], symbols[i])
    BY <1>9, CloseFunctionNodes
  <2>2. Len(symbols') \in Nat /\ Len(symbols') =< Len(symbols)
    BY <1>1, <2>1
  <2> QED BY <1>2, <2>1, <2>2
<1>10. CASE ParseBody
  <2>1. OpenBody
    BY <1>10 DEF ParseBody
  <2>2. TopFrame.point \in 1 .. Len(symbols)
    BY <2>1, OpenScope DEF OpenBody, InHeader, FileScope
  <2> QED BY <1>3, <2>1, <2>2 DEF OpenBody
<1>11. CASE ParseEnd
  <2>1. UNCHANGED <<symbols, issued>>
    BY <1>11 DEF ParseEnd, Finish
  <2>2. \A i \in 1 .. Len(symbols') : SameNode(symbols'[i], symbols[i])
    BY <2>1 DEF SameNode
  <2> QED BY <1>1, <1>2, <2>1, <2>2
<1> QED BY <1>5, <1>6, <1>7, <1>8, <1>9, <1>10, <1>11 DEF ParseScope

(***************************************************************************)
(* The IDs in the tree, while it grows.                                    *)
(***************************************************************************)
LEMMA TreeIdsKept ==
  ASSUME IInv, LinkTypeOK, TreeIds, Extends(tree', tree), Len(tree') = Len(tree),
         Older \/ \E n \in Name : Renewed(n, NoLinkage)
  PROVE  TreeIds'
<1>1. Stays(symbols, issued, symbols', issued')
  BY OlderStays, RenewedStays
<1>2. ASSUME NEW i \in 1 .. Len(symbols'), symbols'[i].linkage = External
      PROVE  \E j \in 1 .. Len(symbols) : SameNode(symbols'[i], symbols[j])
  <2>1. OldNode(symbols'[i])
    BY <1>2 DEF Older, Renewed, External, NoLinkage
  <2> QED BY <2>1 DEF OldNode
<1>3. Externals(tree', symbols', symbols)
  BY <1>2 DEF Externals
<1>4. Len(tree) \in Nat
  BY View
<1>5. NewIds(tree', symbols', issued', symbols, issued, Len(tree) + 1)
  BY <1>4 DEF NewIds
<1> QED BY <1>1, <1>3, <1>5, IdsExtended DEF TreeIds

LEMMA TreeGrown ==
  ASSUME LinkTypeOK, NEW r \in Node, tree' = Append(tree, r)
  PROVE  /\ Extends(tree', tree) /\ Len(tree) \in Nat
         /\ Len(tree') = Len(tree) + 1 /\ tree'[Len(tree) + 1] = r
         /\ \A k \in 1 .. Len(tree) : tree'[k] = tree[k]
<1>1. tree \in Seq(Node) /\ Len(tree) \in Nat
  BY DEF LinkTypeOK
<1>2. /\ Len(tree') = Len(tree) + 1 /\ tree'[Len(tree) + 1] = r
      /\ \A k \in 1 .. Len(tree) : tree'[k] = tree[k]
  BY <1>1, AppendProperties
<1>3. Extends(tree', tree)
  BY <1>1, <1>2 DEF Extends, SameIdentity
<1> QED BY <1>1, <1>2, <1>3

LEMMA TreeIdsGrown ==
  ASSUME LinkTypeOK, TreeIds, NEW r \in Node, tree' = Append(tree, r),
         Stays(symbols, issued, symbols', issued'), Externals(tree', symbols', symbols),
         Issued(issued', r.id, r.name),
         r.node = "declare" =>
           /\ NotPrivate(symbols, issued, r.id)
           /\ SharedDeclaration(r) \/ OwnsId(tree', symbols', Len(tree) + 1),
         r.node = "use" => \/ DeclaredBefore(tree', Len(tree) + 1)
                           \/ NotDeclared(tree', symbols', Len(tree) + 1)
  PROVE  TreeIds'
<1>1. /\ Extends(tree', tree) /\ Len(tree) \in Nat
      /\ Len(tree') = Len(tree) + 1 /\ tree'[Len(tree) + 1] = r
  BY TreeGrown
<1>2. \A k \in Len(tree) + 1 .. Len(tree') : k = Len(tree) + 1
  BY <1>1
<1>3. NewIds(tree', symbols', issued', symbols, issued, Len(tree) + 1)
  BY <1>1, <1>2 DEF NewIds
<1> QED BY <1>1, <1>3, IdsExtended DEF TreeIds

\* In a file or with `extern', a declaration is taken for an external one.
LEMMA LinkageDeclared ==
  ASSUME NEW r, NEW ext \in BOOLEAN, r.file <=> FileScope, ext <=> r.spec = "extern"
  PROVE  DeclaredLinkage(ext) = IF SharedDeclaration(r) THEN External ELSE NoLinkage
  BY DEF DeclaredLinkage, SharedDeclaration, Larger, External, NoLinkage

\* An object that is known: its symbol has external linkage.
LEMMA AdoptedIds ==
  ASSUME IInv, LinkTypeOK, TreeIds, NEW r \in Node, tree' = Append(tree, r),
         NEW n \in Name, NEW l, Adopted(n, l), r.node = "declare", r.name = n,
         r.id = symbols'[FoundAt(n)].unique, SharedDeclaration(r)
  PROVE  TreeIds'
<1>1. /\ UNCHANGED issued /\ FoundAt(n) \in 1 .. Len(symbols')
      /\ symbols'[FoundAt(n)].name = n /\ symbols'[FoundAt(n)].linkage = External
      /\ \A i \in 1 .. Len(symbols') : OldNode(symbols'[i])
  BY DEF Adopted
<1>2. PICK j \in 1 .. Len(symbols) : SameNode(symbols'[FoundAt(n)], symbols[j])
  BY <1>1 DEF OldNode
<1>3. /\ symbols[j].unique = r.id /\ symbols[j].linkage = External
      /\ symbols[j].name = r.name
  BY <1>1, <1>2 DEF SameNode
<1>4. Stays(symbols, issued, symbols', issued')
  <2>1. Older
    BY <1>1 DEF Older
  <2> QED BY <2>1, OlderStays
<1>5. Externals(tree', symbols', symbols)
  BY <1>1 DEF Externals, OldNode
<1>6. Issued(issued', r.id, r.name)
  <2>1. Issued(issued, r.id, r.name)
    BY <1>3, IssuedAreOld
  <2> QED BY <1>1, <2>1
<1>7. NotPrivate(symbols, issued, r.id)
  BY <1>3 DEF NotPrivate, Private, External, NoLinkage
<1> QED BY <1>4, <1>5, <1>6, <1>7, TreeIdsGrown

\* A new object: its ID was never issued.
LEMMA CreatedIds ==
  ASSUME IInv, LinkTypeOK, TreeIds, NEW r \in Node, tree' = Append(tree, r),
         NEW n \in Name, NEW l, Created(n, l), r.name = n,
         r.id = symbols'[FoundAt(n)].unique, r.node # "use",
         r.node = "declare" => l = IF SharedDeclaration(r) THEN External ELSE NoLinkage,
         r.node # "declare" => l = NoLinkage
  PROVE  TreeIds'
<1>1. /\ Issue(n) /\ r.id = NextUnique(symbols)
      /\ \A i \in 1 .. Len(symbols') :
           \/ OldNode(symbols'[i])
           \/ symbols'[i].unique = NextUnique(symbols) /\ symbols'[i].linkage = l
  BY DEF Created
<1>2. Renewed(n, l)
  BY <1>1 DEF Renewed
<1>3. Stays(symbols, issued, symbols', issued') /\ Issued(issued', r.id, r.name)
  BY <1>1, <1>2, RenewedStays
<1>4. /\ Extends(tree', tree) /\ Len(tree) \in Nat
      /\ Len(tree') = Len(tree) + 1 /\ tree'[Len(tree) + 1] = r
      /\ \A k \in 1 .. Len(tree) : tree'[k] = tree[k]
  BY TreeGrown
<1>5. r.node = "declare" => DeclaresId(tree', r.id)
  BY <1>4 DEF DeclaresId, DeclarationsIn
<1>6. Externals(tree', symbols', symbols)
  BY <1>1, <1>5 DEF Externals, OldNode, External, NoLinkage
<1>7. \A x, a : Issued(issued, x, a) => x # r.id
  BY <1>1, IssuedAreOld
<1>8. NotPrivate(symbols, issued, r.id)
  BY <1>7 DEF NotPrivate
<1>9. ASSUME l = NoLinkage PROVE OwnsId(tree', symbols', Len(tree) + 1)
  <2>1. ASSUME NEW i \in 1 .. Len(symbols'), symbols'[i].unique = r.id
        PROVE  symbols'[i].linkage = NoLinkage
    <3>1. ~ OldNode(symbols'[i])
      BY <1>7, <2>1, IssuedAreOld DEF OldNode, SameNode
    <3> QED BY <1>1, <1>9, <3>1
  <2>2. \A k \in 1 .. Len(tree) : tree'[k].id # r.id
    BY <1>4, <1>7 DEF TreeIds, IdsIn, TreeIssued
  <2>3. \A k \in DeclarationsIn(tree') : k \in 1 .. Len(tree) \/ k = Len(tree) + 1
    BY <1>4 DEF DeclarationsIn
  <2> QED BY <1>4, <2>1, <2>2, <2>3 DEF OwnsId, Private
<1> QED BY <1>3, <1>6, <1>8, <1>9, TreeIdsGrown

\* A usage: an external symbol has a declaration, any other is alone.
LEMMA UsedIds ==
  ASSUME IInv, LinkTypeOK, TreeIds, NEW r \in Node, tree' = Append(tree, r),
         UNCHANGED <<symbols, issued>>, NEW i \in 1 .. Len(symbols),
         symbols[i].name = r.name, r.id = symbols[i].unique, r.node = "use"
  PROVE  TreeIds'
<1>1. Stays(symbols, issued, symbols', issued')
  BY DEF Stays
<1>2. Externals(tree', symbols', symbols)
  BY DEF Externals, SameNode
<1>3. Issued(issued', r.id, r.name)
  BY IssuedAreOld
<1>4. /\ Extends(tree', tree) /\ Len(tree) \in Nat
      /\ Len(tree') = Len(tree) + 1 /\ tree'[Len(tree) + 1] = r
      /\ \A k \in 1 .. Len(tree) : tree'[k] = tree[k]
  BY TreeGrown
<1>5. CASE DeclaresId(tree, r.id)
  <2>1. PICK k \in DeclarationsIn(tree) : tree[k].id = r.id
    BY <1>5 DEF DeclaresId
  <2>2. k \in DeclarationsIn(tree') /\ tree'[k].id = r.id /\ k < Len(tree) + 1
    BY <1>4, <2>1 DEF DeclarationsIn
  <2>3. DeclaredBefore(tree', Len(tree) + 1)
    BY <1>4, <2>2 DEF DeclaredBefore
  <2> QED BY <1>1, <1>2, <1>3, <2>3, TreeIdsGrown
<1>6. CASE ~ DeclaresId(tree, r.id)
  <2>1. symbols[i].linkage # External
    BY <1>6 DEF TreeIds, IdsIn, ExternalsDeclared
  <2>2. ASSUME NEW j \in 1 .. Len(symbols), symbols[j].unique = r.id
        PROVE  symbols[j].linkage = NoLinkage
    <3>1. SharedIdIsOneObject /\ NoInternalLinkage /\ symbols \in Table
      BY DEF IInv, IdsOK, TypeOK, Table
    <3>2. j = i
      BY <2>1, <2>2, <3>1 DEF SharedIdIsOneObject
    <3>3. symbols[i] \in Symbol(Name)
      BY <3>1 DEF Table
    <3>4. symbols[i].linkage \in Linkage
      BY <3>3 DEF Symbol
    <3> QED BY <2>1, <3>1, <3>2, <3>4 DEF NoInternalLinkage, Linkage
  <2>3. \A k \in DeclarationsIn(tree') : k \in DeclarationsIn(tree) /\ tree'[k] = tree[k]
    <3>1. \A k \in 1 .. Len(tree') : k \in 1 .. Len(tree) \/ tree'[k] = r
      BY <1>4
    <3> QED BY <1>4, <3>1 DEF DeclarationsIn
  <2>4. ~ DeclaresId(tree', r.id)
    BY <1>6, <2>3 DEF DeclaresId
  <2>5. NotDeclared(tree', symbols', Len(tree) + 1)
    BY <1>4, <2>2, <2>4 DEF NotDeclared, Private
  <2> QED BY <1>1, <1>2, <1>3, <2>5, TreeIdsGrown
<1> QED BY <1>5, <1>6

LEMMA GrownBy ==
  ASSUME NEW r, Grow(r)
  PROVE  tree' = IF status' = "ok" THEN Append(tree, r) ELSE tree
  BY DEF Grow

LEMMA TreeIdsSame ==
  ASSUME IInv, LinkTypeOK, TreeIds, UNCHANGED <<symbols, issued>>, Kept
  PROVE  TreeIds'
<1>1. Older
  BY DEF Older, OldNode, SameNode
<1>2. Extends(tree', tree)
  BY View DEF Kept, SameSource, Extends, SameIdentity
<1>3. Len(tree') = Len(tree)
  BY DEF Kept
<1> QED BY <1>1, <1>2, <1>3, TreeIdsKept

LEMMA DeclarationIds ==
  ASSUME LinkBase, TreeIds, NEW n \in Name, NEW spec \in Specifiers,
         NEW type \in Type, NEW init \in {"none", "constant", "expression"},
         ParseDeclaration(n, spec, init, type)
  PROVE  TreeIds'
<1>1. IInv /\ LinkTypeOK
  BY DEF LinkBase
<1> DEFINE r == Resolved("declare", n, spec, init, type)
<1>2. PICK ext \in BOOLEAN : ext = (spec = "extern")
  OBVIOUS
<1>3. /\ IInv' /\ Declare(n, ext, NoName) /\ Grow(r)
      /\ status' = "ok" =>
           /\ Adopted(n, DeclaredLinkage(ext)) \/ Created(n, DeclaredLinkage(ext))
           /\ FoundAt(n) \in 1 .. Len(symbols') /\ r \in Node
  BY <1>1, <1>2, DeclarationNode, Zenon
<1>4. tree' = IF status' = "ok" THEN Append(tree, r) ELSE tree
  BY <1>3, GrownBy
<1>5. CASE status' = "ok"
  <2>1. IsResolved(r, "declare", n, spec)
    <3>1. symbols' \in Table
      BY <1>3 DEF IInv, TypeOK, Table
    <3> QED BY <1>3, <1>5, <3>1, ResolvedNode
  <2> HIDE DEF r
  <2>2. /\ r \in Node /\ r.node = "declare" /\ r.name = n /\ r.spec = spec
        /\ r.id = symbols'[FoundAt(n)].unique /\ (r.file <=> FileScope)
    BY <2>1 DEF IsResolved
  <2>3. DeclaredLinkage(ext) = IF SharedDeclaration(r) THEN External ELSE NoLinkage
    BY <1>2, <2>2, LinkageDeclared
  <2>4. tree' = Append(tree, r)
    BY <1>4, <1>5
  <2>5. CASE Adopted(n, DeclaredLinkage(ext))
    <3>1. SharedDeclaration(r)
      BY <2>3, <2>5 DEF Adopted, External, NoLinkage
    <3> QED BY <1>1, <2>2, <2>4, <2>5, <3>1, AdoptedIds
  <2>6. CASE Created(n, DeclaredLinkage(ext))
    BY <1>1, <2>2, <2>3, <2>4, <2>6, CreatedIds
  <2> QED BY <1>3, <1>5, <2>5, <2>6
<1>6. CASE status' # "ok"
  <2>1. status = "ok" /\ UNCHANGED <<symbols, issued>>
    BY <1>3, <1>6 DEF Declare, CanDeclare, DeclareConflict, DeclareAgain, DeclareStub,
          DeclareNew, ResolveInit
  <2>2. Kept
    BY <1>4, <1>6, SameTree
  <2> QED BY <1>1, <2>1, <2>2, TreeIdsSame
<1> QED BY <1>5, <1>6

LEMMA FunctionIds ==
  ASSUME LinkBase, TreeIds, NEW n \in Name, NEW spec \in Specifiers,
         NEW type \in Type, ParseFunction(n, spec, type)
  PROVE  TreeIds'
<1>1. IInv /\ LinkTypeOK
  BY DEF LinkBase
<1> DEFINE e == Resolved("function", n, spec, "none", type)
           r == [e EXCEPT !.ltype = NoLinkage]
<1>2. IInv' /\ OpenFunction(n) /\ Created(n, NoLinkage) /\ Grow(r) /\ r \in Node
  BY <1>1, FunctionNode
<1>3. IsResolved(e, "function", n, spec)
  <2>1. symbols' \in Table /\ FoundAt(n) \in 1 .. Len(symbols')
    BY <1>2 DEF IInv, TypeOK, Table, Created
  <2> QED BY <2>1, ResolvedNode
<1> HIDE DEF e
<1>4. e \in Node /\ e.node = "function" /\ e.name = n /\ e.id = symbols'[FoundAt(n)].unique
  BY <1>3 DEF IsResolved
<1>5. r.node = "function" /\ r.name = n /\ r.id = symbols'[FoundAt(n)].unique
  BY <1>4 DEF Node
<1> HIDE DEF r
<1>6. tree' = Append(tree, r)
  <2>1. status' = "ok"
    BY <1>2 DEF OpenFunction, CanDeclare
  <2> QED BY <1>2, <2>1, GrownBy
<1> QED BY <1>1, <1>2, <1>5, <1>6, CreatedIds

LEMMA UsageIds ==
  ASSUME LinkBase, TreeIds, NEW n \in Name, ParseUsage(n)
  PROVE  TreeIds'
<1>1. IInv /\ LinkTypeOK
  BY DEF LinkBase
<1> DEFINE r == UsageNode(n)
<1>2. /\ IInv' /\ Use(n) /\ Grow(r)
      /\ status' = "ok" =>
           /\ UNCHANGED <<symbols, issued>>
           /\ FoundAt(n) \in 1 .. Len(symbols') /\ symbols'[FoundAt(n)].name = n
           /\ r \in Node /\ r.node = "use" /\ r.name = n
           /\ r.id = symbols'[FoundAt(n)].unique
  BY <1>1, UsageNodeIs
<1> HIDE DEF r
<1>3. tree' = IF status' = "ok" THEN Append(tree, r) ELSE tree
  BY <1>2, GrownBy
<1>4. UNCHANGED <<symbols, issued>>
  BY <1>2 DEF Use
<1>5. CASE status' = "ok"
  <2>1. tree' = Append(tree, r)
    BY <1>3, <1>5
  <2>2. PICK i \in 1 .. Len(symbols) : symbols[i].name = n /\ r.id = symbols[i].unique
    BY <1>2, <1>4, <1>5
  <2> QED BY <1>1, <1>2, <1>4, <1>5, <2>1, <2>2, UsedIds
<1>6. CASE status' # "ok"
  <2>1. Kept
    BY <1>3, <1>6, SameTree
  <2> QED BY <1>1, <1>4, <2>1, TreeIdsSame
<1> QED BY <1>5, <1>6

LEMMA ScopeIds ==
  ASSUME LinkBase, TreeIds, ParseScope \/ ParseBody \/ ParseEnd
  PROVE  TreeIds'
<1>1. IInv /\ LinkTypeOK
  BY DEF LinkBase
<1>2. Older \/ \E n \in Name : Renewed(n, NoLinkage)
  BY <1>1, ScopeTable
<1>3. Len(tree) \in Nat
  BY <1>1, View
<1>4. Extends(tree', tree) /\ Len(tree') = Len(tree)
  <2>1. CASE ParseBody
    <3>1. tree' = [tree EXCEPT ![Len(tree)].def = TRUE]
      BY <2>1 DEF ParseBody
    <3>2. /\ Len(tree') = Len(tree)
          /\ \A k \in 1 .. Len(tree) :
               /\ tree'[k].node = tree[k].node /\ tree'[k].name = tree[k].name
               /\ tree'[k].id = tree[k].id /\ tree'[k].spec = tree[k].spec
               /\ tree'[k].file = tree[k].file
      BY <1>1, <3>1, BodyNode
    <3> QED BY <1>3, <3>2 DEF Extends, SameIdentity
  <2>2. CASE ParseScope \/ ParseEnd
    <3>1. tree' = tree
      BY <2>2 DEF ParseScope, ParseEnd
    <3> QED BY <1>3, <3>1 DEF Extends, SameIdentity
  <2> QED BY <2>1, <2>2
<1> QED BY <1>1, <1>2, <1>4, TreeIdsKept

LEMMA LaterKeep ==
  ASSUME LinkBase, SignaturesOK,
         \/ CheckUsages \/ Signature \/ EndWalk("signatures", "linkage")
         \/ LinkDeclaration \/ LinkUsage \/ EndWalk("linkage", "mangle")
         \/ MangleDeclaration \/ MangleUsage \/ EndWalk("mangle", "done")
         \/ PassBy \/ UNCHANGED linkVars
  PROVE  Kept /\ UNCHANGED vars
<1>1. CASE Signature
  BY <1>1, SignatureStep DEF Signature, Refuse, Pass
<1>2. CASE LinkDeclaration \/ LinkUsage \/ MangleDeclaration \/ MangleUsage
  BY <1>2, LaterSteps DEF LinkDeclaration, LinkUsage, MangleDeclaration, MangleUsage,
     Refuse, Pass
<1>3. CASE CheckUsages
  BY <1>3, SameTree DEF CheckUsages
<1>4. CASE EndWalk("signatures", "linkage") \/ EndWalk("linkage", "mangle")
             \/ EndWalk("mangle", "done")
  BY <1>4, SameTree DEF EndWalk
<1>5. CASE PassBy
  BY <1>5, SameTree DEF PassBy, Pass
<1>6. CASE UNCHANGED linkVars
  BY <1>6, SameTree DEF linkVars
<1> QED BY <1>1, <1>2, <1>3, <1>4, <1>5, <1>6

LEMMA InitTreeIds == LinkInit => TreeIds
<1> SUFFICES ASSUME LinkInit PROVE TreeIds
  OBVIOUS
<1>1. Len(tree) = 0 /\ Len(symbols) = 0
  BY DEF LinkInit, Init
<1> QED BY <1>1 DEF TreeIds, IdsIn, TreeIssued, ExternalsDeclared, OwnIds, UsesAfter, DeclarationsIn

LEMMA NextTreeIds == LinkBase /\ SignaturesOK /\ TreeIds /\ [LinkNext]_linkVars => TreeIds'
<1> SUFFICES ASSUME LinkBase, SignaturesOK, TreeIds, [LinkNext]_linkVars PROVE TreeIds'
  OBVIOUS
<1>1. ASSUME NEW n \in Functions, NEW spec \in Specifiers, NEW type \in Type,
             ParseFunction(n, spec, type)
      PROVE  TreeIds'
  BY <1>1, FunctionIds, NodesAssumption
<1>2. ASSUME NEW n \in Variables, NEW spec \in Specifiers, NEW type \in Type,
             NEW init \in Inits, ParseDeclaration(n, spec, init, type)
      PROVE  TreeIds'
  BY <1>2, DeclarationIds, NodesAssumption
<1>3. ASSUME NEW n \in Name, ParseUsage(n) PROVE TreeIds'
  BY <1>3, UsageIds
<1>4. CASE ParseBody \/ ParseScope \/ ParseEnd
  BY <1>4, ScopeIds
<1>5. CASE \/ CheckUsages \/ Signature \/ EndWalk("signatures", "linkage")
           \/ LinkDeclaration \/ LinkUsage \/ EndWalk("linkage", "mangle")
           \/ MangleDeclaration \/ MangleUsage \/ EndWalk("mangle", "done")
           \/ PassBy \/ UNCHANGED linkVars
  <2>1. Kept /\ UNCHANGED vars
    BY <1>5, LaterKeep
  <2> QED BY <2>1, TreeIdsSame DEF LinkBase, vars
<1> QED BY <1>1, <1>2, <1>3, <1>4, <1>5 DEF LinkNext

\* Nodes with one ID have one name.  Declarations that share an ID are of a
\* shared object, and a usage follows one of the declarations with its ID.
LEMMA SameIds ==
  ASSUME LinkBase, TreeIds, NEW j \in 1 .. Len(tree), NEW k \in 1 .. Len(tree),
         tree[j].id = tree[k].id
  PROVE  /\ tree[j].name = tree[k].name
         /\ tree[j].node = "declare" /\ tree[k].node = "declare" /\ j # k =>
              SharedDeclaration(tree[j]) /\ SharedDeclaration(tree[k])
         /\ tree[j].node = "use" /\ tree[k].node = "declare" => DeclaredBefore(tree, j)
<1>1. TreeIssued(tree, issued) /\ OwnIds(tree, symbols) /\ UsesAfter(tree, symbols)
  BY DEF TreeIds, IdsIn
<1>2. tree[j].name = tree[k].name
  <2>1. Issued(issued, tree[j].id, tree[j].name) /\ Issued(issued, tree[j].id, tree[k].name)
    BY <1>1 DEF TreeIssued
  <2> QED BY <2>1, IssuedOnce DEF LinkBase
<1>3. ASSUME tree[j].node = "declare", tree[k].node = "declare", j # k
      PROVE  SharedDeclaration(tree[j]) /\ SharedDeclaration(tree[k])
  <2>1. j \in DeclarationsIn(tree) /\ k \in DeclarationsIn(tree)
    BY <1>3 DEF DeclarationsIn
  <2> QED BY <1>1, <1>3, <2>1 DEF OwnIds, OwnsId
<1>4. ASSUME tree[j].node = "use", tree[k].node = "declare"
      PROVE  DeclaredBefore(tree, j)
  <2>1. k \in DeclarationsIn(tree)
    BY <1>4 DEF DeclarationsIn
  <2> QED BY <1>1, <1>4, <2>1 DEF UsesAfter, NotDeclared, DeclaresId
<1> QED BY <1>2, <1>3, <1>4

(***************************************************************************)
(* The symbols of the variables: each comes from a declaration the walk is *)
(* past, has its ID, and has it alone.  What has no linkage is not emitted.*)
(***************************************************************************)
SymbolFrom(v, d) ==
  /\ d.node = "declare" /\ d.id = v.unique /\ d.name = v.name
  /\ SharedDeclaration(d) <=> v.dscope = "file"
  /\ ~ SharedDeclaration(d) =>
       /\ v.linkage = IF d.spec = "static" THEN Internal ELSE NoLinkage
       /\ d.spec # "static" => v.initial = NoInitializer

SymbolsFrom ==
  \A i \in 1 .. Len(variables) : \E k \in 1 .. Len(tree) :
    k =< LinkDone /\ SymbolFrom(variables[i], tree[k])

SymbolsDiffer ==
  \A i, j \in 1 .. Len(variables) : variables[i].unique = variables[j].unique => i = j

\* A declaration to come has no symbol yet, but that of its shared object.
LEMMA SymbolToCome ==
  ASSUME LinkBase, TreeIds, SymbolsFrom, NEW i \in 1 .. Len(variables),
         NEW k \in 1 .. Len(tree), tree[k].node = "declare", ~ (k =< LinkDone),
         variables[i].unique = tree[k].id
  PROVE  SharedDeclaration(tree[k]) /\ i \in FileSymbols(tree[k].name)
<1>1. PICK j \in 1 .. Len(tree) : j =< LinkDone /\ SymbolFrom(variables[i], tree[j])
  BY DEF SymbolsFrom
<1>2. tree[j].id = tree[k].id /\ tree[j].node = "declare" /\ j # k
      /\ variables[i].name = tree[j].name
  BY <1>1 DEF SymbolFrom
<1>3. /\ tree[j].name = tree[k].name
      /\ SharedDeclaration(tree[j]) /\ SharedDeclaration(tree[k])
  BY <1>2, SameIds
<1> QED BY <1>1, <1>2, <1>3 DEF SymbolFrom, FileSymbols

\* The symbols are the same but for their names and their initializers.
SameObjects ==
  /\ Len(variables') = Len(variables)
  /\ \A i \in 1 .. Len(variables) :
       /\ variables'[i].name = variables[i].name
       /\ variables'[i].unique = variables[i].unique
       /\ variables'[i].dscope = variables[i].dscope
       /\ variables'[i].linkage = variables[i].linkage
       /\ variables'[i].initial = variables[i].initial

LEMMA FromKept ==
  ASSUME Kept, NEW k \in 1 .. Len(tree), NEW v, NEW w, SymbolFrom(v, tree[k]),
         w.name = v.name, w.unique = v.unique, w.dscope = v.dscope,
         w.linkage = v.linkage, w.initial = v.initial
  PROVE  SymbolFrom(w, tree'[k]) /\ k \in 1 .. Len(tree')
  BY KeptNodes DEF SymbolFrom, SharedDeclaration

LEMMA TablesKept ==
  ASSUME Kept, SameObjects, SymbolsFrom, SymbolsDiffer,
         \A k \in 1 .. Len(tree) : tree[k].node = "declare" /\ k =< LinkDone => k =< LinkDone'
  PROVE  SymbolsFrom' /\ SymbolsDiffer'
<1>1. ASSUME NEW i \in 1 .. Len(variables)
      PROVE  \E k \in 1 .. Len(tree') : k =< LinkDone' /\ SymbolFrom(variables'[i], tree'[k])
  <2>1. PICK k \in 1 .. Len(tree) : k =< LinkDone /\ SymbolFrom(variables[i], tree[k])
    BY DEF SymbolsFrom
  <2>2. k =< LinkDone'
    BY <2>1 DEF SymbolFrom
  <2>3. SymbolFrom(variables'[i], tree'[k]) /\ k \in 1 .. Len(tree')
    BY <2>1, FromKept DEF SameObjects
  <2> QED BY <2>2, <2>3
<1>2. SymbolsFrom'
  BY <1>1 DEF SymbolsFrom, SameObjects
<1>3. SymbolsDiffer'
  BY DEF SymbolsDiffer, SameObjects
<1> QED BY <1>2, <1>3

\* The declaration the walk comes to, its symbol and what it says.
Accepts(d, v, s) ==
  /\ LinkDeclaration /\ d \in Node /\ d = tree[at]
  /\ v \in 0 .. Len(variables) /\ v = Earlier(d)
  /\ s \in States /\ s = DeclaredState(d, v)
  /\ ~ DeclarationRefused(d, v) /\ Declares(v, s)

LEMMA AcceptedAt ==
  ASSUME LinkTypeOK, NEW d, NEW v, NEW s, Accepts(d, v, s)
  PROVE  /\ walk = "linkage" /\ walk' = walk /\ at \in 1 .. Len(tree) /\ at' = at + 1
         /\ d.node = "declare" /\ at \in Nat
         /\ LinkDone = at - 1 /\ LinkDone' = at
<1>1. /\ walk = "linkage" /\ walk' = walk /\ at \in 1 .. Len(tree) /\ at' = at + 1
      /\ d.node = "declare"
  BY AtDeclaration DEF Accepts, Visits, Declares, Pass
<1>2. at \in Nat
  BY View
<1> QED BY <1>1, <1>2 DEF LinkDone

\* What an accepted declaration makes of its symbol.
AcceptedAs(d, v, s, m) ==
  /\ v # 0 => SharedDeclaration(d) /\ variables[v].name = d.name
              /\ FileSymbols(d.name) = {v}
  /\ \A i \in 1 .. m : variables[i].unique = d.id => i = v
  /\ SharedDeclaration(d) => d.file \/ v # 0 \/ s.linkage = External
  /\ ~ SharedDeclaration(d) =>
       /\ ~ d.file /\ s.linkage = IF d.spec = "static" THEN Internal ELSE NoLinkage
       /\ d.spec # "static" => s.initial = NoInitializer

LEMMA AcceptedSymbol ==
  ASSUME LinkBase, SignaturesOK, MergesOK, TreeIds, SymbolsFrom,
         NEW d, NEW v, NEW s, Accepts(d, v, s), NEW m, m = Len(variables)
  PROVE  DeclaredTable(d, v, s, m) /\ Kept /\ m \in Nat /\ AcceptedAs(d, v, s, m)
<1>1. LinkTypeOK
  BY DEF LinkBase
<1>2. /\ LinkDeclaration /\ d \in Node /\ d = tree[at]
      /\ v \in 0 .. Len(variables) /\ v = Earlier(d)
      /\ s \in States /\ s = DeclaredState(d, v)
      /\ ~ DeclarationRefused(d, v) /\ Declares(v, s)
  BY DEF Accepts
<1>3. /\ at \in 1 .. Len(tree) /\ d.node = "declare" /\ at \in Nat /\ LinkDone = at - 1
  BY <1>1, AcceptedAt
<1>4. DeclaredTable(d, v, s, m) /\ Kept /\ m \in Nat
  <2>1. DeclaredTable(d, v, s, m)
    BY <1>1, <1>2, <1>3, SymbolsAfterDeclares
  <2>2. Kept
    BY <1>1, <1>2, <1>3, DeclaresType
  <2> QED BY <1>1, <2>1, <2>2, View
<1>5. /\ v # 0 => variables[v].name = d.name
      /\ IF SharedDeclaration(d)
         THEN /\ d.file \/ v # 0 \/ s.linkage = External
              /\ v = 0 => FileSymbols(d.name) = {}
              /\ v # 0 => FileSymbols(d.name) = {v} /\ variables[v].type = d.type
         ELSE v = 0 /\ ~ d.file /\ s.linkage # External
  BY <1>1, <1>2, DeclarationMerges
<1>6. ASSUME NEW i \in 1 .. m, variables[i].unique = d.id
      PROVE  i = v
  <2>1. ~ (at =< LinkDone)
    BY <1>3
  <2>2. SharedDeclaration(d) /\ i \in FileSymbols(d.name)
    BY <1>2, <1>3, <1>6, <2>1, SymbolToCome
  <2> QED BY <1>5, <2>2
<1>7. ASSUME ~ SharedDeclaration(d)
      PROVE  /\ ~ d.file /\ s.linkage = IF d.spec = "static" THEN Internal ELSE NoLinkage
             /\ d.spec # "static" => s.initial = NoInitializer
  <2>1. d.spec \in {"none", "static"} /\ ~ d.file
    BY <1>2, <1>7 DEF SharedDeclaration, Node, Specifiers
  <2>2. s = BlockState(d, v)
    BY <1>2, <2>1 DEF DeclaredState
  <2>3. CASE d.spec = "static"
    <3>1. PICK x : s = State(Internal, Constant, x)
      BY <2>2, <2>3 DEF BlockState
    <3> QED BY <2>1, <2>3, <3>1 DEF State
  <2>4. CASE d.spec = "none"
    <3>1. s = State(NoLinkage, NoInitializer, 0)
      BY <2>2, <2>4 DEF BlockState
    <3> QED BY <2>1, <2>4, <3>1 DEF State
  <2> QED BY <2>1, <2>3, <2>4
<1> QED BY <1>4, <1>5, <1>6, <1>7 DEF AcceptedAs

LEMMA TablesAccepted ==
  ASSUME LinkBase, SignaturesOK, MergesOK, TreeIds, SymbolsFrom, SymbolsDiffer,
         NEW d, NEW v, NEW s, Accepts(d, v, s)
  PROVE  SymbolsFrom' /\ SymbolsDiffer'
<1>1. LinkTypeOK
  BY DEF LinkBase
<1>2. PICK m : m = Len(variables)
  OBVIOUS
<1>3. DeclaredTable(d, v, s, m) /\ Kept /\ m \in Nat /\ AcceptedAs(d, v, s, m)
  BY <1>2, AcceptedSymbol
<1>4. /\ v # 0 => SharedDeclaration(d) /\ variables[v].name = d.name
                  /\ FileSymbols(d.name) = {v}
      /\ \A i \in 1 .. m : variables[i].unique = d.id => i = v
      /\ SharedDeclaration(d) => d.file \/ v # 0 \/ s.linkage = External
      /\ ~ SharedDeclaration(d) =>
           /\ ~ d.file /\ s.linkage = IF d.spec = "static" THEN Internal ELSE NoLinkage
           /\ d.spec # "static" => s.initial = NoInitializer
  BY <1>3 DEF AcceptedAs
<1>5. /\ at \in 1 .. Len(tree) /\ d.node = "declare" /\ at \in Nat
      /\ LinkDone = at - 1 /\ LinkDone' = at /\ d = tree[at] /\ v \in 0 .. m
  BY <1>1, <1>2, AcceptedAt DEF Accepts
<1> DEFINE new == IF v = 0 THEN m + 1 ELSE v
<1>6. PICK x : x = new
  OBVIOUS
<1>7. /\ Len(variables') = IF v = 0 THEN m + 1 ELSE m
      /\ \A i \in 1 .. Len(variables') : i = x \/ (i \in 1 .. m /\ i # v /\ variables'[i] = variables[i])
      /\ variables'[x].name = d.name /\ variables'[x].unique = d.id
      /\ variables'[x].dscope = "file" <=> SharedDeclaration(d)
      /\ variables'[x].linkage = s.linkage /\ variables'[x].initial = s.initial
  <2>1. CASE v = 0
    <3>1. x = m + 1
      BY <1>6, <2>1
    <3>2. /\ Len(variables') = m + 1 /\ variables'[x].name = d.name
          /\ variables'[x].unique = d.id
          /\ variables'[x].dscope =
                   (IF d.file \/ s.linkage = External THEN "file" ELSE "block")
          /\ variables'[x].linkage = s.linkage /\ variables'[x].initial = s.initial
          /\ \A i \in 1 .. m : i # v => variables'[i] = variables[i]
      BY <1>3, <1>4, <2>1, <3>1 DEF DeclaredTable
    <3>3. variables'[x].dscope = "file" <=> SharedDeclaration(d)
      BY <1>3, <1>4, <2>1, <3>2 DEF SharedDeclaration, External, Internal, NoLinkage
    <3> QED BY <1>3, <1>4, <2>1, <3>1, <3>2, <3>3
  <2>2. CASE v # 0
    <3>1. x = v /\ v \in 1 .. m
      BY <1>3, <1>4, <1>5, <1>6, <2>2
    <3>2. /\ Len(variables') = m /\ variables'[v].name = variables[v].name
          /\ variables'[v].unique = d.id
          /\ variables'[v].dscope = variables[v].dscope
          /\ variables'[v].linkage = s.linkage /\ variables'[v].initial = s.initial
          /\ \A i \in 1 .. m : i # v => variables'[i] = variables[i]
      BY <1>3, <1>4, <2>2 DEF DeclaredTable
    <3>3. variables[v].dscope = "file"
      BY <1>3, <1>4, <2>2 DEF FileSymbols
    <3> QED BY <1>3, <1>4, <2>2, <3>1, <3>2, <3>3
  <2> QED BY <2>1, <2>2
<1>8. x \in 1 .. Len(variables')
  BY <1>3, <1>4, <1>5, <1>6, <1>7
<1> HIDE DEF new
<1>9. SymbolFrom(variables'[x], tree[at])
  BY <1>3, <1>4, <1>5, <1>7 DEF SymbolFrom
<1>10. PICK a : a = at
  OBVIOUS
<1>11. SymbolsFrom'
  <2> SUFFICES ASSUME NEW i \in 1 .. Len(variables')
               PROVE  \E k \in 1 .. Len(tree') : k =< LinkDone' /\ SymbolFrom(variables'[i], tree'[k])
    BY DEF SymbolsFrom
  <2>1. CASE i = x
    <3>1. a \in 1 .. Len(tree) /\ SymbolFrom(variables'[i], tree[a]) /\ a =< LinkDone'
      BY <1>5, <1>9, <1>10, <2>1
    <3>2. SymbolFrom(variables'[i], tree'[a]) /\ a \in 1 .. Len(tree')
      BY <1>3, <1>4, <3>1, FromKept
    <3> QED BY <3>1, <3>2
  <2>2. CASE i # x
    <3>1. i \in 1 .. m /\ variables'[i] = variables[i]
      BY <1>7, <2>2
    <3>2. PICK k \in 1 .. Len(tree) : k =< LinkDone /\ SymbolFrom(variables[i], tree[k])
      BY <1>2, <3>1 DEF SymbolsFrom
    <3>3. SymbolFrom(variables'[i], tree'[k]) /\ k \in 1 .. Len(tree')
      BY <1>3, <1>4, <3>1, <3>2, FromKept
    <3>4. k =< LinkDone'
      BY <1>5, <3>2
    <3> QED BY <3>3, <3>4
  <2> QED BY <2>1, <2>2
<1>12. SymbolsDiffer'
  <2> SUFFICES ASSUME NEW i \in 1 .. Len(variables'), NEW j \in 1 .. Len(variables'),
                      variables'[i].unique = variables'[j].unique
               PROVE  i = j
    BY DEF SymbolsDiffer
  <2>1. ASSUME NEW k \in 1 .. Len(variables'), k # x
        PROVE  variables'[k].unique # d.id
    <3>1. k \in 1 .. m /\ k # v /\ variables'[k] = variables[k]
      BY <1>7, <2>1
    <3> QED BY <1>3, <1>4, <3>1
  <2>2. i = x <=> j = x
    BY <1>7, <2>1
  <2>3. CASE i # x
    <3>1. /\ i \in 1 .. m /\ variables'[i] = variables[i]
          /\ j \in 1 .. m /\ variables'[j] = variables[j]
      BY <1>7, <2>2, <2>3
    <3> QED BY <1>2, <3>1 DEF SymbolsDiffer
  <2> QED BY <2>2, <2>3
<1> QED BY <1>11, <1>12

(***************************************************************************)
(* What a step of the walks is to the tables and the nodes.                *)
(***************************************************************************)
\* The nodes the walk that mangles is past.
MangleDone == IF walk = "mangle" THEN at - 1 ELSE IF walk = "done" THEN Len(tree) ELSE 0

\* Nothing happens, and no declaration or usage is passed.
Still ==
  /\ UNCHANGED <<tree, variables>>
  /\ \A k \in 1 .. Len(tree) : tree[k].node # "function" =>
       /\ k =< LinkDone' <=> k =< LinkDone
       /\ k =< MangleDone' <=> k =< MangleDone

\* A declaration or usage is passed by one of the walks.
Links == /\ walk = "linkage" /\ UNCHANGED walk /\ at \in 1 .. Len(tree)
         /\ LinkDone = at - 1 /\ LinkDone' = at /\ MangleDone = 0 /\ MangleDone' = 0
Names == /\ walk = "mangle" /\ UNCHANGED walk /\ at \in 1 .. Len(tree)
         /\ LinkDone = Len(tree) /\ LinkDone' = Len(tree)
         /\ MangleDone = at - 1 /\ MangleDone' = at

Passes ==
  \/ walk' \in {"parse", "usage", "signatures"}
  \/ Still
  \/ Links /\ \E d, v, s : Accepts(d, v, s)
  \/ Links /\ LinkUsage
  \/ Names /\ MangleDeclaration
  \/ Names /\ MangleUsage

LEMMA PassesAre ==
  ASSUME LinkBase, [LinkNext]_linkVars
  PROVE  Passes
<1>1. LinkTypeOK
  BY DEF LinkBase
<1>2. Steps
  BY StepsAre
<1>3. at \in Nat /\ Len(tree) \in Nat /\ \A k \in 1 .. Len(tree) : k \in Nat
  BY <1>1, View
<1>4. CASE walk' \in {"parse", "usage", "signatures"}
  BY <1>4 DEF Passes
<1>5. CASE Signature
  <2>1. walk' = "signatures"
    BY <1>5 DEF Signature, Visits, Refuse, Pass
  <2> QED BY <2>1 DEF Passes
<1>6. CASE UNCHANGED <<tree, walk, at, variables>>
  BY <1>6 DEF Passes, Still, LinkDone, MangleDone
<1>7. CASE LinkDeclaration
  <2>1. PICK d \in Node : d = tree[at]
    BY <1>1, <1>7, AtDeclaration
  <2>2. PICK v \in 0 .. Len(variables) : v = Earlier(d)
    BY <1>1, <1>7, <2>1, AtDeclaration
  <2>3. PICK s \in States : s = DeclaredState(d, v)
    BY <1>1, <1>7, <2>1, <2>2, AtDeclaration
  <2>4. \/ DeclarationRefused(d, v) /\ Refuse
        \/ ~ DeclarationRefused(d, v) /\ Declares(v, s)
    BY <1>1, <1>7, <2>1, <2>2, <2>3, DeclarationView
  <2>5. CASE Refuse
    BY <1>6, <2>5 DEF Refuse
  <2>6. CASE ~ DeclarationRefused(d, v) /\ Declares(v, s)
    <3>1. Accepts(d, v, s)
      BY <1>7, <2>1, <2>2, <2>3, <2>6 DEF Accepts
    <3>2. Links
      BY <1>1, <1>3, <3>1, AcceptedAt DEF Links, MangleDone
    <3> QED BY <3>1, <3>2 DEF Passes
  <2> QED BY <2>4, <2>5, <2>6
<1>8. CASE LinkUsage \/ MangleDeclaration \/ MangleUsage
  <2>1. /\ UNCHANGED walk /\ at \in 1 .. Len(tree) /\ at' = at + 1
        /\ Len(tree') = Len(tree)
    <3>1. UNCHANGED verdict
      BY <1>8 DEF LinkUsage, MangleDeclaration, MangleUsage, Pass
    <3> QED BY <1>8, <3>1, LaterSteps DEF Kept
  <2>2. CASE LinkUsage
    <3>1. walk = "linkage"
      BY <2>2 DEF LinkUsage, Visits
    <3> QED BY <1>3, <2>1, <2>2, <3>1 DEF Passes, Links, LinkDone, MangleDone
  <2>3. CASE MangleDeclaration \/ MangleUsage
    <3>1. walk = "mangle"
      BY <2>3 DEF MangleDeclaration, MangleUsage, Visits
    <3> QED BY <1>3, <2>1, <2>3, <3>1 DEF Passes, Names, LinkDone, MangleDone
  <2> QED BY <1>8, <2>2, <2>3
<1>9. CASE /\ EndWalk("signatures", "linkage") \/ EndWalk("linkage", "mangle")
                \/ EndWalk("mangle", "done")
           /\ UNCHANGED <<tree, functions, variables, verdict>>
  <2>1. /\ at = Len(tree) + 1 /\ at' = 1 /\ UNCHANGED <<tree, variables>>
        /\ \/ walk = "signatures" /\ walk' = "linkage"
           \/ walk = "linkage" /\ walk' = "mangle"
           \/ walk = "mangle" /\ walk' = "done"
    BY <1>9 DEF EndWalk
  <2>2. LinkDone' = LinkDone /\ MangleDone' = MangleDone
    BY <1>3, <2>1 DEF LinkDone, MangleDone
  <2> QED BY <2>1, <2>2 DEF Passes, Still
<1>10. CASE /\ PassBy /\ at \in 1 .. Len(tree) /\ at' = at + 1
            /\ UNCHANGED <<tree, walk, functions, variables, verdict>>
  <2>1. CASE walk = "signatures"
    BY <1>10, <2>1 DEF Passes
  <2>2. CASE walk # "signatures"
    <3>1. walk \in {"linkage", "mangle"} /\ tree[at].node = "function"
      BY <1>10, <2>2 DEF PassBy, Visits, Here
    <3>2. ASSUME NEW k \in 1 .. Len(tree), tree[k].node # "function"
          PROVE  k =< at <=> k =< at - 1
      <4>1. k # at
        BY <3>1, <3>2
      <4> QED BY <1>3, <4>1
    <3>3. Still
      BY <1>3, <1>10, <3>1, <3>2 DEF Still, LinkDone, MangleDone
    <3> QED BY <3>3 DEF Passes
  <2> QED BY <2>1, <2>2
<1> QED BY <1>2, <1>4, <1>5, <1>6, <1>7, <1>8, <1>9, <1>10 DEF Steps

TablesOK == SymbolsFrom /\ SymbolsDiffer

LEMMA SymbolNamed ==
  ASSUME LinkBase, TreeIds, SymbolsFrom, NEW i \in 1 .. Len(variables),
         NEW k \in 1 .. Len(tree), variables[i].unique = tree[k].id
  PROVE  variables[i].name = tree[k].name
<1>1. PICK j \in 1 .. Len(tree) : SymbolFrom(variables[i], tree[j])
  BY DEF SymbolsFrom
<1>2. tree[j].id = tree[k].id /\ variables[i].name = tree[j].name
  BY <1>1 DEF SymbolFrom
<1> QED BY <1>2, SameIds

\* The one symbol with this ID.
LEMMA OneWithId ==
  ASSUME LinkTypeOK, SymbolsDiffer, NEW i \in 1 .. Len(variables),
         NEW x, variables[i].unique = x
  PROVE  WithId(x) = i
<1>1. WithId(x) # 0
  BY WithIdIs
<1>2. WithId(x) \in 1 .. Len(variables) /\ variables[WithId(x)].unique = x
  BY <1>1, WithIdIs
<1> QED BY <1>2 DEF SymbolsDiffer

LEMMA StartTables ==
  ASSUME variables = <<>>
  PROVE  TablesOK
  BY DEF TablesOK, SymbolsFrom, SymbolsDiffer

LEMMA StartTablesNext == (variables = <<>>)' => TablesOK'
  BY StartTables, PTL

LEMMA NamingViews ==
  ASSUME LinkBase, MangleDeclaration \/ MangleUsage,
         NEW v, v = WithId(tree[at].id)
  PROVE  /\ at \in 1 .. Len(tree) /\ v \in 0 .. Len(variables)
         /\ MangleDeclaration => Mangling(v) /\ tree[at].node = "declare"
         /\ MangleUsage => Naming(v) /\ tree[at].node = "use"
<1>1. LinkTypeOK
  BY DEF LinkBase
<1>2. at \in 1 .. Len(tree) /\ Here = tree[at]
  BY <1>1, Entered DEF MangleDeclaration, MangleUsage
<1>3. WithId(tree[at].id) \in 0 .. Len(variables)
  BY <1>1, WithIdIs, View
<1>4. MangleDeclaration => Mangling(v) /\ tree[at].node = "declare"
  BY <1>1, <1>2, MangleView DEF MangleDeclaration
<1>5. MangleUsage => Naming(v) /\ tree[at].node = "use"
  BY <1>1, <1>2, MangleUsageView DEF MangleUsage
<1> QED BY <1>2, <1>3, <1>4, <1>5

\* Names are all that a step of the walk that mangles changes.
LEMMA NamingKeeps ==
  ASSUME LinkBase, MangleDeclaration \/ MangleUsage
  PROVE  /\ Kept /\ SameObjects
         /\ \A k \in 1 .. Len(tree) : tree'[k].ltype = tree[k].ltype
<1>1. LinkTypeOK
  BY DEF LinkBase
<1>2. PICK v : v = WithId(tree[at].id)
  OBVIOUS
<1>3. /\ at \in 1 .. Len(tree) /\ v \in 0 .. Len(variables)
      /\ MangleDeclaration => Mangling(v)
      /\ MangleUsage => Naming(v)
  BY <1>2, NamingViews
<1>4. CASE Mangling(v)
  <2>1. Kept /\ \A k \in 1 .. Len(tree) : tree'[k].ltype = tree[k].ltype
    BY <1>1, <1>3, <1>4, ManglingType
  <2>2. SameObjects
    BY <1>1, <1>3, <1>4, ManglingSymbols DEF SameObjects
  <2> QED BY <2>1, <2>2
<1>5. CASE Naming(v)
  <2>1. /\ Kept /\ UNCHANGED variables
        /\ \A k \in 1 .. Len(tree) : tree'[k].ltype = tree[k].ltype
    BY <1>1, <1>3, <1>5, NamingType
  <2> QED BY <2>1 DEF SameObjects
<1> QED BY <1>3, <1>4, <1>5

\* A usage takes the linkage of the symbol with its ID.
LEMMA LinkUsageKeeps ==
  ASSUME LinkBase, LinkUsage, NEW v, v = WithId(tree[at].id)
  PROVE  /\ at \in 1 .. Len(tree) /\ tree[at].node = "use" /\ v \in 0 .. Len(variables)
         /\ Kept /\ UNCHANGED variables
         /\ \A k \in 1 .. Len(tree) :
              /\ tree'[k].label = tree[k].label
              /\ k # at => tree'[k].ltype = tree[k].ltype
              /\ k = at /\ v # 0 => tree'[k].ltype = variables[v].linkage
<1>1. LinkTypeOK
  BY DEF LinkBase
<1>2. at \in 1 .. Len(tree) /\ tree[at].node = "use"
  BY <1>1, Entered DEF LinkUsage
<1>3. v \in 0 .. Len(variables)
  BY <1>1, WithIdIs, View
<1>4. UsesSymbol(v)
  BY <1>1, LinkUsageView
<1>5. /\ Kept /\ UNCHANGED variables
      /\ \A k \in 1 .. Len(tree) :
           /\ tree'[k].label = tree[k].label
           /\ k # at \/ v = 0 => tree'[k].ltype = tree[k].ltype
           /\ k = at /\ v # 0 => tree'[k].ltype = variables[v].linkage
  BY <1>1, <1>2, <1>3, <1>4, UsesSymbolType
<1> QED BY <1>2, <1>3, <1>5

LEMMA NextTables ==
  LinkBase /\ SignaturesOK /\ MergesOK /\ TreeIds /\ TablesOK /\ LinkBase'
    /\ [LinkNext]_linkVars => TablesOK'
<1> SUFFICES ASSUME LinkBase, SignaturesOK, MergesOK, TreeIds, TablesOK, LinkBase',
                    [LinkNext]_linkVars
             PROVE  TablesOK'
  OBVIOUS
<1>1. LinkTypeOK /\ SymbolsFrom /\ SymbolsDiffer
  BY DEF LinkBase, TablesOK
<1>2. CASE walk' \in {"parse", "usage", "signatures"}
  <2>1. (variables = <<>>)'
    BY <1>2 DEF LinkBase, Walks
  <2> QED BY <2>1, StartTablesNext
<1>3. CASE Still
  <2>1. Kept /\ SameObjects
    BY <1>3, SameTree DEF Still, SameObjects
  <2>2. \A k \in 1 .. Len(tree) : tree[k].node = "declare" /\ k =< LinkDone => k =< LinkDone'
    BY <1>3 DEF Still
  <2> QED BY <1>1, <2>1, <2>2, TablesKept DEF TablesOK
<1>4. CASE \E d, v, s : Accepts(d, v, s)
  BY <1>1, <1>4, TablesAccepted DEF TablesOK
<1>5. CASE Links /\ LinkUsage
  <2>1. Kept /\ SameObjects
    BY <1>5, LinkUsageKeeps DEF SameObjects
  <2>2. \A k \in 1 .. Len(tree) : k =< LinkDone => k =< LinkDone'
    BY <1>1, <1>5, View DEF Links
  <2> QED BY <1>1, <2>1, <2>2, TablesKept DEF TablesOK
<1>6. CASE Names /\ (MangleDeclaration \/ MangleUsage)
  <2>1. Kept /\ SameObjects
    BY <1>6, NamingKeeps
  <2>2. \A k \in 1 .. Len(tree) : k =< LinkDone => k =< LinkDone'
    BY <1>6 DEF Names
  <2> QED BY <1>1, <2>1, <2>2, TablesKept DEF TablesOK
<1>7. Passes
  BY PassesAre
<1> QED BY <1>2, <1>3, <1>4, <1>5, <1>6, <1>7 DEF Passes

(***************************************************************************)
(* The assembler names.  A symbol that is to be mangled has been, once the *)
(* walk is past a declaration of it, and the nodes behind the walk have    *)
(* the name of the symbol.                                                 *)
(***************************************************************************)
DeclaredUpTo(x, p) ==
  \E k \in 1 .. Len(tree) : tree[k].node = "declare" /\ k =< p /\ tree[k].id = x

IsMangled(v, p) == v.linkage = Internal /\ DeclaredUpTo(v.unique, p)

SymbolLabel(v, p) == IF IsMangled(v, p) THEN <<v.name, v.unique>> ELSE <<v.name>>

SymbolsLabelled ==
  \A i \in 1 .. Len(variables) : variables[i].label = SymbolLabel(variables[i], MangleDone)

PlainNode(k) == tree[k].label = <<tree[k].name>>
NotYetLabelled ==
  \A k \in 1 .. Len(tree) :
    ~ (k =< MangleDone) \/ tree[k].node = "function" => PlainNode(k)

NodesLabelled ==
  \A k \in 1 .. Len(tree), i \in 1 .. Len(variables) :
    k =< MangleDone /\ tree[k].node # "function" /\ variables[i].unique = tree[k].id =>
      tree[k].label = variables[i].label

LabelsOK == SymbolsLabelled /\ NotYetLabelled /\ NodesLabelled

LEMMA Appended ==
  ASSUME NEW S, NEW q \in Seq(S), NEW b \in S
  PROVE  /\ Append(q, b) \in Seq(S) /\ Len(Append(q, b)) = Len(q) + 1
         /\ \A i \in 1 .. Len(q) : Append(q, b)[i] = q[i]
         /\ Append(q, b)[Len(q) + 1] = b
  OBVIOUS

LEMMA AppendToOne ==
  ASSUME NEW S, NEW a \in S, NEW b \in S
  PROVE  Append(<<a>>, b) = <<a, b>>
<1> DEFINE q == <<a>>
           r == <<a, b>>
<1>1. q \in Seq(S)
  OBVIOUS
<1>2. Len(q) = 1 /\ q[1] = a
  OBVIOUS
<1>3. r \in Seq(S) /\ Len(r) = 2 /\ r[1] = a /\ r[2] = b
  OBVIOUS
<1> HIDE DEF q, r
<1>4. /\ Append(q, b) \in Seq(S) /\ Len(Append(q, b)) = Len(q) + 1
      /\ \A i \in 1 .. Len(q) : Append(q, b)[i] = q[i]
      /\ Append(q, b)[Len(q) + 1] = b
  BY <1>1, Appended
<1>5. /\ Append(q, b) \in Seq(S) /\ Len(Append(q, b)) = 2
      /\ Append(q, b)[1] = a /\ Append(q, b)[2] = b
  BY <1>2, <1>4
<1>6. Append(q, b) = r
  BY <1>3, <1>5, SeqEqual
<1> QED BY <1>6 DEF q, r

LEMMA MangledOnce ==
  ASSUME NEW v \in VariableSymbol
  PROVE  /\ v.label = <<v.name>> => Mangled(v) = <<v.name, v.unique>>
         /\ v.label = <<v.name, v.unique>> => Mangled(v) = v.label
<1>1. v.name \in Name \cup Nat /\ v.unique \in Name \cup Nat
  BY DEF VariableSymbol
<1>2. ASSUME v.label = <<v.name>> PROVE Mangled(v) = <<v.name, v.unique>>
  <2>1. Mangled(v) = Append(<<v.name>>, v.unique)
    BY <1>2 DEF Mangled
  <2> QED BY <1>1, <2>1, AppendToOne
<1>3. ASSUME v.label = <<v.name, v.unique>> PROVE Mangled(v) = v.label
  BY <1>1, <1>3 DEF Mangled
<1> QED BY <1>2, <1>3

LEMMA KeptUpTo ==
  ASSUME Kept, NEW x, NEW p
  PROVE  DeclaredUpTo(x, p)' <=> DeclaredUpTo(x, p)
  BY KeptNodes DEF DeclaredUpTo, Kept

\* What a declaration in the way of the walk adds.
LEMMA UpToNext ==
  ASSUME LinkTypeOK, at \in 1 .. Len(tree), NEW x
  PROVE  DeclaredUpTo(x, at) <=>
           \/ DeclaredUpTo(x, at - 1)
           \/ tree[at].node = "declare" /\ tree[at].id = x
<1>1. at \in Nat /\ \A k \in 1 .. Len(tree) : k =< at <=> k =< at - 1 \/ k = at
  BY View
<1> QED BY <1>1 DEF DeclaredUpTo

LEMMA NothingUpTo ==
  ASSUME NEW x
  PROVE  ~ DeclaredUpTo(x, 0)
  BY DEF DeclaredUpTo

\* While the tree grows, and before any name is mangled, names are plain.
LEMMA GrownPlain ==
  ASSUME LinkTypeOK, \A k \in 1 .. Len(tree) : PlainNode(k), NEW r,
         status' = "ok" => r \in Node /\ r.label = <<r.name>>, Grow(r)
  PROVE  \A k \in 1 .. Len(tree') : PlainNode(k)'
<1>1. tree' = IF status' = "ok" THEN Append(tree, r) ELSE tree
  BY GrownBy
<1>2. CASE status' = "ok"
  <2>1. tree' = Append(tree, r) /\ r \in Node
    BY <1>1, <1>2
  <2>2. /\ Len(tree) \in Nat /\ Len(tree') = Len(tree) + 1 /\ tree'[Len(tree) + 1] = r
        /\ \A k \in 1 .. Len(tree) : tree'[k] = tree[k]
    BY <2>1, TreeGrown
  <2>3. \A k \in 1 .. Len(tree') : k \in 1 .. Len(tree) \/ tree'[k] = r
    BY <2>2
  <2> QED BY <1>2, <2>2, <2>3 DEF PlainNode
<1>3. CASE status' # "ok"
  BY <1>1, <1>3 DEF PlainNode
<1> QED BY <1>2, <1>3

LEMMA ParsePlain ==
  ASSUME LinkBase, \A k \in 1 .. Len(tree) : PlainNode(k),
         \/ \E n \in Functions, spec \in Specifiers, type \in Type :
              ParseFunction(n, spec, type)
         \/ \E n \in Variables, spec \in Specifiers, type \in Type, init \in Inits :
              ParseDeclaration(n, spec, init, type)
         \/ \E n \in Name : ParseUsage(n)
         \/ ParseBody \/ ParseScope \/ ParseEnd
  PROVE  \A k \in 1 .. Len(tree') : PlainNode(k)'
<1>1. IInv /\ LinkTypeOK
  BY DEF LinkBase
<1>2. ASSUME NEW n \in Functions, NEW spec \in Specifiers, NEW type \in Type,
             ParseFunction(n, spec, type)
      PROVE  \A k \in 1 .. Len(tree') : PlainNode(k)'
  <2>1. n \in Name
    BY NodesAssumption
  <2> DEFINE e == Resolved("function", n, spec, "none", type)
             r == [e EXCEPT !.ltype = NoLinkage]
  <2>2. IInv' /\ Created(n, NoLinkage) /\ Grow(r) /\ r \in Node
    BY <1>1, <1>2, <2>1, FunctionNode
  <2>3. IsResolved(e, "function", n, spec)
    <3>1. symbols' \in Table /\ FoundAt(n) \in 1 .. Len(symbols')
      BY <2>2 DEF IInv, TypeOK, Table, Created
    <3> QED BY <2>1, <3>1, ResolvedNode
  <2> HIDE DEF e
  <2>4. e \in Node /\ e.name = n /\ e.label = <<n>>
    BY <2>3 DEF IsResolved
  <2> DEFINE b == <<n>>
  <2>5. e.label = b
    BY <2>4
  <2> HIDE DEF b
  <2>6. r.name = n /\ r.label = b
    BY <2>4, <2>5 DEF Node
  <2> HIDE DEF r
  <2>7. r.label = <<r.name>>
    BY <2>6 DEF b
  <2> QED BY <1>1, <2>2, <2>7, GrownPlain
<1>3. ASSUME NEW n \in Variables, NEW spec \in Specifiers, NEW type \in Type,
             NEW init \in Inits, ParseDeclaration(n, spec, init, type)
      PROVE  \A k \in 1 .. Len(tree') : PlainNode(k)'
  <2>1. n \in Name /\ init \in {"none", "constant", "expression"}
    BY NodesAssumption
  <2> DEFINE r == Resolved("declare", n, spec, init, type)
  <2>2. IInv' /\ Grow(r) /\ (status' = "ok" => r \in Node /\ FoundAt(n) \in 1 .. Len(symbols'))
    BY <1>1, <1>3, <2>1, DeclarationNode
  <2>3. status' = "ok" => IsResolved(r, "declare", n, spec)
    <3>1. symbols' \in Table
      BY <2>2 DEF IInv, TypeOK, Table
    <3> QED BY <2>1, <2>2, <3>1, ResolvedNode
  <2> HIDE DEF r
  <2>4. status' = "ok" => r \in Node /\ r.label = <<r.name>>
    BY <2>2, <2>3 DEF IsResolved
  <2> QED BY <1>1, <2>2, <2>4, GrownPlain
<1>4. ASSUME NEW n \in Name, ParseUsage(n)
      PROVE  \A k \in 1 .. Len(tree') : PlainNode(k)'
  <2> DEFINE r == UsageNode(n)
  <2>1. Grow(r) /\ (status' = "ok" => r \in Node /\ r.name = n /\ r.label = <<n>>)
    BY <1>1, <1>4, UsageNodeIs
  <2> HIDE DEF r
  <2> QED BY <1>1, <2>1, GrownPlain
<1>5. CASE ParseBody
  <2>1. tree' = [tree EXCEPT ![Len(tree)].def = TRUE]
    BY <1>5 DEF ParseBody
  <2>2. /\ Len(tree') = Len(tree)
        /\ \A k \in 1 .. Len(tree) :
             tree'[k].name = tree[k].name /\ tree'[k].label = tree[k].label
    BY <1>1, <2>1, BodyNode
  <2> QED BY <2>2 DEF PlainNode
<1>6. CASE ParseScope \/ ParseEnd
  BY <1>6 DEF ParseScope, ParseEnd, PlainNode
<1> QED BY <1>2, <1>3, <1>4, <1>5, <1>6

LEMMA InitLabels == LinkInit => LabelsOK
<1> SUFFICES ASSUME LinkInit PROVE LabelsOK
  OBVIOUS
<1>1. Len(tree) = 0 /\ Len(variables) = 0
  BY DEF LinkInit
<1> QED BY <1>1 DEF LabelsOK, SymbolsLabelled, NotYetLabelled, NodesLabelled

PlainSymbol(i) == variables[i].label = <<variables[i].name>>
AllPlain ==
  /\ \A k \in 1 .. Len(tree) : PlainNode(k)
  /\ \A i \in 1 .. Len(variables) : PlainSymbol(i)

LEMMA PlainLabels ==
  ASSUME MangleDone = 0, AllPlain
  PROVE  LabelsOK
<1>1. \A i \in 1 .. Len(variables) : ~ IsMangled(variables[i], MangleDone)
  BY NothingUpTo DEF IsMangled
<1>2. SymbolsLabelled
  BY <1>1 DEF SymbolsLabelled, SymbolLabel, AllPlain, PlainSymbol
<1>3. \A k \in 1 .. Len(tree) : ~ (k =< MangleDone)
  OBVIOUS
<1> QED BY <1>2, <1>3 DEF LabelsOK, NotYetLabelled, NodesLabelled, AllPlain

LEMMA PlainLabelsNext == (MangleDone = 0)' /\ AllPlain' => LabelsOK'
  BY PlainLabels, PTL

\* Before the walk that mangles all names are plain.
LEMMA PlainSoFar ==
  ASSUME LabelsOK, MangleDone = 0
  PROVE  AllPlain
<1>1. \A k \in 1 .. Len(tree) : ~ (k =< MangleDone)
  OBVIOUS
<1>2. \A i \in 1 .. Len(variables) : ~ IsMangled(variables[i], MangleDone)
  BY NothingUpTo DEF IsMangled
<1> QED BY <1>1, <1>2 DEF LabelsOK, NotYetLabelled, SymbolsLabelled, SymbolLabel, AllPlain, PlainSymbol

LEMMA EarlyLabels ==
  ASSUME LinkBase, SignaturesOK, LinkBase', LabelsOK, [LinkNext]_linkVars,
         walk' \in {"parse", "usage", "signatures"}
  PROVE  LabelsOK'
<1>1. (variables = <<>>)' /\ (MangleDone = 0)'
  BY DEF LinkBase, Walks, MangleDone
<1>2. walk \in {"parse", "usage", "signatures"}
  <2>1. CASE \/ \E n \in Functions, spec \in Specifiers, type \in Type :
                  ParseFunction(n, spec, type)
             \/ \E n \in Variables, spec \in Specifiers, type \in Type, init \in Inits :
                  ParseDeclaration(n, spec, init, type)
             \/ \E n \in Name : ParseUsage(n)
             \/ ParseBody \/ ParseScope \/ ParseEnd
    BY <2>1, ParseSteps
  <2>2. CASE \/ CheckUsages \/ Signature \/ EndWalk("signatures", "linkage")
             \/ LinkDeclaration \/ LinkUsage \/ EndWalk("linkage", "mangle")
             \/ MangleDeclaration \/ MangleUsage \/ EndWalk("mangle", "done")
             \/ PassBy \/ UNCHANGED linkVars
    BY <2>2 DEF CheckUsages, Signature, LinkDeclaration, LinkUsage, MangleDeclaration,
       MangleUsage, PassBy, EndWalk, Visits, Pass, Refuse, linkVars, semaVars
  <2> QED BY <2>1, <2>2 DEF LinkNext
<1>3. LinkTypeOK /\ MangleDone = 0
  BY <1>2 DEF LinkBase, MangleDone
<1>4. \A k \in 1 .. Len(tree) : PlainNode(k)
  BY <1>3, PlainSoFar DEF AllPlain
<1>5. (\A k \in 1 .. Len(tree) : PlainNode(k))'
  <2>1. CASE \/ \E n \in Functions, spec \in Specifiers, type \in Type :
                  ParseFunction(n, spec, type)
             \/ \E n \in Variables, spec \in Specifiers, type \in Type, init \in Inits :
                  ParseDeclaration(n, spec, init, type)
             \/ \E n \in Name : ParseUsage(n)
             \/ ParseBody \/ ParseScope \/ ParseEnd
    BY <1>4, <2>1, ParsePlain
  <2>2. CASE tree' = tree
    BY <1>4, <2>2 DEF PlainNode
  <2>3. CASE \/ CheckUsages \/ Signature \/ PassBy \/ UNCHANGED linkVars
    BY <2>2, <2>3 DEF CheckUsages, Signature, PassBy, Refuse, linkVars
  <2>4. CASE \/ EndWalk("signatures", "linkage") \/ EndWalk("linkage", "mangle")
             \/ EndWalk("mangle", "done")
             \/ LinkDeclaration \/ LinkUsage \/ MangleDeclaration \/ MangleUsage
    BY <1>2, <2>2, <2>4 DEF EndWalk, LinkDeclaration, LinkUsage, MangleDeclaration,
       MangleUsage, Visits
  <2> QED BY <2>1, <2>3, <2>4 DEF LinkNext
<1> QED BY <1>1, <1>5, PlainLabelsNext DEF AllPlain

LEMMA StillLabels ==
  ASSUME LabelsOK, Still
  PROVE  LabelsOK'
<1>1. UNCHANGED <<tree, variables>>
  BY DEF Still
<1>2. \A k \in 1 .. Len(tree) :
        tree[k].node # "function" => (k =< MangleDone' <=> k =< MangleDone)
  BY DEF Still
<1>3. \A x : DeclaredUpTo(x, MangleDone)' <=> DeclaredUpTo(x, MangleDone)
  BY <1>1, <1>2 DEF DeclaredUpTo
<1>4. \A i \in 1 .. Len(variables) :
        SymbolLabel(variables[i], MangleDone)' = SymbolLabel(variables[i], MangleDone)
  BY <1>1, <1>3 DEF SymbolLabel, IsMangled
<1>5. SymbolsLabelled'
  BY <1>1, <1>4 DEF LabelsOK, SymbolsLabelled
<1>6. NotYetLabelled'
  BY <1>1, <1>2 DEF LabelsOK, NotYetLabelled, PlainNode
<1>7. NodesLabelled'
  BY <1>1, <1>2 DEF LabelsOK, NodesLabelled
<1> QED BY <1>5, <1>6, <1>7 DEF LabelsOK

\* The walk over the variables leaves all names plain.
LEMMA LinksLabels ==
  ASSUME LinkBase, SignaturesOK, MergesOK, TreeIds, TablesOK, LabelsOK, Links,
         LinkUsage \/ \E d, v, s : Accepts(d, v, s)
  PROVE  LabelsOK'
<1>1. AllPlain /\ MangleDone' = 0 /\ LinkTypeOK
  BY PlainSoFar DEF Links, LinkBase
<1>2. CASE LinkUsage
  <2>1. PICK v : v = WithId(tree[at].id)
    OBVIOUS
  <2>2. /\ Kept /\ UNCHANGED variables
        /\ \A k \in 1 .. Len(tree) : tree'[k].label = tree[k].label
    BY <1>2, <2>1, LinkUsageKeeps
  <2>3. \A k \in 1 .. Len(tree) : tree'[k].name = tree[k].name
    BY <2>2, KeptNodes
  <2>4. AllPlain'
    BY <1>1, <2>2, <2>3 DEF AllPlain, PlainNode, PlainSymbol, Kept
  <2> QED BY <1>1, <2>4, PlainLabelsNext
<1>3. ASSUME NEW d, NEW v, NEW s, Accepts(d, v, s) PROVE LabelsOK'
  <2>1. PICK m : m = Len(variables)
    OBVIOUS
  <2>2. DeclaredTable(d, v, s, m) /\ Kept /\ m \in Nat
    BY <1>3, <2>1, AcceptedSymbol DEF TablesOK
  <2>3. /\ Declares(v, s) /\ at \in 1 .. Len(tree) /\ v \in 0 .. Len(variables)
        /\ s \in States /\ tree[at] \in Node
    BY <1>1, <1>3, AcceptedAt DEF Accepts
  <2>4. \A k \in 1 .. Len(tree) : PlainNode(k)'
    <3> DEFINE c == InitMoves(tree[at])
               e == Linked(tree[at], s.linkage, c)
    <3>1. c \in BOOLEAN /\ s.linkage \in Linkage
      BY <2>3 DEF InitMoves, States
    <3>2. \A k \in 1 .. Len(tree) : tree'[k] = IF k = at THEN e ELSE tree[k]
      BY <1>1, <2>3, DeclaresType
    <3> HIDE DEF c
    <3>3. SameSource(e, tree[at]) /\ e.label = tree[at].label
      BY <2>3, <3>1, LinkedNode
    <3> HIDE DEF e
    <3>4. \A k \in 1 .. Len(tree) : tree'[k].name = tree[k].name /\ tree'[k].label = tree[k].label
      BY <3>2, <3>3 DEF SameSource
    <3> QED BY <1>1, <3>4 DEF AllPlain, PlainNode
  <2>5. \A i \in 1 .. Len(variables') : PlainSymbol(i)'
    <3>1. CASE v = 0
      <4>1. /\ Len(variables') = m + 1 /\ variables'[m + 1].name = d.name
            /\ variables'[m + 1].label = <<d.name>>
            /\ \A i \in 1 .. m : variables'[i] = variables[i]
        BY <2>1, <2>2, <3>1 DEF DeclaredTable
      <4>2. \A i \in 1 .. Len(variables') : i \in 1 .. m \/ i = m + 1
        BY <2>2, <4>1
      <4> QED BY <1>1, <2>1, <4>1, <4>2 DEF AllPlain, PlainSymbol
    <3>2. CASE v # 0
      <4>1. /\ Len(variables') = m /\ variables'[v].name = variables[v].name
            /\ variables'[v].label = variables[v].label
            /\ \A i \in 1 .. m : i # v => variables'[i] = variables[i]
        BY <2>1, <2>2, <3>2 DEF DeclaredTable
      <4> QED BY <1>1, <2>1, <4>1 DEF AllPlain, PlainSymbol
    <3> QED BY <3>1, <3>2
  <2>6. AllPlain'
    BY <2>2, <2>4, <2>5 DEF AllPlain, Kept
  <2> QED BY <1>1, <2>6, PlainLabelsNext
<1> QED BY <1>2, <1>3

LEMMA NamingEffects ==
  ASSUME LinkBase, MangleDeclaration \/ MangleUsage, NEW v, v = WithId(tree[at].id)
  PROVE  /\ at \in 1 .. Len(tree) /\ tree[at].node \in {"declare", "use"}
         /\ \A k \in 1 .. Len(tree) : k # at => tree'[k].label = tree[k].label
         /\ ~ Mangles(v) => tree'[at].label = tree[at].label
         /\ Mangles(v) => tree'[at].label = variables'[v].label
         /\ \A i \in 1 .. Len(variables) :
              i # v \/ ~ Mangles(v) \/ tree[at].node = "use" =>
                variables'[i].label = variables[i].label
         /\ Mangles(v) /\ tree[at].node = "declare" =>
              variables'[v].label = Mangled(variables[v])
<1>1. LinkTypeOK
  BY DEF LinkBase
<1>2. /\ at \in 1 .. Len(tree) /\ v \in 0 .. Len(variables)
      /\ MangleDeclaration => Mangling(v) /\ tree[at].node = "declare"
      /\ MangleUsage => Naming(v) /\ tree[at].node = "use"
  BY NamingViews
<1>3. CASE Mangling(v) /\ tree[at].node = "declare"
  <2>1. /\ \A k \in 1 .. Len(tree) :
             /\ k = at /\ Mangles(v) => tree'[k].label = Mangled(variables[v])
             /\ ~ (k = at /\ Mangles(v)) => tree'[k].label = tree[k].label
        /\ \A i \in 1 .. Len(variables) :
             /\ i = v /\ Mangles(v) => variables'[i] = Relabelled(variables[v], Mangled(variables[v]))
             /\ ~ (i = v /\ Mangles(v)) => variables'[i] = variables[i]
    BY <1>1, <1>2, <1>3, ManglingType
  <2>2. ASSUME Mangles(v) PROVE variables'[v].label = Mangled(variables[v])
    <3>1. v \in 1 .. Len(variables) /\ variables[v] \in VariableSymbol
      BY <1>1, <1>2, <2>2, View DEF Mangles
    <3> DEFINE b == Mangled(variables[v])
    <3>2. b \in Seq(Name \cup Nat) /\ variables'[v] = Relabelled(variables[v], b)
      BY <2>1, <2>2, <3>1, MangledType
    <3> HIDE DEF b
    <3>3. Relabelled(variables[v], b).label = b
      BY <3>1, <3>2, RelabelledSymbol
    <3> QED BY <3>2, <3>3 DEF b
  <2> QED BY <1>2, <1>3, <2>1, <2>2
<1>4. CASE Naming(v) /\ tree[at].node = "use"
  <2>1. /\ UNCHANGED variables
        /\ \A k \in 1 .. Len(tree) :
             /\ k = at /\ Mangles(v) => tree'[k].label = variables[v].label
             /\ ~ (k = at /\ Mangles(v)) => tree'[k].label = tree[k].label
    BY <1>1, <1>2, <1>4, NamingType
  <2> QED BY <1>2, <1>4, <2>1
<1> QED BY <1>2, <1>3, <1>4

\* The symbol with the ID of the node, before and after the step.
LEMMA NamedSymbols ==
  ASSUME LinkBase, TreeIds, TablesOK, LabelsOK, Names,
         MangleDeclaration \/ MangleUsage, NEW i \in 1 .. Len(variables)
  PROVE  /\ variables[i].label = SymbolLabel(variables[i], at - 1)
         /\ variables'[i].label = SymbolLabel(variables[i], at)
<1>1. LinkTypeOK /\ SymbolsFrom /\ SymbolsDiffer /\ MangleDone = at - 1
  BY DEF LinkBase, TablesOK, Names
<1>2. PICK v : v = WithId(tree[at].id)
  OBVIOUS
<1>3. /\ at \in 1 .. Len(tree) /\ tree[at].node \in {"declare", "use"}
      /\ i # v \/ ~ Mangles(v) \/ tree[at].node = "use" =>
           variables'[i].label = variables[i].label
      /\ Mangles(v) /\ tree[at].node = "declare" =>
           variables'[v].label = Mangled(variables[v])
  BY <1>2, NamingEffects
<1>4. variables[i].label = SymbolLabel(variables[i], at - 1)
  BY <1>1 DEF LabelsOK, SymbolsLabelled
<1>5. DeclaredUpTo(variables[i].unique, at) <=>
        \/ DeclaredUpTo(variables[i].unique, at - 1)
        \/ tree[at].node = "declare" /\ tree[at].id = variables[i].unique
  BY <1>1, <1>3, UpToNext
<1>6. tree[at].id = variables[i].unique <=> i = v
  <2>1. v # 0 => v \in 1 .. Len(variables) /\ variables[v].unique = tree[at].id
    BY <1>1, <1>2, WithIdIs
  <2>2. tree[at].id = variables[i].unique => i = v
    BY <1>1, <1>2, OneWithId
  <2> QED BY <2>1, <2>2
<1>7. Mangles(v) /\ i = v <=> variables[i].linkage = Internal /\ i = v
  BY DEF Mangles
<1>8. CASE i # v \/ ~ Mangles(v) \/ tree[at].node = "use"
  <2>1. IsMangled(variables[i], at) <=> IsMangled(variables[i], at - 1)
    BY <1>5, <1>6, <1>7, <1>8 DEF IsMangled
  <2>2. SymbolLabel(variables[i], at) = SymbolLabel(variables[i], at - 1)
    BY <2>1 DEF SymbolLabel
  <2> QED BY <1>3, <1>4, <1>8, <2>2
<1>9. CASE i = v /\ Mangles(v) /\ tree[at].node = "declare"
  <2>1. IsMangled(variables[i], at)
    BY <1>5, <1>6, <1>7, <1>9 DEF IsMangled
  <2>2. SymbolLabel(variables[i], at) = <<variables[i].name, variables[i].unique>>
    BY <2>1 DEF SymbolLabel
  <2>3. \/ variables[i].label = <<variables[i].name>>
        \/ variables[i].label = <<variables[i].name, variables[i].unique>>
    BY <1>4 DEF SymbolLabel
  <2>4. variables[i] \in VariableSymbol
    BY <1>1, View
  <2>5. Mangled(variables[i]) = <<variables[i].name, variables[i].unique>>
    BY <2>3, <2>4, MangledOnce
  <2> QED BY <1>3, <1>4, <1>9, <2>2, <2>5
<1> QED BY <1>3, <1>8, <1>9

LEMMA NamesLabels ==
  ASSUME LinkBase, TreeIds, TablesOK, LabelsOK, Names, MangleDeclaration \/ MangleUsage
  PROVE  LabelsOK'
<1>1. /\ LinkTypeOK /\ SymbolsFrom /\ SymbolsDiffer
      /\ MangleDone = at - 1 /\ MangleDone' = at
  BY DEF LinkBase, TablesOK, Names
<1>2. PICK v : v = WithId(tree[at].id)
  OBVIOUS
<1>3. /\ at \in 1 .. Len(tree) /\ tree[at].node \in {"declare", "use"}
      /\ \A k \in 1 .. Len(tree) : k # at => tree'[k].label = tree[k].label
      /\ ~ Mangles(v) => tree'[at].label = tree[at].label
      /\ Mangles(v) => tree'[at].label = variables'[v].label
  BY <1>2, NamingEffects
<1>4. Kept /\ SameObjects
  BY NamingKeeps
<1>5. at \in Nat /\ \A k \in 1 .. Len(tree) : k \in Nat
  BY <1>1, View
<1>6. PICK a : a = at
  OBVIOUS
<1>7. \A i \in 1 .. Len(variables) :
        /\ variables[i].label = SymbolLabel(variables[i], a - 1)
        /\ variables'[i].label = SymbolLabel(variables[i], a)
  BY <1>6, NamedSymbols
<1>8. SymbolsLabelled'
  <2> SUFFICES ASSUME NEW i \in 1 .. Len(variables)
               PROVE  variables'[i].label = SymbolLabel(variables[i], MangleDone)'
    BY <1>4 DEF SymbolsLabelled, SameObjects
  <2>1. DeclaredUpTo(variables[i].unique, a)' <=> DeclaredUpTo(variables[i].unique, a)
    <3>1. PICK x : x = variables[i].unique
      OBVIOUS
    <3>2. variables'[i].unique = x
      BY <1>4, <3>1 DEF SameObjects
    <3>3. DeclaredUpTo(x, a)' <=> DeclaredUpTo(x, a)
      BY <1>4, KeptUpTo
    <3> QED BY <3>1, <3>2, <3>3
  <2>2. SymbolLabel(variables[i], a)' = SymbolLabel(variables[i], a)
    BY <1>4, <2>1 DEF SymbolLabel, IsMangled, SameObjects
  <2> QED BY <1>1, <1>6, <1>7, <2>2
<1>9. NotYetLabelled'
  <2> SUFFICES ASSUME NEW k \in 1 .. Len(tree), ~ (k =< at) \/ tree'[k].node = "function"
               PROVE  tree'[k].label = <<tree'[k].name>>
    BY <1>1, <1>4 DEF NotYetLabelled, PlainNode, Kept
  <2>1. tree'[k].node = tree[k].node /\ tree'[k].name = tree[k].name
    BY <1>4, KeptNodes
  <2>2. k # at
    BY <1>3, <1>5, <2>1
  <2>3. ~ (k =< at - 1) \/ tree[k].node = "function"
    BY <1>5, <2>1
  <2>4. tree[k].label = <<tree[k].name>>
    BY <1>1, <2>3 DEF LabelsOK, NotYetLabelled, PlainNode
  <2> QED BY <1>3, <2>1, <2>2, <2>4
<1>10. NodesLabelled'
  <2> SUFFICES ASSUME NEW k \in 1 .. Len(tree), NEW i \in 1 .. Len(variables), k =< at,
                      tree[k].node # "function", variables[i].unique = tree[k].id
               PROVE  tree'[k].label = variables'[i].label
    BY <1>1, <1>4, KeptNodes DEF NodesLabelled, SameObjects, Kept
  <2>1. CASE k # at
    <3>1. k =< at - 1
      BY <1>5, <2>1
    <3>2. tree[k].label = variables[i].label
      BY <1>1, <3>1 DEF LabelsOK, NodesLabelled
    <3>3. ASSUME tree[at].node = "declare", tree[at].id = variables[i].unique
          PROVE  DeclaredUpTo(variables[i].unique, at - 1)
      <4>1. CASE tree[k].node = "declare"
        BY <3>1, <4>1 DEF DeclaredUpTo
      <4>2. CASE tree[k].node = "use"
        <5>1. DeclaredBefore(tree, k)
          BY <1>3, <3>3, <4>2, SameIds
        <5>2. PICK j \in 1 .. Len(tree) :
                tree[j].node = "declare" /\ j < k /\ tree[j].id = tree[k].id
          BY <5>1 DEF DeclaredBefore, DeclarationsIn
        <5>3. j =< at - 1
          BY <1>5, <3>1, <5>2
        <5> QED BY <5>2, <5>3 DEF DeclaredUpTo
      <4>3. tree[k] \in Node
        BY <1>1, View
      <4> QED BY <4>1, <4>2, <4>3 DEF Node
    <3>4. DeclaredUpTo(variables[i].unique, at) <=> DeclaredUpTo(variables[i].unique, at - 1)
      BY <1>1, <1>3, <3>3, UpToNext
    <3>5. SymbolLabel(variables[i], at) = SymbolLabel(variables[i], at - 1)
      BY <3>4 DEF SymbolLabel, IsMangled
    <3> QED BY <1>3, <1>6, <1>7, <2>1, <3>2, <3>5
  <2>2. CASE k = at
    <3>1. i = v /\ variables[i].name = tree[at].name
      BY <1>1, <1>2, <1>3, <2>2, OneWithId, SymbolNamed
    <3>2. CASE Mangles(v)
      BY <1>3, <2>2, <3>1, <3>2
    <3>3. CASE ~ Mangles(v)
      <4>1. variables[i].linkage # Internal
        BY <1>5, <3>1, <3>3 DEF Mangles
      <4>2. variables'[i].label = <<variables[i].name>>
        BY <1>7, <4>1 DEF SymbolLabel, IsMangled
      <4>3. ~ (at =< at - 1)
        BY <1>5
      <4>4. tree[at].label = <<tree[at].name>>
        BY <1>1, <1>3, <4>3 DEF LabelsOK, NotYetLabelled, PlainNode
      <4> QED BY <1>3, <2>2, <3>1, <3>3, <4>2, <4>4
    <3> QED BY <3>2, <3>3
  <2> QED BY <2>1, <2>2
<1> QED BY <1>8, <1>9, <1>10 DEF LabelsOK

LEMMA NextLabels ==
  LinkBase /\ SignaturesOK /\ MergesOK /\ TreeIds /\ TablesOK /\ LabelsOK /\ LinkBase'
    /\ [LinkNext]_linkVars => LabelsOK'
<1> SUFFICES ASSUME LinkBase, SignaturesOK, MergesOK, TreeIds, TablesOK, LabelsOK,
                    LinkBase', [LinkNext]_linkVars
             PROVE  LabelsOK'
  OBVIOUS
<1>1. Passes
  BY PassesAre
<1>2. CASE walk' \in {"parse", "usage", "signatures"}
  BY <1>2, EarlyLabels
<1>3. CASE Still
  BY <1>3, StillLabels
<1>4. CASE Links /\ (LinkUsage \/ \E d, v, s : Accepts(d, v, s))
  BY <1>4, LinksLabels
<1>5. CASE Names /\ (MangleDeclaration \/ MangleUsage)
  BY <1>5, NamesLabels
<1> QED BY <1>1, <1>2, <1>3, <1>4, <1>5 DEF Passes

(***************************************************************************)
(* The objects whose declarations all got one ID: each declaration behind  *)
(* the walk has a symbol, and the nodes behind it have its linkage.        *)
(***************************************************************************)
SymbolWithId(x) == \E i \in 1 .. Len(variables) : variables[i].unique = x

SymbolsFound ==
  \A k \in 1 .. Len(tree) :
    tree[k].node = "declare" /\ k =< LinkDone => SymbolWithId(tree[k].id)

NodesLinked ==
  \A k \in 1 .. Len(tree), i \in 1 .. Len(variables) :
    k =< LinkDone /\ tree[k].node # "function" /\ variables[i].unique = tree[k].id =>
      tree[k].ltype = variables[i].linkage

NodesOK == OneIdPerObject => SymbolsFound /\ NodesLinked

LEMMA OneIdKept ==
  ASSUME Kept
  PROVE  OneIdPerObject' <=> OneIdPerObject
<1>1. \A n : Shared(n)' = Shared(n) /\ Shared(n) \in SUBSET (1 .. Len(tree))
  BY KeptSets DEF Shared, Nodes
<1>2. \A k \in 1 .. Len(tree) : tree'[k].id = tree[k].id
  BY KeptNodes
<1> QED BY <1>1, <1>2 DEF OneIdPerObject

LEMMA NothingLinked == LinkDone = 0 => NodesOK
<1>1. \A k \in 1 .. Len(tree) : ~ (k =< 0)
  OBVIOUS
<1> QED BY <1>1 DEF NodesOK, SymbolsFound, NodesLinked

LEMMA NothingLinkedNext == (LinkDone = 0)' => NodesOK'
  BY NothingLinked, PTL

\* Another declaration of a shared object leaves its linkage, which the first
\* of them decided on.
LEMMA SameLinkage ==
  ASSUME LinkBase, SignaturesOK, MergesOK, TreeIds, SymbolsFrom,
         NEW d, NEW v, NEW s, Accepts(d, v, s), v # 0
  PROVE  s.linkage = variables[v].linkage
<1>1. LinkTypeOK
  BY DEF LinkBase
<1>2. /\ LinkDeclaration /\ d \in Node /\ d = tree[at]
      /\ v \in 0 .. Len(variables) /\ v = Earlier(d)
      /\ s \in States /\ s = DeclaredState(d, v)
      /\ ~ DeclarationRefused(d, v)
  BY DEF Accepts
<1>3. at \in 1 .. Len(tree) /\ at \in Nat /\ LinkDone = at - 1
  BY <1>1, AcceptedAt
<1>4. SharedDeclaration(d) /\ FileSymbols(d.name) = {v}
  <2>1. PICK m : m = Len(variables)
    OBVIOUS
  <2>2. AcceptedAs(d, v, s, m)
    BY <2>1, AcceptedSymbol
  <2> QED BY <2>2 DEF AcceptedAs
<1>5. PICK n \in Name : n = d.name
  BY <1>2 DEF Node
<1>6. PICK G : G = MergedOf(n)
  OBVIOUS
<1>7. Merge(n, G)
  BY <1>6 DEF MergesOK
<1>8. /\ v # 0 => variables[v].name = d.name
      /\ IF SharedDeclaration(d)
         THEN /\ LET H == MergedOf(d.name) \cup {at}
                 IN  StateIs(s, H) /\ VariablesAgree(H) /\ d.type = tree[First(H)].type
              /\ FunctionsOf(d.name) = {}
              /\ d.file \/ v # 0 \/ s.linkage = External
              /\ v = 0 => FileSymbols(d.name) = {}
              /\ v # 0 => FileSymbols(d.name) = {v} /\ variables[v].type = d.type
         ELSE v = 0 /\ ~ d.file /\ s.linkage # External
  BY <1>1, <1>2, DeclarationMerges
<1>9. StateIs(s, G \cup {at})
  BY <1>4, <1>5, <1>6, <1>8
<1>10. OneMore(G)
  <2>1. G \in SUBSET (1 .. Len(tree)) /\ Len(tree) \in Nat
    BY <1>1, <1>6, MergedSets
  <2>2. \A k \in G : k < at
    BY <1>3, <1>6, <2>1 DEF MergedOf
  <2> QED BY <1>2, <1>3, <2>1, <2>2 DEF OneMore
<1>11. G # {} /\ VariableIs(variables[v], G)
  <2>1. G # {}
    BY <1>4, <1>5, <1>7 DEF Merge
  <2>2. PICK i \in 1 .. Len(variables) : FileSymbols(n) = {i} /\ VariableIs(variables[i], G)
    BY <1>7, <2>1 DEF Merge
  <2> QED BY <1>4, <1>5, <2>1, <2>2
<1>12. First(G \cup {at}) = First(G)
  BY <1>1, <1>10, <1>11, OneMoreFirst
<1>13. LinkageOf(G \cup {at}) = LinkageOf(G)
  BY <1>12 DEF LinkageOf
<1> QED BY <1>9, <1>11, <1>13 DEF StateIs, VariableIs

\* The ID of the symbol is that of the declaration already.
LEMMA SameId ==
  ASSUME LinkBase, SignaturesOK, MergesOK, TreeIds, SymbolsFrom, OneIdPerObject,
         NEW d, NEW v, NEW s, Accepts(d, v, s), v # 0
  PROVE  variables[v].unique = d.id
<1>1. LinkTypeOK
  BY DEF LinkBase
<1>2. d \in Node /\ d = tree[at] /\ v \in 0 .. Len(variables)
  BY DEF Accepts
<1>3. at \in 1 .. Len(tree) /\ d.node = "declare"
  BY <1>1, AcceptedAt
<1>4. /\ SharedDeclaration(d) /\ FileSymbols(d.name) = {v}
      /\ variables[v].name = d.name
  <2>1. PICK m : m = Len(variables)
    OBVIOUS
  <2>2. AcceptedAs(d, v, s, m)
    BY <2>1, AcceptedSymbol
  <2> QED BY <2>2 DEF AcceptedAs
<1>5. PICK n \in Name : n = d.name
  BY <1>2 DEF Node
<1>6. v \in 1 .. Len(variables) /\ variables[v].dscope = "file"
  BY <1>4 DEF FileSymbols
<1>7. PICK j \in 1 .. Len(tree) : SymbolFrom(variables[v], tree[j])
  BY <1>6 DEF SymbolsFrom
<1>8. j \in Shared(n) /\ at \in Shared(n) /\ tree[j].id = variables[v].unique
  BY <1>2, <1>3, <1>4, <1>5, <1>6, <1>7 DEF SymbolFrom, Shared, Nodes, SharedDeclaration
<1> QED BY <1>2, <1>8 DEF OneIdPerObject

\* What a step that leaves the linkage of nodes and symbols leaves of this.
LEMMA NodesKept ==
  ASSUME NodesOK, Kept, SameObjects,
         \A k \in 1 .. Len(tree) : tree'[k].ltype = tree[k].ltype,
         \A k \in 1 .. Len(tree) :
           tree[k].node # "function" /\ k =< LinkDone' => k =< LinkDone
  PROVE  NodesOK'
<1> SUFFICES ASSUME OneIdPerObject' PROVE SymbolsFound' /\ NodesLinked'
  BY DEF NodesOK
<1>1. SymbolsFound /\ NodesLinked
  BY OneIdKept DEF NodesOK
<1>2. Len(tree') = Len(tree)
      /\ \A k \in 1 .. Len(tree) :
           tree'[k].node = tree[k].node /\ tree'[k].id = tree[k].id
  BY KeptNodes DEF Kept
<1>3. \A x : SymbolWithId(x)' <=> SymbolWithId(x)
  BY DEF SymbolWithId, SameObjects
<1>4. SymbolsFound'
  BY <1>1, <1>2, <1>3 DEF SymbolsFound
<1>5. NodesLinked'
  BY <1>1, <1>2 DEF NodesLinked, SameObjects
<1> QED BY <1>4, <1>5

\* A usage the walk comes to takes the linkage of its symbol.
LEMMA NodesUsed ==
  ASSUME LinkBase, SymbolsDiffer, NodesOK, Links, LinkUsage
  PROVE  NodesOK'
<1> SUFFICES ASSUME OneIdPerObject' PROVE SymbolsFound' /\ NodesLinked'
  BY DEF NodesOK
<1>1. LinkTypeOK
  BY DEF LinkBase
<1>2. PICK v : v = WithId(tree[at].id)
  OBVIOUS
<1>3. /\ at \in 1 .. Len(tree) /\ tree[at].node = "use" /\ v \in 0 .. Len(variables)
      /\ Kept /\ UNCHANGED variables
      /\ \A k \in 1 .. Len(tree) :
           /\ tree'[k].label = tree[k].label
           /\ k # at => tree'[k].ltype = tree[k].ltype
           /\ k = at /\ v # 0 => tree'[k].ltype = variables[v].linkage
  BY <1>2, LinkUsageKeeps
<1>4. SymbolsFound /\ NodesLinked
  BY <1>3, OneIdKept DEF NodesOK
<1>5. \A k \in 1 .. Len(tree) : k # at /\ k =< LinkDone' => k =< LinkDone
  BY <1>1, View DEF Links
<1>6. Len(tree') = Len(tree)
      /\ \A k \in 1 .. Len(tree) :
           tree'[k].node = tree[k].node /\ tree'[k].id = tree[k].id
  BY <1>3, KeptNodes DEF Kept
<1>7. SymbolsFound'
  BY <1>3, <1>4, <1>5, <1>6 DEF SymbolsFound, SymbolWithId
<1>8. NodesLinked'
  <2> SUFFICES ASSUME NEW k \in 1 .. Len(tree), NEW i \in 1 .. Len(variables),
                      k =< LinkDone', tree[k].node # "function",
                      variables[i].unique = tree[k].id
               PROVE  tree'[k].ltype = variables[i].linkage
    BY <1>3, <1>6 DEF NodesLinked
  <2>1. CASE k # at
    BY <1>3, <1>4, <1>5, <2>1 DEF NodesLinked
  <2>2. CASE k = at
    <3>1. i = v /\ v # 0
      BY <1>1, <1>2, <2>2, OneWithId
    <3> QED BY <1>3, <2>2, <3>1
  <2> QED BY <2>1, <2>2
<1> QED BY <1>7, <1>8

\* A declaration the walk comes to has the symbol that is made for it, or that
\* was for the others of its object; the nodes with its ID are no different.
LEMMA NodesDeclared ==
  ASSUME LinkBase, SignaturesOK, MergesOK, TreeIds, SymbolsFrom, NodesOK,
         NEW d, NEW v, NEW s, Accepts(d, v, s)
  PROVE  NodesOK'
<1> SUFFICES ASSUME OneIdPerObject' PROVE SymbolsFound' /\ NodesLinked'
  BY DEF NodesOK
<1>1. LinkTypeOK
  BY DEF LinkBase
<1>2. PICK m : m = Len(variables)
  OBVIOUS
<1>3. DeclaredTable(d, v, s, m) /\ Kept /\ m \in Nat /\ AcceptedAs(d, v, s, m)
  BY <1>2, AcceptedSymbol
<1>4. OneIdPerObject /\ SymbolsFound /\ NodesLinked
  BY <1>3, OneIdKept DEF NodesOK
<1>5. /\ at \in 1 .. Len(tree) /\ d.node = "declare" /\ at \in Nat
      /\ LinkDone = at - 1 /\ LinkDone' = at /\ d = tree[at] /\ v \in 0 .. m
  BY <1>1, <1>2, AcceptedAt DEF Accepts
<1>6. v # 0 => variables[v].unique = d.id /\ variables[v].linkage = s.linkage
  BY <1>4, SameId, SameLinkage
<1>7. PICK a : a = at
  OBVIOUS
<1>8. /\ tree'[a].ltype = s.linkage
      /\ \A k \in 1 .. Len(tree) : k # a => tree'[k].ltype = tree[k].ltype
  <2> DEFINE c == InitMoves(tree[at])
             e == Linked(tree[at], s.linkage, c)
  <2>1. /\ Declares(v, s) /\ v \in 0 .. Len(variables) /\ s \in States /\ tree[at] \in Node
    BY <1>5 DEF Accepts
  <2>2. c \in BOOLEAN /\ s.linkage \in Linkage
    BY <2>1 DEF InitMoves, States
  <2>3. \A k \in 1 .. Len(tree) : tree'[k] = IF k = at THEN e ELSE tree[k]
    BY <1>1, <1>5, <2>1, DeclaresType
  <2> HIDE DEF c
  <2>4. e.ltype = s.linkage
    BY <2>1, <2>2, LinkedNode
  <2> HIDE DEF e
  <2> QED BY <1>5, <1>7, <2>3, <2>4
<1>9. /\ \A i \in 1 .. m : /\ i \in 1 .. Len(variables')
                           /\ variables'[i].unique = variables[i].unique
                           /\ variables'[i].linkage = variables[i].linkage
      /\ \A i \in 1 .. Len(variables') :
           i \in 1 .. m \/ (v = 0 /\ i = m + 1 /\ variables'[i].unique = d.id
                                  /\ variables'[i].linkage = s.linkage)
      /\ v = 0 => m + 1 \in 1 .. Len(variables') /\ variables'[m + 1].unique = d.id
  <2>1. CASE v = 0
    <3>1. /\ Len(variables') = m + 1 /\ variables'[m + 1].unique = d.id
          /\ variables'[m + 1].linkage = s.linkage
          /\ \A i \in 1 .. m : i # v => variables'[i] = variables[i]
      BY <1>3, <2>1 DEF DeclaredTable
    <3> QED BY <1>3, <2>1, <3>1
  <2>2. CASE v # 0
    <3>1. /\ Len(variables') = m /\ variables'[v].unique = d.id
          /\ variables'[v].linkage = s.linkage
          /\ \A i \in 1 .. m : i # v => variables'[i] = variables[i]
      BY <1>3, <2>2 DEF DeclaredTable
    <3> QED BY <1>3, <1>6, <2>2, <3>1
  <2> QED BY <2>1, <2>2
<1>10. \E i \in 1 .. Len(variables') : variables'[i].unique = d.id
  <2>1. CASE v = 0
    BY <1>9, <2>1
  <2>2. CASE v # 0
    <3>1. v \in 1 .. m
      BY <1>3, <1>5, <2>2
    <3> QED BY <1>6, <1>9, <2>2, <3>1
  <2> QED BY <2>1, <2>2
<1>11. Len(tree') = Len(tree)
       /\ \A k \in 1 .. Len(tree) :
            /\ tree'[k].node = tree[k].node /\ tree'[k].id = tree[k].id
            /\ k \in Nat
  BY <1>1, <1>3, KeptNodes, View DEF Kept
<1>12. SymbolsFound'
  <2> SUFFICES ASSUME NEW k \in 1 .. Len(tree), tree[k].node = "declare", k =< a
               PROVE  \E i \in 1 .. Len(variables') : variables'[i].unique = tree[k].id
    BY <1>5, <1>7, <1>11 DEF SymbolsFound, SymbolWithId
  <2>1. CASE k = a
    BY <1>5, <1>7, <1>10, <2>1
  <2>2. CASE k # a
    <3>1. k =< LinkDone
      BY <1>5, <1>7, <1>11, <2>2
    <3>2. PICK i \in 1 .. Len(variables) : variables[i].unique = tree[k].id
      BY <1>4, <3>1 DEF SymbolsFound, SymbolWithId
    <3> QED BY <1>2, <1>9, <3>2
  <2> QED BY <2>1, <2>2
<1>13. NodesLinked'
  <2> SUFFICES ASSUME NEW k \in 1 .. Len(tree), NEW i \in 1 .. Len(variables'),
                      k =< a, tree[k].node # "function",
                      variables'[i].unique = tree[k].id
               PROVE  tree'[k].ltype = variables'[i].linkage
    BY <1>5, <1>7, <1>11 DEF NodesLinked
  <2>1. CASE k = a
    <3>1. CASE i \in 1 .. m
      <4>1. variables[i].unique = d.id
        BY <1>5, <1>7, <1>9, <2>1, <3>1
      <4>2. i = v /\ v # 0
        BY <1>3, <3>1, <4>1 DEF AcceptedAs
      <4> QED BY <1>6, <1>8, <1>9, <2>1, <3>1, <4>2
    <3>2. CASE i \notin 1 .. m
      BY <1>8, <1>9, <2>1, <3>2
    <3> QED BY <3>1, <3>2
  <2>2. CASE k # a
    <3>1. k =< LinkDone
      BY <1>5, <1>7, <1>11, <2>2
    <3>2. CASE i \in 1 .. m
      BY <1>2, <1>4, <1>8, <1>9, <2>2, <3>1, <3>2 DEF NodesLinked
    <3>3. CASE i \notin 1 .. m
      <4>1. v = 0 /\ tree[k].id = tree[a].id
        BY <1>5, <1>7, <1>9, <3>3
      <4>2. PICK j \in 1 .. Len(tree) :
              tree[j].node = "declare" /\ j =< LinkDone /\ tree[j].id = d.id
        <5>1. CASE tree[k].node = "declare"
          BY <1>5, <1>7, <3>1, <4>1, <5>1
        <5>2. CASE tree[k].node = "use"
          <6>1. DeclaredBefore(tree, k)
            BY <1>5, <1>7, <4>1, <5>2, SameIds
          <6>2. PICK j \in 1 .. Len(tree) :
                  tree[j].node = "declare" /\ j < k /\ tree[j].id = tree[k].id
            BY <6>1 DEF DeclaredBefore, DeclarationsIn
          <6>3. j =< LinkDone
            BY <1>5, <1>11, <3>1, <6>2
          <6> QED BY <1>5, <1>7, <4>1, <6>2, <6>3
        <5>3. tree[k] \in Node
          BY <1>1, View
        <5> QED BY <5>1, <5>2, <5>3 DEF Node
      <4>3. PICK h \in 1 .. Len(variables) : variables[h].unique = d.id
        BY <1>4, <4>2 DEF SymbolsFound, SymbolWithId
      <4>4. h = v
        BY <1>2, <1>3, <4>3 DEF AcceptedAs
      <4>5. h # 0
        OBVIOUS
      <4> QED BY <4>1, <4>4, <4>5
    <3> QED BY <3>2, <3>3
  <2> QED BY <2>1, <2>2
<1> QED BY <1>12, <1>13

LEMMA NextNodes ==
  LinkBase /\ SignaturesOK /\ MergesOK /\ TreeIds /\ TablesOK /\ NodesOK
    /\ [LinkNext]_linkVars => NodesOK'
<1> SUFFICES ASSUME LinkBase, SignaturesOK, MergesOK, TreeIds, TablesOK, NodesOK,
                    [LinkNext]_linkVars
             PROVE  NodesOK'
  OBVIOUS
<1>1. SymbolsFrom /\ SymbolsDiffer
  BY DEF TablesOK
<1>2. CASE walk' \in {"parse", "usage", "signatures"}
  <2>1. (LinkDone = 0)'
    BY <1>2 DEF LinkDone
  <2> QED BY <2>1, NothingLinkedNext
<1>3. CASE Still
  <2>1. Kept /\ SameObjects /\ \A k \in 1 .. Len(tree) : tree'[k].ltype = tree[k].ltype
    BY <1>3, SameTree DEF Still, SameObjects
  <2>2. \A k \in 1 .. Len(tree) :
          tree[k].node # "function" /\ k =< LinkDone' => k =< LinkDone
    BY <1>3 DEF Still
  <2> QED BY <2>1, <2>2, NodesKept
<1>4. CASE \E d, v, s : Accepts(d, v, s)
  BY <1>1, <1>4, NodesDeclared
<1>5. CASE Links /\ LinkUsage
  BY <1>1, <1>5, NodesUsed
<1>6. CASE Names /\ (MangleDeclaration \/ MangleUsage)
  <2>1. Kept /\ SameObjects /\ \A k \in 1 .. Len(tree) : tree'[k].ltype = tree[k].ltype
    BY <1>6, NamingKeeps
  <2>2. \A k \in 1 .. Len(tree) :
          tree[k].node # "function" /\ k =< LinkDone' => k =< LinkDone
    BY <1>6 DEF Names
  <2> QED BY <2>1, <2>2, NodesKept
<1>7. Passes
  BY PassesAre
<1> QED BY <1>2, <1>3, <1>4, <1>5, <1>6, <1>7 DEF Passes

(***************************************************************************)
(* The names at the end of the walks.                                      *)
(***************************************************************************)
NameInv == LinkInv /\ TreeIds /\ TablesOK /\ LabelsOK /\ NodesOK

LEMMA InitNames == LinkInit => NameInv
<1> SUFFICES ASSUME LinkInit PROVE NameInv
  OBVIOUS
<1>1. variables = <<>> /\ LinkDone = 0
  BY DEF LinkInit, LinkDone
<1>2. TablesOK /\ NodesOK
  BY <1>1, StartTables, NothingLinked
<1> QED BY <1>2, InitLink, InitTreeIds, InitLabels DEF NameInv

LEMMA NextNames == NameInv /\ [LinkNext]_linkVars => NameInv'
<1> SUFFICES ASSUME NameInv, [LinkNext]_linkVars PROVE NameInv'
  OBVIOUS
<1>1. /\ LinkInv /\ LinkBase /\ SignaturesOK /\ MergesOK
      /\ TreeIds /\ TablesOK /\ LabelsOK /\ NodesOK
  BY DEF NameInv, LinkInv
<1>2. LinkInv'
  BY <1>1, NextLink
<1>3. LinkBase'
  BY <1>2 DEF LinkInv
<1>4. TreeIds' /\ NodesOK'
  BY <1>1, NextTreeIds, NextNodes
<1>5. TablesOK' /\ LabelsOK'
  BY <1>1, <1>3, NextTables, NextLabels
<1> QED BY <1>2, <1>4, <1>5 DEF NameInv

LEMMA NameInvariance == LinkSpec => []NameInv
  BY InitNames, NextNames, PTL DEF LinkSpec

LEMMA WalksDone ==
  ASSUME NameInv, Accepted
  PROVE  /\ LinkTypeOK /\ LinkDone = Len(tree) /\ MangleDone = Len(tree)
         /\ \A k \in 1 .. Len(tree) : k =< Len(tree)
<1>1. LinkTypeOK
  BY DEF NameInv, LinkInv, LinkBase
<1>2. Len(tree) \in Nat
  BY <1>1, View
<1> QED BY <1>1, <1>2 DEF Accepted, LinkDone, MangleDone

\* The name of a symbol in the assembler.
LEMMA LabelIs ==
  ASSUME NameInv, Accepted, NEW i \in 1 .. Len(variables)
  PROVE  variables[i].label = IF variables[i].linkage = Internal
                              THEN <<variables[i].name, variables[i].unique>>
                              ELSE <<variables[i].name>>
<1>1. SymbolsFrom /\ SymbolsLabelled /\ MangleDone = Len(tree)
      /\ \A k \in 1 .. Len(tree) : k =< Len(tree)
  BY WalksDone DEF NameInv, TablesOK, LabelsOK
<1>2. PICK k \in 1 .. Len(tree) : SymbolFrom(variables[i], tree[k])
  BY <1>1 DEF SymbolsFrom
<1>3. DeclaredUpTo(variables[i].unique, MangleDone)
  BY <1>1, <1>2 DEF DeclaredUpTo, SymbolFrom
<1>4. IsMangled(variables[i], MangleDone) <=> variables[i].linkage = Internal
  BY <1>3 DEF IsMangled
<1> QED BY <1>1, <1>4 DEF SymbolsLabelled, SymbolLabel

\* What is emitted under its own name is shared, and the only one of its name.
LEMMA PlainIsShared ==
  ASSUME NameInv, Accepted, NEW i \in 1 .. Len(variables),
         variables[i].initial # NoInitializer, variables[i].linkage # Internal
  PROVE  /\ variables[i].name \in Name
         /\ FileSymbols(variables[i].name) = {i}
         /\ FunctionSymbols(variables[i].name) = {}
<1>1. LinkTypeOK /\ SymbolsFrom /\ LinkInv
  BY WalksDone DEF NameInv, TablesOK
<1>2. PICK k \in 1 .. Len(tree) : SymbolFrom(variables[i], tree[k])
  BY <1>1 DEF SymbolsFrom
<1>3. variables[i].dscope = "file"
  BY <1>2 DEF SymbolFrom
<1>4. variables[i] \in VariableSymbol
  BY <1>1, View
<1>5. PICK n \in Name : n = variables[i].name
  BY <1>4 DEF VariableSymbol
<1>6. i \in FileSymbols(n)
  BY <1>3, <1>5 DEF FileSymbols
<1>7. Signed(n, FunctionsOf(n)) /\ Merge(n, Shared(n))
  BY <1>1, AllWalked
<1>8. FileSymbols(n) = {i} /\ FunctionsOf(n) = {}
  BY <1>6, <1>7 DEF Merge
<1>9. FunctionSymbols(n) = {}
  BY <1>7, <1>8 DEF Signed
<1> QED BY <1>5, <1>8, <1>9

LEMMA TuplesDiffer ==
  ASSUME NEW a, NEW b, NEW c, NEW d
  PROVE  /\ <<a, b>> # <<c>>
         /\ <<a>> = <<c>> => a = c
         /\ <<a, b>> = <<c, d>> => a = c /\ b = d
<1>1. Len(<<a, b>>) = 2 /\ Len(<<c>>) = 1
  OBVIOUS
<1>2. <<a>>[1] = a /\ <<c>>[1] = c
  OBVIOUS
<1>3. /\ <<a, b>>[1] = a /\ <<a, b>>[2] = b
      /\ <<c, d>>[1] = c /\ <<c, d>>[2] = d
  OBVIOUS
<1> QED BY <1>1, <1>2, <1>3

LEMMA LabelsApartAtEnd == NameInv => LabelsDistinct
<1> SUFFICES ASSUME NameInv, Accepted,
                    NEW i \in 1 .. Len(variables), variables[i].initial # NoInitializer
             PROVE  /\ \A j \in 1 .. Len(variables) :
                         variables[j].initial # NoInitializer
                           /\ variables[i].label = variables[j].label => i = j
                    /\ \A f \in 1 .. Len(functions) :
                         variables[i].label # <<functions[f].name>>
  BY DEF LabelsDistinct
<1>1. \A a, b, c : <<a, b>> # <<c>>
  BY TuplesDiffer
<1>2. \A j \in 1 .. Len(variables) :
        variables[j].label = IF variables[j].linkage = Internal
                             THEN <<variables[j].name, variables[j].unique>>
                             ELSE <<variables[j].name>>
  BY LabelIs
<1>3. ASSUME NEW j \in 1 .. Len(variables), variables[j].initial # NoInitializer,
             variables[i].label = variables[j].label
      PROVE  i = j
  <2>1. CASE variables[i].linkage = Internal
    <3>1. variables[j].linkage = Internal
      BY <1>1, <1>2, <1>3, <2>1
    <3>2. <<variables[i].name, variables[i].unique>> =
            <<variables[j].name, variables[j].unique>>
      BY <1>2, <1>3, <2>1, <3>1
    <3>3. variables[i].unique = variables[j].unique
      BY <3>2, TuplesDiffer
    <3> QED BY <3>3 DEF NameInv, TablesOK, SymbolsDiffer
  <2>2. CASE variables[i].linkage # Internal
    <3>1. variables[j].linkage # Internal
      BY <1>1, <1>2, <1>3, <2>2
    <3>2. <<variables[i].name>> = <<variables[j].name>>
      BY <1>2, <1>3, <2>2, <3>1
    <3>3. variables[i].name = variables[j].name
      BY <3>2, TuplesDiffer
    <3>4. /\ FileSymbols(variables[i].name) = {i}
          /\ FileSymbols(variables[j].name) = {j}
      BY <1>3, <2>2, <3>1, PlainIsShared
    <3> QED BY <3>3, <3>4
  <2> QED BY <2>1, <2>2
<1>4. ASSUME NEW f \in 1 .. Len(functions), variables[i].label = <<functions[f].name>>
      PROVE  FALSE
  <2>1. variables[i].linkage # Internal
    BY <1>1, <1>2, <1>4
  <2>2. variables[i].name = functions[f].name
    <3>1. <<variables[i].name>> = <<functions[f].name>>
      BY <1>2, <1>4, <2>1
    <3> QED BY <3>1, TuplesDiffer
  <2>3. FunctionSymbols(variables[i].name) = {}
    BY <2>1, PlainIsShared
  <2> QED BY <2>2, <2>3 DEF FunctionSymbols
<1> QED BY <1>3, <1>4

LEMMA NamedAtEnd == NameInv => UsagesNamedAsDeclared
<1> SUFFICES ASSUME NameInv, Accepted, OneIdPerObject,
                    NEW u \in Nodes("use"), NEW d \in Nodes("declare"),
                    tree[u].id = tree[d].id
             PROVE  /\ tree[u].label = tree[d].label /\ tree[u].ltype = tree[d].ltype
                    /\ Meets(u)
  BY DEF UsagesNamedAsDeclared
<1>1. /\ SymbolsFound /\ NodesLinked /\ NodesLabelled
      /\ LinkDone = Len(tree) /\ MangleDone = Len(tree)
      /\ \A k \in 1 .. Len(tree) : k =< Len(tree)
  BY WalksDone DEF NameInv, NodesOK, LabelsOK
<1>2. /\ u \in 1 .. Len(tree) /\ d \in 1 .. Len(tree)
      /\ tree[u].node = "use" /\ tree[d].node = "declare"
  BY DEF Nodes
<1>3. PICK i \in 1 .. Len(variables) : variables[i].unique = tree[d].id
  BY <1>1, <1>2 DEF SymbolsFound, SymbolWithId
<1>4. tree[u].ltype = variables[i].linkage /\ tree[d].ltype = variables[i].linkage
  BY <1>1, <1>2, <1>3 DEF NodesLinked
<1>5. tree[u].label = variables[i].label /\ tree[d].label = variables[i].label
  BY <1>1, <1>2, <1>3 DEF NodesLabelled
<1> QED BY <1>4, <1>5 DEF Meets

(***************************************************************************)
(* Theorems.                                                               *)
(***************************************************************************)
\* The tree, the two tables and the place of the walk in the tree keep their
\* types, and the walk never runs past the end of the tree, whatever the
\* program.
THEOREM LinkTypeCorrect == LinkSpec => []LinkTypeOK
<1>1. LinkInv => LinkTypeOK
  BY DEF LinkInv, LinkBase
<1> QED BY <1>1, LinkInvariance, PTL

\* sema_declare_file_scope and sema_declare_block_scope: however many
\* declarations a shared object has, and in whatever order and scopes, the
\* table has one symbol that is what they say together; and a function is
\* what it was first declared as.
THEOREM DeclarationsMerge == LinkSpec => []SharedObjectsMerged
  BY LinkInvariance, MergedAtEnd, PTL

\* The walks refuse the programs whose declarations conflict and no others,
\* functions defined twice excepted.
THEOREM ConflictsAreRefused == LinkSpec => []ConflictsRefusedExactly
  BY LinkInvariance, LegalAtEnd, PTL

\* The initializer of an object of static storage is cut out of the tree, and
\* only that.
THEOREM InitializersMove == LinkSpec => []InitializersWhereTheyRun
  BY LinkInvariance, RunAtEnd, PTL

\* sema_mangle_internal_linkage_names: no two objects that the compiler puts
\* into the data section have one name in the assembler, and none has that of
\* a function, however many static variables of one name there are in however
\* many scopes.
THEOREM LabelsApart == LinkSpec => []LabelsDistinct
  BY NameInvariance, LabelsApartAtEnd, PTL

\* sema_propagate_linkage_from_declare_to_usage and the walk that mangles: a
\* usage has the name and the linkage of every declaration of what it uses,
\* and of the symbol in the table, if the resolver gave the declarations of
\* each shared object one ID.
THEOREM UsagesNamed == LinkSpec => []UsagesNamedAsDeclared
  BY NameInvariance, NamedAtEnd, PTL
=============================================================================
