----------------------------- MODULE LabelsProofs -----------------------------
(***************************************************************************)
(* Proofs about module Labels: for trees of any size, any depth, any names *)
(* and constants, the two walks of src/passes/sema.c refuse exactly what C *)
(* does, and wire every goto to its label.  Facts about the tree are stated *)
(* of any sequence of nodes, t, so that they serve before and after a step. *)
(***************************************************************************)
EXTENDS Labels, Inductions, SequenceTheorems, FiniteSetTheorems

Statement ==
  [node: Nodes \cup Constructs \cup {"else", "end"},
   num: Value \cup {Unset} \cup Nat,
   name: Name \cup {""} \cup AllTests \cup AllControls]
Tree == Seq(Statement)

EndsOf(t, i) == {k \in 1 .. Len(t) : t[k].node = "end" /\ t[k].num = i}

\* Around and Closest of any tree.
Inside(t, p, kinds) ==
  {i \in 1 .. p - 1 : t[i].node \in kinds /\ \A k \in EndsOf(t, i) : p < k}
Nearest(t, p, kinds) ==
  IF Inside(t, p, kinds) = {} THEN 0
  ELSE CHOOSE i \in Inside(t, p, kinds) : \A j \in Inside(t, p, kinds) : j =< i

(***************************************************************************)
(* The inductive invariant.  First the tree, whoever looks at it.          *)
(***************************************************************************)
\* Every end belongs to a construct before it, which has no other.
EndsOK(t) ==
  \A k \in 1 .. Len(t) : t[k].node = "end" =>
    /\ t[k].num \in 1 .. k - 1
    /\ t[t[k].num].node \in Constructs
    /\ \A j \in EndsOf(t, t[k].num) : j = k

\* A function ends before the next one begins.
FunctionsApart(t) ==
  \A i, j \in 1 .. Len(t) :
    i < j /\ t[i].node = "function" /\ t[j].node = "function" =>
      \E k \in EndsOf(t, i) : k < j

Mention == {"goto", "label"}
MentionsInside(t) ==
  \A p \in 1 .. Len(t) : t[p].node \in Mention => Inside(t, p, {"function"}) # {}

CasesTyped(t) == \A q \in 1 .. Len(t) : t[q].node = "case" => t[q].num \in Value
MentionsNamed(t) ==
  \A p \in 1 .. Len(t) : t[p].node \in Mention => t[p].name \in Name

TreeOK(t) ==
  /\ EndsOK(t) /\ FunctionsApart(t) /\ MentionsInside(t)
  /\ CasesTyped(t) /\ MentionsNamed(t)

(***************************************************************************)
(* The first walk, while it goes on.                                       *)
(***************************************************************************)
IsOpen(o, i) == \E m \in 1 .. Len(o) : o[m] = i

\* The stack of constructs is what the tree has not ended; the outermost one
\* is a function.
OpenOK(t, o) ==
  /\ \A m, n \in 1 .. Len(o) : m < n => o[m] < o[n]
  /\ \A i \in 1 .. Len(t) :
       IsOpen(o, i) <=> t[i].node \in Constructs /\ EndsOf(t, i) = {}
  /\ \A m \in 1 .. Len(o) : t[o[m]].node = "function" <=> m = 1

\* The containers are the loops and switches among them, in their order.
ContainerOK(t, d, o, c) ==
  /\ \A m, n \in 1 .. Len(c) : m < n => c[m].origin < c[n].origin
  /\ \A n \in 1 .. Len(c) :
       /\ IsOpen(o, c[n].origin)
       /\ t[c[n].origin].node = c[n].statement
       /\ d[c[n].origin].end \in Nat
  /\ \A i \in 1 .. Len(t) :
       IsOpen(o, i) /\ t[i].node \in Breakable =>
         \E n \in 1 .. Len(c) : c[n].origin = i

Within(t, q, i, node) == t[q].node = node /\ Nearest(t, q, {"switch"}) = i

HasValue(cases, v) == \E k \in 1 .. Len(cases) : cases[k].value = v

\* A switch has the constants of its cases, converted, and a default if one
\* was met.
SwitchOK(t, d) ==
  \A i \in 1 .. Len(t) : t[i].node = "switch" =>
    /\ t[i].name \in AllControls
    /\ \A v \in Nat : HasValue(d[i].cases, v) <=>
         \E q \in 1 .. Len(t) :
           Within(t, q, i, "case") /\ v = CaseValue(t[i].name, t[q].num)
    /\ d[i].default # UnsetDefault
         <=> \E q \in 1 .. Len(t) : Within(t, q, i, "default")

FirstOK(t, d, o, c) == OpenOK(t, o) /\ ContainerOK(t, d, o, c) /\ SwitchOK(t, d)

AllowedIn(t, p) ==
  CASE t[p].node = "break"    -> Inside(t, p, Breakable) # {}
    [] t[p].node = "continue" -> Inside(t, p, {"loop"}) # {}
    [] t[p].node = "case"     ->
         /\ Inside(t, p, {"switch"}) # {}
         /\ \A q \in 1 .. p - 1 :
              Within(t, q, Nearest(t, p, {"switch"}), "case")
              => ~ SameCase(t[Nearest(t, p, {"switch"})].name, t[q].num, t[p].num)
    [] t[p].node = "default"  ->
         /\ Inside(t, p, {"switch"}) # {}
         /\ \A q \in 1 .. p - 1 :
              ~ Within(t, q, Nearest(t, p, {"switch"}), "default")
    [] OTHER -> TRUE

Diagnosed(t, s) ==
  \A p \in 1 .. Len(t) : AllowedIn(t, p) <=> ~ (p = Len(t) /\ s \in Misplaced)

(***************************************************************************)
(* The second walk, after n nodes.                                         *)
(***************************************************************************)
Function(t, p) == Nearest(t, p, {"function"})

AllEnded(t) ==
  \A i \in 1 .. Len(t) : t[i].node = "function" => EndsOf(t, i) # {}

\* The gotos and labels met in the function the walk is in.
Current(t, n) ==
  {q \in 1 .. n : t[q].node \in Mention /\ \A k \in EndsOf(t, Function(t, q)) : n < k}

Uses(t, q, n, node) == t[q].node = node /\ t[q].name = n

\* The list has one entry for each name they mention, which tells how.
LabelsOK(t, d, n, l) ==
  /\ \A j, k \in 1 .. Len(l) : l[j].name = l[k].name => j = k
  /\ \A k \in 1 .. Len(l) :
       /\ l[k].used_as_label <=> \E q \in Current(t, n) : Uses(t, q, l[k].name, "label")
       /\ l[k].used_as_target <=> \E q \in Current(t, n) : Uses(t, q, l[k].name, "goto")
  /\ \A q \in Current(t, n) : \E k \in 1 .. Len(l) :
       l[k].name = t[q].name /\ l[k].id = d[q].unique
  /\ \A q, r \in Current(t, n) :
       t[q].node = "label" /\ t[r].node = "label" /\ t[q].name = t[r].name => q = r

LabelsIn(t, p, n) ==
  {q \in 1 .. Len(t) : Uses(t, q, n, "label") /\ Function(t, p) = Function(t, q)}

Resolved(t, d, p) ==
  \E q \in 1 .. Len(t) :
    LabelsIn(t, p, t[p].name) = {q} /\ d[q].unique = d[p].unique

\* In the functions the walk has left, every goto has its one label.
ResolvedOK(t, d, n) ==
  \A p \in 1 .. n : t[p].node \in Mention => p \in Current(t, n) \/ Resolved(t, d, p)

SecondOK(t, d, n, l) == LabelsOK(t, d, n, l) /\ ResolvedOK(t, d, n)

Statuses == Misplaced \cup {"ok", "assert", "label_duplicate", "goto_nonexistent"}

IInv ==
  /\ TypeOK
  /\ status \in Statuses
  /\ TreeOK(tree)
  /\ pass = "loops" => /\ pos = 0 /\ labels = <<>>
                       /\ status \notin {"label_duplicate", "goto_nonexistent"}
  /\ pass = "loops" /\ status = "ok" => FirstOK(tree, ids, open, container)
  /\ pass # "loops" => AllEnded(tree) /\ status \notin Misplaced
  /\ pass # "loops" /\ status = "ok" => SecondOK(tree, ids, pos, labels)
  /\ pass = "labelled" => status = "ok" /\ pos = Len(tree)
  /\ Diagnosed(tree, status)
  /\ GotosDiagnosedExactly


(***************************************************************************)
(* A tree that grows by one node.                                          *)
(***************************************************************************)
LEMMA TreeGrows ==
  ASSUME NEW t \in Tree, NEW x \in Statement
  PROVE  /\ Append(t, x) \in Tree
         /\ Len(t) \in Nat /\ Len(Append(t, x)) = Len(t) + 1
         /\ \A i \in 1 .. Len(t) : Append(t, x)[i] = t[i]
         /\ Append(t, x)[Len(t) + 1] = x
BY AppendProperties DEF Tree

\* What is nearest to p is one of those p is inside of, the last one.
LEMMA NearestIs ==
  ASSUME NEW t, NEW p \in Nat, NEW kinds
  PROVE  /\ Inside(t, p, kinds) = {} => Nearest(t, p, kinds) = 0
         /\ Inside(t, p, kinds) # {} =>
              /\ Nearest(t, p, kinds) \in Inside(t, p, kinds)
              /\ \A j \in Inside(t, p, kinds) : j =< Nearest(t, p, kinds)
         /\ Nearest(t, p, kinds) \in 0 .. p
         /\ p # 0 => Nearest(t, p, kinds) \in 0 .. p - 1
<1> DEFINE S == Inside(t, p, kinds)
<1>1. S \in SUBSET (1 .. p - 1)
  BY DEF Inside
<1>2. CASE S = {}
  BY <1>2 DEF Nearest
<1>3. CASE S # {}
  <2>1. p - 1 \in Nat
    <3>1. p # 0
      BY <1>1, <1>3
    <3> QED BY <3>1
  <2>2. \E i \in S : \A j \in S : j =< i
    <3> HIDE DEF S
    <3> QED BY <1>1, <1>3, <2>1, LastPosition
  <2>3. Nearest(t, p, kinds) \in S /\ \A j \in S : j =< Nearest(t, p, kinds)
    BY <1>3, <2>2 DEF Nearest
  <2> HIDE DEF S
  <2>4. Nearest(t, p, kinds) \in 1 .. p - 1
    BY <1>1, <2>3
  <2> QED BY <1>3, <2>1, <2>3, <2>4 DEF S
<1> QED BY <1>2, <1>3

LEMMA NearestOf ==
  ASSUME NEW t, NEW p \in Nat, NEW kinds, NEW i \in Inside(t, p, kinds),
         \A j \in Inside(t, p, kinds) : j =< i
  PROVE  Nearest(t, p, kinds) = i
<1>1. /\ Nearest(t, p, kinds) \in Inside(t, p, kinds)
      /\ i =< Nearest(t, p, kinds)
  BY NearestIs
<1>2. Nearest(t, p, kinds) =< i
  BY <1>1
<1>3. i \in Nat /\ Nearest(t, p, kinds) \in Nat
  BY <1>1 DEF Inside
<1> QED BY <1>1, <1>2, <1>3

\* A node is inside the same constructs for good.
LEMMA InsideKept ==
  ASSUME NEW t \in Tree, NEW x \in Statement, NEW p \in 1 .. Len(t), NEW kinds
  PROVE  /\ Inside(Append(t, x), p, kinds) = Inside(t, p, kinds)
         /\ Nearest(Append(t, x), p, kinds) = Nearest(t, p, kinds)
<1> DEFINE u == Append(t, x)
<1>1. /\ u \in Tree /\ Len(t) \in Nat /\ Len(u) = Len(t) + 1
      /\ \A i \in 1 .. Len(t) : u[i] = t[i]
  BY TreeGrows
<1> HIDE DEF u
<1>2. \A i : EndsOf(t, i) \subseteq EndsOf(u, i)
  BY <1>1 DEF EndsOf
<1>3. \A i : \A k \in EndsOf(u, i) : k \in EndsOf(t, i) \/ k = Len(t) + 1
  BY <1>1 DEF EndsOf
<1>4. \A i : (\A k \in EndsOf(u, i) : p < k) <=> (\A k \in EndsOf(t, i) : p < k)
  BY <1>1, <1>2, <1>3
<1>5. \A i \in 1 .. p - 1 : u[i] = t[i]
  BY <1>1
<1>6. Inside(u, p, kinds) = Inside(t, p, kinds)
  BY <1>4, <1>5 DEF Inside
<1>7. Nearest(u, p, kinds) = Nearest(t, p, kinds)
  BY <1>6 DEF Nearest
<1> QED BY <1>6, <1>7 DEF u

\* A node that is no end has the ends of others as they were.
LEMMA EndsKept ==
  ASSUME NEW t \in Tree, NEW x \in Statement, NEW i, x.node = "end" => x.num # i
  PROVE  EndsOf(Append(t, x), i) = EndsOf(t, i)
<1>1. /\ Len(t) \in Nat /\ Len(Append(t, x)) = Len(t) + 1
      /\ \A k \in 1 .. Len(t) : Append(t, x)[k] = t[k]
      /\ Append(t, x)[Len(t) + 1] = x
  BY TreeGrows
<1> QED BY <1>1 DEF EndsOf

\* The last node is inside what is open.
LEMMA InsideOpen ==
  ASSUME NEW t \in Tree, NEW x \in Statement, NEW o, OpenOK(t, o),
         x.node # "end", NEW kinds, kinds \subseteq Constructs
  PROVE  \A i : i \in Inside(Append(t, x), Len(t) + 1, kinds) <=>
                  i \in 1 .. Len(t) /\ IsOpen(o, i) /\ t[i].node \in kinds
<1> DEFINE u == Append(t, x)
<1>1. /\ Len(t) \in Nat /\ Len(u) = Len(t) + 1
      /\ \A i \in 1 .. Len(t) : u[i] = t[i]
  BY TreeGrows
<1>2. \A i : EndsOf(u, i) = EndsOf(t, i)
  BY EndsKept
<1> HIDE DEF u
<1>3. \A i : EndsOf(t, i) \subseteq 1 .. Len(t)
  BY DEF EndsOf
<1>4. \A i : (\A k \in EndsOf(u, i) : Len(t) + 1 < k) <=> EndsOf(t, i) = {}
  BY <1>1, <1>2, <1>3
<1>5. \A i : i \in Inside(u, Len(t) + 1, kinds) <=>
        i \in 1 .. Len(t) /\ t[i].node \in kinds /\ EndsOf(t, i) = {}
  BY <1>1, <1>4 DEF Inside
<1>6. \A i \in 1 .. Len(t) :
        IsOpen(o, i) <=> t[i].node \in Constructs /\ EndsOf(t, i) = {}
  BY DEF OpenOK
<1> QED BY <1>5, <1>6 DEF u


(***************************************************************************)
(* The tree and its open constructs, when the first walk meets a node.     *)
(***************************************************************************)
Stack(t) == Seq(1 .. Len(t))

\* What the walk can meet: an end is that of the innermost construct, a
\* function is outside of all others, gotos and labels are inside.
Fitting(t, o, x) ==
  /\ x.node = "end" => o # <<>> /\ x.num = o[Len(o)]
  /\ x.node = "function" => o = <<>>
  /\ x.node # "function" => o # <<>>
  /\ x.node = "case" => x.num \in Value
  /\ x.node \in Mention => x.name \in Name

LEMMA TopIsOpen ==
  ASSUME NEW t, NEW o \in Stack(t), o # <<>>, OpenOK(t, o)
  PROVE  /\ Len(o) \in Nat \ {0} /\ o[Len(o)] \in 1 .. Len(t)
         /\ IsOpen(o, o[Len(o)])
         /\ t[o[Len(o)]].node \in Constructs /\ EndsOf(t, o[Len(o)]) = {}
         /\ IsOpen(o, o[1]) /\ o[1] \in 1 .. Len(t) /\ t[o[1]].node = "function"
<1>1. Len(o) \in Nat \ {0} /\ \A m \in 1 .. Len(o) : o[m] \in 1 .. Len(t)
  BY EmptySeq, ElementOfSeq DEF Stack
<1>2. Len(o) \in 1 .. Len(o) /\ 1 \in 1 .. Len(o)
  BY <1>1
<1> QED BY <1>1, <1>2 DEF OpenOK, IsOpen

LEMMA TreeStep ==
  ASSUME NEW t \in Tree, NEW o \in Stack(t), NEW x \in Statement,
         TreeOK(t), OpenOK(t, o), Fitting(t, o, x)
  PROVE  TreeOK(Append(t, x))
<1> DEFINE u == Append(t, x)
           l == Len(t) + 1
<1>1. /\ u \in Tree /\ Len(t) \in Nat /\ Len(u) = l
      /\ \A i \in 1 .. Len(t) : u[i] = t[i]
      /\ u[l] = x
  BY TreeGrows
<1>2. \A i : EndsOf(t, i) \subseteq EndsOf(u, i)
  BY <1>1 DEF EndsOf
<1>3. \A i : \A k \in EndsOf(u, i) : k \in EndsOf(t, i) \/ (k = l /\ x.node = "end" /\ x.num = i)
  BY <1>1 DEF EndsOf
<1>4. \A i, kinds : i \in 1 .. Len(t) => Inside(u, i, kinds) = Inside(t, i, kinds)
  BY InsideKept
<1>5. x.node # "end" =>
        \A i \in 1 .. Len(t) : IsOpen(o, i) /\ t[i].node = "function" =>
          i \in Inside(u, l, {"function"})
  BY InsideOpen DEF Constructs
<1> HIDE DEF u
<1>6. EndsOK(u)
  <2> SUFFICES ASSUME NEW k \in 1 .. Len(u), u[k].node = "end"
               PROVE  /\ u[k].num \in 1 .. k - 1
                      /\ u[u[k].num].node \in Constructs
                      /\ \A j \in EndsOf(u, u[k].num) : j = k
    BY DEF EndsOK
  <2>1. CASE k \in 1 .. Len(t)
    <3>1. /\ t[k].num \in 1 .. k - 1
          /\ t[t[k].num].node \in Constructs
          /\ \A j \in EndsOf(t, t[k].num) : j = k
      BY <1>1, <2>1 DEF TreeOK, EndsOK
    <3>2. u[k] = t[k] /\ u[t[k].num] = t[t[k].num]
      BY <1>1, <2>1, <3>1
    <3>3. k \in EndsOf(t, t[k].num)
      BY <2>1, <3>2 DEF EndsOf
    <3>4. ~ (x.node = "end" /\ x.num = t[k].num)
      BY <3>3, TopIsOpen DEF Fitting
    <3> QED BY <1>3, <3>1, <3>2, <3>4
  <2>2. CASE k = l
    <3>1. x.node = "end" /\ x.num = o[Len(o)] /\ o # <<>>
      BY <1>1, <2>2 DEF Fitting
    <3>2. x.num \in 1 .. Len(t) /\ t[x.num].node \in Constructs /\ EndsOf(t, x.num) = {}
      BY <3>1, TopIsOpen
    <3> QED BY <1>1, <1>3, <2>2, <3>2
  <2> QED BY <1>1, <2>1, <2>2
<1>7. FunctionsApart(u)
  <2> SUFFICES ASSUME NEW i \in 1 .. Len(u), NEW j \in 1 .. Len(u), i < j,
                      u[i].node = "function", u[j].node = "function"
               PROVE  \E k \in EndsOf(u, i) : k < j
    BY DEF FunctionsApart
  <2>1. i \in 1 .. Len(t) /\ t[i].node = "function"
    BY <1>1
  <2>2. CASE j \in 1 .. Len(t)
    BY <1>1, <1>2, <2>1, <2>2 DEF TreeOK, FunctionsApart
  <2>3. CASE j = l
    <3>1. o = <<>>
      BY <1>1, <2>3 DEF Fitting
    <3>2. EndsOf(t, i) # {}
      BY <2>1, <3>1 DEF OpenOK, IsOpen, Constructs
    <3>3. \A k \in EndsOf(t, i) : k < j
      BY <1>1, <2>3 DEF EndsOf
    <3> QED BY <1>2, <3>2, <3>3
  <2> QED BY <1>1, <2>2, <2>3
<1>8. MentionsInside(u)
  <2> SUFFICES ASSUME NEW p \in 1 .. Len(u), u[p].node \in Mention
               PROVE  Inside(u, p, {"function"}) # {}
    BY DEF MentionsInside
  <2>1. CASE p \in 1 .. Len(t)
    BY <1>1, <1>4, <2>1 DEF TreeOK, MentionsInside
  <2>2. CASE p = l
    <3>1. x.node \in Mention /\ o # <<>>
      BY <1>1, <2>2 DEF Fitting, Mention
    <3>2. o[1] \in Inside(u, l, {"function"})
      BY <1>5, <3>1, TopIsOpen DEF Mention
    <3> QED BY <2>2, <3>2
  <2> QED BY <1>1, <2>1, <2>2
<1>9. CasesTyped(u)
  BY <1>1 DEF CasesTyped, TreeOK, Fitting
<1>10. MentionsNamed(u)
  BY <1>1 DEF MentionsNamed, TreeOK, Fitting
<1> QED BY <1>6, <1>7, <1>8, <1>9, <1>10 DEF TreeOK, u

\* A construct is entered.
LEMMA OpenEnter ==
  ASSUME NEW t \in Tree, NEW o \in Stack(t), NEW x \in Statement,
         TreeOK(t), OpenOK(t, o), Fitting(t, o, x), x.node \in Constructs
  PROVE  /\ OpenOK(Append(t, x), Append(o, Len(t) + 1))
         /\ \A i : IsOpen(Append(o, Len(t) + 1), i) <=> IsOpen(o, i) \/ i = Len(t) + 1
<1> DEFINE u == Append(t, x)
           l == Len(t) + 1
           s == Append(o, l)
<1>1. /\ u \in Tree /\ Len(t) \in Nat /\ Len(u) = l
      /\ \A i \in 1 .. Len(t) : u[i] = t[i]
      /\ u[l] = x
  BY TreeGrows
<1>2. /\ Len(o) \in Nat /\ Len(s) = Len(o) + 1
      /\ \A m \in 1 .. Len(o) : s[m] = o[m] /\ o[m] \in 1 .. Len(t)
      /\ s[Len(o) + 1] = l
  BY AppendProperties, ElementOfSeq DEF Stack
<1>3. x.node # "end"
  BY DEF Constructs
<1>4. \A i : EndsOf(u, i) = EndsOf(t, i)
  BY <1>3, EndsKept
<1> HIDE DEF u, s
<1>5. EndsOf(t, l) = {}
  <2> SUFFICES ASSUME NEW k \in EndsOf(t, l) PROVE FALSE
    OBVIOUS
  <2>1. k \in 1 .. Len(t) /\ t[k].node = "end" /\ t[k].num = l
    BY DEF EndsOf
  <2>2. t[k].num \in 1 .. k - 1
    BY <2>1 DEF TreeOK, EndsOK
  <2> QED BY <1>1, <2>1, <2>2
<1>6. \A i : IsOpen(s, i) <=> IsOpen(o, i) \/ i = l
  BY <1>2 DEF IsOpen
<1>7. \A m, n \in 1 .. Len(s) : m < n => s[m] < s[n]
  <2> TAKE m, n \in 1 .. Len(s)
  <2> HAVE m < n
  <2>1. CASE n \in 1 .. Len(o)
    BY <1>2, <2>1 DEF OpenOK
  <2>2. CASE n = Len(o) + 1
    BY <1>1, <1>2, <2>2
  <2> QED BY <1>2, <2>1, <2>2
<1>8. \A i \in 1 .. Len(u) :
        IsOpen(s, i) <=> u[i].node \in Constructs /\ EndsOf(u, i) = {}
  <2> TAKE i \in 1 .. Len(u)
  <2>1. CASE i = l
    BY <1>1, <1>4, <1>5, <1>6, <2>1
  <2>2. CASE i # l
    BY <1>1, <1>4, <1>6, <2>2 DEF OpenOK
  <2> QED BY <2>1, <2>2
<1>9. \A m \in 1 .. Len(s) : u[s[m]].node = "function" <=> m = 1
  <2> TAKE m \in 1 .. Len(s)
  <2>1. CASE m \in 1 .. Len(o)
    BY <1>1, <1>2, <2>1 DEF OpenOK
  <2>2. CASE m = Len(o) + 1
    <3>1. x.node = "function" <=> o = <<>>
      BY DEF Fitting
    <3>2. o = <<>> <=> Len(o) = 0
      BY EmptySeq DEF Stack
    <3> QED BY <1>1, <1>2, <2>2, <3>1, <3>2
  <2> QED BY <1>2, <2>1, <2>2
<1> QED BY <1>6, <1>7, <1>8, <1>9 DEF OpenOK, u, s

\* A statement without a body.
LEMMA OpenPass ==
  ASSUME NEW t \in Tree, NEW o \in Stack(t), NEW x \in Statement,
         TreeOK(t), OpenOK(t, o), x.node \notin Constructs, x.node # "end"
  PROVE  OpenOK(Append(t, x), o)
<1> DEFINE u == Append(t, x)
           l == Len(t) + 1
<1>1. /\ u \in Tree /\ Len(t) \in Nat /\ Len(u) = l
      /\ \A i \in 1 .. Len(t) : u[i] = t[i]
      /\ u[l] = x
  BY TreeGrows
<1>2. /\ Len(o) \in Nat
      /\ \A m \in 1 .. Len(o) : o[m] \in 1 .. Len(t)
  BY ElementOfSeq DEF Stack
<1>3. \A i : EndsOf(u, i) = EndsOf(t, i)
  BY EndsKept
<1> HIDE DEF u
<1>4. ~ IsOpen(o, l)
  BY <1>1, <1>2 DEF IsOpen
<1>5. \A i \in 1 .. Len(u) :
        IsOpen(o, i) <=> u[i].node \in Constructs /\ EndsOf(u, i) = {}
  BY <1>1, <1>3, <1>4 DEF OpenOK
<1>6. \A m \in 1 .. Len(o) : u[o[m]].node = "function" <=> m = 1
  BY <1>1, <1>2 DEF OpenOK
<1> QED BY <1>5, <1>6 DEF OpenOK, u

\* The innermost construct is left.
Pop(s) == SubSeq(s, 1, Len(s) - 1)

LEMMA PopIs ==
  ASSUME NEW S, NEW s \in Seq(S), s # <<>>
  PROVE  /\ Pop(s) \in Seq(S) /\ Len(s) \in Nat \ {0} /\ Len(Pop(s)) = Len(s) - 1
         /\ \A i \in 1 .. Len(s) - 1 : Pop(s)[i] = s[i]
<1>1. Len(s) \in Nat \ {0} /\ \A i \in 1 .. Len(s) - 1 : s[i] \in S
  BY EmptySeq, ElementOfSeq
<1>2. Len(s) - 1 \in Int /\ 1 \in Int
  BY <1>1
<1>3. /\ Pop(s) \in Seq(S)
      /\ Len(Pop(s)) = IF 1 =< Len(s) - 1 THEN (Len(s) - 1) - 1 + 1 ELSE 0
      /\ \A i \in 1 .. (Len(s) - 1) - 1 + 1 : Pop(s)[i] = s[1 + i - 1]
  BY <1>1, <1>2, SubSeqProperties DEF Pop
<1>4. \A i \in 1 .. Len(s) - 1 : 1 + i - 1 = i /\ i \in 1 .. (Len(s) - 1) - 1 + 1
  BY <1>1
<1>5. \A i \in 1 .. Len(s) - 1 : Pop(s)[i] = s[i]
  <2> TAKE i \in 1 .. Len(s) - 1
  <2>1. Pop(s)[i] = s[1 + i - 1]
    BY <1>3, <1>4
  <2> QED BY <1>4, <2>1
<1>6. Len(Pop(s)) = Len(s) - 1
  <2>1. \A n \in Nat \ {0} : (IF 1 =< n - 1 THEN (n - 1) - 1 + 1 ELSE 0) = n - 1
    OBVIOUS
  <2> QED BY <1>1, <1>3, <2>1
<1> QED BY <1>1, <1>3, <1>5, <1>6

LEMMA OpenLeave ==
  ASSUME NEW t \in Tree, NEW o \in Stack(t), NEW x \in Statement, o # <<>>,
         TreeOK(t), OpenOK(t, o), x.node = "end", x.num = o[Len(o)]
  PROVE  /\ OpenOK(Append(t, x), Pop(o))
         /\ \A i : IsOpen(Pop(o), i) <=> IsOpen(o, i) /\ i # o[Len(o)]
<1> DEFINE u == Append(t, x)
           l == Len(t) + 1
           s == Pop(o)
           i0 == o[Len(o)]
<1>1. /\ u \in Tree /\ Len(t) \in Nat /\ Len(u) = l
      /\ \A i \in 1 .. Len(t) : u[i] = t[i]
      /\ u[l] = x
  BY TreeGrows
<1>2. /\ Len(o) \in Nat \ {0} /\ Len(s) = Len(o) - 1
      /\ \A m \in 1 .. Len(o) : o[m] \in 1 .. Len(t)
      /\ \A m \in 1 .. Len(o) - 1 : s[m] = o[m]
  BY PopIs, ElementOfSeq DEF Stack
<1>3. \A i : i # i0 => EndsOf(u, i) = EndsOf(t, i)
  BY EndsKept
<1>4. l \in EndsOf(u, i0)
  BY <1>1 DEF EndsOf
<1> HIDE DEF u, s
<1>5. \A i : IsOpen(s, i) <=> IsOpen(o, i) /\ i # i0
  <2>1. \A m, n \in 1 .. Len(o) : m < n => o[m] < o[n]
    BY DEF OpenOK
  <2>2. \A m \in 1 .. Len(o) - 1 : m \in 1 .. Len(o) /\ o[m] < i0
    BY <1>2, <2>1
  <2>3. \A m \in 1 .. Len(o) : m \in 1 .. Len(s) \/ m = Len(o)
    BY <1>2
  <2>4. \A m \in 1 .. Len(s) : m \in 1 .. Len(o) /\ s[m] = o[m] /\ s[m] # i0
    BY <1>2, <2>2
  <2> QED BY <2>3, <2>4 DEF IsOpen
<1>6. ASSUME NEW m \in 1 .. Len(s), NEW n \in 1 .. Len(s), m < n
      PROVE  s[m] < s[n]
  <2>1. m \in 1 .. Len(o) /\ m \in 1 .. Len(o) - 1 /\ n \in 1 .. Len(o) /\ n \in 1 .. Len(o) - 1
    BY <1>2
  <2>2. o[m] < o[n]
    BY <1>6, <2>1 DEF OpenOK
  <2> QED BY <1>2, <2>1, <2>2
<1>7. \A i \in 1 .. Len(u) :
        IsOpen(s, i) <=> u[i].node \in Constructs /\ EndsOf(u, i) = {}
  <2> TAKE i \in 1 .. Len(u)
  <2>1. CASE i = l
    <3>1. ~ IsOpen(o, l)
      BY <1>1, <1>2 DEF IsOpen
    <3> QED BY <1>1, <1>5, <2>1, <3>1 DEF Constructs
  <2>2. CASE i # l /\ i = i0
    BY <1>4, <1>5, <2>2
  <2>3. CASE i # l /\ i # i0
    BY <1>1, <1>3, <1>5, <2>3 DEF OpenOK
  <2> QED BY <2>1, <2>2, <2>3
<1>8. \A m \in 1 .. Len(s) : u[s[m]].node = "function" <=> m = 1
  <2>1. ASSUME NEW m \in 1 .. Len(s)
        PROVE  m \in 1 .. Len(o) /\ u[s[m]] = t[o[m]]
    <3>1. m \in 1 .. Len(o) /\ m \in 1 .. Len(o) - 1
      BY <1>2
    <3>2. s[m] = o[m] /\ o[m] \in 1 .. Len(t)
      BY <1>2, <3>1
    <3> QED BY <1>1, <3>1, <3>2
  <2>2. \A m \in 1 .. Len(o) : t[o[m]].node = "function" <=> m = 1
    BY DEF OpenOK
  <2> QED BY <2>1, <2>2
<1> QED BY <1>5, <1>6, <1>7, <1>8 DEF OpenOK, u, s


(***************************************************************************)
(* The containers.                                                         *)
(***************************************************************************)
Containers(t) == Seq([origin: 1 .. Len(t), statement: Breakable])

LEMMA ContainerType ==
  ASSUME NEW t \in Tree, NEW c \in Containers(t)
  PROVE  /\ Len(c) \in Nat /\ (c = <<>> <=> Len(c) = 0)
         /\ \A n \in 1 .. Len(c) : c[n].origin \in 1 .. Len(t) /\ c[n].statement \in Breakable
         /\ Len(t) \in Nat
<1>1. \A n \in 1 .. Len(c) : c[n] \in [origin: 1 .. Len(t), statement: Breakable]
  BY ElementOfSeq DEF Containers
<1>2. Len(c) \in Nat /\ (c = <<>> <=> Len(c) = 0)
  BY EmptySeq DEF Containers
<1> QED BY <1>1, <1>2 DEF Tree

\* A loop or a switch is entered.
LEMMA ContainerEnter ==
  ASSUME NEW t \in Tree, NEW x \in Statement, NEW o, NEW o2, NEW c \in Containers(t),
         NEW d, NEW d2, ContainerOK(t, d, o, c),
         \A i \in 1 .. Len(t) : d2[i].end = d[i].end,
         \A i : IsOpen(o2, i) <=> IsOpen(o, i) \/ i = Len(t) + 1,
         x.node \in Breakable, d2[Len(t) + 1].end \in Nat
  PROVE  ContainerOK(Append(t, x), d2, o2,
                     Append(c, [origin |-> Len(t) + 1, statement |-> x.node]))
<1> DEFINE u == Append(t, x)
           l == Len(t) + 1
           e == [origin |-> l, statement |-> x.node]
           c2 == Append(c, e)
<1>1. /\ Len(t) \in Nat /\ Len(u) = l /\ u[l] = x
      /\ \A i \in 1 .. Len(t) : u[i] = t[i]
  BY TreeGrows
<1>2. /\ Len(c) \in Nat
      /\ \A n \in 1 .. Len(c) : c[n].origin \in 1 .. Len(t)
  BY ContainerType
<1>3. /\ Len(c2) = Len(c) + 1 /\ c2[Len(c) + 1] = e
      /\ \A n \in 1 .. Len(c) : c2[n] = c[n]
  BY AppendProperties DEF Containers
<1>4. e.origin = l /\ e.statement = x.node
  OBVIOUS
<1> HIDE DEF u, e, c2
<1>5. ASSUME NEW m \in 1 .. Len(c2), NEW n \in 1 .. Len(c2), m < n
      PROVE  c2[m].origin < c2[n].origin
  <2>1. CASE n \in 1 .. Len(c)
    <3>1. m \in 1 .. Len(c)
      BY <1>2, <1>3, <1>5, <2>1
    <3> QED BY <1>3, <1>5, <2>1, <3>1 DEF ContainerOK
  <2>2. CASE n = Len(c) + 1
    <3>1. m \in 1 .. Len(c)
      BY <1>2, <1>3, <1>5, <2>2
    <3> QED BY <1>1, <1>2, <1>3, <1>4, <2>2, <3>1
  <2>3. n \in 1 .. Len(c) \/ n = Len(c) + 1
    BY <1>2, <1>3
  <2> QED BY <2>1, <2>2, <2>3
<1>6. ASSUME NEW n \in 1 .. Len(c2)
      PROVE  /\ IsOpen(o2, c2[n].origin)
             /\ u[c2[n].origin].node = c2[n].statement
             /\ d2[c2[n].origin].end \in Nat
  <2>1. CASE n \in 1 .. Len(c)
    <3>1. /\ IsOpen(o, c[n].origin) /\ t[c[n].origin].node = c[n].statement
          /\ d[c[n].origin].end \in Nat /\ c[n].origin \in 1 .. Len(t)
      BY <1>2, <2>1 DEF ContainerOK
    <3> QED BY <1>1, <1>3, <2>1, <3>1
  <2>2. CASE n = Len(c) + 1
    BY <1>1, <1>3, <1>4, <2>2
  <2> QED BY <1>2, <1>3, <2>1, <2>2
<1>7. ASSUME NEW i \in 1 .. Len(u), IsOpen(o2, i), u[i].node \in Breakable
      PROVE  \E n \in 1 .. Len(c2) : c2[n].origin = i
  <2>1. CASE i = l
    <3>1. Len(c) + 1 \in 1 .. Len(c2)
      BY <1>2, <1>3
    <3> QED BY <1>3, <1>4, <2>1, <3>1
  <2>2. CASE i # l
    <3>1. i \in 1 .. Len(t) /\ IsOpen(o, i) /\ t[i].node \in Breakable
      BY <1>1, <1>7, <2>2
    <3>2. PICK n \in 1 .. Len(c) : c[n].origin = i
      BY <3>1 DEF ContainerOK
    <3>3. n \in 1 .. Len(c2)
      BY <1>2, <1>3
    <3> QED BY <1>3, <3>2, <3>3
  <2> QED BY <2>1, <2>2
<1> QED BY <1>5, <1>6, <1>7 DEF ContainerOK, u, e, c2

\* Another node is met.
LEMMA ContainerPass ==
  ASSUME NEW t \in Tree, NEW x \in Statement, NEW o, NEW o2, NEW c \in Containers(t),
         NEW d, NEW d2, ContainerOK(t, d, o, c),
         \A i \in 1 .. Len(t) : d2[i].end = d[i].end,
         \A i \in 1 .. Len(t) : t[i].node \in Breakable => (IsOpen(o2, i) <=> IsOpen(o, i)),
         x.node \notin Breakable
  PROVE  ContainerOK(Append(t, x), d2, o2, c)
<1> DEFINE u == Append(t, x)
           l == Len(t) + 1
<1>1. /\ Len(t) \in Nat /\ Len(u) = l /\ u[l] = x
      /\ \A i \in 1 .. Len(t) : u[i] = t[i]
  BY TreeGrows
<1>2. /\ Len(c) \in Nat
      /\ \A n \in 1 .. Len(c) : c[n].origin \in 1 .. Len(t) /\ c[n].statement \in Breakable
  BY ContainerType
<1> HIDE DEF u
<1>6. ASSUME NEW n \in 1 .. Len(c)
      PROVE  /\ IsOpen(o2, c[n].origin)
             /\ u[c[n].origin].node = c[n].statement
             /\ d2[c[n].origin].end \in Nat
  <2>1. /\ IsOpen(o, c[n].origin) /\ t[c[n].origin].node = c[n].statement
        /\ d[c[n].origin].end \in Nat /\ c[n].origin \in 1 .. Len(t)
    BY <1>2 DEF ContainerOK
  <2> QED BY <1>1, <1>2, <2>1
<1>7. ASSUME NEW i \in 1 .. Len(u), IsOpen(o2, i), u[i].node \in Breakable
      PROVE  \E n \in 1 .. Len(c) : c[n].origin = i
  <2>1. i \in 1 .. Len(t) /\ IsOpen(o, i) /\ t[i].node \in Breakable
    BY <1>1, <1>7
  <2> QED BY <2>1 DEF ContainerOK
<1> QED BY <1>6, <1>7 DEF ContainerOK, u

\* The end of a loop or a switch.
LEMMA ContainerLeave ==
  ASSUME NEW t \in Tree, NEW x \in Statement, NEW o \in Stack(t), NEW o2,
         NEW c \in Containers(t), NEW d, NEW d2, OpenOK(t, o), ContainerOK(t, d, o, c),
         \A i \in 1 .. Len(t) : d2[i].end = d[i].end,
         \A i : IsOpen(o2, i) <=> IsOpen(o, i) /\ i # o[Len(o)],
         x.node = "end", o # <<>>, t[o[Len(o)]].node \in Breakable
  PROVE  c # <<>> /\ ContainerOK(Append(t, x), d2, o2, Pop(c))
<1> DEFINE u == Append(t, x)
           l == Len(t) + 1
           i0 == o[Len(o)]
           n0 == Len(c)
           c2 == Pop(c)
<1>1. /\ Len(t) \in Nat /\ Len(u) = l /\ u[l] = x
      /\ \A i \in 1 .. Len(t) : u[i] = t[i]
  BY TreeGrows
<1>2. /\ Len(c) \in Nat
      /\ \A n \in 1 .. Len(c) : c[n].origin \in 1 .. Len(t)
  BY ContainerType
<1>3. i0 \in 1 .. Len(t) /\ IsOpen(o, i0) /\ \A m \in 1 .. Len(o) : o[m] =< i0
  <2>1. i0 \in 1 .. Len(t) /\ IsOpen(o, i0) /\ Len(o) \in Nat \ {0}
    BY TopIsOpen
  <2>2. \A m \in 1 .. Len(o) : m < Len(o) => o[m] < i0
    BY <2>1 DEF OpenOK
  <2>3. \A m \in 1 .. Len(o) : o[m] \in 1 .. Len(t)
    BY ElementOfSeq DEF Stack
  <2> QED BY <2>1, <2>2, <2>3
<1>4. PICK n \in 1 .. Len(c) : c[n].origin = i0
  BY <1>3 DEF ContainerOK
<1>5. n = n0
  <2> SUFFICES ASSUME n < n0 PROVE FALSE
    BY <1>2
  <2>1. n0 \in 1 .. Len(c) /\ c[n].origin < c[n0].origin
    BY <1>2 DEF ContainerOK
  <2>2. IsOpen(o, c[n0].origin)
    BY <2>1 DEF ContainerOK
  <2>3. c[n0].origin =< i0
    BY <1>3, <2>2 DEF IsOpen
  <2> QED BY <1>2, <1>3, <1>4, <2>1, <2>3
<1>6. /\ c # <<>> /\ Len(c2) = n0 - 1
      /\ \A k \in 1 .. n0 - 1 : c2[k] = c[k]
  <2>1. c # <<>>
    BY <1>2, <1>4, ContainerType
  <2> QED BY <2>1, PopIs DEF Containers
<1>7. \A k \in 1 .. n0 - 1 : k \in 1 .. Len(c) /\ c[k].origin < i0
  BY <1>2, <1>4, <1>5 DEF ContainerOK
<1> HIDE DEF u, c2, i0
<1>8. \A m, k \in 1 .. Len(c2) : m < k => c2[m].origin < c2[k].origin
  BY <1>6, <1>7 DEF ContainerOK
<1>9. ASSUME NEW k \in 1 .. Len(c2)
      PROVE  /\ IsOpen(o2, c2[k].origin)
             /\ u[c2[k].origin].node = c2[k].statement
             /\ d2[c2[k].origin].end \in Nat
  <2>1. k \in 1 .. Len(c) /\ c2[k] = c[k] /\ c[k].origin < i0
    BY <1>6, <1>7
  <2>2. /\ IsOpen(o, c[k].origin) /\ t[c[k].origin].node = c[k].statement
        /\ d[c[k].origin].end \in Nat /\ c[k].origin \in 1 .. Len(t)
    BY <1>2, <2>1 DEF ContainerOK
  <2>3. c[k].origin # i0
    BY <1>3, <2>1, <2>2
  <2> QED BY <1>1, <2>1, <2>2, <2>3 DEF i0
<1>10. ASSUME NEW i \in 1 .. Len(u), IsOpen(o2, i), u[i].node \in Breakable
      PROVE  \E k \in 1 .. Len(c2) : c2[k].origin = i
  <2>1. i \in 1 .. Len(t) /\ IsOpen(o, i) /\ t[i].node \in Breakable /\ i # i0
    BY <1>1, <1>10 DEF Breakable, i0
  <2>2. PICK k \in 1 .. Len(c) : c[k].origin = i
    BY <2>1 DEF ContainerOK
  <2>3. k \in 1 .. Len(c2)
    BY <1>2, <1>4, <1>5, <1>6, <2>1, <2>2
  <2> QED BY <1>6, <2>2, <2>3
<1> QED BY <1>6, <1>8, <1>9, <1>10 DEF ContainerOK, u, c2


\* has_container finds what is nearest: 0 if there is none.
HasIn(c, kind) ==
  LET of == {k \in 1 .. Len(c) : c[k].statement = kind}
  IN  IF of = {} THEN 0 ELSE c[CHOOSE k \in of : \A j \in of : j =< k].origin

LEMMA HasInIs ==
  ASSUME NEW t \in Tree, NEW x \in Statement, NEW o, NEW c \in Containers(t), NEW d,
         OpenOK(t, o), ContainerOK(t, d, o, c), x.node # "end", NEW kind \in Breakable
  PROVE  HasIn(c, kind) = Nearest(Append(t, x), Len(t) + 1, {kind})
<1> DEFINE of == {k \in 1 .. Len(c) : c[k].statement = kind}
           S == Inside(Append(t, x), Len(t) + 1, {kind})
<1>1. /\ Len(c) \in Nat /\ Len(t) \in Nat
      /\ \A n \in 1 .. Len(c) : c[n].origin \in 1 .. Len(t)
  BY ContainerType
<1>2. {kind} \subseteq Constructs
  BY DEF Breakable, Constructs
<1>3. \A i : i \in S <=> i \in 1 .. Len(t) /\ IsOpen(o, i) /\ t[i].node \in {kind}
  BY <1>2, InsideOpen
<1> HIDE DEF S
<1>4. \A k \in of : c[k].origin \in S
  BY <1>1, <1>3 DEF ContainerOK
<1>5. \A i \in S : \E k \in of : c[k].origin = i
  <2> TAKE i \in S
  <2>1. i \in 1 .. Len(t) /\ IsOpen(o, i) /\ t[i].node = kind
    BY <1>3
  <2>2. PICK k \in 1 .. Len(c) : c[k].origin = i
    BY <2>1 DEF ContainerOK
  <2>3. c[k].statement = kind
    BY <2>1, <2>2 DEF ContainerOK
  <2> QED BY <2>2, <2>3
<1>6. CASE of = {}
  <2>1. S = {}
    BY <1>5, <1>6
  <2>2. HasIn(c, kind) = 0
    BY <1>6 DEF HasIn
  <2>3. Len(t) + 1 \in Nat
    BY <1>1
  <2>4. Nearest(Append(t, x), Len(t) + 1, {kind}) = 0
    BY <2>1, <2>3, NearestIs DEF S
  <2> QED BY <2>2, <2>4
<1>7. CASE of # {}
  <2> DEFINE k0 == CHOOSE k \in of : \A j \in of : j =< k
  <2>1. of \in SUBSET (1 .. Len(c))
    OBVIOUS
  <2>2. \E k \in of : \A j \in of : j =< k
    <3> HIDE DEF of
    <3> QED BY <1>1, <1>7, <2>1, LastPosition
  <2>3. k0 \in of /\ \A j \in of : j =< k0
    <3> HIDE DEF of
    <3> QED BY <2>2
  <2>4. HasIn(c, kind) = c[k0].origin
    BY <1>7 DEF HasIn
  <2> HIDE DEF k0, of
  <2>5. \A j \in S : j =< c[k0].origin
    <3> TAKE j \in S
    <3>1. PICK k \in of : c[k].origin = j
      BY <1>5
    <3>2. k =< k0 /\ k \in 1 .. Len(c) /\ k0 \in 1 .. Len(c)
      BY <2>1, <2>3
    <3>3. k < k0 => c[k].origin < c[k0].origin
      BY <3>2 DEF ContainerOK
    <3> QED BY <1>1, <3>1, <3>2, <3>3
  <2>6. c[k0].origin \in S
    BY <1>4, <2>3
  <2>7. Len(t) + 1 \in Nat
    BY <1>1
  <2>8. Nearest(Append(t, x), Len(t) + 1, {kind}) = c[k0].origin
    BY <2>5, <2>6, <2>7, NearestOf DEF S
  <2> QED BY <2>4, <2>8
<1> QED BY <1>6, <1>7

\* The last container is the nearest loop or switch.
LEMMA LastContainerIs ==
  ASSUME NEW t \in Tree, NEW x \in Statement, NEW o, NEW c \in Containers(t), NEW d,
         OpenOK(t, o), ContainerOK(t, d, o, c), x.node # "end"
  PROVE  /\ c = <<>> <=> Inside(Append(t, x), Len(t) + 1, Breakable) = {}
         /\ c # <<>> =>
              /\ c[Len(c)].origin = Nearest(Append(t, x), Len(t) + 1, Breakable)
              /\ d[c[Len(c)].origin].end \in Nat
<1> DEFINE S == Inside(Append(t, x), Len(t) + 1, Breakable)
<1>1. /\ Len(c) \in Nat /\ Len(t) \in Nat /\ (c = <<>> <=> Len(c) = 0)
      /\ \A n \in 1 .. Len(c) : c[n].origin \in 1 .. Len(t) /\ c[n].statement \in Breakable
  BY ContainerType
<1>2. Breakable \subseteq Constructs
  BY DEF Breakable, Constructs
<1>3. \A i : i \in S <=> i \in 1 .. Len(t) /\ IsOpen(o, i) /\ t[i].node \in Breakable
  BY <1>2, InsideOpen
<1> HIDE DEF S
<1>4. \A k \in 1 .. Len(c) : c[k].origin \in S
  BY <1>1, <1>3 DEF ContainerOK
<1>5. \A i \in S : \E k \in 1 .. Len(c) : c[k].origin = i
  BY <1>3 DEF ContainerOK
<1>6. c = <<>> <=> S = {}
  <2>1. c = <<>> => S = {}
    BY <1>1, <1>5
  <2>2. c # <<>> => 1 \in 1 .. Len(c)
    BY <1>1
  <2> QED BY <1>4, <2>1, <2>2
<1>7. ASSUME c # <<>>
      PROVE  /\ c[Len(c)].origin = Nearest(Append(t, x), Len(t) + 1, Breakable)
             /\ d[c[Len(c)].origin].end \in Nat
  <2>1. Len(c) \in 1 .. Len(c)
    BY <1>1, <1>7
  <2>2. \A j \in S : j =< c[Len(c)].origin
    <3> TAKE j \in S
    <3>1. PICK k \in 1 .. Len(c) : c[k].origin = j
      BY <1>5
    <3>2. k < Len(c) => c[k].origin < c[Len(c)].origin
      BY <2>1 DEF ContainerOK
    <3> QED BY <1>1, <2>1, <3>1, <3>2
  <2>3. c[Len(c)].origin \in S
    BY <1>4, <2>1
  <2> QED BY <1>1, <2>1, <2>2, <2>3, NearestOf DEF S, ContainerOK
<1> QED BY <1>6, <1>7 DEF S

(***************************************************************************)
(* The lists in the switches.                                              *)
(***************************************************************************)
\* case_prepend compares constants as C does: after their conversion.
LEMMA SameCaseIs ==
  ASSUME NEW control \in AllControls, NEW v \in Nat, NEW w \in Nat
  PROVE  /\ CaseValue(control, v) \in Nat
         /\ CaseValue(control, CaseValue(control, v)) = CaseValue(control, v)
         /\ SameCase(control, v, w) <=> CaseValue(control, v) = CaseValue(control, w)
<1>1. IntModulus \in Nat \ {0} /\ IntMax \in Nat /\ IntMax < IntModulus
  BY ValueAssumption
<1>2. \A a \in Nat : a % IntModulus \in 0 .. IntModulus - 1
  BY <1>1
<1>3. \A a \in 0 .. IntModulus - 1 : a % IntModulus = a
  BY <1>1
<1>4. CASE control = "int"
  <2>1. \A a \in Nat : CaseValue(control, a) = a % IntModulus
    <3> TAKE a \in Nat
    <3>1. CASE a > IntMax
      BY <1>4, <3>1 DEF CaseValue
    <3>2. CASE ~ (a > IntMax)
      <4>1. a \in 0 .. IntModulus - 1
        BY <1>1, <3>2
      <4> QED BY <1>3, <1>4, <3>2, <4>1 DEF CaseValue
    <3> QED BY <3>1, <3>2
  <2>2. (v % IntModulus) % IntModulus = v % IntModulus /\ v % IntModulus \in Nat
    BY <1>1, <1>2, <1>3
  <2> QED BY <1>4, <2>1, <2>2 DEF SameCase
<1>5. CASE control # "int"
  BY <1>5 DEF CaseValue, SameCase
<1> QED BY <1>4, <1>5

LEMMA WithinKept ==
  ASSUME NEW t \in Tree, NEW x \in Statement
  PROVE  /\ \A i, node : \A q \in 1 .. Len(t) :
              Within(Append(t, x), q, i, node) <=> Within(t, q, i, node)
         /\ \A node : \A q \in 1 .. Len(t) : ~ Within(t, q, Len(t) + 1, node)
<1>1. /\ Len(t) \in Nat /\ \A i \in 1 .. Len(t) : Append(t, x)[i] = t[i]
  BY TreeGrows
<1>2. \A q \in 1 .. Len(t) :
        Nearest(Append(t, x), q, {"switch"}) = Nearest(t, q, {"switch"})
  BY InsideKept
<1>3. ASSUME NEW q \in 1 .. Len(t)
      PROVE  Nearest(t, q, {"switch"}) \in 0 .. q - 1
  <2>1. q \in Nat /\ q # 0
    BY <1>1
  <2> QED BY <2>1, NearestIs
<1>4. \A q \in 1 .. Len(t) : Nearest(t, q, {"switch"}) # Len(t) + 1
  BY <1>1, <1>3
<1> QED BY <1>1, <1>2, <1>4 DEF Within

\* A node other than a case or a default.
LEMMA SwitchStep ==
  ASSUME NEW t \in Tree, NEW x \in Statement, NEW d, NEW d2, SwitchOK(t, d),
         \A i \in 1 .. Len(t) : t[i].node = "switch" =>
           d2[i].cases = d[i].cases /\ d2[i].default = d[i].default,
         x.node \notin {"case", "default"},
         x.node = "switch" =>
           /\ x.name \in AllControls
           /\ d2[Len(t) + 1].cases = <<>> /\ d2[Len(t) + 1].default = UnsetDefault
  PROVE  SwitchOK(Append(t, x), d2)
<1> DEFINE u == Append(t, x)
           l == Len(t) + 1
<1>1. /\ Len(t) \in Nat /\ Len(u) = l /\ u[l] = x
      /\ \A i \in 1 .. Len(t) : u[i] = t[i]
  BY TreeGrows
<1>2. /\ \A i, node : \A q \in 1 .. Len(t) : Within(u, q, i, node) <=> Within(t, q, i, node)
      /\ \A node : \A q \in 1 .. Len(t) : ~ Within(t, q, l, node)
  BY WithinKept
<1> HIDE DEF u
<1>3. \A i : ~ Within(u, l, i, "case") /\ ~ Within(u, l, i, "default")
  BY <1>1 DEF Within
<1> SUFFICES ASSUME NEW i \in 1 .. Len(u), u[i].node = "switch"
             PROVE  /\ u[i].name \in AllControls
                    /\ \A v \in Nat : HasValue(d2[i].cases, v) <=>
                         \E q \in 1 .. Len(u) :
                           Within(u, q, i, "case") /\ v = CaseValue(u[i].name, u[q].num)
                    /\ d2[i].default # UnsetDefault
                         <=> \E q \in 1 .. Len(u) : Within(u, q, i, "default")
  BY DEF SwitchOK, u
<1>4. \A node \in {"case", "default"}, q \in 1 .. Len(u) :
        Within(u, q, i, node) <=> q \in 1 .. Len(t) /\ Within(t, q, i, node)
  BY <1>1, <1>2, <1>3
<1>5. 1 .. Len(t) \subseteq 1 .. Len(u)
  BY <1>1
<1>6. CASE i = l
  <2>1. \A q \in 1 .. Len(u) : ~ Within(u, q, i, "case") /\ ~ Within(u, q, i, "default")
    BY <1>2, <1>4, <1>6
  <2>2. d2[i].cases = <<>> /\ d2[i].default = UnsetDefault /\ u[i].name \in AllControls
    BY <1>1, <1>6
  <2>3. \A v : ~ HasValue(<<>>, v)
    BY DEF HasValue
  <2> QED BY <2>1, <2>2, <2>3
<1>7. CASE i # l
  <2>1. i \in 1 .. Len(t) /\ u[i] = t[i] /\ t[i].node = "switch"
    BY <1>1, <1>7
  <2>2. /\ t[i].name \in AllControls
        /\ \A v \in Nat : HasValue(d[i].cases, v) <=>
             \E q \in 1 .. Len(t) :
               Within(t, q, i, "case") /\ v = CaseValue(t[i].name, t[q].num)
        /\ d[i].default # UnsetDefault
             <=> \E q \in 1 .. Len(t) : Within(t, q, i, "default")
    BY <2>1 DEF SwitchOK
  <2>3. d2[i].cases = d[i].cases /\ d2[i].default = d[i].default
    BY <2>1
  <2>4. ASSUME NEW v \in Nat
        PROVE  (\E q \in 1 .. Len(u) :
                  Within(u, q, i, "case") /\ v = CaseValue(u[i].name, u[q].num))
               <=> (\E q \in 1 .. Len(t) :
                      Within(t, q, i, "case") /\ v = CaseValue(t[i].name, t[q].num))
    BY <1>1, <1>4, <1>5, <2>1
  <2>5. (\E q \in 1 .. Len(u) : Within(u, q, i, "default"))
          <=> \E q \in 1 .. Len(t) : Within(t, q, i, "default")
    BY <1>4, <1>5
  <2> QED BY <2>1, <2>2, <2>3, <2>4, <2>5
<1> QED BY <1>6, <1>7


LEMMA HasValuePrepended ==
  ASSUME NEW cases \in Seq([value: Nat, unique: Nat]), NEW e \in [value: Nat, unique: Nat],
         NEW v
  PROVE  HasValue(<<e>> \o cases, v) <=> e.value = v \/ HasValue(cases, v)
<1> DEFINE s == <<e>> \o cases
           E == [value: Nat, unique: Nat]
<1>1. <<e>> \in Seq(E) /\ Len(<<e>>) = 1 /\ <<e>>[1] = e
  OBVIOUS
<1>2. Len(cases) \in Nat
  OBVIOUS
<1> HIDE DEF E
<1>3. /\ Len(s) = Len(cases) + 1
      /\ \A k \in 1 .. 1 + Len(cases) : s[k] = IF k =< 1 THEN <<e>>[k] ELSE cases[k - 1]
  <2>1. cases \in Seq(E)
    BY DEF E
  <2> HIDE DEF s
  <2> QED BY <1>1, <1>2, <2>1, ConcatProperties DEF s
<1> HIDE DEF s
<1>4. s[1] = e /\ 1 \in 1 .. Len(s)
  BY <1>1, <1>2, <1>3
<1>5. ASSUME NEW k \in 1 .. Len(cases)
      PROVE  k + 1 \in 1 .. Len(s) /\ s[k + 1] = cases[k]
  <2>1. k + 1 \in 1 .. 1 + Len(cases) /\ ~ (k + 1 =< 1) /\ (k + 1) - 1 = k
    BY <1>2
  <2>2. s[k + 1] = cases[(k + 1) - 1]
    BY <1>3, <2>1
  <2> QED BY <1>2, <1>3, <2>1, <2>2
<1>6. ASSUME NEW k \in 1 .. Len(s), k # 1
      PROVE  k - 1 \in 1 .. Len(cases) /\ s[k] = cases[k - 1]
  <2>1. k \in 1 .. 1 + Len(cases) /\ ~ (k =< 1) /\ k - 1 \in 1 .. Len(cases)
    BY <1>2, <1>3, <1>6
  <2> QED BY <1>3, <2>1
<1>7. HasValue(s, v) => e.value = v \/ HasValue(cases, v)
  BY <1>4, <1>6 DEF HasValue
<1>8. e.value = v \/ HasValue(cases, v) => HasValue(s, v)
  BY <1>4, <1>5 DEF HasValue
<1> QED BY <1>7, <1>8 DEF s

\* The nearest switch is one that is open.
LEMMA SwitchAround ==
  ASSUME NEW t \in Tree, NEW x \in Statement, NEW o, OpenOK(t, o), x.node # "end",
         NEW kind \in Breakable, Nearest(Append(t, x), Len(t) + 1, {kind}) # 0
  PROVE  /\ Nearest(Append(t, x), Len(t) + 1, {kind}) \in 1 .. Len(t)
         /\ t[Nearest(Append(t, x), Len(t) + 1, {kind})].node = kind
         /\ Inside(Append(t, x), Len(t) + 1, {kind}) # {}
<1> DEFINE S == Inside(Append(t, x), Len(t) + 1, {kind})
<1>1. {kind} \subseteq Constructs
  BY DEF Breakable, Constructs
<1>2. \A i \in S : i \in 1 .. Len(t) /\ t[i].node \in {kind}
  BY <1>1, InsideOpen
<1>3. Len(t) + 1 \in Nat
  BY TreeGrows
<1>4. S # {} /\ Nearest(Append(t, x), Len(t) + 1, {kind}) \in S
  BY <1>3, NearestIs
<1> QED BY <1>2, <1>4

LEMMA CaseStep ==
  ASSUME NEW t \in Tree, NEW x \in Statement, NEW d, NEW d2, SwitchOK(t, d),
         x.node = "case", x.num \in Nat,
         NEW i0 \in 1 .. Len(t), i0 = Nearest(Append(t, x), Len(t) + 1, {"switch"}),
         t[i0].node = "switch",
         \A i \in 1 .. Len(t) : i # i0 => d2[i].cases = d[i].cases,
         \A i \in 1 .. Len(t) : d2[i].default = d[i].default,
         \A v \in Nat : HasValue(d2[i0].cases, v) <=>
           v = CaseValue(t[i0].name, x.num) \/ HasValue(d[i0].cases, v)
  PROVE  SwitchOK(Append(t, x), d2)
<1> DEFINE u == Append(t, x)
           l == Len(t) + 1
<1>1. /\ Len(t) \in Nat /\ Len(u) = l /\ u[l] = x
      /\ \A i \in 1 .. Len(t) : u[i] = t[i]
  BY TreeGrows
<1>2. /\ \A i, node : \A q \in 1 .. Len(t) : Within(u, q, i, node) <=> Within(t, q, i, node)
  BY WithinKept
<1>3. \A i : /\ Within(u, l, i, "case") <=> i = i0
             /\ ~ Within(u, l, i, "default")
  BY <1>1 DEF Within
<1> HIDE DEF u
<1> SUFFICES ASSUME NEW i \in 1 .. Len(u), u[i].node = "switch"
             PROVE  /\ u[i].name \in AllControls
                    /\ \A v \in Nat : HasValue(d2[i].cases, v) <=>
                         \E q \in 1 .. Len(u) :
                           Within(u, q, i, "case") /\ v = CaseValue(u[i].name, u[q].num)
                    /\ d2[i].default # UnsetDefault
                         <=> \E q \in 1 .. Len(u) : Within(u, q, i, "default")
  BY DEF SwitchOK, u
<1>4. 1 .. Len(t) \subseteq 1 .. Len(u) /\ l \in 1 .. Len(u)
      /\ \A q \in 1 .. Len(u) : q \in 1 .. Len(t) \/ q = l
  <2>1. Len(t) \in Nat /\ Len(u) = Len(t) + 1
    BY <1>1
  <2> QED BY <2>1
<1>5. i \in 1 .. Len(t) /\ u[i] = t[i] /\ t[i].node = "switch"
  BY <1>1, <1>4
<1>6. /\ t[i].name \in AllControls
      /\ \A v \in Nat : HasValue(d[i].cases, v) <=>
           \E q \in 1 .. Len(t) :
             Within(t, q, i, "case") /\ v = CaseValue(t[i].name, t[q].num)
      /\ d[i].default # UnsetDefault
           <=> \E q \in 1 .. Len(t) : Within(t, q, i, "default")
  BY <1>5 DEF SwitchOK
<1>7. (\E q \in 1 .. Len(u) : Within(u, q, i, "default"))
        <=> \E q \in 1 .. Len(t) : Within(t, q, i, "default")
  BY <1>2, <1>3, <1>4
<1>8. ASSUME NEW v \in Nat
      PROVE  (\E q \in 1 .. Len(u) :
                Within(u, q, i, "case") /\ v = CaseValue(u[i].name, u[q].num))
             <=> \/ i = i0 /\ v = CaseValue(t[i].name, x.num)
                 \/ \E q \in 1 .. Len(t) :
                      Within(t, q, i, "case") /\ v = CaseValue(t[i].name, t[q].num)
  BY <1>1, <1>2, <1>3, <1>4, <1>5
<1>9. ASSUME NEW v \in Nat
      PROVE  HasValue(d2[i].cases, v) <=>
               \/ i = i0 /\ v = CaseValue(t[i].name, x.num)
               \/ HasValue(d[i].cases, v)
  <2>1. CASE i = i0
    BY <2>1
  <2>2. CASE i # i0
    BY <1>5, <2>2
  <2> QED BY <2>1, <2>2
<1> QED BY <1>5, <1>6, <1>7, <1>8, <1>9

LEMMA DefaultStep ==
  ASSUME NEW t \in Tree, NEW x \in Statement, NEW d, NEW d2, SwitchOK(t, d),
         x.node = "default",
         NEW i0 \in 1 .. Len(t), i0 = Nearest(Append(t, x), Len(t) + 1, {"switch"}),
         \A i \in 1 .. Len(t) : d2[i].cases = d[i].cases,
         \A i \in 1 .. Len(t) : i # i0 => d2[i].default = d[i].default,
         d2[i0].default # UnsetDefault
  PROVE  SwitchOK(Append(t, x), d2)
<1> DEFINE u == Append(t, x)
           l == Len(t) + 1
<1>1. /\ Len(t) \in Nat /\ Len(u) = l /\ u[l] = x
      /\ \A i \in 1 .. Len(t) : u[i] = t[i]
  BY TreeGrows
<1>2. /\ \A i, node : \A q \in 1 .. Len(t) : Within(u, q, i, node) <=> Within(t, q, i, node)
  BY WithinKept
<1>3. \A i : /\ Within(u, l, i, "default") <=> i = i0
             /\ ~ Within(u, l, i, "case")
  BY <1>1 DEF Within
<1> HIDE DEF u
<1> SUFFICES ASSUME NEW i \in 1 .. Len(u), u[i].node = "switch"
             PROVE  /\ u[i].name \in AllControls
                    /\ \A v \in Nat : HasValue(d2[i].cases, v) <=>
                         \E q \in 1 .. Len(u) :
                           Within(u, q, i, "case") /\ v = CaseValue(u[i].name, u[q].num)
                    /\ d2[i].default # UnsetDefault
                         <=> \E q \in 1 .. Len(u) : Within(u, q, i, "default")
  BY DEF SwitchOK, u
<1>4. 1 .. Len(t) \subseteq 1 .. Len(u) /\ l \in 1 .. Len(u)
      /\ \A q \in 1 .. Len(u) : q \in 1 .. Len(t) \/ q = l
  <2>1. Len(t) \in Nat /\ Len(u) = Len(t) + 1
    BY <1>1
  <2> QED BY <2>1
<1>5. i \in 1 .. Len(t) /\ u[i] = t[i] /\ t[i].node = "switch"
  BY <1>1, <1>4
<1>6. /\ t[i].name \in AllControls
      /\ \A v \in Nat : HasValue(d[i].cases, v) <=>
           \E q \in 1 .. Len(t) :
             Within(t, q, i, "case") /\ v = CaseValue(t[i].name, t[q].num)
      /\ d[i].default # UnsetDefault
           <=> \E q \in 1 .. Len(t) : Within(t, q, i, "default")
  BY <1>5 DEF SwitchOK
<1>7. (\E q \in 1 .. Len(u) : Within(u, q, i, "default"))
        <=> i = i0 \/ \E q \in 1 .. Len(t) : Within(t, q, i, "default")
  BY <1>2, <1>3, <1>4
<1>8. ASSUME NEW v \in Nat
      PROVE  (\E q \in 1 .. Len(u) :
                Within(u, q, i, "case") /\ v = CaseValue(u[i].name, u[q].num))
             <=> \E q \in 1 .. Len(t) :
                      Within(t, q, i, "case") /\ v = CaseValue(t[i].name, t[q].num)
  BY <1>1, <1>2, <1>3, <1>4, <1>5
<1>9. d2[i].cases = d[i].cases
  BY <1>5
<1>10. d2[i].default # UnsetDefault <=> i = i0 \/ d[i].default # UnsetDefault
  BY <1>5
<1> QED BY <1>5, <1>6, <1>7, <1>8, <1>9, <1>10

(***************************************************************************)
(* What C allows, and the verdict of the walk.                             *)
(***************************************************************************)
LEMMA AllowedKept ==
  ASSUME NEW t \in Tree, NEW x \in Statement, NEW p \in 1 .. Len(t)
  PROVE  AllowedIn(Append(t, x), p) <=> AllowedIn(t, p)
<1> DEFINE u == Append(t, x)
<1>1. /\ Len(t) \in Nat /\ \A i \in 1 .. Len(t) : u[i] = t[i]
  BY TreeGrows
<1>2. \A kinds : /\ Inside(u, p, kinds) = Inside(t, p, kinds)
                 /\ Nearest(u, p, kinds) = Nearest(t, p, kinds)
  BY InsideKept
<1>3. \A i, node : \A q \in 1 .. p - 1 : Within(u, q, i, node) <=> Within(t, q, i, node)
  BY <1>1, WithinKept
<1> SUFFICES AllowedIn(u, p) <=> AllowedIn(t, p)
  OBVIOUS
<1> HIDE DEF u
<1>4. \A q \in 1 .. p - 1 : u[q] = t[q]
  BY <1>1
<1>5. u[p] = t[p]
  BY <1>1
<1>6. t[p].node = "case" /\ Inside(t, p, {"switch"}) # {} =>
        u[Nearest(t, p, {"switch"})] = t[Nearest(t, p, {"switch"})]
  <2> SUFFICES ASSUME Inside(t, p, {"switch"}) # {}
               PROVE  u[Nearest(t, p, {"switch"})] = t[Nearest(t, p, {"switch"})]
    OBVIOUS
  <2>1. Nearest(t, p, {"switch"}) \in Inside(t, p, {"switch"})
    BY <1>1, NearestIs
  <2>2. Nearest(t, p, {"switch"}) \in 1 .. p - 1
    BY <2>1 DEF Inside
  <2> QED BY <1>4, <2>2
<1>7. CASE t[p].node = "case"
  <2>1. AllowedIn(u, p) <=>
         /\ Inside(u, p, {"switch"}) # {}
         /\ \A q \in 1 .. p - 1 :
              Within(u, q, Nearest(u, p, {"switch"}), "case")
              => ~ SameCase(u[Nearest(u, p, {"switch"})].name, u[q].num, u[p].num)
    BY <1>5, <1>7 DEF AllowedIn
  <2>2. AllowedIn(t, p) <=>
         /\ Inside(t, p, {"switch"}) # {}
         /\ \A q \in 1 .. p - 1 :
              Within(t, q, Nearest(t, p, {"switch"}), "case")
              => ~ SameCase(t[Nearest(t, p, {"switch"})].name, t[q].num, t[p].num)
    BY <1>7 DEF AllowedIn
  <2> DEFINE i0 == Nearest(t, p, {"switch"})
  <2>3. CASE Inside(t, p, {"switch"}) # {}
    <3>1. u[i0] = t[i0]
      BY <1>6, <1>7, <2>3
    <3>2. \A q \in 1 .. p - 1 :
            (Within(u, q, i0, "case") => ~ SameCase(u[i0].name, u[q].num, u[p].num))
            <=> (Within(t, q, i0, "case") => ~ SameCase(t[i0].name, t[q].num, t[p].num))
      BY <1>3, <1>4, <1>5, <3>1
    <3>3. Inside(u, p, {"switch"}) = Inside(t, p, {"switch"}) /\ Nearest(u, p, {"switch"}) = i0
      BY <1>2
    <3> QED BY <2>1, <2>2, <3>2, <3>3
  <2>4. CASE Inside(t, p, {"switch"}) = {}
    BY <1>2, <2>1, <2>2, <2>4
  <2> QED BY <2>3, <2>4
<1>8. CASE t[p].node = "break"
  BY <1>2, <1>5, <1>8 DEF AllowedIn
<1>9. CASE t[p].node = "continue"
  BY <1>2, <1>5, <1>9 DEF AllowedIn
<1>10. CASE t[p].node = "default"
  <2>1. AllowedIn(u, p) <=>
          /\ Inside(u, p, {"switch"}) # {}
          /\ \A q \in 1 .. p - 1 : ~ Within(u, q, Nearest(u, p, {"switch"}), "default")
    BY <1>5, <1>10 DEF AllowedIn
  <2>2. AllowedIn(t, p) <=>
          /\ Inside(t, p, {"switch"}) # {}
          /\ \A q \in 1 .. p - 1 : ~ Within(t, q, Nearest(t, p, {"switch"}), "default")
    BY <1>10 DEF AllowedIn
  <2> QED BY <1>2, <1>3, <2>1, <2>2
<1>11. CASE t[p].node \notin {"case", "break", "continue", "default"}
  BY <1>5, <1>11 DEF AllowedIn
<1> QED BY <1>7, <1>8, <1>9, <1>10, <1>11

LEMMA DiagnosedStep ==
  ASSUME NEW t \in Tree, NEW x \in Statement, NEW s, Diagnosed(t, "ok"),
         AllowedIn(Append(t, x), Len(t) + 1) <=> s \notin Misplaced
  PROVE  Diagnosed(Append(t, x), s)
<1> DEFINE u == Append(t, x)
<1>1. /\ Len(t) \in Nat /\ Len(u) = Len(t) + 1
  BY TreeGrows
<1>2. \A p \in 1 .. Len(t) : AllowedIn(u, p) <=> AllowedIn(t, p)
  BY AllowedKept
<1> HIDE DEF u
<1>3. \A p \in 1 .. Len(t) : AllowedIn(t, p)
  BY DEF Diagnosed, Misplaced
<1> QED BY <1>1, <1>2, <1>3 DEF Diagnosed, u

\* A case is allowed if its converted constant is not in the list.
LEMMA CaseAllowed ==
  ASSUME NEW t \in Tree, NEW x \in Statement, NEW o, NEW d, OpenOK(t, o), SwitchOK(t, d),
         CasesTyped(t), x.node = "case", x.num \in Value,
         NEW i0, i0 = Nearest(Append(t, x), Len(t) + 1, {"switch"})
  PROVE  AllowedIn(Append(t, x), Len(t) + 1) <=>
           i0 # 0 /\ ~ HasValue(d[i0].cases, CaseValue(t[i0].name, x.num))
<1> DEFINE u == Append(t, x)
           l == Len(t) + 1
<1>1. /\ Len(t) \in Nat /\ Len(u) = l /\ u[l] = x
      /\ \A i \in 1 .. Len(t) : u[i] = t[i]
  BY TreeGrows
<1>2. \A i, node : \A q \in 1 .. Len(t) : Within(u, q, i, node) <=> Within(t, q, i, node)
  BY WithinKept
<1>3. i0 # 0 => /\ i0 \in 1 .. Len(t) /\ t[i0].node = "switch"
                /\ Inside(u, l, {"switch"}) # {}
  BY SwitchAround DEF Breakable
<1>4. Inside(u, l, {"switch"}) # {} => i0 # 0
  <2>1. l \in Nat
    BY <1>1
  <2> SUFFICES ASSUME Inside(u, l, {"switch"}) # {} PROVE i0 # 0
    OBVIOUS
  <2>2. i0 \in Inside(u, l, {"switch"})
    BY <2>1, NearestIs
  <2> QED BY <2>2 DEF Inside
<1> HIDE DEF u
<1>5. AllowedIn(u, l) <=>
        /\ Inside(u, l, {"switch"}) # {}
        /\ \A q \in 1 .. l - 1 :
             Within(u, q, i0, "case") => ~ SameCase(u[i0].name, u[q].num, x.num)
  BY <1>1 DEF AllowedIn, u
<1>6. CASE i0 = 0
  BY <1>4, <1>5, <1>6 DEF u
<1>7. CASE i0 # 0
  <2>1. i0 \in 1 .. Len(t) /\ t[i0].node = "switch" /\ u[i0] = t[i0]
    BY <1>1, <1>3, <1>7
  <2>2. /\ t[i0].name \in AllControls
        /\ \A v \in Nat : HasValue(d[i0].cases, v) <=>
             \E q \in 1 .. Len(t) :
               Within(t, q, i0, "case") /\ v = CaseValue(t[i0].name, t[q].num)
    BY <2>1 DEF SwitchOK
  <2>3. Value \subseteq Nat
    BY ValueAssumption
  <2>4. x.num \in Nat /\ CaseValue(t[i0].name, x.num) \in Nat
    BY <2>2, <2>3, SameCaseIs
  <2>5. \A q \in 1 .. Len(t) : Within(t, q, i0, "case") =>
          (SameCase(t[i0].name, t[q].num, x.num)
             <=> CaseValue(t[i0].name, x.num) = CaseValue(t[i0].name, t[q].num))
    <3> SUFFICES ASSUME NEW q \in 1 .. Len(t), Within(t, q, i0, "case")
                 PROVE  SameCase(t[i0].name, t[q].num, x.num)
                          <=> CaseValue(t[i0].name, x.num) = CaseValue(t[i0].name, t[q].num)
      OBVIOUS
    <3>1. t[q].num \in Nat
      BY <2>3 DEF CasesTyped, Within
    <3> QED BY <2>2, <2>4, <3>1, SameCaseIs
  <2>6. HasValue(d[i0].cases, CaseValue(t[i0].name, x.num)) <=>
          \E q \in 1 .. Len(t) :
            Within(t, q, i0, "case") /\ SameCase(t[i0].name, t[q].num, x.num)
    BY <2>2, <2>4, <2>5
  <2>7. \A q \in 1 .. l - 1 : q \in 1 .. Len(t) /\ u[q] = t[q]
    BY <1>1
  <2>8. \A q \in 1 .. Len(t) : q \in 1 .. l - 1
    BY <1>1
  <2> QED BY <1>2, <1>3, <1>5, <1>7, <2>1, <2>6, <2>7, <2>8 DEF u
<1> QED BY <1>6, <1>7

LEMMA DefaultAllowed ==
  ASSUME NEW t \in Tree, NEW x \in Statement, NEW o, NEW d, OpenOK(t, o), SwitchOK(t, d),
         x.node = "default",
         NEW i0, i0 = Nearest(Append(t, x), Len(t) + 1, {"switch"})
  PROVE  AllowedIn(Append(t, x), Len(t) + 1) <=> i0 # 0 /\ d[i0].default = UnsetDefault
<1> DEFINE u == Append(t, x)
           l == Len(t) + 1
<1>1. /\ Len(t) \in Nat /\ Len(u) = l /\ u[l] = x
      /\ \A i \in 1 .. Len(t) : u[i] = t[i]
  BY TreeGrows
<1>2. \A i, node : \A q \in 1 .. Len(t) : Within(u, q, i, node) <=> Within(t, q, i, node)
  BY WithinKept
<1>3. i0 # 0 => /\ i0 \in 1 .. Len(t) /\ t[i0].node = "switch"
                /\ Inside(u, l, {"switch"}) # {}
  BY SwitchAround DEF Breakable
<1>4. Inside(u, l, {"switch"}) # {} => i0 # 0
  <2>1. l \in Nat
    BY <1>1
  <2> SUFFICES ASSUME Inside(u, l, {"switch"}) # {} PROVE i0 # 0
    OBVIOUS
  <2>2. i0 \in Inside(u, l, {"switch"})
    BY <2>1, NearestIs
  <2> QED BY <2>2 DEF Inside
<1> HIDE DEF u
<1>5. AllowedIn(u, l) <=>
        /\ Inside(u, l, {"switch"}) # {}
        /\ \A q \in 1 .. l - 1 : ~ Within(u, q, i0, "default")
  BY <1>1 DEF AllowedIn, u
<1>6. i0 # 0 => (d[i0].default # UnsetDefault
                   <=> \E q \in 1 .. Len(t) : Within(t, q, i0, "default"))
  BY <1>3 DEF SwitchOK
<1>7. \A q : q \in 1 .. l - 1 <=> q \in 1 .. Len(t)
  BY <1>1
<1> QED BY <1>2, <1>3, <1>4, <1>5, <1>6, <1>7 DEF u


(***************************************************************************)
(* The second walk: the gotos and labels of the function it is in.         *)
(***************************************************************************)
\* A goto or label is in a function, before the end of it.
LEMMA FunctionOf ==
  ASSUME NEW t \in Tree, TreeOK(t), NEW p \in 1 .. Len(t), t[p].node \in Mention
  PROVE  /\ Function(t, p) \in 1 .. p - 1 /\ Function(t, p) \in 1 .. Len(t)
         /\ t[Function(t, p)].node = "function"
         /\ \A k \in EndsOf(t, Function(t, p)) : p < k
<1>1. Len(t) \in Nat
  BY DEF Tree
<1>2. Inside(t, p, {"function"}) # {}
  BY DEF TreeOK, MentionsInside
<1>3. p \in Nat
  BY <1>1
<1>4. Function(t, p) \in Inside(t, p, {"function"})
  BY <1>2, <1>3, NearestIs DEF Function
<1> QED BY <1>1, <1>4 DEF Inside

LEMMA CurrentIs ==
  ASSUME NEW t \in Tree, TreeOK(t), NEW n \in 0 .. Len(t), NEW q \in Current(t, n)
  PROVE  /\ q \in 1 .. n /\ q \in 1 .. Len(t) /\ t[q].node \in Mention
         /\ Function(t, q) \in 1 .. q - 1 /\ Function(t, q) \in 1 .. Len(t)
         /\ t[Function(t, q)].node = "function"
         /\ \A k \in EndsOf(t, Function(t, q)) : n < k
<1>1. Len(t) \in Nat
  BY DEF Tree
<1>2. q \in 1 .. n /\ q \in 1 .. Len(t) /\ t[q].node \in Mention
  BY <1>1 DEF Current
<1>3. \A k \in EndsOf(t, Function(t, q)) : n < k
  BY DEF Current
<1> QED BY <1>2, <1>3, FunctionOf

\* Functions do not overlap: they are all in one function.
LEMMA CurrentIsOne ==
  ASSUME NEW t \in Tree, TreeOK(t), NEW n \in 0 .. Len(t),
         NEW q \in Current(t, n), NEW r \in Current(t, n)
  PROVE  Function(t, q) = Function(t, r)
<1>1. \A a, b \in Current(t, n) : ~ (Function(t, a) < Function(t, b))
  <2> SUFFICES ASSUME NEW a \in Current(t, n), NEW b \in Current(t, n),
                      Function(t, a) < Function(t, b)
               PROVE  FALSE
    OBVIOUS
  <2>1. /\ Function(t, a) \in 1 .. Len(t) /\ t[Function(t, a)].node = "function"
        /\ \A k \in EndsOf(t, Function(t, a)) : n < k
    BY CurrentIs
  <2>2. /\ Function(t, b) \in 1 .. Len(t) /\ t[Function(t, b)].node = "function"
        /\ b \in 1 .. n /\ Function(t, b) \in 1 .. b - 1
    BY CurrentIs
  <2>3. PICK k \in EndsOf(t, Function(t, a)) : k < Function(t, b)
    BY <2>1, <2>2 DEF TreeOK, FunctionsApart
  <2>4. k \in Nat /\ n \in Nat
    BY DEF EndsOf
  <2> QED BY <2>1, <2>2, <2>3, <2>4
<1>2. Function(t, q) \in Nat /\ Function(t, r) \in Nat
  BY CurrentIs
<1> QED BY <1>1, <1>2

\* The labels a goto or label may be wired to are among them.
LEMMA CurrentIsAll ==
  ASSUME NEW t \in Tree, TreeOK(t), NEW n \in 0 .. Len(t), NEW q \in Current(t, n),
         NEW r \in 1 .. n, t[r].node \in Mention, Function(t, q) = Function(t, r)
  PROVE  r \in Current(t, n)
BY DEF Current

\* A node that is no end, or not the end of a function.
LEMMA CurrentGrows ==
  ASSUME NEW t \in Tree, TreeOK(t), NEW n \in 0 .. Len(t), n < Len(t),
         t[n + 1].node = "end" => t[t[n + 1].num].node # "function"
  PROVE  \A q : q \in Current(t, n + 1) <=>
                  q \in Current(t, n) \/ (q = n + 1 /\ t[q].node \in Mention)
<1> TAKE q
<1>1. Len(t) \in Nat /\ n \in Nat
  BY DEF Tree
<1>2. n + 1 \in 0 .. Len(t) /\ n + 1 \in 1 .. Len(t)
  BY <1>1
<1>3. ASSUME q \in Current(t, n) PROVE q \in Current(t, n + 1)
  <2>1. /\ q \in 1 .. n /\ t[q].node \in Mention
        /\ t[Function(t, q)].node = "function"
        /\ \A k \in EndsOf(t, Function(t, q)) : n < k
    BY <1>3, CurrentIs
  <2>2. n + 1 \notin EndsOf(t, Function(t, q))
    BY <2>1 DEF EndsOf
  <2>3. \A k \in EndsOf(t, Function(t, q)) : k \in Nat
    BY <1>1 DEF EndsOf
  <2>4. \A k \in EndsOf(t, Function(t, q)) : n + 1 < k
    BY <1>1, <2>1, <2>2, <2>3
  <2> QED BY <1>1, <2>1, <2>4 DEF Current
<1>4. ASSUME q = n + 1, t[q].node \in Mention PROVE q \in Current(t, n + 1)
  BY <1>1, <1>2, <1>4, FunctionOf DEF Current
<1>5. ASSUME q \in Current(t, n + 1), q # n + 1 PROVE q \in Current(t, n)
  <2>1. /\ q \in 1 .. n + 1 /\ t[q].node \in Mention
        /\ \A k \in EndsOf(t, Function(t, q)) : n + 1 < k
    BY <1>5 DEF Current
  <2>2. \A k \in EndsOf(t, Function(t, q)) : k \in Nat
    BY <1>1 DEF EndsOf
  <2> QED BY <1>1, <1>5, <2>1, <2>2 DEF Current
<1>6. q \in Current(t, n + 1) => t[q].node \in Mention
  BY DEF Current
<1> QED BY <1>3, <1>4, <1>5, <1>6

\* The end of a function is the end of the one they are in.
LEMMA CurrentEnds ==
  ASSUME NEW t \in Tree, TreeOK(t), NEW n \in 0 .. Len(t), n < Len(t),
         t[n + 1].node = "end", t[t[n + 1].num].node = "function"
  PROVE  /\ Current(t, n + 1) = {}
         /\ \A q \in Current(t, n) : Function(t, q) = t[n + 1].num
         /\ n + 1 \in EndsOf(t, t[n + 1].num)
<1> DEFINE f == t[n + 1].num
<1>1. Len(t) \in Nat /\ n \in Nat
  BY DEF Tree
<1>2. n + 1 \in 1 .. Len(t) /\ n + 1 \in 0 .. Len(t)
  BY <1>1
<1>3. f \in 1 .. n /\ f \in 1 .. Len(t) /\ \A j \in EndsOf(t, f) : j = n + 1
  <2>1. f \in 1 .. (n + 1) - 1 /\ \A j \in EndsOf(t, f) : j = n + 1
    BY <1>2 DEF TreeOK, EndsOK
  <2> QED BY <1>1, <2>1
<1>4. n + 1 \in EndsOf(t, f)
  BY <1>2 DEF EndsOf
<1>5. ASSUME NEW q \in 1 .. n + 1, q \in 1 .. Len(t), t[q].node \in Mention,
             \A k \in EndsOf(t, Function(t, q)) : n < k
      PROVE  Function(t, q) = f
  <2> DEFINE g == Function(t, q)
  <2>1. g \in 1 .. q - 1 /\ g \in 1 .. Len(t) /\ t[g].node = "function"
    BY <1>5, FunctionOf
  <2>2. q # n + 1
    BY <1>5 DEF Mention
  <2>3. ASSUME g < f PROVE FALSE
    <3>1. PICK k \in EndsOf(t, g) : k < f
      BY <1>3, <2>1, <2>3 DEF TreeOK, FunctionsApart
    <3>2. n < k /\ k \in Nat
      BY <1>5, <3>1 DEF EndsOf
    <3> QED BY <1>1, <1>3, <3>1, <3>2
  <2>4. ASSUME f < g PROVE FALSE
    <3>1. PICK k \in EndsOf(t, f) : k < g
      BY <1>3, <2>1, <2>4 DEF TreeOK, FunctionsApart
    <3>2. k = n + 1
      BY <1>3
    <3> QED BY <1>1, <2>1, <3>1, <3>2
  <2>5. g \in Nat /\ f \in Nat
    BY <1>1, <1>3, <2>1
  <2> QED BY <2>3, <2>4, <2>5
<1>6. ASSUME NEW q \in Current(t, n + 1) PROVE FALSE
  <2>1. /\ q \in 1 .. n + 1 /\ q \in 1 .. Len(t) /\ t[q].node \in Mention
        /\ \A k \in EndsOf(t, Function(t, q)) : n + 1 < k
    BY <1>2, CurrentIs
  <2>2. \A k \in EndsOf(t, Function(t, q)) : n < k
    BY <1>1, <2>1 DEF EndsOf
  <2>3. Function(t, q) = f
    BY <1>5, <2>1, <2>2
  <2> QED BY <1>1, <1>4, <2>1, <2>3
<1>7. ASSUME NEW q \in Current(t, n) PROVE Function(t, q) = f
  <2>1. /\ q \in 1 .. n /\ q \in 1 .. Len(t) /\ t[q].node \in Mention
        /\ \A k \in EndsOf(t, Function(t, q)) : n < k
    BY CurrentIs
  <2> QED BY <1>1, <1>5, <2>1
<1> QED BY <1>4, <1>6, <1>7

\* After the last node they are none.
LEMMA CurrentLast ==
  ASSUME NEW t \in Tree, TreeOK(t), AllEnded(t)
  PROVE  Current(t, Len(t)) = {}
<1>1. Len(t) \in Nat
  BY DEF Tree
<1>2. Len(t) \in 0 .. Len(t)
  BY <1>1
<1> SUFFICES ASSUME NEW q \in Current(t, Len(t)) PROVE FALSE
  OBVIOUS
<1>3. /\ Function(t, q) \in 1 .. Len(t) /\ t[Function(t, q)].node = "function"
      /\ \A k \in EndsOf(t, Function(t, q)) : Len(t) < k
  BY <1>2, CurrentIs
<1>4. PICK k \in EndsOf(t, Function(t, q)) : TRUE
  BY <1>3 DEF AllEnded
<1> QED BY <1>1, <1>3, <1>4 DEF EndsOf


(***************************************************************************)
(* The list of names.                                                      *)
(***************************************************************************)
Flags == {"used_as_label", "used_as_target"}
Entry == [name: Name, id: Nat, used_as_label: BOOLEAN, used_as_target: BOOLEAN]

\* WithLabel of any list and generator.
Fresh(nm, g) ==
  [name |-> nm, id |-> g + 1, used_as_label |-> FALSE, used_as_target |-> FALSE]
WithFresh(l, nm, g) ==
  IF {k \in 1 .. Len(l) : l[k].name = nm} = {} THEN Append(l, Fresh(nm, g)) ELSE l
Marked(l, nm, flag, g) ==
  LET all == WithFresh(l, nm, g)
  IN  [k \in 1 .. Len(all) |->
        IF all[k].name = nm THEN [all[k] EXCEPT ![flag] = TRUE] ELSE all[k]]

NamesDiffer(l) == \A j, k \in 1 .. Len(l) : l[j].name = l[k].name => j = k

\* One entry of the list has the name, new or old.
LEMMA WithFreshIs ==
  ASSUME NEW l \in Seq(Entry), NEW nm \in Name, NEW g \in Nat, NamesDiffer(l)
  PROVE  LET all == WithFresh(l, nm, g) IN
         /\ all \in Seq(Entry) /\ NamesDiffer(all)
         /\ Len(l) \in Nat /\ Len(all) \in Nat /\ Len(l) =< Len(all)
         /\ \A k \in 1 .. Len(l) : all[k] = l[k]
         /\ \E k \in 1 .. Len(all) : all[k].name = nm
         /\ \A k \in 1 .. Len(all) : k > Len(l) => all[k] = Fresh(nm, g)
<1> DEFINE all == WithFresh(l, nm, g)
<1>1. Len(l) \in Nat /\ \A k \in 1 .. Len(l) : l[k] \in Entry
  BY ElementOfSeq
<1>2. Fresh(nm, g) \in Entry /\ Fresh(nm, g).name = nm
  BY DEF Fresh, Entry
<1>3. CASE \E k \in 1 .. Len(l) : l[k].name = nm
  <2>1. all = l
    BY <1>3 DEF WithFresh
  <2> HIDE DEF all
  <2> QED BY <1>1, <1>3, <2>1 DEF all
<1>4. CASE ~ \E k \in 1 .. Len(l) : l[k].name = nm
  <2>1. all = Append(l, Fresh(nm, g))
    BY <1>4 DEF WithFresh
  <2>2. /\ all \in Seq(Entry) /\ Len(all) = Len(l) + 1
        /\ \A k \in 1 .. Len(l) : all[k] = l[k]
        /\ all[Len(l) + 1] = Fresh(nm, g)
    <3> HIDE DEF all
    <3> QED BY <1>2, <2>1, AppendProperties
  <2> HIDE DEF all
  <2>3. \A k \in 1 .. Len(all) : k \in 1 .. Len(l) \/ k = Len(l) + 1
    BY <1>1, <2>2
  <2>4. \A k \in 1 .. Len(l) : all[k].name # nm
    BY <1>4, <2>2
  <2>5. NamesDiffer(all)
    <3> SUFFICES ASSUME NEW j \in 1 .. Len(all), NEW k \in 1 .. Len(all),
                        all[j].name = all[k].name
                 PROVE  j = k
      BY DEF NamesDiffer
    <3>1. CASE j \in 1 .. Len(l) /\ k \in 1 .. Len(l)
      BY <2>2, <3>1 DEF NamesDiffer
    <3>2. CASE j = Len(l) + 1 \/ k = Len(l) + 1
      BY <1>2, <2>2, <2>3, <2>4, <3>2
    <3> QED BY <2>3, <3>1, <3>2
  <2>6. Len(l) + 1 \in 1 .. Len(all)
    BY <1>1, <2>2
  <2>7. \E k \in 1 .. Len(all) : all[k].name = nm
    BY <1>2, <2>2, <2>6
  <2>8. \A k \in 1 .. Len(all) : k > Len(l) => all[k] = Fresh(nm, g)
    BY <1>1, <2>2, <2>3
  <2> QED BY <1>1, <2>2, <2>5, <2>7, <2>8 DEF all
<1> QED BY <1>3, <1>4

\* That entry alone changes, in the one flag.
LEMMA MarkedIs ==
  ASSUME NEW l \in Seq(Entry), NEW nm \in Name, NEW flag \in Flags, NEW g \in Nat,
         NamesDiffer(l)
  PROVE  LET m   == Marked(l, nm, flag, g)
             all == WithFresh(l, nm, g)
         IN
         /\ m \in Seq(Entry) /\ Len(m) = Len(all) /\ NamesDiffer(m)
         /\ \A k \in 1 .. Len(m) :
              /\ m[k].name = all[k].name /\ m[k].id = all[k].id
              /\ m[k].used_as_label
                   <=> all[k].used_as_label \/ (all[k].name = nm /\ flag = "used_as_label")
              /\ m[k].used_as_target
                   <=> all[k].used_as_target \/ (all[k].name = nm /\ flag = "used_as_target")
<1> DEFINE m   == Marked(l, nm, flag, g)
           all == WithFresh(l, nm, g)
<1>1. all \in Seq(Entry) /\ NamesDiffer(all) /\ Len(all) \in Nat
  BY WithFreshIs
<1>2. m = [k \in 1 .. Len(all) |->
            IF all[k].name = nm THEN [all[k] EXCEPT ![flag] = TRUE] ELSE all[k]]
  BY DEF Marked
<1>3. SUFFICES ASSUME TRUE
      PROVE  /\ m \in Seq(Entry) /\ Len(m) = Len(all) /\ NamesDiffer(m)
             /\ \A k \in 1 .. Len(m) :
                  /\ m[k].name = all[k].name /\ m[k].id = all[k].id
                  /\ m[k].used_as_label
                       <=> all[k].used_as_label \/ (all[k].name = nm /\ flag = "used_as_label")
                  /\ m[k].used_as_target
                       <=> all[k].used_as_target \/ (all[k].name = nm /\ flag = "used_as_target")
  BY Zenon
<1> HIDE DEF m, all
<1>4. ASSUME NEW k \in 1 .. Len(all)
      PROVE  /\ m[k] \in Entry
             /\ m[k].name = all[k].name /\ m[k].id = all[k].id
             /\ m[k].used_as_label
                  <=> all[k].used_as_label \/ (all[k].name = nm /\ flag = "used_as_label")
             /\ m[k].used_as_target
                  <=> all[k].used_as_target \/ (all[k].name = nm /\ flag = "used_as_target")
  <2>1. all[k] \in Entry
    BY <1>1, ElementOfSeq
  <2>2. m[k] = IF all[k].name = nm THEN [all[k] EXCEPT ![flag] = TRUE] ELSE all[k]
    BY <1>2
  <2>3. CASE all[k].name # nm
    BY <2>1, <2>2, <2>3
  <2>4. CASE all[k].name = nm /\ flag = "used_as_label"
    BY <2>1, <2>2, <2>4 DEF Entry
  <2>5. CASE all[k].name = nm /\ flag = "used_as_target"
    BY <2>1, <2>2, <2>5 DEF Entry
  <2> QED BY <2>3, <2>4, <2>5 DEF Flags
<1>5. m \in [1 .. Len(all) -> Entry]
  BY <1>2, <1>4
<1>6. m \in Seq(Entry)
  BY <1>1, <1>5, SeqDef
<1>7. Len(m) = Len(all)
  BY <1>1, <1>5, <1>6, LenProperties
<1>8. NamesDiffer(m)
  <2> SUFFICES ASSUME NEW j \in 1 .. Len(m), NEW k \in 1 .. Len(m),
                      m[j].name = m[k].name
               PROVE  j = k
    BY DEF NamesDiffer
  <2> QED BY <1>1, <1>4, <1>7 DEF NamesDiffer
<1> QED BY <1>4, <1>6, <1>7, <1>8


(***************************************************************************)
(* The list and the nodes, when the second walk goes on.                   *)
(***************************************************************************)
LEMMA RecordStep ==
  ASSUME NEW t \in Tree, TreeOK(t), NEW n \in 0 .. Len(t), n < Len(t),
         NEW l \in Seq(Entry), NEW d, NEW d2, NEW g \in Nat, LabelsOK(t, d, n, l),
         NEW nm \in Name, NEW node \in Mention, NEW flag \in Flags,
         t[n + 1].node = node, t[n + 1].name = nm,
         node = "label" <=> flag = "used_as_label",
         node = "label" =>
           ~ \E k \in 1 .. Len(l) : l[k].name = nm /\ l[k].used_as_label,
         NEW m, m = Marked(l, nm, flag, g),
         \A q \in 1 .. n : d2[q].unique = d[q].unique,
         \E k \in 1 .. Len(m) : m[k].name = nm /\ d2[n + 1].unique = m[k].id
  PROVE  LabelsOK(t, d2, n + 1, m)
<1> DEFINE all == WithFresh(l, nm, g)
<1>1. Len(t) \in Nat /\ n \in Nat
  BY DEF Tree
<1>2. NamesDiffer(l)
  BY DEF LabelsOK, NamesDiffer
<1>3. /\ all \in Seq(Entry) /\ NamesDiffer(all)
      /\ Len(l) \in Nat /\ Len(all) \in Nat /\ Len(l) =< Len(all)
      /\ \A k \in 1 .. Len(l) : all[k] = l[k]
      /\ \E k \in 1 .. Len(all) : all[k].name = nm
      /\ \A k \in 1 .. Len(all) : k > Len(l) => all[k] = Fresh(nm, g)
  BY <1>2, WithFreshIs
<1>4. /\ m \in Seq(Entry) /\ Len(m) = Len(all) /\ NamesDiffer(m)
      /\ \A k \in 1 .. Len(m) :
           /\ m[k].name = all[k].name /\ m[k].id = all[k].id
           /\ m[k].used_as_label
                <=> all[k].used_as_label \/ (all[k].name = nm /\ flag = "used_as_label")
           /\ m[k].used_as_target
                <=> all[k].used_as_target \/ (all[k].name = nm /\ flag = "used_as_target")
  BY <1>2, MarkedIs
<1> HIDE DEF all
<1>5. /\ Fresh(nm, g).name = nm
      /\ ~ Fresh(nm, g).used_as_label /\ ~ Fresh(nm, g).used_as_target
  BY DEF Fresh
<1>6. \A q : q \in Current(t, n + 1) <=> q \in Current(t, n) \/ q = n + 1
  <2>1. t[n + 1].node # "end"
    BY DEF Mention
  <2> QED BY <2>1, CurrentGrows
<1>7. \A q \in Current(t, n) : q \in 1 .. n
  BY CurrentIs
<1>8. PICK k0 \in 1 .. Len(m) : m[k0].name = nm /\ d2[n + 1].unique = m[k0].id
  OBVIOUS
<1>9. \A j, k \in 1 .. Len(m) : m[j].name = m[k].name => j = k
  BY <1>4 DEF NamesDiffer
\* What the entries of all tell of the names met before.
<1>10. ASSUME NEW k \in 1 .. Len(all)
       PROVE  /\ all[k].used_as_label <=>
                   \E q \in Current(t, n) : Uses(t, q, all[k].name, "label")
              /\ all[k].used_as_target <=>
                   \E q \in Current(t, n) : Uses(t, q, all[k].name, "goto")
  <2>1. CASE k \in 1 .. Len(l)
    BY <1>3, <2>1 DEF LabelsOK
  <2>2. CASE k \notin 1 .. Len(l)
    <3>1. k > Len(l) /\ all[k] = Fresh(nm, g)
      BY <1>3, <2>2
    <3>2. \A q \in Current(t, n) : t[q].name # nm
      <4> SUFFICES ASSUME NEW q \in Current(t, n), t[q].name = nm PROVE FALSE
        OBVIOUS
      <4>1. PICK j \in 1 .. Len(l) : l[j].name = t[q].name
        BY DEF LabelsOK
      <4>2. j \in 1 .. Len(all) /\ all[j].name = all[k].name
        BY <1>3, <1>5, <3>1, <4>1
      <4> QED BY <1>3, <2>2, <4>1, <4>2 DEF NamesDiffer
    <3> QED BY <1>5, <3>1, <3>2 DEF Uses
  <2> QED BY <2>1, <2>2
<1>11. \A name : /\ Uses(t, n + 1, name, "label") <=> name = nm /\ node = "label"
                 /\ Uses(t, n + 1, name, "goto") <=> name = nm /\ node = "goto"
  BY DEF Uses
<1>12. node = "goto" <=> flag = "used_as_target"
  BY DEF Mention, Flags
<1>13. ASSUME NEW k \in 1 .. Len(m)
       PROVE  /\ m[k].used_as_label <=>
                   \E q \in Current(t, n + 1) : Uses(t, q, m[k].name, "label")
              /\ m[k].used_as_target <=>
                   \E q \in Current(t, n + 1) : Uses(t, q, m[k].name, "goto")
  <2>1. /\ m[k].used_as_label
             <=> all[k].used_as_label \/ Uses(t, n + 1, m[k].name, "label")
        /\ m[k].used_as_target
             <=> all[k].used_as_target \/ Uses(t, n + 1, m[k].name, "goto")
        /\ m[k].name = all[k].name
    BY <1>4, <1>11, <1>12
  <2>2. \A nd : (\E q \in Current(t, n + 1) : Uses(t, q, m[k].name, nd))
                  <=> \/ \E q \in Current(t, n) : Uses(t, q, m[k].name, nd)
                      \/ Uses(t, n + 1, m[k].name, nd)
    BY <1>6
  <2>3. k \in 1 .. Len(all)
    BY <1>4
  <2>4. /\ all[k].used_as_label <=>
             \E q \in Current(t, n) : Uses(t, q, m[k].name, "label")
        /\ all[k].used_as_target <=>
             \E q \in Current(t, n) : Uses(t, q, m[k].name, "goto")
    BY <1>10, <2>1, <2>3
  <2>5. (\E q \in Current(t, n + 1) : Uses(t, q, m[k].name, "label"))
          <=> \/ \E q \in Current(t, n) : Uses(t, q, m[k].name, "label")
              \/ Uses(t, n + 1, m[k].name, "label")
    BY <2>2
  <2>6. (\E q \in Current(t, n + 1) : Uses(t, q, m[k].name, "goto"))
          <=> \/ \E q \in Current(t, n) : Uses(t, q, m[k].name, "goto")
              \/ Uses(t, n + 1, m[k].name, "goto")
    BY <2>2
  <2> QED BY <2>1, <2>4, <2>5, <2>6
<1>14. ASSUME NEW q \in Current(t, n + 1)
       PROVE  \E k \in 1 .. Len(m) : m[k].name = t[q].name /\ m[k].id = d2[q].unique
  <2>1. CASE q = n + 1
    BY <1>8, <2>1
  <2>2. CASE q # n + 1
    <3>1. q \in Current(t, n)
      BY <1>6, <2>2
    <3>2. PICK k \in 1 .. Len(l) : l[k].name = t[q].name /\ l[k].id = d[q].unique
      BY <3>1 DEF LabelsOK
    <3>3. k \in 1 .. Len(m) /\ m[k].name = l[k].name /\ m[k].id = l[k].id
      BY <1>3, <1>4
    <3>4. d2[q].unique = d[q].unique
      BY <1>7, <3>1
    <3> QED BY <3>2, <3>3, <3>4
  <2> QED BY <2>1, <2>2
<1>15. ASSUME node = "label", NEW q \in Current(t, n), t[q].node = "label"
       PROVE  t[q].name # nm
  <2> SUFFICES ASSUME t[q].name = nm PROVE FALSE
    OBVIOUS
  <2>1. PICK k \in 1 .. Len(l) : l[k].name = nm
    BY DEF LabelsOK
  <2>2. l[k].used_as_label
          <=> \E r \in Current(t, n) : Uses(t, r, l[k].name, "label")
    BY DEF LabelsOK
  <2>3. Uses(t, q, l[k].name, "label")
    BY <1>15, <2>1 DEF Uses
  <2> QED BY <1>15, <2>1, <2>2, <2>3
<1>16. ASSUME NEW q \in Current(t, n + 1), NEW r \in Current(t, n + 1),
              t[q].node = "label", t[r].node = "label", t[q].name = t[r].name
       PROVE  q = r
  <2>1. CASE q \in Current(t, n) /\ r \in Current(t, n)
    BY <1>16, <2>1 DEF LabelsOK
  <2>2. CASE q = n + 1 /\ r \in Current(t, n)
    BY <1>15, <1>16, <2>2
  <2>3. CASE q \in Current(t, n) /\ r = n + 1
    BY <1>15, <1>16, <2>3
  <2> QED BY <1>6, <2>1, <2>2, <2>3
<1> QED BY <1>9, <1>13, <1>14, <1>16 DEF LabelsOK

LEMMA ResolvedKept ==
  ASSUME NEW t \in Tree, TreeOK(t), NEW n \in 0 .. Len(t), n < Len(t),
         NEW d, NEW d2, ResolvedOK(t, d, n),
         t[n + 1].node = "end" => t[t[n + 1].num].node # "function",
         \A q \in 1 .. n : d2[q].unique = d[q].unique
  PROVE  ResolvedOK(t, d2, n + 1)
<1>1. Len(t) \in Nat /\ n \in Nat
  BY DEF Tree
<1>2. \A q : q \in Current(t, n + 1) <=>
               q \in Current(t, n) \/ (q = n + 1 /\ t[q].node \in Mention)
  BY CurrentGrows
<1> SUFFICES ASSUME NEW p \in 1 .. n + 1, t[p].node \in Mention, p \notin Current(t, n + 1)
             PROVE  Resolved(t, d2, p)
  BY DEF ResolvedOK
<1>3. p \in 1 .. n /\ p \notin Current(t, n)
  BY <1>1, <1>2
<1>4. PICK q : LabelsIn(t, p, t[p].name) = {q} /\ d[q].unique = d[p].unique
  BY <1>3 DEF ResolvedOK, Resolved
<1>5. PICK k \in EndsOf(t, Function(t, p)) : ~ (n < k)
  BY <1>3 DEF Current
<1>6. /\ q \in 1 .. Len(t) /\ t[q].node \in Mention
      /\ Function(t, p) = Function(t, q)
  BY <1>4 DEF LabelsIn, Uses, Mention
<1>7. q < k /\ k \in Nat /\ q \in Nat
  BY <1>1, <1>5, <1>6, FunctionOf DEF EndsOf
<1>8. q \in 1 .. n
  BY <1>1, <1>5, <1>6, <1>7
<1> QED BY <1>3, <1>4, <1>6, <1>8 DEF Resolved

\* The end of a function in which every goto has a label.
LEMMA FunctionEnds ==
  ASSUME NEW t \in Tree, TreeOK(t), NEW n \in 0 .. Len(t), n < Len(t),
         NEW d, NEW l, SecondOK(t, d, n, l),
         t[n + 1].node = "end", t[t[n + 1].num].node = "function",
         ~ \E k \in 1 .. Len(l) : l[k].used_as_target /\ ~ l[k].used_as_label
  PROVE  SecondOK(t, d, n + 1, <<>>)
<1>1. Len(t) \in Nat /\ n \in Nat
  BY DEF Tree
<1>2. /\ Current(t, n + 1) = {}
      /\ \A q \in Current(t, n) : Function(t, q) = t[n + 1].num
      /\ n + 1 \in EndsOf(t, t[n + 1].num)
  BY CurrentEnds
<1>3. LabelsOK(t, d, n + 1, <<>>)
  <2>1. Len(<<>>) = 0
    OBVIOUS
  <2> QED BY <1>2, <2>1 DEF LabelsOK
<1>4. ASSUME NEW p \in Current(t, n) PROVE Resolved(t, d, p)
  <2>1. p \in 1 .. n /\ t[p].node \in Mention
    BY CurrentIs
  <2>2. PICK k \in 1 .. Len(l) : l[k].name = t[p].name /\ l[k].id = d[p].unique
    BY <1>4 DEF SecondOK, LabelsOK
  <2>3. l[k].used_as_label
    <3>1. CASE t[p].node = "label"
      BY <1>4, <2>2, <3>1 DEF SecondOK, LabelsOK, Uses
    <3>2. CASE t[p].node = "goto"
      <4>1. l[k].used_as_target
        BY <1>4, <2>2, <3>2 DEF SecondOK, LabelsOK, Uses
      <4> QED BY <4>1
    <3> QED BY <2>1, <3>1, <3>2 DEF Mention
  <2>4. PICK q \in Current(t, n) : Uses(t, q, t[p].name, "label")
    BY <2>2, <2>3 DEF SecondOK, LabelsOK
  <2>5. d[q].unique = d[p].unique
    <3>1. PICK j \in 1 .. Len(l) : l[j].name = t[q].name /\ l[j].id = d[q].unique
      BY DEF SecondOK, LabelsOK
    <3>2. l[j].name = l[k].name
      BY <2>2, <2>4, <3>1 DEF Uses
    <3>3. j = k
      BY <3>2 DEF SecondOK, LabelsOK
    <3> QED BY <2>2, <3>1, <3>3
  <2>6. Function(t, p) = t[n + 1].num /\ Function(t, q) = t[n + 1].num
    BY <1>2
  <2>7. q \in LabelsIn(t, p, t[p].name)
    BY <1>1, <2>4, <2>6, CurrentIs DEF LabelsIn
  <2>8. ASSUME NEW r \in LabelsIn(t, p, t[p].name) PROVE r = q
    <3>1. /\ r \in 1 .. Len(t) /\ t[r].node = "label" /\ t[r].name = t[p].name
          /\ Function(t, p) = Function(t, r)
      BY DEF LabelsIn, Uses
    <3>2. t[r].node \in Mention
      BY <3>1 DEF Mention
    <3>3. r < n + 1
      BY <1>2, <2>6, <3>1, <3>2, FunctionOf
    <3>4. r \in 1 .. n
      BY <1>1, <3>1, <3>3
    <3>5. r \in Current(t, n)
      BY <3>1, <3>2, <3>4, CurrentIsAll
    <3> QED BY <2>4, <3>1, <3>5 DEF SecondOK, LabelsOK, Uses
  <2>9. LabelsIn(t, p, t[p].name) = {q}
    BY <2>7, <2>8
  <2>10. q \in 1 .. Len(t)
    BY CurrentIs
  <2> QED BY <2>5, <2>9, <2>10 DEF Resolved
<1>5. ResolvedOK(t, d, n + 1)
  <2> SUFFICES ASSUME NEW p \in 1 .. n + 1, t[p].node \in Mention
               PROVE  Resolved(t, d, p)
    BY DEF ResolvedOK
  <2>1. p # n + 1
    BY DEF Mention
  <2>2. p \in 1 .. n
    BY <1>1, <2>1
  <2> QED BY <1>4, <2>2 DEF SecondOK, ResolvedOK
<1> QED BY <1>3, <1>5 DEF SecondOK

\* The two diagnostics of the second walk.
LEMMA DuplicateIsReal ==
  ASSUME NEW t \in Tree, TreeOK(t), NEW n \in 0 .. Len(t), n < Len(t),
         NEW d, NEW l, LabelsOK(t, d, n, l), t[n + 1].node = "label",
         \E k \in 1 .. Len(l) : l[k].name = t[n + 1].name /\ l[k].used_as_label
  PROVE  \E q \in LabelsIn(t, n + 1, t[n + 1].name) :
           q # n + 1 /\ n + 1 \in LabelsIn(t, n + 1, t[n + 1].name)
<1>1. Len(t) \in Nat /\ n \in Nat
  BY DEF Tree
<1>2. n + 1 \in 0 .. Len(t) /\ n + 1 \in 1 .. Len(t)
  BY <1>1
<1>3. PICK q \in Current(t, n) : Uses(t, q, t[n + 1].name, "label")
  BY DEF LabelsOK
<1>4. q \in 1 .. n /\ q \in 1 .. Len(t)
  BY CurrentIs
<1>5. q \in Current(t, n + 1) /\ n + 1 \in Current(t, n + 1)
  <2>1. t[n + 1].node # "end" /\ t[n + 1].node \in Mention
    BY DEF Mention
  <2> QED BY <2>1, CurrentGrows
<1>6. Function(t, n + 1) = Function(t, q)
  BY <1>2, <1>5, CurrentIsOne
<1> QED BY <1>1, <1>2, <1>3, <1>4, <1>6 DEF LabelsIn, Uses

LEMMA NonexistentIsReal ==
  ASSUME NEW t \in Tree, TreeOK(t), NEW n \in 0 .. Len(t), n < Len(t),
         NEW d, NEW l, LabelsOK(t, d, n, l),
         t[n + 1].node = "end", t[t[n + 1].num].node = "function",
         \E k \in 1 .. Len(l) : l[k].used_as_target /\ ~ l[k].used_as_label
  PROVE  \E p \in 1 .. n : /\ t[p].node = "goto" /\ Function(t, p) = t[n + 1].num
                           /\ LabelsIn(t, p, t[p].name) = {}
<1>1. Len(t) \in Nat /\ n \in Nat
  BY DEF Tree
<1>2. /\ \A q \in Current(t, n) : Function(t, q) = t[n + 1].num
      /\ n + 1 \in EndsOf(t, t[n + 1].num)
  BY CurrentEnds
<1>3. PICK k \in 1 .. Len(l) : l[k].used_as_target /\ ~ l[k].used_as_label
  OBVIOUS
<1>4. PICK p \in Current(t, n) : Uses(t, p, l[k].name, "goto")
  BY <1>3 DEF LabelsOK
<1>5. p \in 1 .. n
  BY CurrentIs
<1>6. ASSUME NEW r \in LabelsIn(t, p, t[p].name) PROVE FALSE
  <2>1. /\ r \in 1 .. Len(t) /\ t[r].node = "label" /\ t[r].name = l[k].name
        /\ Function(t, p) = Function(t, r)
    BY <1>4 DEF LabelsIn, Uses
  <2>2. t[r].node \in Mention
    BY <2>1 DEF Mention
  <2>3. r < n + 1
    BY <1>2, <2>1, <2>2, FunctionOf
  <2>4. r \in 1 .. n
    BY <1>1, <2>1, <2>3
  <2>5. r \in Current(t, n)
    BY <2>1, <2>2, <2>4, CurrentIsAll
  <2> QED BY <1>3, <2>1, <2>5 DEF LabelsOK, Uses
<1>7. LabelsIn(t, p, t[p].name) = {}
  BY <1>6
<1> QED BY <1>2, <1>4, <1>5, <1>7 DEF Uses

\* A walk that is over has resolved every goto and label.
LEMMA AllResolved ==
  ASSUME NEW t \in Tree, TreeOK(t), AllEnded(t), NEW d, ResolvedOK(t, d, Len(t)),
         NEW p \in 1 .. Len(t), t[p].node \in Mention
  PROVE  Resolved(t, d, p)
BY CurrentLast DEF ResolvedOK


(***************************************************************************)
(* The model's own definitions, which read the tree of the current state.  *)
(***************************************************************************)
LEMMA Views ==
  /\ \A i : Position("end", i) = EndsOf(tree, i)
  /\ \A p, kinds : Around(p, kinds) = Inside(tree, p, kinds)
  /\ \A p, kinds : Closest(p, kinds) = Nearest(tree, p, kinds)
  /\ \A kind : has_container(kind) = HasIn(container, kind)
  /\ \A p, n : LabelsNamed(p, n) = LabelsIn(tree, p, n)
<1>1. \A i : Position("end", i) = EndsOf(tree, i)
  BY DEF Position, EndsOf
<1>2. \A p, kinds : Around(p, kinds) = Inside(tree, p, kinds)
  BY <1>1 DEF Around, Inside
<1>3. \A p, kinds : Closest(p, kinds) = Nearest(tree, p, kinds)
  <2> TAKE p, kinds
  <2> DEFINE S == Inside(tree, p, kinds)
  <2>1. Closest(p, kinds) =
          IF S = {} THEN 0 ELSE CHOOSE i \in S : \A j \in S : j =< i
    <3>1. Around(p, kinds) = S
      BY <1>2
    <3> HIDE DEF S
    <3> QED BY <3>1 DEF Closest
  <2>2. Nearest(tree, p, kinds) =
          IF S = {} THEN 0 ELSE CHOOSE i \in S : \A j \in S : j =< i
    BY DEF Nearest
  <2> QED BY <2>1, <2>2
<1>4. \A kind : has_container(kind) = HasIn(container, kind)
  BY DEF has_container, HasIn
<1>5. \A p, n : LabelsNamed(p, n) = LabelsIn(tree, p, n)
  BY <1>3 DEF LabelsNamed, LabelsIn, SameFunction, Function, Uses
<1> QED BY <1>1, <1>2, <1>3, <1>4, <1>5

LEMMA AllowedView == \A p \in 1 .. Len(tree) : Allowed(p) <=> AllowedIn(tree, p)
<1> TAKE p \in 1 .. Len(tree)
<1>1. /\ \A q, kinds : Around(q, kinds) = Inside(tree, q, kinds)
      /\ \A q, kinds : Closest(q, kinds) = Nearest(tree, q, kinds)
  BY Views
<1>2. CASE tree[p].node = "break"
  BY <1>1, <1>2 DEF Allowed, AllowedIn
<1>3. CASE tree[p].node = "continue"
  BY <1>1, <1>3 DEF Allowed, AllowedIn
<1>4. CASE tree[p].node = "case"
  BY <1>1, <1>4 DEF Allowed, AllowedIn, Within
<1>5. CASE tree[p].node = "default"
  BY <1>1, <1>5 DEF Allowed, AllowedIn, Within
<1>6. CASE tree[p].node \notin {"break", "continue", "case", "default"}
  BY <1>6 DEF Allowed, AllowedIn
<1> QED BY <1>2, <1>3, <1>4, <1>5, <1>6

LEMMA LoopsView == LoopsDiagnosedExactly <=> Diagnosed(tree, status)
BY AllowedView DEF LoopsDiagnosedExactly, Diagnosed

(***************************************************************************)
(* Types.                                                                  *)
(***************************************************************************)
StatementIn(n) ==
  [node: Nodes \cup Constructs \cup {"else", "end"},
   num: Value \cup {Unset} \cup 1 .. n,
   name: Name \cup {""} \cup AllTests \cup AllControls]

LEMMA StatementType ==
  ASSUME NEW n \in Nat
  PROVE  /\ StatementIn(n) \subseteq Statement
         /\ StatementIn(n) \subseteq StatementIn(n + 1)
         /\ 1 .. n \subseteq 1 .. n + 1
<1>1. 1 .. n \subseteq Nat /\ 1 .. n \subseteq 1 .. n + 1
  OBVIOUS
<1> QED BY <1>1 DEF StatementIn, Statement

LEMMA TreeType ==
  ASSUME TypeOK
  PROVE  /\ tree \in Tree /\ ids \in Seq(Ids) /\ Len(ids) = Len(tree)
         /\ open \in Stack(tree) /\ container \in Containers(tree)
         /\ labels \in Seq(Entry) /\ generator \in Nat /\ Len(tree) \in Nat
         /\ tree \in Seq(StatementIn(Len(tree))) /\ pos \in 0 .. Len(tree)
<1>1. tree \in Seq(StatementIn(Len(tree))) /\ Len(tree) \in Nat
  <2>1. tree \in Seq(StatementIn(Len(tree)))
    BY Zenon DEF TypeOK, StatementIn
  <2> QED BY <2>1, LenProperties
<1>2. StatementIn(Len(tree)) \subseteq Statement
  BY <1>1, StatementType
<1>3. tree \in Tree
  BY <1>1, <1>2, SeqMonotonic DEF Tree
<1> QED BY <1>1, <1>3 DEF TypeOK, Stack, Containers, Breakable, Entry

LEMMA BlankType ==
  /\ Blank \in Ids /\ Blank.cases = <<>>
  /\ \A u \in Int : [Blank EXCEPT !.unique = u] \in Ids
  /\ \A a, b, e \in Int :
       /\ [Blank EXCEPT !.start = a, !.continue = b, !.end = e] \in Ids
       /\ [Blank EXCEPT !.start = a, !.continue = b, !.end = e].end = e
       /\ [Blank EXCEPT !.default = a, !.end = e] \in Ids
       /\ [Blank EXCEPT !.default = a, !.end = e].end = e
       /\ [Blank EXCEPT !.default = a, !.end = e].default = a
       /\ [Blank EXCEPT !.default = a, !.end = e].cases = <<>>
<1>1. <<>> \in Seq([value: Nat, unique: Nat])
  OBVIOUS
<1>2. Unset \in Int
  BY DEF Unset
<1> QED BY <1>1, <1>2 DEF Blank, Ids

LEMMA IdsGrow ==
  ASSUME NEW d \in Seq(Ids), NEW id \in Ids
  PROVE  /\ Append(d, id) \in Seq(Ids) /\ Len(Append(d, id)) = Len(d) + 1
         /\ \A i \in 1 .. Len(d) : Append(d, id)[i] = d[i]
         /\ Append(d, id)[Len(d) + 1] = id
         /\ Len(d) \in Nat
BY AppendProperties

\* A node is met: what the first walk leaves alone keeps its type.
LEMMA MeetType ==
  ASSUME TypeOK, NEW x \in StatementIn(Len(tree) + 1), tree' = Append(tree, x),
         ids' \in Seq(Ids), Len(ids') = Len(ids) + 1,
         open' \in Seq(1 .. Len(tree) + 1),
         container' \in Seq([origin: 1 .. Len(tree) + 1, statement: {"loop", "switch"}]),
         Len(container') =< NestingLimit, generator' \in Nat,
         FirstWalk
  PROVE  TypeOK'
<1>1. /\ tree \in Seq(StatementIn(Len(tree))) /\ Len(tree) \in Nat
      /\ Len(ids) = Len(tree) /\ pos \in 0 .. Len(tree)
  BY TreeType
<1>2. StatementIn(Len(tree)) \subseteq StatementIn(Len(tree) + 1)
  BY <1>1, StatementType
<1>3. tree \in Seq(StatementIn(Len(tree) + 1))
  BY <1>1, <1>2, SeqMonotonic
<1>4. tree' \in Seq(StatementIn(Len(tree) + 1)) /\ Len(tree') = Len(tree) + 1
  BY <1>3, AppendProperties
<1>5. pos' \in 0 .. Len(tree')
  BY <1>1, <1>4 DEF FirstWalk
<1>6. labels' = labels /\ pass' = pass
  BY DEF FirstWalk
<1> QED BY <1>1, <1>4, <1>5, <1>6 DEF TypeOK, StatementIn

\* The stacks keep their types when the tree grows.
LEMMA StacksType ==
  ASSUME TypeOK
  PROVE  /\ open \in Seq(1 .. Len(tree) + 1)
         /\ container \in Seq([origin: 1 .. Len(tree) + 1, statement: {"loop", "switch"}])
         /\ Len(container) =< NestingLimit
<1>1. 1 .. Len(tree) \subseteq 1 .. Len(tree) + 1
  BY TreeType
<1>2. [origin: 1 .. Len(tree), statement: {"loop", "switch"}]
        \subseteq [origin: 1 .. Len(tree) + 1, statement: {"loop", "switch"}]
  BY <1>1
<1>3. /\ open \in Seq(1 .. Len(tree))
      /\ container \in Seq([origin: 1 .. Len(tree), statement: {"loop", "switch"}])
      /\ Len(container) =< NestingLimit
  BY DEF TypeOK
<1> QED BY <1>1, <1>2, <1>3, SeqMonotonic


(***************************************************************************)
(* The steps of the first walk.                                            *)
(***************************************************************************)
Walking == IInv /\ pass = "loops" /\ status = "ok"

LEMMA WalkingIs ==
  ASSUME Walking
  PROVE  /\ TypeOK /\ TreeOK(tree) /\ CasesTyped(tree)
         /\ OpenOK(tree, open) /\ ContainerOK(tree, ids, open, container)
         /\ SwitchOK(tree, ids) /\ Diagnosed(tree, "ok")
         /\ pass = "loops" /\ status = "ok" /\ pos = 0 /\ labels = <<>>
BY DEF Walking, IInv, FirstOK, TreeOK

LEMMA StatementMet ==
  ASSUME NEW n \in Nat
  PROVE  /\ \A node \in Nodes \cup Constructs :
              /\ Plain(node) \in StatementIn(n)
              /\ \A name \in Name \cup AllTests \cup AllControls :
                   Called(node, name) \in StatementIn(n)
              /\ \A v \in Value : Numbered(node, v) \in StatementIn(n)
         /\ \A node \in {"else", "end"}, i \in 1 .. n : Numbered(node, i) \in StatementIn(n)
BY DEF Plain, Called, Numbered, StatementIn

\* A node that needs nothing around it.
LEMMA AllowedAnywhere ==
  ASSUME NEW t \in Tree, NEW x \in Statement,
         x.node \notin {"break", "continue", "case", "default"}
  PROVE  AllowedIn(Append(t, x), Len(t) + 1)
<1>1. Append(t, x)[Len(t) + 1] = x
  BY TreeGrows
<1> QED BY <1>1 DEF AllowedIn

\* What every step of the first walk has to show.
LEMMA FirstStep ==
  ASSUME Walking, NEW x \in StatementIn(Len(tree) + 1), Fitting(tree, open, x),
         tree' = Append(tree, x), FirstWalk, TypeOK',
         status' \in Misplaced \cup {"ok", "assert"},
         AllowedIn(Append(tree, x), Len(tree) + 1) <=> status' \notin Misplaced,
         status' = "ok" => FirstOK(tree', ids', open', container')
  PROVE  IInv'
<1>1. /\ TypeOK /\ TreeOK(tree) /\ OpenOK(tree, open) /\ Diagnosed(tree, "ok")
      /\ pass = "loops" /\ pos = 0 /\ labels = <<>>
  BY WalkingIs
<1>2. /\ tree \in Tree /\ open \in Stack(tree) /\ Len(tree) \in Nat
  BY <1>1, TreeType
<1>3. x \in Statement
  <2>1. Len(tree) + 1 \in Nat
    BY <1>2
  <2> QED BY <2>1, StatementType
<1>4. TreeOK(tree')
  BY <1>1, <1>2, <1>3, TreeStep
<1>5. Diagnosed(tree', status')
  BY <1>1, <1>2, <1>3, DiagnosedStep
<1>6. pos' = 0 /\ labels' = <<>> /\ pass' = "loops"
  BY <1>1 DEF FirstWalk
<1>7. /\ status' \in Statuses /\ status' \notin {"label_duplicate", "goto_nonexistent"}
  BY DEF Statuses, Misplaced
<1>8. GotosDiagnosedExactly'
  BY <1>6, <1>7 DEF GotosDiagnosedExactly
<1> QED BY <1>4, <1>5, <1>6, <1>7, <1>8 DEF IInv

\* The walk ends at a node.
LEMMA FailStep ==
  ASSUME Walking, NEW x \in StatementIn(Len(tree) + 1), Fitting(tree, open, x),
         tree' = Append(tree, x), ids' \in Seq(Ids), Len(ids') = Len(ids) + 1,
         open' = open, container' = container, generator' \in Nat, FirstWalk,
         status' \in Misplaced \cup {"assert"},
         AllowedIn(Append(tree, x), Len(tree) + 1) <=> status' \notin Misplaced
  PROVE  IInv'
<1>1. TypeOK
  BY WalkingIs
<1>2. TypeOK'
  BY <1>1, StacksType, MeetType
<1>3. status' # "ok"
  BY DEF Misplaced
<1> QED BY <1>2, <1>3, FirstStep

\* A statement without a body, that no switch has to remember.
LEMMA PassStep ==
  ASSUME Walking, NEW x \in StatementIn(Len(tree) + 1), open # <<>>,
         x.node \notin Constructs \cup {"end", "case", "default"},
         x.node \in Mention => x.name \in Name,
         NEW id \in Ids, Meet(x, id), UNCHANGED <<open, container, generator>>,
         FirstWalk, status' = "ok", AllowedIn(Append(tree, x), Len(tree) + 1)
  PROVE  IInv'
<1>1. /\ TypeOK /\ TreeOK(tree) /\ OpenOK(tree, open)
      /\ ContainerOK(tree, ids, open, container) /\ SwitchOK(tree, ids)
  BY WalkingIs
<1>2. /\ tree \in Tree /\ open \in Stack(tree) /\ Len(tree) \in Nat
      /\ container \in Containers(tree)
      /\ ids \in Seq(Ids) /\ Len(ids) = Len(tree) /\ generator \in Nat
  BY <1>1, TreeType
<1>3. x \in Statement
  <2>1. Len(tree) + 1 \in Nat
    BY <1>2
  <2> QED BY <2>1, StatementType
<1>4. tree' = Append(tree, x) /\ ids' = Append(ids, id)
  BY DEF Meet
<1>5. /\ ids' \in Seq(Ids) /\ Len(ids') = Len(ids) + 1
      /\ \A i \in 1 .. Len(tree) : ids'[i] = ids[i]
  BY <1>2, <1>4, IdsGrow
<1>6. TypeOK'
  BY <1>1, <1>2, <1>4, <1>5, StacksType, MeetType
<1>7. OpenOK(tree', open)
  BY <1>1, <1>2, <1>3, <1>4, OpenPass
<1>8. ContainerOK(tree', ids', open, container)
  <2>1. x.node \notin Breakable
    BY DEF Breakable, Constructs
  <2> QED BY <1>1, <1>2, <1>3, <1>4, <1>5, <2>1, ContainerPass
<1>9. SwitchOK(tree', ids')
  <2>1. x.node # "switch"
    BY DEF Constructs
  <2> QED BY <1>1, <1>2, <1>3, <1>4, <1>5, <2>1, SwitchStep
<1>10. FirstOK(tree', ids', open', container')
  BY <1>7, <1>8, <1>9 DEF FirstOK
<1>11. Fitting(tree, open, x)
  BY DEF Fitting, Constructs
<1> QED BY <1>4, <1>6, <1>10, <1>11, FirstStep DEF Misplaced

\* A construct is entered.
LEMMA EnterStep ==
  ASSUME Walking, NEW x \in StatementIn(Len(tree) + 1), Fitting(tree, open, x),
         x.node \in Constructs, NEW id \in Ids, Meet(x, id), Enter,
         generator' \in Nat, FirstWalk, status' = "ok",
         IF x.node \in Breakable
         THEN Fits /\ Contain(x.node) /\ id.end \in Nat
         ELSE container' = container,
         x.node = "switch" => /\ x.name \in AllControls
                              /\ id.cases = <<>> /\ id.default = UnsetDefault
  PROVE  IInv'
<1>1. /\ TypeOK /\ TreeOK(tree) /\ OpenOK(tree, open)
      /\ ContainerOK(tree, ids, open, container) /\ SwitchOK(tree, ids)
  BY WalkingIs
<1>2. /\ tree \in Tree /\ open \in Stack(tree) /\ Len(tree) \in Nat
      /\ container \in Containers(tree)
      /\ ids \in Seq(Ids) /\ Len(ids) = Len(tree) /\ generator \in Nat
  BY <1>1, TreeType
<1>3. x \in Statement
  <2>1. Len(tree) + 1 \in Nat
    BY <1>2
  <2> QED BY <2>1, StatementType
<1>4. /\ tree' = Append(tree, x) /\ ids' = Append(ids, id)
      /\ open' = Append(open, Len(tree) + 1)
  BY DEF Meet, Enter, Here
<1>5. /\ ids' \in Seq(Ids) /\ Len(ids') = Len(ids) + 1
      /\ \A i \in 1 .. Len(tree) : ids'[i] = ids[i]
      /\ ids'[Len(tree) + 1] = id
  BY <1>2, <1>4, IdsGrow
<1>6. /\ OpenOK(tree', open')
      /\ \A i : IsOpen(open', i) <=> IsOpen(open, i) \/ i = Len(tree) + 1
  BY <1>1, <1>2, <1>3, <1>4, OpenEnter
<1>7. /\ open \in Seq(1 .. Len(tree) + 1)
      /\ container \in Seq([origin: 1 .. Len(tree) + 1, statement: {"loop", "switch"}])
      /\ Len(container) =< NestingLimit
  BY <1>1, StacksType
<1>8. open' \in Seq(1 .. Len(tree) + 1)
  <2>1. Len(tree) + 1 \in 1 .. Len(tree) + 1
    BY <1>2
  <2> QED BY <1>4, <1>7, <2>1, AppendProperties
<1>9. SwitchOK(tree', ids')
  <2>1. x.node \notin {"case", "default"}
    BY DEF Constructs
  <2>2. \A i \in 1 .. Len(tree) : tree[i].node = "switch" =>
          ids'[i].cases = ids[i].cases /\ ids'[i].default = ids[i].default
    BY <1>5
  <2>3. x.node = "switch" =>
          /\ x.name \in AllControls
          /\ ids'[Len(tree) + 1].cases = <<>>
          /\ ids'[Len(tree) + 1].default = UnsetDefault
    BY <1>5
  <2>4. SwitchOK(Append(tree, x), ids')
    BY <1>1, <1>2, <1>3, <2>1, <2>2, <2>3, SwitchStep
  <2> QED BY <1>4, <2>4
<1>10. /\ ContainerOK(tree', ids', open', container')
       /\ container' \in Seq([origin: 1 .. Len(tree) + 1, statement: {"loop", "switch"}])
       /\ Len(container') =< NestingLimit
  <2>1. CASE x.node \in Breakable
    <3> DEFINE e == [origin |-> Len(tree) + 1, statement |-> x.node]
    <3>1. container' = Append(container, e) /\ id.end \in Nat /\ Fits
      BY <2>1 DEF Contain, Here
    <3>2. e \in [origin: 1 .. Len(tree) + 1, statement: {"loop", "switch"}]
      BY <1>2, <2>1 DEF Breakable
    <3>3. /\ container' \in Seq([origin: 1 .. Len(tree) + 1, statement: {"loop", "switch"}])
          /\ Len(container') = Len(container) + 1
      <4> HIDE DEF e
      <4> QED BY <1>7, <3>1, <3>2, AppendProperties
    <3>4. Len(container') =< NestingLimit
      <4>1. Len(container) \in Nat /\ NestingLimit \in Nat
        BY <1>7, BoundAssumption, LenProperties
      <4> QED BY <3>1, <3>3, <4>1 DEF Fits
    <3>5. ContainerOK(tree', ids', open', container')
      BY <1>1, <1>2, <1>3, <1>4, <1>5, <1>6, <2>1, <3>1, ContainerEnter
    <3> QED BY <3>3, <3>4, <3>5
  <2>2. CASE x.node \notin Breakable
    <3>1. container' = container
      BY <2>2
    <3>2. \A i \in 1 .. Len(tree) : IsOpen(open', i) <=> IsOpen(open, i)
      BY <1>2, <1>6
    <3>3. ContainerOK(tree', ids', open', container)
      BY <1>1, <1>2, <1>3, <1>4, <1>5, <2>2, <3>2, ContainerPass
    <3> QED BY <1>7, <3>1, <3>3
  <2> QED BY <2>1, <2>2
<1>11. TypeOK'
  BY <1>1, <1>4, <1>5, <1>8, <1>10, MeetType
<1>12. FirstOK(tree', ids', open', container')
  BY <1>6, <1>9, <1>10 DEF FirstOK
<1>13. AllowedIn(Append(tree, x), Len(tree) + 1)
  <2>1. x.node \notin {"break", "continue", "case", "default"}
    BY DEF Constructs
  <2> QED BY <1>2, <1>3, <2>1, AllowedAnywhere
<1> QED BY <1>4, <1>11, <1>12, <1>13, FirstStep DEF Misplaced


LEMMA EntersFunction == ASSUME IInv, EnterFunction PROVE IInv'
<1> DEFINE x == Plain("function")
<1>1. Walking
  BY DEF EnterFunction, Walking
<1>2. TypeOK /\ Len(tree) + 1 \in Nat
  BY <1>1, WalkingIs, TreeType
<1>3. x \in StatementIn(Len(tree) + 1)
  BY <1>2, StatementMet DEF Constructs
<1>4. x.node = "function" /\ x.node \in Constructs /\ x.node \notin Breakable
  BY DEF Plain, Called, Constructs, Breakable
<1>5. Fitting(tree, open, x)
  BY <1>4 DEF Fitting, Mention, EnterFunction
<1>6. AllowedIn(Append(tree, x), Len(tree) + 1)
  <2>1. tree \in Tree /\ x \in Statement
    BY <1>2, <1>3, TreeType, StatementType
  <2> QED BY <1>4, <2>1, AllowedAnywhere
<1> HIDE DEF x
<1>7. CASE container = <<>>
  <2>1. /\ Meet(x, Blank) /\ Enter /\ FirstWalk /\ status' = "ok"
        /\ container' = container /\ generator' = generator
    BY <1>7 DEF EnterFunction, x
  <2>2. generator' \in Nat
    BY <1>2, <2>1, TreeType
  <2> QED BY <1>1, <1>3, <1>4, <1>5, <2>1, <2>2, BlankType, EnterStep
<1>8. CASE container # <<>>
  <2>1. Fail(x, "assert") /\ FirstWalk
    BY <1>8 DEF EnterFunction, x
  <2>2. /\ tree' = Append(tree, x) /\ ids' \in Seq(Ids) /\ Len(ids') = Len(ids) + 1
        /\ open' = open /\ container' = container /\ generator' \in Nat
        /\ status' = "assert" /\ status' \notin Misplaced
    BY <1>2, <2>1, BlankType, IdsGrow, TreeType DEF Fail, Meet, Misplaced
  <2> QED BY <1>1, <1>3, <1>5, <1>6, <2>1, <2>2, FailStep
<1> QED BY <1>7, <1>8

\* Prototypes, and what the walk passes over.
LEMMA MeetsPrototype == ASSUME IInv, Prototype PROVE IInv'
<1> DEFINE x == Plain("prototype")
<1>1. Walking /\ open # <<>>
  BY DEF Prototype, CanMeet, Walking
<1>2. TypeOK /\ Len(tree) + 1 \in Nat
  BY <1>1, WalkingIs, TreeType
<1>3. x \in StatementIn(Len(tree) + 1)
  BY <1>2, StatementMet DEF Prototype, CanMeet
<1>4. x.node = "prototype"
  BY DEF Plain, Called
<1>5. Fitting(tree, open, x)
  BY <1>1, <1>4 DEF Fitting, Mention
<1>6. AllowedIn(Append(tree, x), Len(tree) + 1)
  <2>1. tree \in Tree /\ x \in Statement
    BY <1>2, <1>3, TreeType, StatementType
  <2> QED BY <1>4, <2>1, AllowedAnywhere
<1> HIDE DEF x
<1>7. CASE container = <<>>
  <2>1. /\ Meet(x, Blank) /\ FirstWalk /\ status' = "ok"
        /\ UNCHANGED <<open, container, generator>>
    BY <1>1, <1>7 DEF Prototype, Walking, x
  <2>2. x.node \notin Constructs \cup {"end", "case", "default"}
    BY <1>4 DEF Constructs
  <2>3. x.node \notin Mention
    BY <1>4 DEF Mention
  <2> QED BY <1>1, <1>3, <1>6, <2>1, <2>2, <2>3, BlankType, PassStep
<1>8. CASE container # <<>>
  <2>1. Fail(x, "assert") /\ FirstWalk
    BY <1>8 DEF Prototype, x
  <2>2. /\ tree' = Append(tree, x) /\ ids' \in Seq(Ids) /\ Len(ids') = Len(ids) + 1
        /\ open' = open /\ container' = container /\ generator' \in Nat
        /\ status' = "assert" /\ status' \notin Misplaced
    BY <1>2, <2>1, BlankType, IdsGrow, TreeType DEF Fail, Meet, Misplaced
  <2> QED BY <1>1, <1>3, <1>5, <1>6, <2>1, <2>2, FailStep
<1> QED BY <1>7, <1>8

LEMMA EntersLoop == ASSUME IInv, NEW test \in Tests, EnterLoop(test) PROVE IInv'
<1> DEFINE x  == Called("loop", test)
           id == [Blank EXCEPT !.start    = generator,
                               !.continue = generator + 1,
                               !.end      = generator + 2]
<1>1. Walking /\ open # <<>>
  BY DEF EnterLoop, CanMeet, Walking
<1>2. TypeOK /\ Len(tree) + 1 \in Nat /\ generator \in Nat
  BY <1>1, WalkingIs, TreeType
<1>3. x \in StatementIn(Len(tree) + 1)
  BY <1>2, KindAssumption, StatementMet DEF Constructs
<1>4. x.node = "loop" /\ x.node \in Constructs /\ x.node \in Breakable
  BY DEF Called, Constructs, Breakable
<1>5. Fitting(tree, open, x)
  BY <1>1, <1>4 DEF Fitting, Mention
<1>6. AllowedIn(Append(tree, x), Len(tree) + 1)
  <2>1. tree \in Tree /\ x \in Statement
    BY <1>2, <1>3, TreeType, StatementType
  <2> QED BY <1>4, <2>1, AllowedAnywhere
<1>7. id \in Ids /\ id.end \in Nat
  <2>1. PICK b, e \in Nat : b = generator + 1 /\ e = generator + 2
    BY <1>2
  <2> DEFINE named == [Blank EXCEPT !.start = generator, !.continue = b, !.end = e]
  <2>2. generator \in Int /\ b \in Int /\ e \in Int
    BY <1>2
  <2>3. named \in Ids
    BY <2>2, BlankType DEF Blank, Ids
  <2>4. named.end = e
    BY DEF Blank
  <2>5. id = named
    BY <2>1
  <2> QED BY <2>3, <2>4, <2>5
<1> HIDE DEF x, id
<1>8. CASE Fits
  <2>1. /\ Meet(x, id) /\ Enter /\ FirstWalk /\ status' = "ok"
        /\ Contain("loop") /\ generator' = generator + 3
    BY <1>1, <1>8 DEF EnterLoop, Walking, x, id
  <2>2. generator' \in Nat
    BY <1>2, <2>1
  <2> QED BY <1>1, <1>3, <1>4, <1>5, <1>7, <1>8, <2>1, <2>2, EnterStep
<1>9. CASE ~ Fits
  <2>1. Fail(x, "assert") /\ FirstWalk
    BY <1>9 DEF EnterLoop, x
  <2>2. /\ tree' = Append(tree, x) /\ ids' \in Seq(Ids) /\ Len(ids') = Len(ids) + 1
        /\ open' = open /\ container' = container /\ generator' \in Nat
        /\ status' = "assert" /\ status' \notin Misplaced
    BY <1>2, <2>1, BlankType, IdsGrow, TreeType DEF Fail, Meet, Misplaced
  <2> QED BY <1>1, <1>3, <1>5, <1>6, <2>1, <2>2, FailStep
<1> QED BY <1>8, <1>9

LEMMA EntersSwitch == ASSUME IInv, NEW control \in Controls, EnterSwitch(control) PROVE IInv'
<1> DEFINE x  == Called("switch", control)
           id == [Blank EXCEPT !.default = UnsetDefault, !.end = generator]
<1>1. Walking /\ open # <<>>
  BY DEF EnterSwitch, CanMeet, Walking
<1>2. TypeOK /\ Len(tree) + 1 \in Nat /\ generator \in Nat
  BY <1>1, WalkingIs, TreeType
<1>3. x \in StatementIn(Len(tree) + 1) /\ x.name \in AllControls
  <2>1. control \in AllControls
    BY KindAssumption
  <2> QED BY <1>2, <2>1, StatementMet DEF Constructs, Called
<1>4. x.node = "switch" /\ x.node \in Constructs /\ x.node \in Breakable
  BY DEF Called, Constructs, Breakable
<1>5. Fitting(tree, open, x)
  BY <1>1, <1>4 DEF Fitting, Mention
<1>6. AllowedIn(Append(tree, x), Len(tree) + 1)
  <2>1. tree \in Tree /\ x \in Statement
    BY <1>2, <1>3, TreeType, StatementType
  <2> QED BY <1>4, <2>1, AllowedAnywhere
<1>7. id \in Ids /\ id.end \in Nat /\ id.cases = <<>> /\ id.default = UnsetDefault
  <2>1. generator \in Int /\ UnsetDefault \in Int
    BY <1>2 DEF UnsetDefault
  <2> QED BY <1>2, <2>1, BlankType
<1> HIDE DEF x, id
<1>8. CASE Fits
  <2>1. /\ Meet(x, id) /\ Enter /\ FirstWalk /\ status' = "ok"
        /\ Contain("switch") /\ generator' = generator + 1
    BY <1>1, <1>8 DEF EnterSwitch, Walking, x, id
  <2>2. generator' \in Nat
    BY <1>2, <2>1
  <2> QED BY <1>1, <1>3, <1>4, <1>5, <1>7, <1>8, <2>1, <2>2, EnterStep
<1>9. CASE ~ Fits
  <2>1. Fail(x, "assert") /\ FirstWalk
    BY <1>9 DEF EnterSwitch, x
  <2>2. /\ tree' = Append(tree, x) /\ ids' \in Seq(Ids) /\ Len(ids') = Len(ids) + 1
        /\ open' = open /\ container' = container /\ generator' \in Nat
        /\ status' = "assert" /\ status' \notin Misplaced
    BY <1>2, <2>1, BlankType, IdsGrow, TreeType DEF Fail, Meet, Misplaced
  <2> QED BY <1>1, <1>3, <1>5, <1>6, <2>1, <2>2, FailStep
<1> QED BY <1>8, <1>9

LEMMA EntersIf == ASSUME IInv, NEW node, EnterIf(node) PROVE IInv'
<1> DEFINE x == Plain(node)
<1>1. Walking /\ open # <<>> /\ node \in {"if", "ifelse"}
  BY DEF EnterIf, CanMeet, Walking
<1>2. TypeOK /\ Len(tree) + 1 \in Nat
  BY <1>1, WalkingIs, TreeType
<1>3. x \in StatementIn(Len(tree) + 1)
  BY <1>1, <1>2, StatementMet DEF Constructs
<1>4. x.node = node /\ node \in Constructs /\ node \notin Breakable
  BY <1>1 DEF Plain, Called, Constructs, Breakable
<1>5. Fitting(tree, open, x)
  BY <1>1, <1>4 DEF Fitting, Mention
<1>6. /\ Meet(x, Blank) /\ Enter /\ FirstWalk /\ status' = "ok"
      /\ container' = container /\ generator' = generator
  BY <1>1 DEF EnterIf, Walking
<1>7. generator' \in Nat
  BY <1>2, <1>6, TreeType
<1> HIDE DEF x
<1> QED BY <1>1, <1>3, <1>4, <1>5, <1>6, <1>7, BlankType, EnterStep

LEMMA MeetsElse == ASSUME IInv, Else PROVE IInv'
<1> DEFINE x == Numbered("else", Innermost)
<1>1. Walking /\ open # <<>>
  BY DEF Else, Walking
<1>2. /\ TypeOK /\ Len(tree) + 1 \in Nat /\ Innermost \in 1 .. Len(tree) + 1
      /\ tree \in Tree
  <2>1. TypeOK /\ OpenOK(tree, open)
    BY <1>1, WalkingIs
  <2>2. tree \in Tree /\ open \in Stack(tree) /\ Len(tree) \in Nat
    BY <2>1, TreeType
  <2>3. open[Len(open)] \in 1 .. Len(tree)
    BY <1>1, <2>1, <2>2, TopIsOpen
  <2> QED BY <2>1, <2>2, <2>3 DEF Innermost
<1>3. x \in StatementIn(Len(tree) + 1)
  BY <1>2, StatementMet
<1>4. x.node = "else"
  BY DEF Numbered
<1>5. /\ Meet(x, Blank) /\ FirstWalk /\ status' = "ok"
      /\ UNCHANGED <<open, container, generator>>
  BY <1>1 DEF Else, Walking
<1> HIDE DEF x
<1>6. AllowedIn(Append(tree, x), Len(tree) + 1)
  BY <1>2, <1>3, <1>4, StatementType, AllowedAnywhere
<1>7. x.node \notin Constructs \cup {"end", "case", "default"}
  BY <1>4 DEF Constructs
<1>8. x.node \notin Mention
  BY <1>4 DEF Mention
<1> QED BY <1>1, <1>3, <1>5, <1>6, <1>7, <1>8, BlankType, PassStep


\* break: the stack is empty exactly outside of loops and switches.
LEMMA MeetsBreak == ASSUME IInv, Break PROVE IInv'
<1> DEFINE x == Plain("break")
<1>1. Walking /\ open # <<>>
  BY DEF Break, CanMeet, Walking
<1>2. /\ TypeOK /\ Len(tree) + 1 \in Nat /\ tree \in Tree /\ container \in Containers(tree)
      /\ OpenOK(tree, open) /\ ContainerOK(tree, ids, open, container)
  BY <1>1, WalkingIs, TreeType
<1>3. x \in StatementIn(Len(tree) + 1)
  BY <1>2, StatementMet DEF Break, CanMeet
<1>4. x.node = "break"
  BY DEF Plain, Called
<1>5. Fitting(tree, open, x)
  BY <1>1, <1>4 DEF Fitting, Mention
<1>6. x \in Statement
  BY <1>2, <1>3, StatementType
<1> HIDE DEF x
<1>7. AllowedIn(Append(tree, x), Len(tree) + 1)
        <=> Inside(Append(tree, x), Len(tree) + 1, Breakable) # {}
  <2>1. Append(tree, x)[Len(tree) + 1] = x
    BY <1>2, <1>6, TreeGrows
  <2> QED BY <1>4, <2>1 DEF AllowedIn
<1>8. /\ container = <<>> <=> Inside(Append(tree, x), Len(tree) + 1, Breakable) = {}
      /\ container # <<>> => ids[container[Len(container)].origin].end \in Nat
  BY <1>2, <1>4, <1>6, LastContainerIs
<1>9. /\ BreakTarget = Unset <=> container = <<>>
      /\ BreakTarget \in Int
  BY <1>8 DEF BreakTarget, Unset
<1>10. CASE container = <<>>
  <2>1. Fail(x, "break_outside") /\ FirstWalk
    BY <1>9, <1>10 DEF Break, x
  <2>2. /\ tree' = Append(tree, x) /\ ids' \in Seq(Ids) /\ Len(ids') = Len(ids) + 1
        /\ open' = open /\ container' = container /\ generator' \in Nat
        /\ status' = "break_outside" /\ status' \in Misplaced
    BY <1>2, <2>1, BlankType, IdsGrow, TreeType DEF Fail, Meet, Misplaced
  <2> QED BY <1>1, <1>3, <1>5, <1>7, <1>8, <1>10, <2>1, <2>2, FailStep
<1>11. CASE container # <<>>
  <2>1. /\ Meet(x, [Blank EXCEPT !.unique = BreakTarget]) /\ FirstWalk
        /\ UNCHANGED <<open, container, generator>> /\ status' = "ok"
    BY <1>1, <1>9, <1>11 DEF Break, Leaf, Walking, x
  <2>2. x.node \notin Constructs \cup {"end", "case", "default"}
    BY <1>4 DEF Constructs
  <2>3. [Blank EXCEPT !.unique = BreakTarget] \in Ids
    BY <1>9, BlankType
  <2>4. x.node \notin Mention
    BY <1>4 DEF Mention
  <2> QED BY <1>1, <1>3, <1>7, <1>8, <1>11, <2>1, <2>2, <2>3, <2>4, PassStep
<1> QED BY <1>10, <1>11

LEMMA MeetsContinue == ASSUME IInv, Continue PROVE IInv'
<1> DEFINE x == Plain("continue")
           loop == has_container("loop")
<1>1. Walking /\ open # <<>>
  BY DEF Continue, CanMeet, Walking
<1>2. /\ TypeOK /\ Len(tree) + 1 \in Nat /\ tree \in Tree /\ container \in Containers(tree)
      /\ OpenOK(tree, open) /\ ContainerOK(tree, ids, open, container)
      /\ ids \in Seq(Ids) /\ Len(ids) = Len(tree)
  BY <1>1, WalkingIs, TreeType
<1>3. x \in StatementIn(Len(tree) + 1)
  BY <1>2, StatementMet DEF Continue, CanMeet
<1>4. x.node = "continue"
  BY DEF Plain, Called
<1>5. Fitting(tree, open, x)
  BY <1>1, <1>4 DEF Fitting, Mention
<1>6. x \in Statement
  BY <1>2, <1>3, StatementType
<1> HIDE DEF x
<1>7. AllowedIn(Append(tree, x), Len(tree) + 1)
        <=> Inside(Append(tree, x), Len(tree) + 1, {"loop"}) # {}
  <2>1. Append(tree, x)[Len(tree) + 1] = x
    BY <1>2, <1>6, TreeGrows
  <2> QED BY <1>4, <2>1 DEF AllowedIn
<1>8. loop = Nearest(Append(tree, x), Len(tree) + 1, {"loop"})
  <2>1. loop = HasIn(container, "loop")
    BY Views
  <2>2. "loop" \in Breakable
    BY DEF Breakable
  <2> QED BY <1>2, <1>4, <1>6, <2>1, <2>2, HasInIs
<1>9. loop = 0 <=> Inside(Append(tree, x), Len(tree) + 1, {"loop"}) = {}
  <2>1. loop # 0 => Inside(Append(tree, x), Len(tree) + 1, {"loop"}) # {}
    BY <1>2, <1>4, <1>6, <1>8, SwitchAround DEF Breakable
  <2>2. loop = 0 => Inside(Append(tree, x), Len(tree) + 1, {"loop"}) = {}
    <3> SUFFICES ASSUME Inside(Append(tree, x), Len(tree) + 1, {"loop"}) # {}
                 PROVE  loop # 0
      OBVIOUS
    <3>1. loop \in Inside(Append(tree, x), Len(tree) + 1, {"loop"})
      BY <1>2, <1>8, NearestIs
    <3> QED BY <3>1 DEF Inside
  <2> QED BY <2>1, <2>2
<1>10. CASE loop = 0
  <2>1. Fail(x, "continue_outside") /\ FirstWalk
    BY <1>10 DEF Continue, x
  <2>2. /\ tree' = Append(tree, x) /\ ids' \in Seq(Ids) /\ Len(ids') = Len(ids) + 1
        /\ open' = open /\ container' = container /\ generator' \in Nat
        /\ status' = "continue_outside" /\ status' \in Misplaced
    BY <1>2, <2>1, BlankType, IdsGrow, TreeType DEF Fail, Meet, Misplaced
  <2> QED BY <1>1, <1>3, <1>5, <1>7, <1>9, <1>10, <2>1, <2>2, FailStep
<1>11. CASE loop # 0
  <2>1. /\ Meet(x, [Blank EXCEPT !.unique = ids[loop].continue]) /\ FirstWalk
        /\ UNCHANGED <<open, container, generator>> /\ status' = "ok"
    BY <1>1, <1>11 DEF Continue, Leaf, Walking, x
  <2>2. x.node \notin Constructs \cup {"end", "case", "default"}
    BY <1>4 DEF Constructs
  <2>3. [Blank EXCEPT !.unique = ids[loop].continue] \in Ids
    <3>1. loop \in 1 .. Len(tree)
      BY <1>2, <1>4, <1>6, <1>8, <1>11, SwitchAround DEF Breakable
    <3>2. ids[loop] \in Ids
      BY <1>2, <3>1, ElementOfSeq
    <3>3. ids[loop].continue \in Int
      BY <3>2 DEF Ids
    <3> QED BY <3>3, BlankType
  <2>4. x.node \notin Mention
    BY <1>4 DEF Mention
  <2> QED BY <1>1, <1>3, <1>7, <1>9, <1>11, <2>1, <2>2, <2>3, <2>4, PassStep
<1> QED BY <1>10, <1>11

\* What only the second walk looks at, and what neither does.
LEMMA MeetsOther ==
  ASSUME IInv, NEW node \in Nodes, node \in {"logical", "return", "goto", "label"},
         CanMeet(node), NEW x, x \in StatementIn(Len(tree) + 1), x.node = node,
         node \in Mention => x.name \in Name,
         Meet(x, Blank), Leaf, UNCHANGED <<generator, status>>, FirstWalk
  PROVE  IInv'
<1>1. Walking /\ open # <<>>
  BY DEF CanMeet, Walking
<1>2. TypeOK /\ Len(tree) + 1 \in Nat /\ tree \in Tree
  BY <1>1, WalkingIs, TreeType
<1>3. AllowedIn(Append(tree, x), Len(tree) + 1)
  BY <1>2, StatementType, AllowedAnywhere
<1>4. x.node \notin Constructs \cup {"end", "case", "default"}
  BY DEF Constructs
<1>5. status' = "ok" /\ UNCHANGED <<open, container, generator>>
  BY DEF Leaf, CanMeet
<1> QED BY <1>1, <1>3, <1>4, <1>5, BlankType, PassStep

LEMMA MeetsPlain ==
  ASSUME IInv, \/ \E node \in {"logical", "return"} : Other(node)
               \/ \E n \in Name : Goto(n) \/ Label(n)
  PROVE  IInv'
<1>1. Len(tree) + 1 \in Nat
  BY TreeType DEF IInv
<1>2. ASSUME NEW node \in {"logical", "return"}, Other(node) PROVE IInv'
  <2>1. node \in Nodes /\ CanMeet(node)
    BY <1>2 DEF Other, CanMeet
  <2>2. Plain(node) \in StatementIn(Len(tree) + 1) /\ Plain(node).node = node
    BY <1>1, <2>1, StatementMet DEF Plain, Called
  <2>3. node \notin Mention
    BY DEF Mention
  <2> QED BY <1>2, <2>1, <2>2, <2>3, MeetsOther DEF Other
<1>3. ASSUME NEW n \in Name, Goto(n) PROVE IInv'
  <2>1. "goto" \in Nodes /\ CanMeet("goto")
    BY <1>3 DEF Goto, CanMeet
  <2>2. Called("goto", n) \in StatementIn(Len(tree) + 1) /\ Called("goto", n).node = "goto"
        /\ Called("goto", n).name \in Name
    BY <1>1, <2>1, StatementMet DEF Called
  <2> QED BY <1>3, <2>1, <2>2, MeetsOther DEF Goto
<1>4. ASSUME NEW n \in Name, Label(n) PROVE IInv'
  <2>1. "label" \in Nodes /\ CanMeet("label")
    BY <1>4 DEF Label, CanMeet
  <2>2. Called("label", n) \in StatementIn(Len(tree) + 1) /\ Called("label", n).node = "label"
        /\ Called("label", n).name \in Name
    BY <1>1, <2>1, StatementMet DEF Called
  <2> QED BY <1>4, <2>1, <2>2, MeetsOther DEF Label
<1> QED BY <1>2, <1>3, <1>4

\* case and default: the lists of the nearest switch.
LEMMA SwitchMet ==
  ASSUME Walking, NEW x \in Statement, x.node \in {"case", "default"},
         NEW i0, i0 = has_container("switch")
  PROVE  /\ i0 = Nearest(Append(tree, x), Len(tree) + 1, {"switch"})
         /\ i0 # 0 => /\ i0 \in 1 .. Len(tree) /\ tree[i0].node = "switch"
                      /\ ids[i0] \in Ids /\ tree[i0].name \in AllControls
<1>1. /\ TypeOK /\ OpenOK(tree, open) /\ ContainerOK(tree, ids, open, container)
      /\ SwitchOK(tree, ids)
  BY WalkingIs
<1>2. /\ tree \in Tree /\ container \in Containers(tree)
      /\ ids \in Seq(Ids) /\ Len(ids) = Len(tree)
  BY <1>1, TreeType
<1>3. i0 = HasIn(container, "switch")
  BY Views
<1>4. "switch" \in Breakable /\ x.node # "end"
  BY DEF Breakable
<1>5. i0 = Nearest(Append(tree, x), Len(tree) + 1, {"switch"})
  BY <1>1, <1>2, <1>3, <1>4, HasInIs
<1>6. i0 # 0 => i0 \in 1 .. Len(tree) /\ tree[i0].node = "switch"
  <2> DEFINE near == Nearest(Append(tree, x), Len(tree) + 1, {"switch"})
  <2>1. near # 0 => near \in 1 .. Len(tree) /\ tree[near].node = "switch"
    BY <1>1, <1>2, <1>4, SwitchAround
  <2> QED BY <1>5, <2>1
<1>7. i0 # 0 => ids[i0] \in Ids /\ tree[i0].name \in AllControls
  BY <1>1, <1>2, <1>6, ElementOfSeq DEF SwitchOK
<1> QED BY <1>5, <1>6, <1>7

LEMMA IdsUpdated ==
  ASSUME NEW o \in Ids
  PROVE  /\ \A g \in Nat :
              /\ [o EXCEPT !.default = g] \in Ids
              /\ [o EXCEPT !.default = g].end = o.end
              /\ [o EXCEPT !.default = g].default = g
              /\ [o EXCEPT !.default = g].cases = o.cases
         /\ \A s \in Seq([value: Nat, unique: Nat]) :
              /\ [o EXCEPT !.cases = s] \in Ids
              /\ [o EXCEPT !.cases = s].end = o.end
              /\ [o EXCEPT !.cases = s].default = o.default
              /\ [o EXCEPT !.cases = s].cases = s
BY DEF Ids

\* The list of a switch grows, or its default is set.
LEMMA RememberStep ==
  ASSUME Walking, NEW x \in StatementIn(Len(tree) + 1), open # <<>>,
         x.node \in {"case", "default"}, x.node = "case" => x.num \in Value,
         NEW i0 \in 1 .. Len(tree), NEW r \in Ids, NEW id \in Ids,
         r.end = ids[i0].end,
         tree' = Append(tree, x), ids' = Append([ids EXCEPT ![i0] = r], id),
         open' = open, container' = container, generator' \in Nat, FirstWalk,
         status' = "ok", AllowedIn(Append(tree, x), Len(tree) + 1),
         SwitchOK(Append(tree, x), ids')
  PROVE  IInv'
<1>1. /\ TypeOK /\ TreeOK(tree) /\ OpenOK(tree, open)
      /\ ContainerOK(tree, ids, open, container)
  BY WalkingIs
<1>2. /\ tree \in Tree /\ open \in Stack(tree) /\ Len(tree) \in Nat
      /\ container \in Containers(tree)
      /\ ids \in Seq(Ids) /\ Len(ids) = Len(tree)
  BY <1>1, TreeType
<1>3. x \in Statement
  <2>1. Len(tree) + 1 \in Nat
    BY <1>2
  <2> QED BY <2>1, StatementType
<1> DEFINE d == [ids EXCEPT ![i0] = r]
<1>4. /\ d \in Seq(Ids) /\ Len(d) = Len(tree) /\ d[i0] = r
      /\ \A i \in 1 .. Len(tree) : i # i0 => d[i] = ids[i]
  BY <1>2, ExceptSeq
<1>5. /\ ids' \in Seq(Ids) /\ Len(ids') = Len(ids) + 1
      /\ \A i \in 1 .. Len(tree) : ids'[i] = d[i]
  <2>1. ids' = Append(d, id)
    OBVIOUS
  <2> HIDE DEF d
  <2> QED BY <1>2, <1>4, <2>1, IdsGrow
<1> HIDE DEF d
<1>6. \A i \in 1 .. Len(tree) : ids'[i].end = ids[i].end
  BY <1>4, <1>5
<1>7. TypeOK'
  BY <1>1, <1>5, StacksType, MeetType
<1>8. x.node \notin Constructs /\ x.node # "end" /\ x.node \notin Breakable
  BY DEF Constructs, Breakable
<1>9. OpenOK(tree', open)
  BY <1>1, <1>2, <1>3, <1>8, OpenPass
<1>10. ContainerOK(tree', ids', open, container)
  BY <1>1, <1>2, <1>3, <1>6, <1>8, ContainerPass
<1>11. FirstOK(tree', ids', open', container')
  BY <1>9, <1>10 DEF FirstOK
<1>12. Fitting(tree, open, x)
  BY DEF Fitting, Mention
<1> QED BY <1>7, <1>11, <1>12, FirstStep DEF Misplaced


LEMMA MeetsCase == ASSUME IInv, NEW v \in Value, Case(v) PROVE IInv'
<1> DEFINE x       == Numbered("case", v)
           switch  == has_container("switch")
           control == tree[switch].name
           value   == CaseValue(control, v)
           cases   == ids[switch].cases
           twice   == \E k \in 1 .. Len(cases) : CaseValue(control, cases[k].value) = value
           id      == [Blank EXCEPT !.unique = generator]
<1>1. Walking /\ open # <<>>
  BY DEF Case, CanMeet, Walking
<1>2. /\ TypeOK /\ Len(tree) + 1 \in Nat /\ tree \in Tree /\ generator \in Nat
      /\ ids \in Seq(Ids) /\ Len(ids) = Len(tree)
      /\ OpenOK(tree, open) /\ SwitchOK(tree, ids) /\ CasesTyped(tree)
  BY <1>1, WalkingIs, TreeType
<1>3. x \in StatementIn(Len(tree) + 1)
  BY <1>2, StatementMet DEF Case, CanMeet
<1>4. x.node = "case" /\ x.num = v
  BY DEF Numbered
<1>5. Fitting(tree, open, x)
  BY <1>1, <1>4 DEF Fitting, Mention
<1>6. x \in Statement
  BY <1>2, <1>3, StatementType
<1>7. id \in Ids
  <2>1. generator \in Int
    BY <1>2
  <2> QED BY <2>1, BlankType
<1>8. /\ switch = Nearest(Append(tree, x), Len(tree) + 1, {"switch"})
      /\ switch # 0 => /\ switch \in 1 .. Len(tree) /\ tree[switch].node = "switch"
                       /\ ids[switch] \in Ids /\ control \in AllControls
  BY <1>1, <1>4, <1>6, SwitchMet
<1>9. Case(v) => /\ FirstWalk
                 /\ switch = 0 => Fail(x, "case_outside")
                 /\ switch # 0 /\ twice =>
                      /\ Meet(x, id) /\ generator' = generator + 1
                      /\ status' = "case_duplicate" /\ Leaf
                 /\ switch # 0 /\ ~ twice =>
                      /\ tree' = Append(tree, x)
                      /\ ids' = Append(
                           [ids EXCEPT ![switch].cases =
                              <<[value |-> value, unique |-> generator]>> \o @], id)
                      /\ generator' = generator + 1
                      /\ Leaf /\ UNCHANGED status
  BY DEF Case
<1> HIDE DEF x, switch, id, twice, value, control, cases
<1>10. AllowedIn(Append(tree, x), Len(tree) + 1)
         <=> switch # 0 /\ ~ HasValue(ids[switch].cases, CaseValue(tree[switch].name, x.num))
  BY <1>2, <1>4, <1>6, <1>8, CaseAllowed
\* The values in the list are converted already: converting them again
\* changes nothing.
<1>11. switch # 0 => (twice <=> HasValue(ids[switch].cases, CaseValue(tree[switch].name, x.num)))
  <2> SUFFICES ASSUME switch # 0
               PROVE  twice <=> HasValue(cases, value)
    BY <1>4 DEF cases, value, control
  <2>1. Value \subseteq Nat
    BY ValueAssumption
  <2>2. cases \in Seq([value: Nat, unique: Nat])
    BY <1>8 DEF Ids, cases
  <2>3. control \in AllControls
    BY <1>8
  <2>4. \A k \in 1 .. Len(cases) : CaseValue(control, cases[k].value) = cases[k].value
    <3> SUFFICES ASSUME NEW k \in 1 .. Len(cases)
                 PROVE  CaseValue(control, cases[k].value) = cases[k].value
      OBVIOUS
    <3>1. cases[k] \in [value: Nat, unique: Nat]
      BY <2>2, ElementOfSeq
    <3>2. cases[k].value \in Nat
      BY <3>1
    <3>3. /\ tree[switch].name \in AllControls
          /\ \A w \in Nat : HasValue(ids[switch].cases, w) <=>
               \E q \in 1 .. Len(tree) :
                 Within(tree, q, switch, "case") /\ w = CaseValue(tree[switch].name, tree[q].num)
      BY <1>2, <1>8 DEF SwitchOK
    <3>4. HasValue(ids[switch].cases, cases[k].value)
      BY DEF HasValue, cases
    <3>5. PICK q \in 1 .. Len(tree) :
            Within(tree, q, switch, "case")
            /\ cases[k].value = CaseValue(tree[switch].name, tree[q].num)
      BY <3>2, <3>3, <3>4
    <3>6. tree[q].num \in Nat
      BY <1>2, <2>1, <3>5 DEF CasesTyped, Within
    <3>7. cases[k].value = CaseValue(control, tree[q].num)
      BY <3>5 DEF control
    <3>8. CaseValue(control, CaseValue(control, tree[q].num)) = CaseValue(control, tree[q].num)
      BY <2>3, <3>6, SameCaseIs
    <3> QED BY <3>7, <3>8
  <2> QED BY <2>4 DEF twice, HasValue
<1>12. CASE switch = 0
  <2>1. Fail(x, "case_outside") /\ FirstWalk
    BY <1>9, <1>12
  <2>2. /\ tree' = Append(tree, x) /\ ids' \in Seq(Ids) /\ Len(ids') = Len(ids) + 1
        /\ open' = open /\ container' = container /\ generator' \in Nat
        /\ status' = "case_outside" /\ status' \in Misplaced
    BY <1>2, <2>1, BlankType, IdsGrow, TreeType DEF Fail, Meet, Misplaced
  <2> QED BY <1>1, <1>3, <1>5, <1>10, <1>12, <2>1, <2>2, FailStep
<1>13. CASE switch # 0 /\ twice
  <2>1. /\ Meet(x, id) /\ generator' = generator + 1
        /\ status' = "case_duplicate" /\ Leaf /\ FirstWalk
    BY <1>9, <1>13
  <2>2. /\ tree' = Append(tree, x) /\ ids' \in Seq(Ids) /\ Len(ids') = Len(ids) + 1
        /\ open' = open /\ container' = container /\ generator' \in Nat
        /\ status' \in Misplaced
    BY <1>2, <1>7, <2>1, IdsGrow DEF Meet, Leaf, Misplaced
  <2> QED BY <1>1, <1>3, <1>5, <1>10, <1>11, <1>13, <2>1, <2>2, FailStep
<1>14. CASE switch # 0 /\ ~ twice
  <2> DEFINE e == [value |-> value, unique |-> generator]
             r == [ids[switch] EXCEPT !.cases = <<e>> \o cases]
  <2>1. /\ tree' = Append(tree, x) /\ ids' = Append([ids EXCEPT ![switch] = r], id)
        /\ generator' = generator + 1 /\ generator' \in Nat
        /\ open' = open /\ container' = container /\ status' = "ok" /\ FirstWalk
    <3>1. ids' = Append([ids EXCEPT ![switch].cases = <<e>> \o @], id)
      BY <1>9, <1>14
    <3> HIDE DEF e
    <3>2. [ids EXCEPT ![switch].cases = <<e>> \o @] = [ids EXCEPT ![switch] = r]
      BY DEF cases
    <3> HIDE DEF r
    <3>3. ids' = Append([ids EXCEPT ![switch] = r], id)
      BY <3>1, <3>2
    <3>4. /\ tree' = Append(tree, x) /\ generator' = generator + 1 /\ FirstWalk
          /\ open' = open /\ container' = container /\ status' = status
      BY <1>9, <1>14 DEF Leaf
    <3> QED BY <1>1, <1>2, <3>3, <3>4 DEF Walking
  <2>2. /\ switch \in 1 .. Len(tree) /\ tree[switch].node = "switch"
        /\ ids[switch] \in Ids /\ control \in AllControls
    BY <1>8, <1>14
  <2>3. cases \in Seq([value: Nat, unique: Nat])
    BY <2>2 DEF Ids, cases
  <2>4. e \in [value: Nat, unique: Nat] /\ e.value = value
    <3>1. v \in Nat
      BY ValueAssumption
    <3>2. value \in Nat
      BY <2>2, <3>1, SameCaseIs DEF value
    <3> QED BY <1>2, <3>2
  <2> HIDE DEF e
  <2>5. <<e>> \o cases \in Seq([value: Nat, unique: Nat])
    <3>1. <<e>> \in Seq([value: Nat, unique: Nat])
      BY <2>4
    <3> QED BY <2>3, <3>1, ConcatProperties
  <2>6. /\ r \in Ids /\ r.end = ids[switch].end /\ r.default = ids[switch].default
        /\ r.cases = <<e>> \o ids[switch].cases
    <3> DEFINE longer == <<e>> \o cases
    <3>1. r = [ids[switch] EXCEPT !.cases = longer]
      OBVIOUS
    <3>2. longer \in Seq([value: Nat, unique: Nat]) /\ longer = <<e>> \o ids[switch].cases
      BY <2>5 DEF cases
    <3> HIDE DEF longer, r
    <3>3. /\ [ids[switch] EXCEPT !.cases = longer] \in Ids
          /\ [ids[switch] EXCEPT !.cases = longer].end = ids[switch].end
          /\ [ids[switch] EXCEPT !.cases = longer].default = ids[switch].default
          /\ [ids[switch] EXCEPT !.cases = longer].cases = longer
      BY <2>2, <3>2, IdsUpdated
    <3> QED BY <3>1, <3>2, <3>3
  <2> HIDE DEF r
  <2>7. /\ ids'[switch] = r
        /\ \A i \in 1 .. Len(tree) : i # switch => ids'[i] = ids[i]
    <3> DEFINE d == [ids EXCEPT ![switch] = r]
    <3>1. /\ d \in Seq(Ids) /\ Len(d) = Len(tree) /\ d[switch] = r
          /\ \A i \in 1 .. Len(tree) : i # switch => d[i] = ids[i]
      BY <1>2, <2>2, <2>6, ExceptSeq
    <3>2. ids' = Append(d, id)
      BY <2>1
    <3> HIDE DEF d
    <3>3. \A i \in 1 .. Len(tree) : ids'[i] = d[i]
      BY <1>2, <1>7, <3>1, <3>2, IdsGrow
    <3> QED BY <2>2, <3>1, <3>3
  <2>8. SwitchOK(Append(tree, x), ids')
    <3>1. x.num \in Nat
      BY <1>4, ValueAssumption
    <3>2. \A i \in 1 .. Len(tree) : i # switch => ids'[i].cases = ids[i].cases
      BY <2>7
    <3>3. \A i \in 1 .. Len(tree) : ids'[i].default = ids[i].default
      BY <2>6, <2>7
    <3>4. ASSUME NEW w \in Nat
          PROVE  HasValue(ids'[switch].cases, w) <=>
                   \/ w = CaseValue(tree[switch].name, x.num)
                   \/ HasValue(ids[switch].cases, w)
      <4>1. HasValue(<<e>> \o cases, w) <=> e.value = w \/ HasValue(cases, w)
        BY <2>3, <2>4, HasValuePrepended
      <4>2. ids'[switch].cases = <<e>> \o cases /\ cases = ids[switch].cases
        BY <2>6, <2>7 DEF cases
      <4>3. e.value = CaseValue(tree[switch].name, x.num)
        BY <1>4, <2>4 DEF value, control
      <4> QED BY <4>1, <4>2, <4>3
    <3>5. /\ tree \in Tree /\ SwitchOK(tree, ids)
          /\ x.node = "case" /\ switch \in 1 .. Len(tree)
          /\ switch = Nearest(Append(tree, x), Len(tree) + 1, {"switch"})
          /\ tree[switch].node = "switch"
      BY <1>2, <1>4, <1>8, <2>2
    <3> QED BY <1>6, <3>1, <3>2, <3>3, <3>4, <3>5, CaseStep, ZenonT(60)
  <2>9. AllowedIn(Append(tree, x), Len(tree) + 1)
    BY <1>10, <1>11, <1>14
  <2>10. x.node \in {"case", "default"} /\ (x.node = "case" => x.num \in Value)
    BY <1>4
  <2> QED BY <1>1, <1>3, <1>7, <2>1, <2>2, <2>6, <2>8, <2>9, <2>10, RememberStep
<1> QED BY <1>12, <1>13, <1>14

LEMMA MeetsDefault == ASSUME IInv, Default PROVE IInv'
<1> DEFINE x      == Plain("default")
           switch == has_container("switch")
           id     == [Blank EXCEPT !.unique = generator]
<1>1. Walking /\ open # <<>>
  BY DEF Default, CanMeet, Walking
<1>2. /\ TypeOK /\ Len(tree) + 1 \in Nat /\ tree \in Tree /\ generator \in Nat
      /\ ids \in Seq(Ids) /\ Len(ids) = Len(tree)
      /\ OpenOK(tree, open) /\ SwitchOK(tree, ids)
  BY <1>1, WalkingIs, TreeType
<1>3. x \in StatementIn(Len(tree) + 1)
  BY <1>2, StatementMet DEF Default, CanMeet
<1>4. x.node = "default"
  BY DEF Plain, Called
<1>5. Fitting(tree, open, x)
  BY <1>1, <1>4 DEF Fitting, Mention
<1>6. x \in Statement
  BY <1>2, <1>3, StatementType
<1>7. id \in Ids
  <2>1. generator \in Int
    BY <1>2
  <2> QED BY <2>1, BlankType
<1>8. /\ switch = Nearest(Append(tree, x), Len(tree) + 1, {"switch"})
      /\ switch # 0 => /\ switch \in 1 .. Len(tree) /\ tree[switch].node = "switch"
                       /\ ids[switch] \in Ids
  BY <1>1, <1>4, <1>6, SwitchMet
<1>9. Default => /\ FirstWalk
                 /\ switch = 0 => Fail(x, "default_outside")
                 /\ switch # 0 =>
                      tree' = Append(tree, x) /\ generator' = generator + 1 /\ Leaf
                 /\ switch # 0 /\ ids[switch].default # UnsetDefault =>
                      status' = "default_duplicate" /\ ids' = Append(ids, id)
                 /\ switch # 0 /\ ids[switch].default = UnsetDefault =>
                      /\ ids' = Append([ids EXCEPT ![switch].default = generator], id)
                      /\ UNCHANGED status
  BY DEF Default
<1> HIDE DEF x, switch, id
<1>10. AllowedIn(Append(tree, x), Len(tree) + 1)
         <=> switch # 0 /\ ids[switch].default = UnsetDefault
  BY <1>2, <1>4, <1>6, <1>8, DefaultAllowed
<1>11. CASE switch = 0
  <2>1. Fail(x, "default_outside") /\ FirstWalk
    BY <1>9, <1>11
  <2>2. /\ tree' = Append(tree, x) /\ ids' \in Seq(Ids) /\ Len(ids') = Len(ids) + 1
        /\ open' = open /\ container' = container /\ generator' \in Nat
        /\ status' = "default_outside" /\ status' \in Misplaced
    BY <1>2, <2>1, BlankType, IdsGrow, TreeType DEF Fail, Meet, Misplaced
  <2> QED BY <1>1, <1>3, <1>5, <1>10, <1>11, <2>1, <2>2, FailStep
<1>12. CASE switch # 0 /\ ids[switch].default # UnsetDefault
  <2>1. /\ tree' = Append(tree, x) /\ ids' = Append(ids, id) /\ generator' = generator + 1
        /\ status' = "default_duplicate" /\ Leaf /\ FirstWalk
    BY <1>9, <1>12
  <2>2. /\ ids' \in Seq(Ids) /\ Len(ids') = Len(ids) + 1
        /\ open' = open /\ container' = container /\ generator' \in Nat
        /\ status' \in Misplaced
    BY <1>2, <1>7, <2>1, IdsGrow DEF Leaf, Misplaced
  <2> QED BY <1>1, <1>3, <1>5, <1>10, <1>12, <2>1, <2>2, FailStep
<1>13. CASE switch # 0 /\ ids[switch].default = UnsetDefault
  <2> DEFINE r == [ids[switch] EXCEPT !.default = generator]
  <2>1. /\ tree' = Append(tree, x) /\ ids' = Append([ids EXCEPT ![switch] = r], id)
        /\ generator' = generator + 1 /\ generator' \in Nat
        /\ open' = open /\ container' = container /\ status' = "ok" /\ FirstWalk
    <3>1. ids' = Append([ids EXCEPT ![switch].default = generator], id)
      BY <1>9, <1>13
    <3>2. [ids EXCEPT ![switch].default = generator] = [ids EXCEPT ![switch] = r]
      OBVIOUS
    <3> HIDE DEF r
    <3>3. ids' = Append([ids EXCEPT ![switch] = r], id)
      BY <3>1, <3>2
    <3>4. /\ tree' = Append(tree, x) /\ generator' = generator + 1 /\ FirstWalk
          /\ open' = open /\ container' = container /\ status' = status
      BY <1>9, <1>13 DEF Leaf
    <3> QED BY <1>1, <1>2, <3>3, <3>4 DEF Walking
  <2>2. switch \in 1 .. Len(tree) /\ tree[switch].node = "switch" /\ ids[switch] \in Ids
    BY <1>8, <1>13
  <2>3. /\ r \in Ids /\ r.end = ids[switch].end /\ r.default = generator
        /\ r.cases = ids[switch].cases
    BY <1>2, <2>2, IdsUpdated
  <2> HIDE DEF r
  <2>4. /\ ids'[switch] = r
        /\ \A i \in 1 .. Len(tree) : i # switch => ids'[i] = ids[i]
    <3> DEFINE d == [ids EXCEPT ![switch] = r]
    <3>1. /\ d \in Seq(Ids) /\ Len(d) = Len(tree) /\ d[switch] = r
          /\ \A i \in 1 .. Len(tree) : i # switch => d[i] = ids[i]
      BY <1>2, <2>2, <2>3, ExceptSeq
    <3>2. ids' = Append(d, id)
      BY <2>1
    <3> HIDE DEF d
    <3>3. \A i \in 1 .. Len(tree) : ids'[i] = d[i]
      BY <1>2, <1>7, <3>1, <3>2, IdsGrow
    <3> QED BY <2>2, <3>1, <3>3
  <2>5. SwitchOK(Append(tree, x), ids')
    <3>1. /\ \A i \in 1 .. Len(tree) : ids'[i].cases = ids[i].cases
          /\ \A i \in 1 .. Len(tree) : i # switch => ids'[i].default = ids[i].default
      BY <2>3, <2>4
    <3>2. ids'[switch].default # UnsetDefault
      BY <1>2, <2>3, <2>4 DEF UnsetDefault
    <3> QED BY <1>2, <1>4, <1>6, <1>8, <2>2, <3>1, <3>2, DefaultStep
  <2>6. AllowedIn(Append(tree, x), Len(tree) + 1)
    BY <1>10, <1>13
  <2>7. x.node \in {"case", "default"} /\ (x.node = "case" => x.num \in Value)
    BY <1>4
  <2> QED BY <1>1, <1>3, <1>7, <2>1, <2>2, <2>3, <2>5, <2>6, <2>7, RememberStep
<1> QED BY <1>11, <1>12, <1>13


\* The innermost construct is left, and a loop or switch with it.
LEMMA Leaves == ASSUME IInv, Exit PROVE IInv'
<1> DEFINE i0 == open[Len(open)]
           x  == Numbered("end", i0)
<1>1. Walking /\ open # <<>>
  BY DEF Exit, Walking
<1>2. /\ TypeOK /\ OpenOK(tree, open) /\ TreeOK(tree)
      /\ ContainerOK(tree, ids, open, container) /\ SwitchOK(tree, ids)
  BY <1>1, WalkingIs
<1>3. /\ Len(tree) + 1 \in Nat /\ tree \in Tree /\ generator \in Nat /\ Len(tree) \in Nat
      /\ ids \in Seq(Ids) /\ Len(ids) = Len(tree)
      /\ open \in Stack(tree) /\ container \in Containers(tree)
  BY <1>2, TreeType
<1>4. i0 \in 1 .. Len(tree) /\ i0 \in 1 .. Len(tree) + 1
  <2>1. i0 \in 1 .. Len(tree)
    BY <1>1, <1>2, <1>3, TopIsOpen
  <2> QED BY <1>3, <2>1
<1>5. x \in StatementIn(Len(tree) + 1)
  BY <1>3, <1>4, StatementMet
<1>6. x.node = "end" /\ x.num = i0
  BY DEF Numbered
<1>7. /\ tree' = Append(tree, x) /\ ids' = Append(ids, Blank)
      /\ open' = Pop(open) /\ generator' = generator /\ FirstWalk
      /\ IF tree[i0].node \in Breakable
         THEN container' = Pop(container) ELSE container' = container
      /\ status' \in {"ok", "assert"}
  BY <1>1 DEF Exit, Meet, Innermost, Pop, Breakable
<1> HIDE DEF x, i0
<1>8. x \in Statement
  BY <1>3, <1>5, StatementType
<1>9. Fitting(tree, open, x)
  BY <1>1, <1>6 DEF Fitting, Mention, i0
<1>10. AllowedIn(Append(tree, x), Len(tree) + 1)
  BY <1>3, <1>6, <1>8, AllowedAnywhere
<1>11. /\ ids' \in Seq(Ids) /\ Len(ids') = Len(ids) + 1
       /\ \A i \in 1 .. Len(tree) : ids'[i] = ids[i]
  <2>1. ids' = Append(ids, Blank) /\ Blank \in Ids
    BY <1>7, BlankType
  <2> QED BY <1>3, <2>1, IdsGrow
<1>12. /\ OpenOK(tree', open')
       /\ \A i : IsOpen(open', i) <=> IsOpen(open, i) /\ i # i0
  BY <1>1, <1>2, <1>3, <1>6, <1>7, <1>8, OpenLeave DEF i0
<1>13. /\ open \in Seq(1 .. Len(tree) + 1)
       /\ container \in Seq([origin: 1 .. Len(tree) + 1, statement: {"loop", "switch"}])
       /\ Len(container) =< NestingLimit
  BY <1>2, StacksType
<1>14. open' \in Seq(1 .. Len(tree) + 1)
  BY <1>1, <1>7, <1>13, PopIs
<1>15. /\ ContainerOK(tree', ids', open', container')
       /\ container' \in Seq([origin: 1 .. Len(tree) + 1, statement: {"loop", "switch"}])
       /\ Len(container') =< NestingLimit
  <2>1. CASE tree[i0].node \in Breakable
    <3>1. container' = Pop(container)
      BY <1>7, <2>1
    <3>2. \A i \in 1 .. Len(tree) : ids'[i].end = ids[i].end
      BY <1>11
    <3>3. \A i : IsOpen(open', i) <=> IsOpen(open, i) /\ i # open[Len(open)]
      BY <1>12 DEF i0
    <3>4. tree[open[Len(open)]].node \in Breakable
      BY <2>1 DEF i0
    <3>5. container # <<>> /\ ContainerOK(Append(tree, x), ids', open', Pop(container))
      BY <1>1, <1>2, <1>3, <1>6, <1>8, <3>2, <3>3, <3>4, ContainerLeave
    <3>6. /\ Pop(container) \in
               Seq([origin: 1 .. Len(tree) + 1, statement: {"loop", "switch"}])
          /\ Len(container) \in Nat \ {0} /\ Len(Pop(container)) = Len(container) - 1
      BY <1>13, <3>5, PopIs
    <3>7. Len(Pop(container)) =< NestingLimit
      <4>1. NestingLimit \in Nat
        BY BoundAssumption
      <4> QED BY <1>13, <3>6, <4>1
    <3> QED BY <1>7, <3>1, <3>5, <3>6, <3>7
  <2>2. CASE tree[i0].node \notin Breakable
    <3>1. container' = container
      BY <1>7, <2>2
    <3>2. \A i \in 1 .. Len(tree) :
            tree[i].node \in Breakable => (IsOpen(open', i) <=> IsOpen(open, i))
      BY <1>12, <2>2
    <3>3. x.node \notin Breakable
      BY <1>6 DEF Breakable
    <3>4. ContainerOK(tree', ids', open', container)
      BY <1>2, <1>3, <1>7, <1>8, <1>11, <3>2, <3>3, ContainerPass
    <3> QED BY <1>13, <3>1, <3>4
  <2> QED BY <2>1, <2>2
<1>16. SwitchOK(tree', ids')
  <2>1. x.node \notin {"case", "default", "switch"}
    BY <1>6
  <2>2. \A i \in 1 .. Len(tree) : tree[i].node = "switch" =>
          ids'[i].cases = ids[i].cases /\ ids'[i].default = ids[i].default
    BY <1>11
  <2>3. tree \in Tree /\ SwitchOK(tree, ids)
    BY <1>2, <1>3
  <2>4. SwitchOK(Append(tree, x), ids')
    BY <1>8, <2>1, <2>2, <2>3, SwitchStep
  <2>5. tree' = Append(tree, x)
    BY <1>7
  <2> QED BY <2>4, <2>5
<1>17. TypeOK'
  BY <1>2, <1>3, <1>5, <1>7, <1>11, <1>14, <1>15, MeetType
<1>18. FirstOK(tree', ids', open', container')
  BY <1>12, <1>15, <1>16 DEF FirstOK
<1> QED BY <1>1, <1>5, <1>7, <1>9, <1>10, <1>17, <1>18, FirstStep DEF Misplaced

\* The second walk starts: nothing is open.
LEMMA EndsLoops == ASSUME IInv, EndLoops PROVE IInv'
<1>1. Walking /\ open = <<>> /\ pass' = "gotos"
      /\ UNCHANGED <<tree, ids, open, container, labels, generator, pos, status>>
  BY DEF EndLoops, Walking
<1>2. /\ TypeOK /\ OpenOK(tree, open) /\ TreeOK(tree) /\ Diagnosed(tree, "ok")
      /\ status = "ok" /\ pos = 0 /\ labels = <<>>
  BY <1>1, WalkingIs
<1>3. TypeOK'
  BY <1>1, <1>2 DEF TypeOK
<1>4. AllEnded(tree)
  <2>1. \A i : ~ IsOpen(open, i)
    <3>1. Len(open) = 0
      BY <1>1
    <3> QED BY <3>1 DEF IsOpen
  <2> QED BY <1>2, <2>1 DEF AllEnded, OpenOK, Constructs
<1>5. SecondOK(tree, ids, 0, <<>>)
  <2>1. Current(tree, 0) = {} /\ Len(<<>>) = 0
    BY DEF Current
  <2> QED BY <2>1 DEF SecondOK, LabelsOK, ResolvedOK
<1>6. GotosDiagnosedExactly'
  BY <1>1, <1>2 DEF GotosDiagnosedExactly
<1>7. status' \in Statuses /\ status' \notin Misplaced
  BY <1>1, <1>2 DEF Statuses, Misplaced
<1> QED BY <1>1, <1>2, <1>3, <1>4, <1>5, <1>6, <1>7 DEF IInv

(***************************************************************************)
(* The steps of the second walk.                                           *)
(***************************************************************************)
Replaying(node) == IInv /\ SecondWalk(node)

LEMMA ReplayingIs ==
  ASSUME NEW node, Replaying(node)
  PROVE  /\ TypeOK /\ TreeOK(tree) /\ AllEnded(tree) /\ Diagnosed(tree, "ok")
         /\ SecondOK(tree, ids, pos, labels) /\ status = "ok" /\ pass = "gotos"
         /\ tree \in Tree /\ Len(tree) \in Nat
         /\ ids \in Seq(Ids) /\ Len(ids) = Len(tree)
         /\ labels \in Seq(Entry) /\ generator \in Nat
         /\ pos \in 0 .. Len(tree) /\ pos < Len(tree)
         /\ pos + 1 \in 1 .. Len(tree) /\ tree[pos + 1].node = node
         /\ pos' = pos + 1 /\ UNCHANGED <<tree, open, container, pass>>
<1>1. /\ TypeOK /\ TreeOK(tree) /\ AllEnded(tree) /\ Diagnosed(tree, "ok")
      /\ SecondOK(tree, ids, pos, labels) /\ status = "ok" /\ pass = "gotos"
  BY DEF Replaying, SecondWalk, IInv
<1>2. /\ tree \in Tree /\ Len(tree) \in Nat
      /\ ids \in Seq(Ids) /\ Len(ids) = Len(tree)
      /\ labels \in Seq(Entry) /\ generator \in Nat /\ pos \in 0 .. Len(tree)
  BY <1>1, TreeType
<1>3. /\ pos < Len(tree) /\ tree[pos + 1].node = node
      /\ pos' = pos + 1 /\ UNCHANGED <<tree, open, container, pass>>
  BY DEF Replaying, SecondWalk
<1>4. pos + 1 \in 1 .. Len(tree)
  BY <1>2, <1>3
<1> QED BY <1>1, <1>2, <1>3, <1>4

\* What every step of the second walk has to show.
LEMMA SecondStep ==
  ASSUME NEW node, Replaying(node),
         ids' \in Seq(Ids), Len(ids') = Len(ids), labels' \in Seq(Entry), generator' \in Nat,
         status' \in {"ok", "assert", "label_duplicate", "goto_nonexistent"},
         status' = "ok" => SecondOK(tree, ids', pos + 1, labels'),
         status' = "label_duplicate" =>
           Cardinality(LabelsIn(tree, pos + 1, tree[pos + 1].name)) > 1,
         status' = "goto_nonexistent" =>
           \E p \in 1 .. pos : /\ tree[p].node = "goto"
                               /\ Function(tree, p) = tree[pos + 1].num
                               /\ LabelsIn(tree, p, tree[p].name) = {}
  PROVE  IInv'
<1>1. /\ TypeOK /\ TreeOK(tree) /\ AllEnded(tree) /\ Diagnosed(tree, "ok")
      /\ pass = "gotos" /\ pos \in 0 .. Len(tree) /\ Len(tree) \in Nat
      /\ pos + 1 \in 1 .. Len(tree)
      /\ pos' = pos + 1 /\ UNCHANGED <<tree, open, container, pass>>
  BY ReplayingIs
<1>2. TypeOK'
  <2>1. /\ tree' = tree /\ open' = open /\ container' = container /\ pass' = pass
        /\ Len(ids') = Len(tree') /\ pos' \in 0 .. Len(tree')
    <3>1. tree' = tree /\ open' = open /\ container' = container /\ pass' = pass
      BY <1>1
    <3>2. Len(ids) = Len(tree)
      BY ReplayingIs
    <3>3. pos + 1 \in 0 .. Len(tree)
      BY <1>1
    <3> QED BY <1>1, <3>1, <3>2, <3>3
  <2>2. labels' \in Seq([name: Name, id: Nat, used_as_label: BOOLEAN,
                         used_as_target: BOOLEAN])
    BY DEF Entry
  <2> QED BY <1>1, <2>1, <2>2 DEF TypeOK
<1>3. status' \in Statuses /\ status' \notin Misplaced
  BY DEF Statuses, Misplaced
<1>4. Diagnosed(tree', status')
  BY <1>1, <1>3 DEF Diagnosed, Misplaced
<1>5. GotosDiagnosedExactly'
  <2>1. /\ \A p, n : LabelsNamed(p, n)' = LabelsIn(tree, p, n)
        /\ \A p : Closest(p, {"function"})' = Function(tree, p)
    <3>1. /\ \A p, n : LabelsNamed(p, n) = LabelsIn(tree, p, n)
          /\ \A p : Closest(p, {"function"}) = Function(tree, p)
      BY Views DEF Function
    <3>2. /\ \A p, n : LabelsNamed(p, n)' = LabelsNamed(p, n)
          /\ \A p : Closest(p, {"function"})' = Closest(p, {"function"})
      BY <1>1 DEF LabelsNamed, SameFunction, Closest, Around, Position
    <3> QED BY <3>1, <3>2
  <2>2. pass' # "labelled"
    BY <1>1
  <2>3. status' = "label_duplicate" =>
          Cardinality(LabelsNamed(pos, tree[pos].name)') > 1
    BY <1>1, <2>1
  <2>4. status' = "goto_nonexistent" =>
          \E p \in 1 .. pos' : /\ tree[p].node = "goto"
                               /\ Closest(p, {"function"})' = tree[pos'].num
                               /\ LabelsNamed(p, tree[p].name)' = {}
    <3> SUFFICES ASSUME status' = "goto_nonexistent"
                 PROVE  \E p \in 1 .. pos' : /\ tree[p].node = "goto"
                               /\ Closest(p, {"function"})' = tree[pos'].num
                               /\ LabelsNamed(p, tree[p].name)' = {}
      OBVIOUS
    <3>1. PICK p \in 1 .. pos : /\ tree[p].node = "goto"
                                /\ Function(tree, p) = tree[pos + 1].num
                                /\ LabelsIn(tree, p, tree[p].name) = {}
      OBVIOUS
    <3>2. p \in 1 .. pos'
      BY <1>1
    <3>3. LabelsNamed(p, tree[p].name)' = LabelsIn(tree, p, tree[p].name)
      BY <1>1, <2>1
    <3> QED BY <1>1, <2>1, <3>1, <3>2, <3>3
  <2> QED BY <1>1, <2>2, <2>3, <2>4 DEF GotosDiagnosedExactly
<1> QED BY <1>1, <1>2, <1>3, <1>4, <1>5 DEF IInv


\* Nodes that change nothing the second walk keeps.
LEMMA PassesOver ==
  ASSUME NEW node, Replaying(node), node \notin Mention,
         node = "end" => tree[tree[pos + 1].num].node # "function",
         UNCHANGED <<ids, labels, generator>>, status' \in {"ok", "assert"}
  PROVE  IInv'
<1>1. /\ TreeOK(tree) /\ SecondOK(tree, ids, pos, labels)
      /\ tree \in Tree /\ Len(tree) \in Nat
      /\ ids \in Seq(Ids) /\ Len(ids) = Len(tree)
      /\ labels \in Seq(Entry) /\ generator \in Nat
      /\ pos \in 0 .. Len(tree) /\ pos < Len(tree) /\ tree[pos + 1].node = node
  BY ReplayingIs
<1>2. Current(tree, pos + 1) = Current(tree, pos)
  <2>1. \A q : q \in Current(tree, pos + 1) <=>
                 q \in Current(tree, pos) \/ (q = pos + 1 /\ tree[q].node \in Mention)
    BY <1>1, CurrentGrows
  <2> QED BY <1>1, <2>1
<1>3. LabelsOK(tree, ids, pos + 1, labels)
  BY <1>1, <1>2 DEF SecondOK, LabelsOK
<1>4. ResolvedOK(tree, ids, pos + 1)
  BY <1>1, ResolvedKept DEF SecondOK
<1>5. SecondOK(tree, ids', pos + 1, labels')
  BY <1>3, <1>4 DEF SecondOK
<1>6. ids' \in Seq(Ids) /\ Len(ids') = Len(ids) /\ labels' \in Seq(Entry) /\ generator' \in Nat
  BY <1>1
<1> QED BY <1>5, <1>6, SecondStep

LEMMA MarkedView ==
  \A n, flag : WithLabel(n, flag) = Marked(labels, n, flag, generator)
BY DEF WithLabel, Marked, WithFresh, Fresh, Named


\* A goto or a label is recorded.
LEMMA Records ==
  ASSUME NEW node \in Mention, Replaying(node), NEW flag \in Flags,
         node = "label" <=> flag = "used_as_label",
         node = "label" => ~ IsLabel(tree[pos + 1].name),
         Record(tree[pos + 1].name, flag), status' = status
  PROVE  IInv'
<1> DEFINE nm == tree[pos + 1].name
           m  == Marked(labels, nm, flag, generator)
           u  == (CHOOSE e \in {m[k] : k \in 1 .. Len(m)} : e.name = nm).id
<1>1. /\ TreeOK(tree) /\ SecondOK(tree, ids, pos, labels) /\ status = "ok"
      /\ tree \in Tree /\ Len(tree) \in Nat
      /\ ids \in Seq(Ids) /\ Len(ids) = Len(tree)
      /\ labels \in Seq(Entry) /\ generator \in Nat
      /\ pos \in 0 .. Len(tree) /\ pos < Len(tree)
      /\ pos + 1 \in 1 .. Len(tree) /\ tree[pos + 1].node = node
  BY ReplayingIs
<1>2. nm \in Name
  BY <1>1 DEF TreeOK, MentionsNamed
<1>3. NamesDiffer(labels)
  BY <1>1 DEF SecondOK, LabelsOK, NamesDiffer
<1>4. /\ m \in Seq(Entry) /\ Len(m) = Len(WithFresh(labels, nm, generator))
      /\ \A k \in 1 .. Len(m) : m[k].name = WithFresh(labels, nm, generator)[k].name
  <2> HIDE DEF nm
  <2>1. LET w   == Marked(labels, nm, flag, generator)
            all == WithFresh(labels, nm, generator)
        IN  /\ w \in Seq(Entry) /\ Len(w) = Len(all)
            /\ \A k \in 1 .. Len(w) : w[k].name = all[k].name
    BY <1>1, <1>2, <1>3, MarkedIs
  <2> QED BY <2>1
<1>5. \E k \in 1 .. Len(m) : m[k].name = nm
  <2> HIDE DEF nm, m
  <2>1. labels \in Seq(Entry) /\ generator \in Nat
    BY <1>1
  <2>2. LET all == WithFresh(labels, nm, generator) IN
        \E k \in 1 .. Len(all) : all[k].name = nm
    BY <1>2, <1>3, <2>1, WithFreshIs
  <2> QED BY <1>4, <2>2
<1>6. labels' = m
  BY MarkedView DEF Record
<1>7. ids' = [ids EXCEPT ![pos + 1].unique = u]
  <2>1. ids' = [ids EXCEPT ![pos + 1].unique =
                  (CHOOSE e \in {labels'[k] : k \in 1 .. Len(labels')} : e.name = nm).id]
    BY DEF Record, Next2
  <2> HIDE DEF m
  <2> QED BY <1>6, <2>1
<1>8. u \in Nat /\ \E k \in 1 .. Len(m) : m[k].name = nm /\ u = m[k].id
  <2> DEFINE E  == {m[k] : k \in 1 .. Len(m)}
             e0 == CHOOSE e \in E : e.name = nm
  <2> HIDE DEF m
  <2>1. e0 \in E /\ e0.name = nm
    BY <1>5
  <2>2. u = e0.id
    OBVIOUS
  <2> HIDE DEF u, e0
  <2>3. PICK k \in 1 .. Len(m) : e0 = m[k]
    BY <2>1
  <2>4. e0 \in Entry
    BY <1>4, <2>3, ElementOfSeq
  <2>5. e0.id \in Nat
    BY <2>4 DEF Entry
  <2> QED BY <2>1, <2>2, <2>3, <2>5
<1> HIDE DEF m, u
<1>9. /\ ids' \in Seq(Ids) /\ Len(ids') = Len(ids)
      /\ ids'[pos + 1].unique = u
      /\ \A q \in 1 .. pos : ids'[q].unique = ids[q].unique
  <2> DEFINE r == [ids[pos + 1] EXCEPT !.unique = u]
  <2>1. ids' = [ids EXCEPT ![pos + 1] = r]
    BY <1>7
  <2>2. ids[pos + 1] \in Ids
    BY <1>1, ElementOfSeq
  <2>3. r \in Ids /\ r.unique = u
    <3>1. \A o \in Ids, n \in Nat : [o EXCEPT !.unique = n] \in Ids
                                    /\ [o EXCEPT !.unique = n].unique = n
      BY DEF Ids
    <3> QED BY <1>8, <2>2, <3>1
  <2> HIDE DEF r
  <2>4. /\ ids' \in Seq(Ids) /\ Len(ids') = Len(ids) /\ ids'[pos + 1] = r
        /\ \A q \in 1 .. Len(ids) : q # pos + 1 => ids'[q] = ids[q]
    BY <1>1, <2>1, <2>3, ExceptSeq
  <2>5. \A q \in 1 .. pos : q \in 1 .. Len(ids) /\ q # pos + 1
    BY <1>1
  <2> QED BY <2>3, <2>4, <2>5
<1>10. node = "label" =>
         ~ \E k \in 1 .. Len(labels) : labels[k].name = nm /\ labels[k].used_as_label
  BY DEF IsLabel, Named
<1>11. LabelsOK(tree, ids', pos + 1, m)
  <2>1. LabelsOK(tree, ids, pos, labels)
    BY <1>1 DEF SecondOK
  <2>2. \E k \in 1 .. Len(m) : m[k].name = nm /\ ids'[pos + 1].unique = m[k].id
    BY <1>8, <1>9
  <2>3. m = Marked(labels, nm, flag, generator)
    BY DEF m
  <2>4. tree[pos + 1].name = nm
    OBVIOUS
  <2> HIDE DEF nm
  <2> QED BY <1>1, <1>2, <1>9, <1>10, <2>1, <2>2, <2>3, <2>4, RecordStep
<1>12. ResolvedOK(tree, ids', pos + 1)
  <2>1. tree[pos + 1].node # "end" /\ ResolvedOK(tree, ids, pos)
    BY <1>1 DEF Mention, SecondOK
  <2> QED BY <1>1, <1>9, <2>1, ResolvedKept
<1>13. SecondOK(tree, ids', pos + 1, labels')
  BY <1>6, <1>11, <1>12 DEF SecondOK
<1>14. generator' \in Nat
  BY <1>1 DEF Record
<1>15. labels' \in Seq(Entry) /\ status' = "ok"
  BY <1>1, <1>4, <1>6
<1> QED BY <1>9, <1>13, <1>14, <1>15, SecondStep

LEMMA GotoIds == ASSUME IInv, GotoId PROVE IInv'
<1>1. Replaying("goto") /\ Record(tree[pos + 1].name, "used_as_target") /\ status' = status
  BY DEF GotoId, Next2, Replaying
<1>2. "goto" \in Mention /\ "used_as_target" \in Flags
  BY DEF Mention, Flags
<1> QED BY <1>1, <1>2, Records

LEMMA LabelIds == ASSUME IInv, LabelId PROVE IInv'
<1> DEFINE nm == tree[pos + 1].name
<1>1. Replaying("label")
  BY DEF LabelId, Replaying
<1>2. CASE ~ IsLabel(nm)
  <2>1. Record(nm, "used_as_label") /\ status' = status
    BY <1>2 DEF LabelId, Next2
  <2>2. "label" \in Mention /\ "used_as_label" \in Flags
    BY DEF Mention, Flags
  <2> QED BY <1>1, <1>2, <2>1, <2>2, Records
<1>3. CASE IsLabel(nm)
  <2>1. status' = "label_duplicate" /\ UNCHANGED <<ids, labels, generator>>
    BY <1>3 DEF LabelId, Next2
  <2>2. /\ TreeOK(tree) /\ SecondOK(tree, ids, pos, labels)
        /\ tree \in Tree /\ Len(tree) \in Nat
        /\ ids \in Seq(Ids) /\ labels \in Seq(Entry) /\ generator \in Nat
        /\ pos \in 0 .. Len(tree) /\ pos < Len(tree) /\ tree[pos + 1].node = "label"
    BY <1>1, ReplayingIs
  <2>3. \E k \in 1 .. Len(labels) : labels[k].name = nm /\ labels[k].used_as_label
    BY <1>3 DEF IsLabel, Named
  <2>4. PICK q \in LabelsIn(tree, pos + 1, nm) :
          q # pos + 1 /\ pos + 1 \in LabelsIn(tree, pos + 1, nm)
    BY <2>2, <2>3, DuplicateIsReal DEF SecondOK
  <2>5. Cardinality(LabelsIn(tree, pos + 1, nm)) > 1
    <3> DEFINE L == LabelsIn(tree, pos + 1, nm)
    <3>1. IsFiniteSet(L)
      <4>1. L \subseteq 1 .. Len(tree)
        BY DEF LabelsIn
      <4>2. IsFiniteSet(1 .. Len(tree))
        BY <2>2, FS_Interval
      <4> QED BY <4>1, <4>2, FS_Subset
    <3>2. Cardinality({q}) = 1 /\ {q} \in SUBSET L /\ {q} # L
      BY <2>4, FS_Singleton
    <3> HIDE DEF L
    <3>3. Cardinality(L) \in Nat
      BY <3>1, FS_CardinalityType
    <3>4. /\ Cardinality({q}) <= Cardinality(L)
          /\ Cardinality(L) = Cardinality({q}) => L = {q}
      BY <3>1, <3>2, FS_Subset
    <3>5. Cardinality(L) > 1
      BY <3>2, <3>3, <3>4
    <3> QED BY <3>5 DEF L
  <2> QED BY <1>1, <2>1, <2>2, <2>5, SecondStep
<1> QED BY <1>2, <1>3


LEMMA EntersFunctionLabels == ASSUME IInv, FunctionLabels PROVE IInv'
<1>1. PICK node \in {"function", "prototype"} : Replaying(node)
  BY DEF FunctionLabels, Replaying
<1>2. status = "ok"
  BY <1>1, ReplayingIs
<1>3. UNCHANGED <<ids, labels, generator>> /\ status' \in {"ok", "assert"}
  BY <1>2 DEF FunctionLabels
<1>4. node \notin Mention /\ node # "end"
  BY DEF Mention
<1> QED BY <1>1, <1>3, <1>4, PassesOver

LEMMA PassedOver == ASSUME IInv, PassOver PROVE IInv'
<1>1. PICK node \in {"loop", "switch", "if", "ifelse", "else", "logical", "return",
                     "break", "continue", "case", "default"} : Replaying(node)
  BY DEF PassOver, Replaying
<1>2. status = "ok"
  BY <1>1, ReplayingIs
<1>3. UNCHANGED <<ids, labels, generator>> /\ status' \in {"ok", "assert"}
  BY <1>2 DEF PassOver
<1>4. node \notin Mention /\ node # "end"
  BY <1>1 DEF Mention
<1> QED BY <1>1, <1>3, <1>4, PassesOver

LEMMA EndsFunction == ASSUME IInv, EndFunctionLabels PROVE IInv'
<1>1. Replaying("end") /\ UNCHANGED <<ids, generator>>
  BY DEF EndFunctionLabels, Replaying
<1>2. /\ TreeOK(tree) /\ SecondOK(tree, ids, pos, labels) /\ status = "ok"
      /\ tree \in Tree /\ Len(tree) \in Nat
      /\ ids \in Seq(Ids) /\ labels \in Seq(Entry) /\ generator \in Nat
      /\ pos \in 0 .. Len(tree) /\ pos < Len(tree) /\ tree[pos + 1].node = "end"
  BY <1>1, ReplayingIs
<1>3. CASE tree[tree[pos + 1].num].node # "function"
  <2>1. UNCHANGED <<labels, status>>
    BY <1>3 DEF EndFunctionLabels, Next2
  <2>2. "end" \notin Mention
    BY DEF Mention
  <2> QED BY <1>1, <1>2, <1>3, <2>1, <2>2, PassesOver
<1>4. CASE tree[tree[pos + 1].num].node = "function"
  <2> DEFINE missing == \E k \in 1 .. Len(labels) :
                          labels[k].used_as_target /\ ~ labels[k].used_as_label
  <2>1. CASE missing
    <3>1. status' = "goto_nonexistent" /\ labels' = labels
      BY <1>4, <2>1 DEF EndFunctionLabels, Next2
    <3>2. \E p \in 1 .. pos : /\ tree[p].node = "goto"
                              /\ Function(tree, p) = tree[pos + 1].num
                              /\ LabelsIn(tree, p, tree[p].name) = {}
      <4>1. LabelsOK(tree, ids, pos, labels)
        BY <1>2 DEF SecondOK
      <4> QED BY <1>2, <1>4, <2>1, <4>1, NonexistentIsReal
    <3> QED BY <1>1, <1>2, <3>1, <3>2, SecondStep
  <2>2. CASE ~ missing
    <3>1. status' = "ok" /\ labels' = <<>>
      BY <1>2, <1>4, <2>2 DEF EndFunctionLabels, Next2
    <3>2. SecondOK(tree, ids, pos + 1, <<>>)
      BY <1>2, <1>4, <2>2, FunctionEnds
    <3>3. labels' \in Seq(Entry)
      BY <3>1
    <3>4. ids' = ids /\ generator' = generator
      BY <1>1
    <3> QED BY <1>1, <1>2, <3>1, <3>2, <3>3, <3>4, SecondStep
  <2> QED BY <2>1, <2>2
<1> QED BY <1>3, <1>4

\* The compilation goes on: every goto and label is resolved.
LEMMA EndsGotos == ASSUME IInv, EndGotos PROVE IInv'
<1>1. /\ pass = "gotos" /\ status = "ok" /\ pos = Len(tree) /\ pass' = "labelled"
      /\ UNCHANGED <<tree, ids, open, container, labels, generator, pos, status>>
  BY DEF EndGotos
<1>2. /\ TypeOK /\ TreeOK(tree) /\ AllEnded(tree) /\ Diagnosed(tree, "ok")
      /\ SecondOK(tree, ids, pos, labels)
  BY <1>1 DEF IInv
<1>3. tree \in Tree /\ Len(tree) \in Nat
  BY <1>2, TreeType
<1>4. TypeOK'
  BY <1>1, <1>2 DEF TypeOK
<1>5. GotosDiagnosedExactly'
  <2>1. /\ \A p, n : LabelsNamed(p, n)' = LabelsNamed(p, n)
        /\ tree' = tree /\ ids' = ids
    BY <1>1 DEF LabelsNamed, SameFunction, Closest, Around, Position
  <2>2. ASSUME NEW p \in 1 .. Len(tree), tree[p].node \in {"goto", "label"}
        PROVE  /\ Cardinality(LabelsNamed(p, tree[p].name)) = 1
               /\ \A q \in LabelsNamed(p, tree[p].name) : ids[q].unique = ids[p].unique
    <3>1. Resolved(tree, ids, p)
      BY <1>1, <1>2, <1>3, <2>2, AllResolved DEF SecondOK, Mention
    <3>2. PICK q \in 1 .. Len(tree) :
            /\ LabelsIn(tree, p, tree[p].name) = {q}
            /\ ids[q].unique = ids[p].unique
      BY <3>1 DEF Resolved
    <3>3. LabelsNamed(p, tree[p].name) = {q}
      BY <3>2, Views
    <3>4. Cardinality({q}) = 1
      BY FS_Singleton
    <3> QED BY <3>2, <3>3, <3>4
  <2>3. status' = "ok"
    BY <1>1
  <2> QED BY <2>1, <2>2, <2>3 DEF GotosDiagnosedExactly
<1>6. status' \in Statuses /\ status' \notin Misplaced
  BY <1>1 DEF Statuses, Misplaced
<1>7. SecondOK(tree, ids, pos, labels)'
  BY <1>1, <1>2
<1> QED BY <1>1, <1>2, <1>4, <1>5, <1>6, <1>7 DEF IInv

(***************************************************************************)
(* The theorems.                                                           *)
(***************************************************************************)
LEMMA IInit == Init => IInv
<1> SUFFICES ASSUME Init PROVE IInv
  OBVIOUS
<1>1. /\ tree = <<>> /\ ids = <<>> /\ open = <<>> /\ container = <<>> /\ labels = <<>>
      /\ generator = 0 /\ pos = 0 /\ pass = "loops" /\ status = "ok" /\ Len(<<>>) = 0
  BY DEF Init
<1>2. TypeOK
  <2>1. \A S : <<>> \in Seq(S)
    OBVIOUS
  <2>2. 0 =< NestingLimit
    BY BoundAssumption
  <2> QED BY <1>1, <2>1, <2>2 DEF TypeOK
<1>3. TreeOK(<<>>)
  BY <1>1 DEF TreeOK, EndsOK, FunctionsApart, MentionsInside, CasesTyped, MentionsNamed
<1>4. FirstOK(<<>>, <<>>, <<>>, <<>>)
  BY <1>1 DEF FirstOK, OpenOK, ContainerOK, SwitchOK
<1>5. Diagnosed(<<>>, "ok")
  BY <1>1 DEF Diagnosed
<1>6. GotosDiagnosedExactly
  BY <1>1 DEF GotosDiagnosedExactly
<1> QED BY <1>1, <1>2, <1>3, <1>4, <1>5, <1>6 DEF IInv, Statuses

LEMMA IStuttering == ASSUME IInv, UNCHANGED vars PROVE IInv'
<1>1. /\ tree' = tree /\ ids' = ids /\ open' = open /\ container' = container
      /\ labels' = labels /\ generator' = generator /\ pos' = pos /\ pass' = pass
      /\ status' = status
  BY DEF vars
<1>2. TypeOK'
  BY <1>1 DEF IInv, TypeOK
<1>3. GotosDiagnosedExactly'
  <2>1. /\ \A p, n : LabelsNamed(p, n)' = LabelsNamed(p, n)
        /\ \A p, kinds : Closest(p, kinds)' = Closest(p, kinds)
    BY <1>1 DEF LabelsNamed, SameFunction, Closest, Around, Position
  <2> QED BY <1>1, <2>1 DEF IInv, GotosDiagnosedExactly
<1> QED BY <1>1, <1>2, <1>3 DEF IInv

LEMMA IStep == IInv /\ [Next]_vars => IInv'
<1> SUFFICES ASSUME IInv, [Next]_vars PROVE IInv'
  OBVIOUS
<1>1. CASE EnterFunction
  BY <1>1, EntersFunction
<1>2. CASE Prototype
  BY <1>2, MeetsPrototype
<1>3. CASE \E test \in Tests : EnterLoop(test)
  BY <1>3, EntersLoop
<1>4. CASE \E control \in Controls : EnterSwitch(control)
  BY <1>4, EntersSwitch
<1>5. CASE \E node \in {"if", "ifelse"} : EnterIf(node)
  BY <1>5, EntersIf
<1>6. CASE Else
  BY <1>6, MeetsElse
<1>7. CASE Break
  BY <1>7, MeetsBreak
<1>8. CASE Continue
  BY <1>8, MeetsContinue
<1>9. CASE Default
  BY <1>9, MeetsDefault
<1>10. CASE \/ \E node \in {"logical", "return"} : Other(node)
            \/ \E n \in Name : Goto(n) \/ Label(n)
  BY <1>10, MeetsPlain
<1>11. CASE \E v \in Value : Case(v)
  BY <1>11, MeetsCase
<1>12. CASE Exit
  BY <1>12, Leaves
<1>13. CASE EndLoops
  BY <1>13, EndsLoops
<1>14. CASE GotoId
  BY <1>14, GotoIds
<1>15. CASE LabelId
  BY <1>15, LabelIds
<1>16. CASE FunctionLabels
  BY <1>16, EntersFunctionLabels
<1>17. CASE EndFunctionLabels
  BY <1>17, EndsFunction
<1>18. CASE PassOver
  BY <1>18, PassedOver
<1>19. CASE EndGotos
  BY <1>19, EndsGotos
<1>20. CASE UNCHANGED vars
  BY <1>20, IStuttering
<1> QED
  BY <1>1, <1>2, <1>3, <1>4, <1>5, <1>6, <1>7, <1>8, <1>9, <1>10, <1>11, <1>12,
     <1>13, <1>14, <1>15, <1>16, <1>17, <1>18, <1>19, <1>20 DEF Next

\* The stack of containers, the lists in the switches and the list of labels
\* are at every moment what the tree met so far calls for.
THEOREM IInvariance == Spec => []IInv
<1>1. Init => IInv
  BY IInit
<1>2. IInv /\ [Next]_vars => IInv'
  BY IStep
<1> QED BY <1>1, <1>2, PTL DEF Spec

\* Every variable of the walks keeps its type, the stack its limit.
THEOREM LabelsTyped == Spec => []TypeOK
<1>1. IInv => TypeOK
  BY DEF IInv
<1> QED BY <1>1, IInvariance, PTL

\* sema_label_loops refuses a break, continue, case or default exactly when C
\* does, for trees of any size and nesting.
THEOREM LoopsRefusedAsInC == Spec => []LoopsDiagnosedExactly
<1>1. IInv => LoopsDiagnosedExactly
  BY LoopsView DEF IInv
<1> QED BY <1>1, IInvariance, PTL

\* sema_label_gotos refuses a function exactly when a label is declared twice
\* or a goto has none, and gives every goto the ID of its own label.
THEOREM GotosReachTheirLabels == Spec => []GotosDiagnosedExactly
<1>1. IInv => GotosDiagnosedExactly
  BY DEF IInv
<1> QED BY <1>1, IInvariance, PTL
=============================================================================
