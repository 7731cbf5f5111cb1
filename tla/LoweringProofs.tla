---------------------------- MODULE LoweringProofs ----------------------------
(***************************************************************************)
(* Proofs about module Lowering: for every tree the assembler sees each     *)
(* label once, and every jump has its label in the function it is in.      *)
(* First, what the two walks leave in the tree: whose ID is whose.  Then   *)
(* what the lowering makes of it.                                          *)
(***************************************************************************)
EXTENDS Lowering, LabelsProofs

(***************************************************************************)
(* How the constructs of a tree lie.                                       *)
(***************************************************************************)
IfNodes == {"if", "ifelse"}

\* A construct inside another one ends first.
EndsNested(t) ==
  \A i, j \in 1 .. Len(t) :
    t[i].node \in Constructs /\ t[j].node \in Constructs /\ i < j =>
      \A k \in EndsOf(t, i) : j < k => \E l \in EndsOf(t, j) : l < k

\* Functions are outside of all other constructs.
FunctionsOutside(t) ==
  \A i, f \in 1 .. Len(t) :
    t[i].node \in Constructs /\ t[f].node = "function" /\ i < f =>
      \E k \in EndsOf(t, i) : k < f

ElsesOf(t, i) == {p \in 1 .. Len(t) : t[p].node = "else" /\ t[p].num = i}

\* An else is the one of the innermost construct around it.
ElsesOK(t) ==
  \A p \in 1 .. Len(t) : t[p].node = "else" =>
    /\ t[p].num \in 1 .. p - 1
    /\ t[t[p].num].node = "ifelse"
    /\ \A k \in EndsOf(t, t[p].num) : p < k
    /\ \A j \in 1 .. Len(t) :
         t[p].num < j /\ j < p /\ t[j].node \in Constructs => \E l \in EndsOf(t, j) : l < p
    /\ ElsesOf(t, t[p].num) = {p}

IfsHaveElses(t) ==
  \A i \in 1 .. Len(t) : t[i].node = "ifelse" =>
    \A k \in EndsOf(t, i) : \E p \in ElsesOf(t, i) : p < k

Nested(t) == EndsNested(t) /\ FunctionsOutside(t) /\ ElsesOK(t) /\ IfsHaveElses(t)

EveryEnded(t) ==
  \A i \in 1 .. Len(t) : t[i].node \in Constructs => EndsOf(t, i) # {}

(***************************************************************************)
(* The IDs in it.  Node i defines ID x: it stands for a place of its own.  *)
(***************************************************************************)
Owned(t, d, i, x) ==
  \/ t[i].node = "loop" /\ (x = d[i].start \/ x = d[i].continue \/ x = d[i].end)
  \/ t[i].node = "switch" /\ x = d[i].end
  \/ t[i].node \in {"case", "default", "label"} /\ x = d[i].unique /\ x # Unset

\* No ID is handed out twice, those from g on not at all.
OwnersApart(t, d, g) ==
  /\ \A i \in 1 .. Len(t) : \A x : Owned(t, d, i, x) => x \in Nat /\ x < g
  /\ \A i, j \in 1 .. Len(t) : \A x : Owned(t, d, i, x) /\ Owned(t, d, j, x) => i = j
  /\ \A i \in 1 .. Len(t) : t[i].node = "loop" =>
       d[i].start # d[i].continue /\ d[i].start # d[i].end /\ d[i].continue # d[i].end

\* Whose ID break and continue have, the list of a switch and its default.
BreaksOK(t, d) ==
  \A p \in 1 .. Len(t) : t[p].node = "break" =>
    Nearest(t, p, Breakable) # 0 /\ d[p].unique = d[Nearest(t, p, Breakable)].end
ContinuesOK(t, d) ==
  \A p \in 1 .. Len(t) : t[p].node = "continue" =>
    Nearest(t, p, {"loop"}) # 0 /\ d[p].unique = d[Nearest(t, p, {"loop"})].continue
CasesOK(t, d) ==
  \A i \in 1 .. Len(t) : t[i].node = "switch" =>
    \A k \in 1 .. Len(d[i].cases) : \E q \in 1 .. Len(t) :
      Within(t, q, i, "case") /\ d[q].unique = d[i].cases[k].unique
DefaultsOK(t, d) ==
  \A i \in 1 .. Len(t) : t[i].node = "switch" =>
    \/ d[i].default = UnsetDefault
    \/ \E q \in 1 .. Len(t) : Within(t, q, i, "default") /\ d[q].unique = d[i].default

\* The nodes that have an ID, the labels among the first n.
NumberedUpTo(t, d, n) ==
  \A p \in 1 .. Len(t) :
    /\ t[p].node \in {"case", "default"} => d[p].unique # Unset
    /\ t[p].node = "label" => (d[p].unique # Unset <=> p =< n)

TargetsOK(t, d, n) ==
  /\ BreaksOK(t, d) /\ ContinuesOK(t, d) /\ CasesOK(t, d) /\ DefaultsOK(t, d)
  /\ NumberedUpTo(t, d, n)

\* The IDs in the list of labels: none twice, each at no node but the label of
\* this function that has its name.
EntriesApart(t, d, l, g, n) ==
  /\ \A k \in 1 .. Len(l) : l[k].id =< g
  /\ \A j, k \in 1 .. Len(l) : l[j].id = l[k].id => j = k
  /\ \A k \in 1 .. Len(l) : \A p \in 1 .. Len(t) :
       Owned(t, d, p, l[k].id) =>
         p \in Current(t, n) /\ Uses(t, p, l[k].name, "label")

NextId == IF pass = "loops" THEN generator ELSE generator + 1

\* As long as nothing is refused:
JInv ==
  status = "ok" =>
    /\ Nested(tree)
    /\ OwnersApart(tree, ids, NextId)
    /\ TargetsOK(tree, ids, pos)
    /\ EntriesApart(tree, ids, labels, generator, pos)
    /\ pass # "loops" => EveryEnded(tree)

(***************************************************************************)
(* The lowering.  Node p is where the label of ID x is put.                *)
(***************************************************************************)
Places(t, d, p, x) ==
  \/ t[p].node = "loop" /\ x = d[p].start
  \/ t[p].node \in {"case", "default", "label"} /\ x = d[p].unique
  \/ t[p].node = "end" /\ t[t[p].num].node = "loop"
       /\ (x = d[t[p].num].continue \/ x = d[t[p].num].end)
  \/ t[p].node = "end" /\ t[t[p].num].node = "switch" /\ x = d[t[p].num].end

Together(t, p, q) == Function(t, p) = Function(t, q)

IsLabelOp(c, k, x) == c[k].op = "label" /\ c[k].id = x

\* The activations of ir_if_else after n nodes: o says whose they are.
OpenIf(t, n, i) == t[i].node \in IfNodes /\ \A k \in EndsOf(t, i) : n < k
Elsed(t, n, i) == \E p \in 1 .. n : t[p].node = "else" /\ t[p].num = i
ClausesOf(t, n, o) ==
  /\ \A j, k \in 1 .. Len(o) : j < k => o[j] < o[k]
  /\ \A i : IsOpen(o, i) <=> i \in 1 .. n /\ OpenIf(t, n, i)

\* Activation m still has to put the label of ID x.
Awaits(t, n, o, c, m, x) ==
  \/ x = c[m].cond /\ ~ Elsed(t, n, o[m])
  \/ x = c[m].end /\ t[o[m]].node = "ifelse"

ClausesOK(t, n, o, c, base, e) ==
  /\ Len(o) = Len(c) /\ ClausesOf(t, n, o)
  /\ \A m \in 1 .. Len(c) :
       /\ c[m].cond \in base .. e - 1
       /\ t[o[m]].node = "ifelse" => c[m].end \in base .. e - 1 /\ c[m].cond # c[m].end
  /\ \A l, m \in 1 .. Len(c) : \A x :
       Awaits(t, n, o, c, l, x) /\ Awaits(t, n, o, c, m, x) => l = m

\* Every label so far is one no other operation puts.
LabelsPut(t, d, n, c, base, e) ==
  /\ \A k \in 1 .. Len(c) : c[k].op = "label" =>
       /\ c[k].id \in 0 .. e - 1
       /\ c[k].id < base => Places(t, d, c[k].from, c[k].id)
  /\ \A k, l \in 1 .. Len(c) :
       c[k].op = "label" /\ c[l].op = "label" /\ c[k].id = c[l].id => k = l
  /\ \A p \in 1 .. n : \A x : Places(t, d, p, x) =>
       \E k \in 1 .. Len(c) : IsLabelOp(c, k, x) /\ c[k].from = p

\* Every jump has its label or will have it, in its function.
Destined(t, d, n, o, cl, c, k, base, e) ==
  \/ /\ c[k].id < base
     /\ \E q \in 1 .. Len(t) : Places(t, d, q, c[k].id) /\ Together(t, c[k].from, q)
  \/ /\ c[k].id \in base .. e - 1
     /\ \/ \E l \in 1 .. Len(c) :
             IsLabelOp(c, l, c[k].id) /\ Together(t, c[k].from, c[l].from)
        \/ \E m \in 1 .. Len(cl) :
             Awaits(t, n, o, cl, m, c[k].id) /\ Together(t, c[k].from, o[m])

JumpsDestined(t, d, n, o, cl, c, base, e) ==
  \A k \in 1 .. Len(c) :
    IF c[k].op = "ret" THEN c[k].id = Unset
    ELSE c[k].id \in Nat /\ Destined(t, d, n, o, cl, c, k, base, e)

\* What an activation awaits is not there yet.
NotYet(t, n, o, cl, c) ==
  \A m \in 1 .. Len(cl) : \A k \in 1 .. Len(c) :
    c[k].op = "label" => ~ Awaits(t, n, o, cl, m, c[k].id)

CodeOK(t, d, n, o, cl, c, base, e) ==
  /\ ClausesOK(t, n, o, cl, base, e)
  /\ LabelsPut(t, d, n, c, base, e)
  /\ JumpsDestined(t, d, n, o, cl, c, base, e)
  /\ NotYet(t, n, o, cl, c)

Operation(n) ==
  [op: {"label", "jump", "jump_if_zero", "jump_if_equal", "ret"},
   id: {Unset} \cup Nat, value: Nat, from: 1 .. n]

Clause == [cond: Nat, end: {Unset} \cup Nat]

LTypeOK ==
  /\ code \in Seq(Operation(at))
  /\ starts \in Seq(1 .. Len(code) + 1) /\ Len(starts) = at
  /\ clauses \in Seq(Clause)
  /\ env_labels \in Nat
  /\ at \in 0 .. Len(tree)

LInv ==
  /\ IInv /\ JInv /\ LTypeOK
  /\ env_labels = 0 => at = 0 /\ code = <<>> /\ clauses = <<>>
  /\ env_labels # 0 =>
       /\ pass = "labelled" /\ generator < env_labels
       /\ \E o \in Seq(1 .. at) :
            CodeOK(tree, ids, at, o, clauses, code, generator + 1, env_labels)

(***************************************************************************)
(* The first walk keeps the constructs nested.                             *)
(***************************************************************************)
\* An else is that of the innermost construct, and only one; no ifelse ends
\* without.
ElseFits(t, o, x) ==
  /\ x.node = "else" => /\ t[o[Len(o)]].node = "ifelse"
                        /\ x.num = o[Len(o)] /\ ElsesOf(t, o[Len(o)]) = {}
  /\ x.node = "end" /\ t[o[Len(o)]].node = "ifelse" => ElsesOf(t, o[Len(o)]) # {}

\* The ends and elses of construct i, with node x added.
LEMMA EndsGrow ==
  ASSUME NEW t \in Tree, NEW x \in Statement, NEW i
  PROVE  /\ \A k : k \in EndsOf(Append(t, x), i) <=>
              k \in EndsOf(t, i) \/ (k = Len(t) + 1 /\ x.node = "end" /\ x.num = i)
         /\ \A k : k \in ElsesOf(Append(t, x), i) <=>
              k \in ElsesOf(t, i) \/ (k = Len(t) + 1 /\ x.node = "else" /\ x.num = i)
         /\ \A k \in EndsOf(t, i) : k \in 1 .. Len(t)
         /\ \A k \in ElsesOf(t, i) : k \in 1 .. Len(t)
<1>1. /\ Len(t) \in Nat /\ Len(Append(t, x)) = Len(t) + 1
      /\ \A k \in 1 .. Len(t) : Append(t, x)[k] = t[k]
      /\ Append(t, x)[Len(t) + 1] = x
  BY TreeGrows
<1>2. 1 .. Len(t) + 1 = 1 .. Len(t) \cup {Len(t) + 1} /\ Len(t) + 1 \notin 1 .. Len(t)
  BY <1>1
<1> DEFINE u == Append(t, x)
<1> HIDE DEF u
<1>3. /\ \A k : k \in EndsOf(u, i) <=>
           k \in EndsOf(t, i) \/ (k = Len(t) + 1 /\ x.node = "end" /\ x.num = i)
  BY <1>1, <1>2 DEF EndsOf, u
<1>4. \A k : k \in ElsesOf(u, i) <=>
           k \in ElsesOf(t, i) \/ (k = Len(t) + 1 /\ x.node = "else" /\ x.num = i)
  BY <1>1, <1>2 DEF ElsesOf, u
<1> QED BY <1>3, <1>4 DEF u, EndsOf, ElsesOf

\* What lies above the innermost open construct has ended.
LEMMA AboveTopEnded ==
  ASSUME NEW t \in Tree, NEW o \in Stack(t), OpenOK(t, o), o # <<>>,
         NEW j \in 1 .. Len(t), t[j].node \in Constructs, o[Len(o)] < j
  PROVE  EndsOf(t, j) # {}
<1> SUFFICES ASSUME EndsOf(t, j) = {} PROVE FALSE
  OBVIOUS
<1>1. /\ \A m, n \in 1 .. Len(o) : m < n => o[m] < o[n]
      /\ IsOpen(o, j)
  BY DEF OpenOK
<1>2. Len(o) \in Nat \ {0} /\ o[Len(o)] \in 1 .. Len(t) /\ Len(t) \in Nat
  BY TopIsOpen, TreeGrows DEF Tree
<1>3. PICK m \in 1 .. Len(o) : o[m] = j
  BY <1>1 DEF IsOpen
<1>4. CASE m = Len(o)
  BY <1>2, <1>3, <1>4
<1>5. CASE m < Len(o)
  <2>1. j < o[Len(o)]
    BY <1>1, <1>2, <1>3, <1>5
  <2> QED BY <1>2, <2>1
<1> QED BY <1>2, <1>4, <1>5

LEMMA EndsStayNested ==
  ASSUME NEW t \in Tree, NEW o \in Stack(t), NEW x \in Statement,
         OpenOK(t, o), Fitting(t, o, x), EndsNested(t)
  PROVE  EndsNested(Append(t, x))
<1> DEFINE u == Append(t, x)
<1>1. /\ Len(t) \in Nat /\ Len(u) = Len(t) + 1
      /\ \A k \in 1 .. Len(t) : u[k] = t[k]
  BY TreeGrows
<1>2. \A i, k : k \in EndsOf(u, i) <=>
        k \in EndsOf(t, i) \/ (k = Len(t) + 1 /\ x.node = "end" /\ x.num = i)
  BY EndsGrow
<1>3. \A i : \A k \in EndsOf(t, i) : k \in 1 .. Len(t)
  BY DEF EndsOf
<1> HIDE DEF u
<1> SUFFICES ASSUME NEW i \in 1 .. Len(u), NEW j \in 1 .. Len(u),
                    u[i].node \in Constructs, u[j].node \in Constructs, i < j,
                    NEW k \in EndsOf(u, i), j < k
             PROVE  \E l \in EndsOf(u, j) : l < k
  BY DEF EndsNested, u
<1>4. k =< Len(t) + 1
  BY <1>1, <1>2, <1>3
<1>5. /\ i \in 1 .. Len(t) /\ j \in 1 .. Len(t)
      /\ t[i].node \in Constructs /\ t[j].node \in Constructs
  <2>1. i \in 1 .. Len(t) /\ j \in 1 .. Len(t)
    BY <1>1, <1>2, <1>3, <1>4
  <2> QED BY <1>1, <2>1
<1>6. CASE k \in EndsOf(t, i)
  <2>1. PICK l \in EndsOf(t, j) : l < k
    BY <1>5, <1>6 DEF EndsNested
  <2> QED BY <1>2, <2>1
<1>7. CASE k = Len(t) + 1 /\ x.node = "end" /\ x.num = i
  <2>1. o # <<>> /\ i = o[Len(o)]
    BY <1>7 DEF Fitting
  <2>2. PICK l \in EndsOf(t, j) : TRUE
    BY <1>5, <2>1, AboveTopEnded
  <2>3. l < k
    BY <1>1, <1>3, <1>7
  <2> QED BY <1>2, <2>3
<1> QED BY <1>2, <1>6, <1>7

LEMMA FunctionsStayOutside ==
  ASSUME NEW t \in Tree, NEW o \in Stack(t), NEW x \in Statement,
         OpenOK(t, o), Fitting(t, o, x), FunctionsOutside(t)
  PROVE  FunctionsOutside(Append(t, x))
<1> DEFINE u == Append(t, x)
<1>1. /\ Len(t) \in Nat /\ Len(u) = Len(t) + 1
      /\ \A k \in 1 .. Len(t) : u[k] = t[k]
      /\ u[Len(t) + 1] = x
  BY TreeGrows
<1>2. \A i, k : k \in EndsOf(u, i) <=>
        k \in EndsOf(t, i) \/ (k = Len(t) + 1 /\ x.node = "end" /\ x.num = i)
  BY EndsGrow
<1>3. \A i : \A k \in EndsOf(t, i) : k \in 1 .. Len(t)
  BY DEF EndsOf
<1> HIDE DEF u
<1> SUFFICES ASSUME NEW i \in 1 .. Len(u), NEW f \in 1 .. Len(u),
                    u[i].node \in Constructs, u[f].node = "function", i < f
             PROVE  \E k \in EndsOf(u, i) : k < f
  BY DEF FunctionsOutside, u
<1>4. i \in 1 .. Len(t) /\ t[i].node \in Constructs
  <2>1. i \in 1 .. Len(t)
    BY <1>1
  <2> QED BY <1>1, <2>1
<1>5. CASE f = Len(t) + 1
  <2>1. o = <<>>
    BY <1>1, <1>5 DEF Fitting
  <2>2. ~ IsOpen(o, i)
    BY <2>1 DEF IsOpen
  <2>3. PICK k \in EndsOf(t, i) : TRUE
    BY <1>4, <2>2 DEF OpenOK
  <2>4. k < f
    BY <1>1, <1>3, <1>5
  <2> QED BY <1>2, <2>4
<1>6. CASE f # Len(t) + 1
  <2>1. f \in 1 .. Len(t)
    BY <1>1, <1>6
  <2>2. t[f].node = "function"
    BY <1>1, <2>1
  <2>3. PICK k \in EndsOf(t, i) : k < f
    BY <1>4, <2>1, <2>2 DEF FunctionsOutside
  <2> QED BY <1>2, <2>3
<1> QED BY <1>5, <1>6

LEMMA ElsesStayOK ==
  ASSUME NEW t \in Tree, NEW o \in Stack(t), NEW x \in Statement,
         OpenOK(t, o), Fitting(t, o, x), ElseFits(t, o, x), ElsesOK(t)
  PROVE  ElsesOK(Append(t, x))
<1> DEFINE u == Append(t, x)
<1>1. /\ Len(t) \in Nat /\ Len(u) = Len(t) + 1
      /\ \A k \in 1 .. Len(t) : u[k] = t[k]
      /\ u[Len(t) + 1] = x
  BY TreeGrows
<1>2. /\ \A i, k : k \in EndsOf(u, i) <=>
           k \in EndsOf(t, i) \/ (k = Len(t) + 1 /\ x.node = "end" /\ x.num = i)
      /\ \A i, k : k \in ElsesOf(u, i) <=>
           k \in ElsesOf(t, i) \/ (k = Len(t) + 1 /\ x.node = "else" /\ x.num = i)
  BY EndsGrow
<1>3. \A i : /\ \A k \in EndsOf(t, i) : k \in 1 .. Len(t)
             /\ \A k \in ElsesOf(t, i) : k \in 1 .. Len(t)
  BY DEF EndsOf, ElsesOf
<1> HIDE DEF u
<1> SUFFICES ASSUME NEW p \in 1 .. Len(u), u[p].node = "else"
             PROVE  /\ u[p].num \in 1 .. p - 1
                    /\ u[u[p].num].node = "ifelse"
                    /\ \A k \in EndsOf(u, u[p].num) : p < k
                    /\ \A j \in 1 .. Len(u) :
                         u[p].num < j /\ j < p /\ u[j].node \in Constructs =>
                           \E l \in EndsOf(u, j) : l < p
                    /\ ElsesOf(u, u[p].num) = {p}
  BY DEF ElsesOK, u
<1>4. CASE p # Len(t) + 1
  <2> DEFINE i == t[p].num
  <2>1. p \in 1 .. Len(t) /\ u[p] = t[p]
    BY <1>1, <1>4
  <2>2. /\ i \in 1 .. p - 1
        /\ t[i].node = "ifelse"
        /\ \A k \in EndsOf(t, i) : p < k
        /\ \A j \in 1 .. Len(t) :
             i < j /\ j < p /\ t[j].node \in Constructs => \E l \in EndsOf(t, j) : l < p
        /\ ElsesOf(t, i) = {p}
    BY <2>1 DEF ElsesOK
  <2> HIDE DEF i
  <2>3. u[p].num = i
    BY <2>1 DEF i
  <2>4. i \in 1 .. Len(t) /\ u[i].node = "ifelse"
    <3>1. i \in 1 .. Len(t)
      BY <1>1, <2>1, <2>2
    <3> QED BY <1>1, <2>2, <3>1
  <2>5. \A k \in EndsOf(u, i) : p < k
    BY <1>1, <1>2, <2>1, <2>2
  <2>6. ASSUME NEW j \in 1 .. Len(u), i < j, j < p, u[j].node \in Constructs
        PROVE  \E l \in EndsOf(u, j) : l < p
    <3>1. j \in 1 .. Len(t)
      BY <1>1, <2>1, <2>6
    <3>2. t[j].node \in Constructs
      BY <1>1, <2>6, <3>1
    <3>3. PICK l \in EndsOf(t, j) : l < p
      BY <2>2, <2>6, <3>1, <3>2
    <3> QED BY <1>2, <3>3
  <2>7. ~ (x.node = "else" /\ x.num = i)
    <3> SUFFICES ASSUME x.node = "else", x.num = i PROVE FALSE
      OBVIOUS
    <3> QED BY <2>2 DEF ElseFits
  <2>8. \A k : k \in ElsesOf(u, i) <=> k \in ElsesOf(t, i)
    BY <1>2, <2>7
  <2>9. ElsesOf(u, i) = {p}
    BY <2>2, <2>8
  <2> QED BY <2>2, <2>3, <2>4, <2>5, <2>6, <2>9
<1>5. CASE p = Len(t) + 1
  <2> DEFINE i == o[Len(o)]
  <2>1. u[p] = x /\ x.node = "else"
    BY <1>1, <1>5
  <2>2. o # <<>> /\ x.num = i /\ t[i].node = "ifelse" /\ ElsesOf(t, i) = {}
    BY <2>1 DEF Fitting, ElseFits
  <2>3. i \in 1 .. Len(t) /\ EndsOf(t, i) = {}
    BY <2>2, TopIsOpen
  <2> HIDE DEF i
  <2>4. u[p].num = i /\ i \in 1 .. p - 1 /\ u[i].node = "ifelse"
    BY <1>1, <1>5, <2>1, <2>2, <2>3
  <2>5. EndsOf(u, i) = {}
    BY <1>2, <2>1, <2>3
  <2>6. ASSUME NEW j \in 1 .. Len(u), i < j, j < p, u[j].node \in Constructs
        PROVE  \E l \in EndsOf(u, j) : l < p
    <3>1. j \in 1 .. Len(t)
      BY <1>1, <1>5, <2>6
    <3>2. t[j].node \in Constructs
      BY <1>1, <2>6, <3>1
    <3>3. PICK l \in EndsOf(t, j) : TRUE
      BY <2>2, <2>6, <3>1, <3>2, AboveTopEnded DEF i
    <3>4. l < p
      BY <1>1, <1>3, <1>5
    <3> QED BY <1>2, <3>3, <3>4
  <2>7. \A k : k \in ElsesOf(u, i) <=> k = p
    BY <1>2, <1>5, <2>1, <2>2
  <2>8. ElsesOf(u, i) = {p}
    BY <2>7
  <2> QED BY <2>4, <2>5, <2>6, <2>8
<1> QED BY <1>4, <1>5

LEMMA IfsKeepElses ==
  ASSUME NEW t \in Tree, NEW o \in Stack(t), NEW x \in Statement,
         EndsOK(t), OpenOK(t, o), Fitting(t, o, x), ElseFits(t, o, x), IfsHaveElses(t)
  PROVE  IfsHaveElses(Append(t, x))
<1> DEFINE u == Append(t, x)
<1>1. /\ Len(t) \in Nat /\ Len(u) = Len(t) + 1
      /\ \A k \in 1 .. Len(t) : u[k] = t[k]
      /\ u[Len(t) + 1] = x
  BY TreeGrows
<1>2. /\ \A i, k : k \in EndsOf(u, i) <=>
           k \in EndsOf(t, i) \/ (k = Len(t) + 1 /\ x.node = "end" /\ x.num = i)
      /\ \A i, k : k \in ElsesOf(u, i) <=>
           k \in ElsesOf(t, i) \/ (k = Len(t) + 1 /\ x.node = "else" /\ x.num = i)
  BY EndsGrow
<1>3. \A i : /\ \A k \in EndsOf(t, i) : k \in 1 .. Len(t) /\ i < k
             /\ \A k \in ElsesOf(t, i) : k \in 1 .. Len(t)
  <2> SUFFICES ASSUME NEW i, NEW k \in EndsOf(t, i) PROVE k \in 1 .. Len(t) /\ i < k
    BY DEF ElsesOf
  <2>1. k \in 1 .. Len(t) /\ t[k].node = "end" /\ t[k].num = i
    BY DEF EndsOf
  <2>2. i \in 1 .. k - 1
    BY <2>1 DEF EndsOK
  <2> QED BY <1>1, <2>1, <2>2
<1> HIDE DEF u
<1> SUFFICES ASSUME NEW i \in 1 .. Len(u), u[i].node = "ifelse", NEW k \in EndsOf(u, i)
             PROVE  \E p \in ElsesOf(u, i) : p < k
  BY DEF IfsHaveElses, u
<1>4. CASE k \in EndsOf(t, i)
  <2>1. k \in 1 .. Len(t) /\ i < k
    BY <1>3, <1>4
  <2>2. i \in 1 .. Len(t)
    BY <1>1, <2>1
  <2>3. PICK p \in ElsesOf(t, i) : p < k
    BY <1>1, <1>4, <2>2 DEF IfsHaveElses
  <2> QED BY <1>2, <2>3
<1>5. CASE k = Len(t) + 1 /\ x.node = "end" /\ x.num = i
  <2>1. o # <<>> /\ i = o[Len(o)]
    BY <1>5 DEF Fitting
  <2>2. i \in 1 .. Len(t)
    BY <2>1, TopIsOpen
  <2>3. t[i].node = "ifelse"
    BY <1>1, <2>2
  <2>4. PICK p \in ElsesOf(t, i) : TRUE
    BY <1>5, <2>1, <2>3 DEF ElseFits
  <2>5. p < k
    BY <1>1, <1>3, <1>5
  <2> QED BY <1>2, <2>4, <2>5
<1> QED BY <1>2, <1>4, <1>5

LEMMA NestedStep ==
  ASSUME NEW t \in Tree, NEW o \in Stack(t), NEW x \in Statement,
         TreeOK(t), OpenOK(t, o), Fitting(t, o, x), ElseFits(t, o, x), Nested(t)
  PROVE  Nested(Append(t, x))
<1>1. EndsNested(t) /\ FunctionsOutside(t) /\ ElsesOK(t) /\ IfsHaveElses(t) /\ EndsOK(t)
  BY DEF Nested, TreeOK
<1>2. EndsNested(Append(t, x))
  BY <1>1, EndsStayNested
<1>3. FunctionsOutside(Append(t, x))
  BY <1>1, FunctionsStayOutside
<1>4. ElsesOK(Append(t, x))
  BY <1>1, ElsesStayOK
<1>5. IfsHaveElses(Append(t, x))
  BY <1>1, IfsKeepElses
<1> QED BY <1>2, <1>3, <1>4, <1>5 DEF Nested

\* At the end of the first walk nothing is open.
LEMMA NothingOpen ==
  ASSUME NEW t \in Tree, OpenOK(t, <<>>)
  PROVE  EveryEnded(t)
BY DEF OpenOK, IsOpen, EveryEnded

(***************************************************************************)
(* The first walk hands out IDs.                                           *)
(***************************************************************************)
\* The nodes of t keep the IDs they have.
SameIds(t, d, d2) ==
  \A i \in 1 .. Len(t) : /\ d2[i].start = d[i].start /\ d2[i].continue = d[i].continue
                         /\ d2[i].end = d[i].end /\ d2[i].unique = d[i].unique

LEMMA OwnedKept ==
  ASSUME NEW t \in Tree, NEW x \in Statement, NEW d, NEW d2, SameIds(t, d, d2),
         NEW i \in 1 .. Len(t)
  PROVE  \A y : Owned(Append(t, x), d2, i, y) <=> Owned(t, d, i, y)
<1>1. Append(t, x)[i] = t[i]
  BY TreeGrows
<1> QED BY <1>1 DEF Owned, SameIds

LEMMA OwnersStep ==
  ASSUME NEW t \in Tree, NEW x \in Statement, NEW d, NEW d2, NEW g \in Nat, NEW g2 \in Nat,
         OwnersApart(t, d, g), SameIds(t, d, d2), g =< g2,
         \A y : Owned(Append(t, x), d2, Len(t) + 1, y) => y \in g .. g2 - 1,
         x.node = "loop" =>
           /\ d2[Len(t) + 1].start # d2[Len(t) + 1].continue
           /\ d2[Len(t) + 1].start # d2[Len(t) + 1].end
           /\ d2[Len(t) + 1].continue # d2[Len(t) + 1].end
  PROVE  OwnersApart(Append(t, x), d2, g2)
<1> DEFINE u == Append(t, x)
           n == Len(t) + 1
<1>1. /\ Len(t) \in Nat /\ Len(u) = n
      /\ \A k \in 1 .. Len(t) : u[k] = t[k]
      /\ u[n] = x
  BY TreeGrows
<1>2. \A i \in 1 .. Len(t) : \A y : Owned(u, d2, i, y) <=> Owned(t, d, i, y)
  BY OwnedKept
<1>3. \A y : Owned(u, d2, n, y) => y \in g .. g2 - 1
  OBVIOUS
<1>4. \A i \in 1 .. Len(u) : i \in 1 .. Len(t) \/ i = n
  BY <1>1
<1> HIDE DEF u, n
<1>5. /\ \A i \in 1 .. Len(t) : \A y : Owned(t, d, i, y) => y \in Nat /\ y < g
      /\ \A i, j \in 1 .. Len(t) : \A y : Owned(t, d, i, y) /\ Owned(t, d, j, y) => i = j
  BY DEF OwnersApart
<1>6. ASSUME NEW i \in 1 .. Len(u), NEW y, Owned(u, d2, i, y)
      PROVE  y \in Nat /\ y < g2
  <2>1. CASE i \in 1 .. Len(t)
    BY <1>2, <1>5, <1>6, <2>1
  <2>2. CASE i = n
    <3>1. y \in g .. g2 - 1
      BY <1>3, <1>6, <2>2
    <3> QED BY <3>1
  <2> QED BY <1>4, <2>1, <2>2
<1>7. ASSUME NEW i \in 1 .. Len(u), NEW j \in 1 .. Len(u), NEW y,
             Owned(u, d2, i, y), Owned(u, d2, j, y)
      PROVE  i = j
  <2>1. CASE i \in 1 .. Len(t) /\ j \in 1 .. Len(t)
    BY <1>2, <1>5, <1>7, <2>1
  <2>2. CASE i \in 1 .. Len(t) /\ j = n
    <3>1. y \in Nat /\ y < g
      BY <1>2, <1>5, <1>7, <2>2
    <3>2. y \in g .. g2 - 1
      BY <1>3, <1>7, <2>2
    <3> QED BY <3>1, <3>2
  <2>3. CASE i = n /\ j \in 1 .. Len(t)
    <3>1. y \in Nat /\ y < g
      BY <1>2, <1>5, <1>7, <2>3
    <3>2. y \in g .. g2 - 1
      BY <1>3, <1>7, <2>3
    <3> QED BY <3>1, <3>2
  <2> QED BY <1>4, <2>1, <2>2, <2>3
<1>8. ASSUME NEW i \in 1 .. Len(u), u[i].node = "loop"
      PROVE  /\ d2[i].start # d2[i].continue /\ d2[i].start # d2[i].end
             /\ d2[i].continue # d2[i].end
  <2>1. CASE i \in 1 .. Len(t)
    <3>1. t[i].node = "loop"
      BY <1>1, <1>8, <2>1
    <3>2. d[i].start # d[i].continue /\ d[i].start # d[i].end /\ d[i].continue # d[i].end
      BY <2>1, <3>1 DEF OwnersApart
    <3> QED BY <2>1, <3>2 DEF SameIds
  <2>2. CASE i = n
    BY <1>1, <1>8, <2>2 DEF n
  <2> QED BY <1>4, <2>1, <2>2
<1> QED BY <1>6, <1>7, <1>8 DEF OwnersApart, u

\* What the new node, at n, has to add to the lists.
CasesStep(t, u, d, d2, n) ==
  /\ \A i \in 1 .. Len(t) : t[i].node = "switch" =>
       \A k \in 1 .. Len(d2[i].cases) :
         \/ \E j \in 1 .. Len(d[i].cases) : d2[i].cases[k].unique = d[i].cases[j].unique
         \/ Within(u, n, i, "case") /\ d2[n].unique = d2[i].cases[k].unique
  /\ u[n].node = "switch" => Len(d2[n].cases) = 0
DefaultsStep(t, u, d, d2, n) ==
  /\ \A i \in 1 .. Len(t) : t[i].node = "switch" =>
       \/ d2[i].default = d[i].default
       \/ Within(u, n, i, "default") /\ d2[n].unique = d2[i].default
  /\ u[n].node = "switch" => d2[n].default = UnsetDefault

LEMMA CasesStayOK ==
  ASSUME NEW t \in Tree, NEW x \in Statement, NEW d, NEW d2, SameIds(t, d, d2),
         CasesOK(t, d), CasesStep(t, Append(t, x), d, d2, Len(t) + 1)
  PROVE  CasesOK(Append(t, x), d2)
<1> DEFINE u == Append(t, x)
           n == Len(t) + 1
<1>1. /\ Len(t) \in Nat /\ Len(u) = n /\ n \in 1 .. Len(u)
      /\ \A k \in 1 .. Len(t) : u[k] = t[k] /\ k \in 1 .. Len(u)
      /\ \A i \in 1 .. Len(u) : i \in 1 .. Len(t) \/ i = n
  BY TreeGrows
<1>2. \A i, node : \A q \in 1 .. Len(t) : Within(u, q, i, node) <=> Within(t, q, i, node)
  BY WithinKept
<1>3. CasesStep(t, u, d, d2, n)
  OBVIOUS
<1> HIDE DEF u, n
<1> SUFFICES ASSUME NEW i \in 1 .. Len(u), u[i].node = "switch",
                    NEW k \in 1 .. Len(d2[i].cases)
             PROVE  \E q \in 1 .. Len(u) :
                      Within(u, q, i, "case") /\ d2[q].unique = d2[i].cases[k].unique
  BY DEF CasesOK, u
<1>4. CASE i = n
  BY <1>3, <1>4 DEF CasesStep
<1>5. CASE i \in 1 .. Len(t)
  <2>1. t[i].node = "switch"
    BY <1>1, <1>5
  <2>2. CASE Within(u, n, i, "case") /\ d2[n].unique = d2[i].cases[k].unique
    BY <1>1, <2>2
  <2>3. CASE \E j \in 1 .. Len(d[i].cases) : d2[i].cases[k].unique = d[i].cases[j].unique
    <3>1. PICK j \in 1 .. Len(d[i].cases) : d2[i].cases[k].unique = d[i].cases[j].unique
      BY <2>3
    <3>2. PICK q \in 1 .. Len(t) :
            Within(t, q, i, "case") /\ d[q].unique = d[i].cases[j].unique
      BY <1>5, <2>1 DEF CasesOK
    <3>3. d2[q].unique = d[q].unique
      BY DEF SameIds
    <3> QED BY <1>1, <1>2, <3>1, <3>2, <3>3
  <2> QED BY <1>3, <1>5, <2>1, <2>2, <2>3 DEF CasesStep
<1> QED BY <1>1, <1>4, <1>5

LEMMA DefaultsStayOK ==
  ASSUME NEW t \in Tree, NEW x \in Statement, NEW d, NEW d2, SameIds(t, d, d2),
         DefaultsOK(t, d), DefaultsStep(t, Append(t, x), d, d2, Len(t) + 1)
  PROVE  DefaultsOK(Append(t, x), d2)
<1> DEFINE u == Append(t, x)
           n == Len(t) + 1
<1>1. /\ Len(t) \in Nat /\ Len(u) = n /\ n \in 1 .. Len(u)
      /\ \A k \in 1 .. Len(t) : u[k] = t[k] /\ k \in 1 .. Len(u)
      /\ \A i \in 1 .. Len(u) : i \in 1 .. Len(t) \/ i = n
  BY TreeGrows
<1>2. \A i, node : \A q \in 1 .. Len(t) : Within(u, q, i, node) <=> Within(t, q, i, node)
  BY WithinKept
<1>3. DefaultsStep(t, u, d, d2, n)
  OBVIOUS
<1> HIDE DEF u, n
<1> SUFFICES ASSUME NEW i \in 1 .. Len(u), u[i].node = "switch",
                    d2[i].default # UnsetDefault
             PROVE  \E q \in 1 .. Len(u) :
                      Within(u, q, i, "default") /\ d2[q].unique = d2[i].default
  BY DEF DefaultsOK, u
<1>4. CASE i = n
  BY <1>3, <1>4 DEF DefaultsStep
<1>5. CASE i \in 1 .. Len(t)
  <2>1. t[i].node = "switch"
    BY <1>1, <1>5
  <2>2. CASE Within(u, n, i, "default") /\ d2[n].unique = d2[i].default
    BY <1>1, <2>2
  <2>3. CASE d2[i].default = d[i].default
    <3>1. PICK q \in 1 .. Len(t) :
            Within(t, q, i, "default") /\ d[q].unique = d[i].default
      BY <1>5, <2>1, <2>3 DEF DefaultsOK
    <3>2. d2[q].unique = d[q].unique
      BY DEF SameIds
    <3> QED BY <1>1, <1>2, <2>3, <3>1, <3>2
  <2> QED BY <1>3, <1>5, <2>1, <2>2, <2>3 DEF DefaultsStep
<1> QED BY <1>1, <1>4, <1>5

\* What the new node, at n, needs to have.
JumpsStep(u, d2, n) ==
  /\ u[n].node = "break" =>
       Nearest(u, n, Breakable) # 0 /\ d2[n].unique = d2[Nearest(u, n, Breakable)].end
  /\ u[n].node = "continue" =>
       Nearest(u, n, {"loop"}) # 0 /\ d2[n].unique = d2[Nearest(u, n, {"loop"})].continue
  /\ u[n].node \in {"case", "default"} => d2[n].unique # Unset
  /\ u[n].node = "label" => d2[n].unique = Unset

LEMMA NearestBefore ==
  ASSUME NEW t \in Tree, NEW x \in Statement, NEW p \in 1 .. Len(t), NEW kinds,
         Nearest(t, p, kinds) # 0
  PROVE  /\ Nearest(t, p, kinds) \in 1 .. Len(t)
         /\ Nearest(Append(t, x), p, kinds) = Nearest(t, p, kinds)
<1>1. Len(t) \in Nat
  BY TreeGrows
<1>2. p \in Nat /\ p # 0
  BY <1>1
<1>3. Nearest(t, p, kinds) \in 0 .. p - 1
  BY <1>2, NearestIs
<1>4. Nearest(t, p, kinds) \in 1 .. Len(t)
  BY <1>1, <1>3
<1> QED BY <1>4, InsideKept

LEMMA JumpsStayOK ==
  ASSUME NEW t \in Tree, NEW x \in Statement, NEW d, NEW d2, SameIds(t, d, d2),
         BreaksOK(t, d), ContinuesOK(t, d), NumberedUpTo(t, d, 0),
         JumpsStep(Append(t, x), d2, Len(t) + 1)
  PROVE  /\ BreaksOK(Append(t, x), d2) /\ ContinuesOK(Append(t, x), d2)
         /\ NumberedUpTo(Append(t, x), d2, 0)
<1> DEFINE u == Append(t, x)
           n == Len(t) + 1
<1>1. /\ Len(t) \in Nat /\ Len(u) = n /\ n \in 1 .. Len(u)
      /\ \A k \in 1 .. Len(t) : u[k] = t[k]
      /\ \A i \in 1 .. Len(u) : i \in 1 .. Len(t) \/ i = n
  BY TreeGrows
<1>2. JumpsStep(u, d2, n)
  OBVIOUS
<1>3. ASSUME NEW p \in 1 .. Len(t), NEW kinds, Nearest(t, p, kinds) # 0
      PROVE  Nearest(t, p, kinds) \in 1 .. Len(t) /\ Nearest(u, p, kinds) = Nearest(t, p, kinds)
  BY <1>3, NearestBefore
<1> HIDE DEF u, n
<1>4. BreaksOK(u, d2)
  <2> SUFFICES ASSUME NEW p \in 1 .. Len(u), u[p].node = "break"
               PROVE  /\ Nearest(u, p, Breakable) # 0
                      /\ d2[p].unique = d2[Nearest(u, p, Breakable)].end
    BY DEF BreaksOK
  <2>1. CASE p = n
    BY <1>2, <2>1 DEF JumpsStep
  <2>2. CASE p \in 1 .. Len(t)
    <3>1. t[p].node = "break"
      BY <1>1, <2>2
    <3>2. Nearest(t, p, Breakable) # 0 /\ d[p].unique = d[Nearest(t, p, Breakable)].end
      BY <2>2, <3>1 DEF BreaksOK
    <3>3. /\ Nearest(t, p, Breakable) \in 1 .. Len(t)
          /\ Nearest(u, p, Breakable) = Nearest(t, p, Breakable)
      BY <1>3, <2>2, <3>2
    <3>4. /\ d2[p].unique = d[p].unique
          /\ d2[Nearest(t, p, Breakable)].end = d[Nearest(t, p, Breakable)].end
      BY <2>2, <3>3 DEF SameIds
    <3> QED BY <3>2, <3>3, <3>4
  <2> QED BY <1>1, <2>1, <2>2
<1>5. ContinuesOK(u, d2)
  <2> SUFFICES ASSUME NEW p \in 1 .. Len(u), u[p].node = "continue"
               PROVE  /\ Nearest(u, p, {"loop"}) # 0
                      /\ d2[p].unique = d2[Nearest(u, p, {"loop"})].continue
    BY DEF ContinuesOK
  <2>1. CASE p = n
    BY <1>2, <2>1 DEF JumpsStep
  <2>2. CASE p \in 1 .. Len(t)
    <3>1. t[p].node = "continue"
      BY <1>1, <2>2
    <3>2. Nearest(t, p, {"loop"}) # 0 /\ d[p].unique = d[Nearest(t, p, {"loop"})].continue
      BY <2>2, <3>1 DEF ContinuesOK
    <3>3. /\ Nearest(t, p, {"loop"}) \in 1 .. Len(t)
          /\ Nearest(u, p, {"loop"}) = Nearest(t, p, {"loop"})
      BY <1>3, <2>2, <3>2
    <3>4. /\ d2[p].unique = d[p].unique
          /\ d2[Nearest(t, p, {"loop"})].continue = d[Nearest(t, p, {"loop"})].continue
      BY <2>2, <3>3 DEF SameIds
    <3> QED BY <3>2, <3>3, <3>4
  <2> QED BY <1>1, <2>1, <2>2
<1>6. NumberedUpTo(u, d2, 0)
  <2> SUFFICES ASSUME NEW p \in 1 .. Len(u)
               PROVE  /\ u[p].node \in {"case", "default"} => d2[p].unique # Unset
                      /\ u[p].node = "label" => (d2[p].unique # Unset <=> p =< 0)
    BY DEF NumberedUpTo
  <2>1. CASE p = n
    <3>1. ~ (p =< 0)
      BY <1>1
    <3> QED BY <1>2, <2>1, <3>1 DEF JumpsStep
  <2>2. CASE p \in 1 .. Len(t)
    <3>1. u[p] = t[p] /\ d2[p].unique = d[p].unique
      BY <1>1, <2>2 DEF SameIds
    <3> QED BY <2>2, <3>1 DEF NumberedUpTo
  <2> QED BY <1>1, <2>1, <2>2
<1> QED BY <1>4, <1>5, <1>6 DEF u

\* A node met in the first walk.
LEMMA FirstJ ==
  ASSUME Walking, JInv, NEW x \in StatementIn(Len(tree) + 1),
         Fitting(tree, open, x), ElseFits(tree, open, x),
         tree' = Append(tree, x), FirstWalk,
         generator' \in Nat, generator =< generator', SameIds(tree, ids, ids'),
         \A y : Owned(tree', ids', Len(tree) + 1, y) => y \in generator .. generator' - 1,
         x.node = "loop" =>
           /\ ids'[Len(tree) + 1].start # ids'[Len(tree) + 1].continue
           /\ ids'[Len(tree) + 1].start # ids'[Len(tree) + 1].end
           /\ ids'[Len(tree) + 1].continue # ids'[Len(tree) + 1].end,
         CasesStep(tree, tree', ids, ids', Len(tree) + 1),
         DefaultsStep(tree, tree', ids, ids', Len(tree) + 1),
         JumpsStep(tree', ids', Len(tree) + 1)
  PROVE  JInv'
<1>1. /\ TypeOK /\ TreeOK(tree) /\ OpenOK(tree, open)
      /\ pass = "loops" /\ status = "ok" /\ pos = 0 /\ labels = <<>>
  BY WalkingIs
<1>2. tree \in Tree /\ open \in Stack(tree) /\ x \in Statement /\ generator \in Nat
  <2>1. /\ tree \in Tree /\ open \in Stack(tree) /\ generator \in Nat /\ Len(tree) \in Nat
    BY <1>1, TreeType
  <2>2. Len(tree) + 1 \in Nat
    BY <2>1
  <2> QED BY <2>1, <2>2, StatementType
<1>3. /\ Nested(tree) /\ OwnersApart(tree, ids, generator) /\ TargetsOK(tree, ids, 0)
  BY <1>1 DEF JInv, NextId
<1>4. labels' = <<>> /\ pos' = 0 /\ pass' = "loops"
  BY <1>1 DEF FirstWalk
<1>5. Nested(tree')
  BY <1>1, <1>2, <1>3, NestedStep
<1>6. OwnersApart(tree', ids', generator')
  BY <1>2, <1>3, OwnersStep
<1>7. TargetsOK(tree', ids', 0)
  <2>1. /\ BreaksOK(tree, ids) /\ ContinuesOK(tree, ids) /\ NumberedUpTo(tree, ids, 0)
        /\ CasesOK(tree, ids) /\ DefaultsOK(tree, ids)
    BY <1>3 DEF TargetsOK
  <2>2. /\ BreaksOK(tree', ids') /\ ContinuesOK(tree', ids') /\ NumberedUpTo(tree', ids', 0)
    BY <1>2, <2>1, JumpsStayOK
  <2>3. CasesOK(tree', ids')
    BY <1>2, <2>1, CasesStayOK
  <2>4. DefaultsOK(tree', ids')
    BY <1>2, <2>1, DefaultsStayOK
  <2> QED BY <2>2, <2>3, <2>4 DEF TargetsOK
<1>8. EntriesApart(tree', ids', labels', generator', pos')
  BY <1>4 DEF EntriesApart
<1> QED BY <1>4, <1>5, <1>6, <1>7, <1>8 DEF JInv, NextId

LEMMA WalkingType ==
  ASSUME Walking
  PROVE  /\ TypeOK /\ OpenOK(tree, open) /\ tree \in Tree /\ open \in Stack(tree)
         /\ ids \in Seq(Ids) /\ Len(ids) = Len(tree)
         /\ Len(tree) \in Nat /\ Len(tree) + 1 \in Nat /\ generator \in Nat
         /\ generator # Unset
<1>1. TypeOK /\ OpenOK(tree, open)
  BY WalkingIs
<1>2. /\ tree \in Tree /\ open \in Stack(tree) /\ Len(tree) \in Nat /\ generator \in Nat
      /\ ids \in Seq(Ids) /\ Len(ids) = Len(tree)
  BY <1>1, TreeType
<1>3. Len(tree) + 1 \in Nat
  BY <1>2
<1>4. generator # Unset
  BY <1>2 DEF Unset
<1> QED BY <1>1, <1>2, <1>3, <1>4

\* A node is met, the others are left as they are.
LEMMA MetIds ==
  ASSUME TypeOK, NEW x \in Statement, NEW id \in Ids, Meet(x, id)
  PROVE  /\ tree' = Append(tree, x) /\ tree'[Len(tree) + 1] = x
         /\ ids'[Len(tree) + 1] = id
         /\ \A i \in 1 .. Len(tree) : ids'[i] = ids[i]
         /\ SameIds(tree, ids, ids')
<1>1. tree \in Tree /\ ids \in Seq(Ids) /\ Len(ids) = Len(tree)
  BY TreeType
<1>2. tree' = Append(tree, x) /\ ids' = Append(ids, id)
  BY DEF Meet
<1>3. tree'[Len(tree) + 1] = x
  BY <1>1, <1>2, TreeGrows
<1>4. ids'[Len(tree) + 1] = id /\ \A i \in 1 .. Len(tree) : ids'[i] = ids[i]
  BY <1>1, <1>2, IdsGrow
<1> QED BY <1>2, <1>3, <1>4 DEF SameIds

LEMMA SameLists ==
  ASSUME NEW t, NEW u, NEW d, NEW d2, NEW n,
         \A i \in 1 .. Len(t) : d2[i].cases = d[i].cases /\ d2[i].default = d[i].default,
         u[n].node # "switch"
  PROVE  CasesStep(t, u, d, d2, n) /\ DefaultsStep(t, u, d, d2, n)
BY DEF CasesStep, DefaultsStep

\* The new node has no ID.
LEMMA BlankJ ==
  ASSUME Walking, JInv, NEW x \in StatementIn(Len(tree) + 1),
         Fitting(tree, open, x), ElseFits(tree, open, x),
         Meet(x, Blank), FirstWalk, generator' = generator,
         x.node \notin {"loop", "switch", "case", "default", "break", "continue"}
  PROVE  JInv'
<1>1. TypeOK
  BY WalkingIs
<1>2. /\ x \in Statement /\ generator \in Nat
  <2>1. Len(tree) \in Nat /\ generator \in Nat
    BY <1>1, TreeType
  <2>2. Len(tree) + 1 \in Nat
    BY <2>1
  <2> QED BY <2>1, <2>2, StatementType
<1>3. Blank \in Ids
  BY BlankType
<1>4. /\ tree' = Append(tree, x) /\ tree'[Len(tree) + 1] = x
      /\ ids'[Len(tree) + 1] = Blank
      /\ \A i \in 1 .. Len(tree) : ids'[i] = ids[i]
      /\ SameIds(tree, ids, ids')
  BY <1>1, <1>2, <1>3, MetIds
<1>5. Blank.unique = Unset
  BY DEF Blank
<1>6. \A y : ~ Owned(tree', ids', Len(tree) + 1, y)
  BY <1>4, <1>5 DEF Owned
<1>7. CasesStep(tree, tree', ids, ids', Len(tree) + 1)
      /\ DefaultsStep(tree, tree', ids, ids', Len(tree) + 1)
  BY <1>4, SameLists
<1>8. JumpsStep(tree', ids', Len(tree) + 1)
  BY <1>4, <1>5 DEF JumpsStep
<1>9. generator' \in Nat /\ generator =< generator'
  BY <1>2
<1> QED BY <1>4, <1>6, <1>7, <1>8, <1>9, FirstJ

\* No else, no end.
LEMMA ElseFitsOther ==
  ASSUME NEW t, NEW o, NEW x, x.node \notin {"else", "end"}
  PROVE  ElseFits(t, o, x)
BY DEF ElseFits

LEMMA FunctionJ == ASSUME IInv, JInv, EnterFunction PROVE JInv'
<1> DEFINE x == Plain("function")
<1> SUFFICES ASSUME status' = "ok" PROVE JInv'
  BY DEF JInv
<1>1. Walking /\ open = <<>>
  BY DEF EnterFunction, Walking
<1>2. Meet(x, Blank) /\ FirstWalk /\ generator' = generator
  BY DEF EnterFunction, Fail
<1>3. Len(tree) + 1 \in Nat
  BY <1>1, WalkingIs, TreeType
<1>4. x.node = "function" /\ x \in StatementIn(Len(tree) + 1)
  BY <1>3, StatementMet DEF Plain, Called, Constructs
<1>5. Fitting(tree, open, x) /\ ElseFits(tree, open, x)
  BY <1>1, <1>4, ElseFitsOther DEF Fitting, Mention
<1> HIDE DEF x
<1> QED BY <1>1, <1>2, <1>4, <1>5, BlankJ

\* Nodes the first walk passes over.
LEMMA PassJ ==
  ASSUME IInv, JInv, NEW node, CanMeet(node), NEW name \in Name \cup {""},
         Meet(Called(node, name), Blank), FirstWalk, generator' = generator,
         node \in {"prototype", "if", "ifelse", "logical", "return", "goto", "label"},
         node \in Mention => name \in Name
  PROVE  JInv'
<1> DEFINE x == Called(node, name)
<1>1. Walking /\ open # <<>> /\ node \in Nodes
  BY DEF CanMeet, Walking
<1>2. Len(tree) + 1 \in Nat
  BY <1>1, WalkingType
<1>3. x.node = node /\ x.name = name /\ x \in StatementIn(Len(tree) + 1)
  <2>1. x.node = node /\ x.name = name
    BY DEF Called
  <2>2. CASE name \in Name
    BY <1>1, <1>2, <2>1, <2>2, StatementMet
  <2>3. CASE name = ""
    BY <1>1, <1>2, <2>1, <2>3, StatementMet DEF Plain
  <2> QED BY <2>1, <2>2, <2>3
<1>4. Fitting(tree, open, x) /\ ElseFits(tree, open, x)
  BY <1>1, <1>3, ElseFitsOther DEF Fitting, Mention
<1> HIDE DEF x
<1>5. Meet(x, Blank)
  BY DEF x
<1> QED BY <1>1, <1>3, <1>4, <1>5, BlankJ

LEMMA PrototypeJ == ASSUME IInv, JInv, Prototype PROVE JInv'
<1> SUFFICES ASSUME status' = "ok" PROVE JInv'
  BY DEF JInv
<1>1. CanMeet("prototype") /\ FirstWalk /\ generator' = generator
  BY DEF Prototype, Fail
<1>2. Meet(Called("prototype", ""), Blank)
  BY DEF Prototype, Fail, Plain
<1>3. "prototype" \notin Mention
  BY DEF Mention
<1> QED BY <1>1, <1>2, <1>3, PassJ

LEMMA IfJ == ASSUME IInv, JInv, NEW node, EnterIf(node) PROVE JInv'
<1>1. CanMeet(node) /\ FirstWalk /\ generator' = generator /\ node \in {"if", "ifelse"}
  BY DEF EnterIf
<1>2. Meet(Called(node, ""), Blank)
  BY DEF EnterIf, Plain
<1>3. node \notin Mention
  BY <1>1 DEF Mention
<1> QED BY <1>1, <1>2, <1>3, PassJ

LEMMA OtherJ == ASSUME IInv, JInv, NEW node, Other(node) PROVE JInv'
<1>1. CanMeet(node) /\ FirstWalk /\ generator' = generator /\ node \in {"logical", "return"}
  BY DEF Other
<1>2. Meet(Called(node, ""), Blank)
  BY DEF Other, Plain
<1>3. node \notin Mention
  BY <1>1 DEF Mention
<1> QED BY <1>1, <1>2, <1>3, PassJ

LEMMA GotoJ == ASSUME IInv, JInv, NEW n \in Name, Goto(n) \/ Label(n) PROVE JInv'
<1>1. PICK node \in {"goto", "label"} :
        CanMeet(node) /\ Meet(Called(node, n), Blank) /\ FirstWalk /\ generator' = generator
  BY DEF Goto, Label
<1> QED BY <1>1, PassJ

LEMMA ElseJ == ASSUME IInv, JInv, Else PROVE JInv'
<1> DEFINE x == Numbered("else", Innermost)
<1>1. Walking /\ open # <<>>
  BY DEF Else, Walking
<1>2. /\ TypeOK /\ OpenOK(tree, open)
  BY <1>1, WalkingIs
<1>3. /\ Len(tree) + 1 \in Nat /\ open \in Stack(tree) /\ Len(tree) \in Nat
  BY <1>2, TreeType
<1>4. Innermost \in 1 .. Len(tree) + 1
  <2>1. Innermost \in 1 .. Len(tree)
    BY <1>1, <1>2, <1>3, TopIsOpen DEF Innermost
  <2> QED BY <1>3, <2>1
<1>5. x.node = "else" /\ x.num = open[Len(open)] /\ x \in StatementIn(Len(tree) + 1)
  BY <1>3, <1>4, StatementMet DEF Numbered, Innermost
<1>6. Fitting(tree, open, x)
  BY <1>1, <1>5 DEF Fitting, Mention
<1>7. ElseFits(tree, open, x)
  BY <1>5 DEF ElseFits, Else, Innermost, Position, ElsesOf
<1>8. Meet(x, Blank) /\ FirstWalk /\ generator' = generator
  BY DEF Else
<1> HIDE DEF x
<1> QED BY <1>1, <1>5, <1>6, <1>7, <1>8, BlankJ

LEMMA ExitJ == ASSUME IInv, JInv, Exit PROVE JInv'
<1> DEFINE x == Numbered("end", Innermost)
<1>1. Walking /\ open # <<>>
  BY DEF Exit, Walking
<1>2. /\ TypeOK /\ OpenOK(tree, open)
  BY <1>1, WalkingIs
<1>3. /\ Len(tree) + 1 \in Nat /\ open \in Stack(tree) /\ Len(tree) \in Nat
  BY <1>2, TreeType
<1>4. Innermost \in 1 .. Len(tree) + 1
  <2>1. Innermost \in 1 .. Len(tree)
    BY <1>1, <1>2, <1>3, TopIsOpen DEF Innermost
  <2> QED BY <1>3, <2>1
<1>5. x.node = "end" /\ x.num = open[Len(open)] /\ x \in StatementIn(Len(tree) + 1)
  BY <1>3, <1>4, StatementMet DEF Numbered, Innermost
<1>6. Fitting(tree, open, x)
  BY <1>1, <1>5 DEF Fitting, Mention
<1>7. ElseFits(tree, open, x)
  BY <1>5 DEF ElseFits, Exit, Innermost, Position, ElsesOf
<1>8. Meet(x, Blank) /\ FirstWalk /\ generator' = generator
  BY DEF Exit
<1> HIDE DEF x
<1> QED BY <1>1, <1>5, <1>6, <1>7, <1>8, BlankJ

\* The node at n starts out as its statement and its IDs.
LEMMA EnterJ ==
  ASSUME IInv, JInv, Walking, open # <<>>, NEW x \in StatementIn(Len(tree) + 1),
         NEW id \in Ids, NEW g \in Nat, g > generator, Meet(x, id), FirstWalk, generator' = g,
         x.node \in {"loop", "switch"}, id.cases = <<>>, id.default \in {Unset, UnsetDefault},
         x.node = "loop" =>
           /\ id.start \in generator .. g - 1 /\ id.continue \in generator .. g - 1
           /\ id.end \in generator .. g - 1
           /\ id.start # id.continue /\ id.start # id.end /\ id.continue # id.end,
         x.node = "switch" =>
           id.end \in generator .. g - 1 /\ id.default = UnsetDefault
  PROVE  JInv'
<1> DEFINE n == Len(tree) + 1
<1>1. TypeOK /\ generator \in Nat /\ Len(tree) + 1 \in Nat
  BY WalkingType
<1>2. x \in Statement
  BY <1>1, StatementType
<1>3. /\ tree' = Append(tree, x) /\ tree'[n] = x /\ ids'[n] = id
      /\ \A i \in 1 .. Len(tree) : ids'[i] = ids[i]
      /\ SameIds(tree, ids, ids')
  BY <1>1, <1>2, MetIds
<1>4. Fitting(tree, open, x) /\ ElseFits(tree, open, x)
  BY ElseFitsOther DEF Fitting, Mention
<1>5. generator' \in Nat /\ generator =< generator'
  BY <1>1
<1> HIDE DEF n
<1>6. ASSUME NEW y, Owned(tree', ids', n, y) PROVE y \in generator .. generator' - 1
  <2>1. CASE x.node = "loop"
    <3>1. y = id.start \/ y = id.continue \/ y = id.end
      BY <1>3, <1>6, <2>1 DEF Owned
    <3> QED BY <2>1, <3>1
  <2>2. CASE x.node = "switch"
    <3>1. y = id.end
      BY <1>3, <1>6, <2>2 DEF Owned
    <3> QED BY <2>2, <3>1
  <2> QED BY <2>1, <2>2
<1>7. CasesStep(tree, tree', ids, ids', n)
  <2>1. Len(ids'[n].cases) = 0
    BY <1>3
  <2> QED BY <1>3, <2>1 DEF CasesStep
<1>8. DefaultsStep(tree, tree', ids, ids', n)
  BY <1>3 DEF DefaultsStep
<1>9. JumpsStep(tree', ids', n)
  BY <1>3 DEF JumpsStep
<1>10. x.node = "loop" =>
         /\ ids'[n].start # ids'[n].continue
         /\ ids'[n].start # ids'[n].end /\ ids'[n].continue # ids'[n].end
  BY <1>3
<1> QED BY <1>3, <1>4, <1>5, <1>6, <1>7, <1>8, <1>9, <1>10, FirstJ DEF n

LEMMA LoopJ == ASSUME IInv, JInv, NEW test \in Tests, EnterLoop(test) PROVE JInv'
<1> DEFINE x  == Called("loop", test)
           id == [Blank EXCEPT !.start    = generator,
                               !.continue = generator + 1,
                               !.end      = generator + 2]
<1> SUFFICES ASSUME status' = "ok" PROVE JInv'
  BY DEF JInv
<1>1. Walking /\ open # <<>>
  BY DEF EnterLoop, CanMeet, Walking
<1>2. generator \in Nat /\ Len(tree) + 1 \in Nat
  BY <1>1, WalkingType
<1>3. x \in StatementIn(Len(tree) + 1) /\ x.node = "loop"
  BY <1>2, KindAssumption, StatementMet DEF Constructs, Called
<1>4. Meet(x, id) /\ FirstWalk /\ generator' = generator + 3
  BY DEF EnterLoop, Fail
<1>5. /\ id \in Ids /\ id.cases = <<>> /\ id.default = Unset
      /\ id.start = generator /\ id.continue = generator + 1 /\ id.end = generator + 2
  <2>1. PICK b, e \in Nat : b = generator + 1 /\ e = generator + 2
    BY <1>2
  <2> DEFINE named == [Blank EXCEPT !.start = generator, !.continue = b, !.end = e]
  <2>2. generator \in Int /\ b \in Int /\ e \in Int
    BY <1>2
  <2>3. named \in Ids
    BY <2>2, BlankType DEF Blank, Ids
  <2>4. /\ named.start = generator /\ named.continue = b /\ named.end = e
        /\ named.cases = <<>> /\ named.default = Unset
    BY DEF Blank
  <2>5. id = named
    BY <2>1
  <2> QED BY <2>1, <2>3, <2>4, <2>5
<1> HIDE DEF x, id
<1>6. PICK g \in Nat : g = generator + 3
  BY <1>2
<1>7. /\ g > generator /\ generator' = g
      /\ id.start \in generator .. g - 1 /\ id.continue \in generator .. g - 1
      /\ id.end \in generator .. g - 1
      /\ id.start # id.continue /\ id.start # id.end /\ id.continue # id.end
  BY <1>2, <1>4, <1>5, <1>6
<1> QED BY <1>1, <1>3, <1>4, <1>5, <1>7, EnterJ

LEMMA SwitchJ == ASSUME IInv, JInv, NEW control \in Controls, EnterSwitch(control) PROVE JInv'
<1> DEFINE x  == Called("switch", control)
           id == [Blank EXCEPT !.default = UnsetDefault, !.end = generator]
<1> SUFFICES ASSUME status' = "ok" PROVE JInv'
  BY DEF JInv
<1>1. Walking /\ open # <<>>
  BY DEF EnterSwitch, CanMeet, Walking
<1>2. generator \in Nat /\ Len(tree) + 1 \in Nat
  BY <1>1, WalkingType
<1>3. x \in StatementIn(Len(tree) + 1) /\ x.node = "switch"
  BY <1>2, KindAssumption, StatementMet DEF Constructs, Called
<1>4. Meet(x, id) /\ FirstWalk /\ generator' = generator + 1
  BY DEF EnterSwitch, Fail
<1>5. id \in Ids /\ id.cases = <<>> /\ id.default = UnsetDefault /\ id.end = generator
  <2>1. generator \in Int /\ UnsetDefault \in Int
    BY <1>2 DEF UnsetDefault
  <2> QED BY <1>2, <2>1, BlankType
<1> HIDE DEF x, id
<1>6. PICK g \in Nat : g = generator + 1
  BY <1>2
<1>7. g > generator /\ generator' = g /\ id.end \in generator .. g - 1
  BY <1>2, <1>4, <1>5, <1>6
<1> QED BY <1>1, <1>3, <1>4, <1>5, <1>7, EnterJ

\* A break or continue has the ID of another node.
LEMMA JumpJ ==
  ASSUME IInv, JInv, Walking, open # <<>>, NEW node \in {"break", "continue"}, CanMeet(node),
         NEW u \in Int, Meet(Plain(node), [Blank EXCEPT !.unique = u]),
         FirstWalk, generator' = generator,
         JumpsStep(tree', ids', Len(tree) + 1)
  PROVE  JInv'
<1> DEFINE x  == Plain(node)
           id == [Blank EXCEPT !.unique = u]
<1>1. TypeOK /\ generator \in Nat /\ Len(tree) + 1 \in Nat
  BY WalkingType
<1>2. x \in StatementIn(Len(tree) + 1) /\ x.node = node
  BY <1>1, StatementMet DEF CanMeet, Plain, Called
<1>3. x \in Statement
  BY <1>1, <1>2, StatementType
<1>4. id \in Ids
  BY BlankType
<1>5. Meet(x, id)
  OBVIOUS
<1> HIDE DEF x, id
<1>6. /\ tree' = Append(tree, x) /\ tree'[Len(tree) + 1] = x
      /\ \A i \in 1 .. Len(tree) : ids'[i] = ids[i]
      /\ SameIds(tree, ids, ids')
  BY <1>1, <1>3, <1>4, <1>5, MetIds
<1>7. Fitting(tree, open, x) /\ ElseFits(tree, open, x)
  BY <1>2, ElseFitsOther DEF Fitting, Mention
<1>8. \A y : ~ Owned(tree', ids', Len(tree) + 1, y)
  BY <1>2, <1>6 DEF Owned
<1>9. /\ CasesStep(tree, tree', ids, ids', Len(tree) + 1)
      /\ DefaultsStep(tree, tree', ids, ids', Len(tree) + 1)
  BY <1>2, <1>6, SameLists
<1>10. generator' \in Nat /\ generator =< generator'
  BY <1>1
<1> QED BY <1>2, <1>6, <1>7, <1>8, <1>9, <1>10, FirstJ

LEMMA BreakJ == ASSUME IInv, JInv, Break PROVE JInv'
<1> DEFINE x == Plain("break")
           i == container[Len(container)].origin
           u == ids[i].end
<1> SUFFICES ASSUME status' = "ok" PROVE JInv'
  BY DEF JInv
<1>1. Walking /\ open # <<>> /\ CanMeet("break")
  BY DEF Break, CanMeet, Walking
<1>2. /\ FirstWalk /\ container # <<>> /\ generator' = generator
      /\ Meet(x, [Blank EXCEPT !.unique = u])
  BY DEF Break, Fail, BreakTarget
<1>3. /\ TypeOK /\ tree \in Tree /\ OpenOK(tree, open) /\ Len(tree) + 1 \in Nat
  BY <1>1, WalkingType
<1>4. ContainerOK(tree, ids, open, container)
  BY <1>1, WalkingIs
<1>5. container \in Containers(tree)
  BY <1>3, TreeType
<1>6. x \in Statement /\ x.node = "break"
  <2>1. x \in StatementIn(Len(tree) + 1) /\ x.node = "break"
    BY <1>1, <1>3, StatementMet DEF CanMeet, Plain, Called
  <2> QED BY <1>3, <2>1, StatementType
<1> HIDE DEF x
<1>7. i = Nearest(Append(tree, x), Len(tree) + 1, Breakable) /\ u \in Nat
  BY <1>2, <1>3, <1>4, <1>5, <1>6, LastContainerIs
<1>8. i \in 1 .. Len(tree)
  <2>1. Len(container) \in 1 .. Len(container)
    BY <1>2, <1>3, <1>5, ContainerType
  <2> QED BY <1>3, <1>5, <2>1, ContainerType
<1>9. i # 0
  BY <1>8
<1> HIDE DEF u, i
<1>10. [Blank EXCEPT !.unique = u] \in Ids /\ [Blank EXCEPT !.unique = u].unique = u
  <2>1. u \in Int
    BY <1>7
  <2> QED BY <2>1, BlankType DEF Blank
<1>11. /\ tree' = Append(tree, x) /\ tree'[Len(tree) + 1] = x
       /\ ids'[Len(tree) + 1] = [Blank EXCEPT !.unique = u]
       /\ SameIds(tree, ids, ids')
  BY <1>2, <1>3, <1>6, <1>10, MetIds
<1>12. ids'[i].end = u
  BY <1>8, <1>11 DEF SameIds, u
<1>13. JumpsStep(tree', ids', Len(tree) + 1)
  BY <1>6, <1>7, <1>9, <1>10, <1>11, <1>12 DEF JumpsStep
<1>14. u \in Int
  BY <1>7
<1> QED BY <1>1, <1>2, <1>13, <1>14, JumpJ DEF x

LEMMA ContinueJ == ASSUME IInv, JInv, Continue PROVE JInv'
<1> DEFINE x == Plain("continue")
           i == has_container("loop")
           u == ids[i].continue
<1> SUFFICES ASSUME status' = "ok" PROVE JInv'
  BY DEF JInv
<1>1. Walking /\ open # <<>> /\ CanMeet("continue")
  BY DEF Continue, CanMeet, Walking
<1>2. /\ FirstWalk /\ i # 0 /\ generator' = generator
      /\ Meet(x, [Blank EXCEPT !.unique = u])
  BY DEF Continue, Fail
<1>3. /\ TypeOK /\ tree \in Tree /\ OpenOK(tree, open) /\ Len(tree) + 1 \in Nat
      /\ ids \in Seq(Ids) /\ Len(ids) = Len(tree)
  BY <1>1, WalkingType
<1>4. ContainerOK(tree, ids, open, container)
  BY <1>1, WalkingIs
<1>5. container \in Containers(tree)
  BY <1>3, TreeType
<1>6. x \in Statement /\ x.node = "continue"
  <2>1. x \in StatementIn(Len(tree) + 1) /\ x.node = "continue"
    BY <1>1, <1>3, StatementMet DEF CanMeet, Plain, Called
  <2> QED BY <1>3, <2>1, StatementType
<1> HIDE DEF x
<1>7. i = Nearest(Append(tree, x), Len(tree) + 1, {"loop"})
  <2>1. i = HasIn(container, "loop")
    BY Views
  <2>2. "loop" \in Breakable
    BY DEF Breakable
  <2> QED BY <1>3, <1>4, <1>5, <1>6, <2>1, <2>2, HasInIs
<1> HIDE DEF i, u
<1>8. i \in 1 .. Len(tree)
  <2> DEFINE near == Nearest(Append(tree, x), Len(tree) + 1, {"loop"})
  <2>1. near # 0 => near \in 1 .. Len(tree)
    BY <1>3, <1>6, SwitchAround DEF Breakable
  <2> QED BY <1>2, <1>7, <2>1
<1>9. u \in Int
  <2>1. ids[i] \in Ids
    BY <1>3, <1>8, ElementOfSeq
  <2> QED BY <2>1 DEF Ids, u
<1>10. [Blank EXCEPT !.unique = u] \in Ids /\ [Blank EXCEPT !.unique = u].unique = u
  BY <1>9, BlankType DEF Blank
<1>11. /\ tree' = Append(tree, x) /\ tree'[Len(tree) + 1] = x
       /\ ids'[Len(tree) + 1] = [Blank EXCEPT !.unique = u]
       /\ SameIds(tree, ids, ids')
  BY <1>2, <1>3, <1>6, <1>10, MetIds
<1>12. ids'[i].continue = u
  BY <1>8, <1>11 DEF SameIds, u
<1>13. JumpsStep(tree', ids', Len(tree) + 1)
  BY <1>2, <1>6, <1>7, <1>10, <1>11, <1>12 DEF JumpsStep
<1> QED BY <1>1, <1>2, <1>9, <1>13, JumpJ DEF x

\* The innermost switch of a case or default remembers it.
LEMMA RememberJ ==
  ASSUME IInv, JInv, Walking, open # <<>>, NEW x \in StatementIn(Len(tree) + 1),
         x.node \in {"case", "default"}, x.node = "case" => x.num \in Value,
         NEW s \in 1 .. Len(tree), NEW r \in Ids, tree[s].node = "switch",
         s = Nearest(Append(tree, x), Len(tree) + 1, {"switch"}),
         tree' = Append(tree, x),
         ids' = Append([ids EXCEPT ![s] = r], [Blank EXCEPT !.unique = generator]),
         r.start = ids[s].start, r.continue = ids[s].continue,
         r.end = ids[s].end, r.unique = ids[s].unique,
         x.node = "case" =>
           /\ r.default = ids[s].default
           /\ \A k \in 1 .. Len(r.cases) :
                \/ \E j \in 1 .. Len(ids[s].cases) : r.cases[k] = ids[s].cases[j]
                \/ r.cases[k].unique = generator,
         x.node = "default" => r.cases = ids[s].cases /\ r.default = generator,
         FirstWalk, generator' = generator + 1
  PROVE  JInv'
<1> DEFINE n  == Len(tree) + 1
           id == [Blank EXCEPT !.unique = generator]
           d  == [ids EXCEPT ![s] = r]
<1>1. /\ TypeOK /\ tree \in Tree /\ generator \in Nat /\ Len(tree) + 1 \in Nat
      /\ Len(tree) \in Nat /\ ids \in Seq(Ids) /\ Len(ids) = Len(tree)
      /\ generator # Unset
  BY WalkingType
<1>2. x \in Statement
  BY <1>1, StatementType
<1>3. id \in Ids /\ id.unique = generator
  <2>1. generator \in Int
    BY <1>1
  <2> QED BY <2>1, BlankType DEF Blank
<1>4. /\ d \in Seq(Ids) /\ Len(d) = Len(tree) /\ d[s] = r
      /\ \A i \in 1 .. Len(tree) : i # s => d[i] = ids[i]
  BY <1>1, ExceptSeq
<1>5. ids' = Append(d, id)
  OBVIOUS
<1> HIDE DEF d, id
<1>6. /\ ids'[n] = id /\ ids'[s] = r
      /\ \A i \in 1 .. Len(tree) : i # s => ids'[i] = ids[i]
  <2>1. /\ Append(d, id)[Len(d) + 1] = id
        /\ \A i \in 1 .. Len(d) : Append(d, id)[i] = d[i]
    BY <1>3, <1>4, IdsGrow
  <2>2. ids'[n] = id /\ \A i \in 1 .. Len(tree) : ids'[i] = d[i]
    BY <1>4, <1>5, <2>1
  <2> QED BY <1>4, <2>2
<1>7. SameIds(tree, ids, ids')
  BY <1>6 DEF SameIds
<1>8. /\ tree'[n] = x /\ \A i \in 1 .. Len(tree) : tree'[i] = tree[i]
  BY <1>1, <1>2, TreeGrows
<1>9. Fitting(tree, open, x) /\ ElseFits(tree, open, x)
  BY ElseFitsOther DEF Fitting, Mention
<1>10. generator' \in Nat /\ generator =< generator'
       /\ generator \in generator .. generator' - 1
  BY <1>1
<1>11. Within(tree', n, s, x.node)
  BY <1>8 DEF Within, n
<1> HIDE DEF n
<1>12. \A y : Owned(tree', ids', n, y) => y \in generator .. generator' - 1
  BY <1>3, <1>6, <1>8, <1>10 DEF Owned
<1>13. CasesStep(tree, tree', ids, ids', n)
  <2> SUFFICES ASSUME NEW i \in 1 .. Len(tree), tree[i].node = "switch",
                      NEW k \in 1 .. Len(ids'[i].cases)
               PROVE  \/ \E j \in 1 .. Len(ids[i].cases) :
                           ids'[i].cases[k].unique = ids[i].cases[j].unique
                      \/ Within(tree', n, i, "case") /\ ids'[n].unique = ids'[i].cases[k].unique
    BY <1>8 DEF CasesStep
  <2>1. CASE ids'[i].cases = ids[i].cases
    BY <2>1
  <2>2. CASE i = s /\ x.node = "case"
    <3>1. ids'[i].cases = r.cases
      BY <1>6, <2>2
    <3>2. \/ \E j \in 1 .. Len(ids[s].cases) : r.cases[k] = ids[s].cases[j]
          \/ r.cases[k].unique = generator
      BY <2>2, <3>1
    <3>3. Within(tree', n, i, "case") /\ ids'[n].unique = generator
      BY <1>3, <1>6, <1>11, <2>2
    <3>4. CASE \E j \in 1 .. Len(ids[s].cases) : r.cases[k] = ids[s].cases[j]
      <4>1. PICK j \in 1 .. Len(ids[s].cases) : r.cases[k] = ids[s].cases[j]
        BY <3>4
      <4>2. ids'[i].cases[k].unique = ids[i].cases[j].unique /\ j \in 1 .. Len(ids[i].cases)
        BY <2>2, <3>1, <4>1
      <4> QED BY <4>2
    <3>5. CASE r.cases[k].unique = generator
      <4>1. ids'[n].unique = ids'[i].cases[k].unique
        BY <3>1, <3>3, <3>5
      <4> QED BY <3>3, <4>1
    <3> QED BY <3>2, <3>4, <3>5
  <2> QED BY <1>6, <2>1, <2>2
<1>14. DefaultsStep(tree, tree', ids, ids', n)
  <2> SUFFICES ASSUME NEW i \in 1 .. Len(tree), tree[i].node = "switch",
                      ids'[i].default # ids[i].default
               PROVE  Within(tree', n, i, "default") /\ ids'[n].unique = ids'[i].default
    BY <1>8 DEF DefaultsStep
  <2>1. i = s /\ x.node = "default"
    BY <1>6
  <2> QED BY <1>3, <1>6, <1>11, <2>1
<1>15. JumpsStep(tree', ids', n)
  <2>1. ids'[n].unique # Unset
    BY <1>1, <1>3, <1>6
  <2> QED BY <1>8, <2>1 DEF JumpsStep
<1> QED BY <1>7, <1>9, <1>10, <1>12, <1>13, <1>14, <1>15, FirstJ DEF n

LEMMA EntryPrepended ==
  ASSUME NEW cases \in Seq([value: Nat, unique: Nat]), NEW e \in [value: Nat, unique: Nat]
  PROVE  /\ <<e>> \o cases \in Seq([value: Nat, unique: Nat])
         /\ \A k \in 1 .. Len(<<e>> \o cases) :
              \/ \E j \in 1 .. Len(cases) : (<<e>> \o cases)[k] = cases[j]
              \/ (<<e>> \o cases)[k] = e
<1> DEFINE one == <<e>>
           all == one \o cases
<1>1. /\ one \in Seq([value: Nat, unique: Nat]) /\ Len(one) = 1 /\ one[1] = e
      /\ Len(cases) \in Nat
  OBVIOUS
<1> HIDE DEF one
<1>2. /\ all \in Seq([value: Nat, unique: Nat])
      /\ Len(all) = Len(one) + Len(cases)
      /\ \A k \in 1 .. Len(one) + Len(cases) :
           all[k] = IF k =< Len(one) THEN one[k] ELSE cases[k - Len(one)]
  BY <1>1, ConcatProperties
<1> HIDE DEF all
<1>3. ASSUME NEW k \in 1 .. Len(all)
      PROVE  (\E j \in 1 .. Len(cases) : all[k] = cases[j]) \/ all[k] = e
  <2>1. CASE k = 1
    BY <1>1, <1>2, <2>1
  <2>2. CASE k # 1
    <3>1. k - 1 \in 1 .. Len(cases)
      BY <1>1, <1>2, <2>2
    <3>2. all[k] = cases[k - 1]
      BY <1>1, <1>2, <2>2
    <3> QED BY <3>1, <3>2
  <2> QED BY <2>1, <2>2
<1> QED BY <1>2, <1>3 DEF all, one

LEMMA CaseJ == ASSUME IInv, JInv, NEW v \in Value, Case(v) PROVE JInv'
<1> DEFINE x       == Numbered("case", v)
           s       == has_container("switch")
           cases   == ids[s].cases
           e       == [value |-> CaseValue(tree[s].name, v), unique |-> generator]
           r       == [ids[s] EXCEPT !.cases = <<e>> \o cases]
           id      == [Blank EXCEPT !.unique = generator]
<1> SUFFICES ASSUME status' = "ok" PROVE JInv'
  BY DEF JInv
<1>1. Walking /\ open # <<>> /\ CanMeet("case")
  BY DEF Case, CanMeet, Walking
<1>2. generator \in Nat /\ Len(tree) + 1 \in Nat
  BY <1>1, WalkingType
<1>3. x \in StatementIn(Len(tree) + 1) /\ x.node = "case" /\ x.num = v
  BY <1>1, <1>2, StatementMet DEF CanMeet, Numbered
<1>4. x \in Statement
  BY <1>2, <1>3, StatementType
<1>5. /\ s # 0 /\ FirstWalk /\ tree' = Append(tree, x) /\ generator' = generator + 1
      /\ ids' = Append([ids EXCEPT ![s].cases = <<e>> \o @], id)
  BY DEF Case, Fail
<1> HIDE DEF x, s, id
<1>6. /\ s = Nearest(Append(tree, x), Len(tree) + 1, {"switch"})
      /\ s \in 1 .. Len(tree) /\ tree[s].node = "switch"
      /\ ids[s] \in Ids /\ tree[s].name \in AllControls
  BY <1>1, <1>3, <1>4, <1>5, SwitchMet DEF s
<1>7. cases \in Seq([value: Nat, unique: Nat])
  BY <1>6 DEF Ids
<1>8. e \in [value: Nat, unique: Nat] /\ e.unique = generator
  <2>1. v \in Nat
    BY ValueAssumption
  <2>2. CaseValue(tree[s].name, v) \in Nat
    BY <1>6, <2>1, SameCaseIs
  <2> QED BY <1>2, <2>2
<1>9. [ids EXCEPT ![s].cases = <<e>> \o @] = [ids EXCEPT ![s] = r]
  OBVIOUS
<1> HIDE DEF e
<1>10. /\ <<e>> \o cases \in Seq([value: Nat, unique: Nat])
       /\ \A k \in 1 .. Len(<<e>> \o cases) :
            \/ \E j \in 1 .. Len(cases) : (<<e>> \o cases)[k] = cases[j]
            \/ (<<e>> \o cases)[k] = e
  BY <1>7, <1>8, EntryPrepended
<1> DEFINE longer == <<e>> \o cases
<1>11. r = [ids[s] EXCEPT !.cases = longer]
  OBVIOUS
<1>12. /\ longer \in Seq([value: Nat, unique: Nat])
       /\ \A k \in 1 .. Len(longer) :
            (\E j \in 1 .. Len(cases) : longer[k] = cases[j]) \/ longer[k] = e
  BY <1>10
<1> HIDE DEF r, longer
<1>13. /\ r \in Ids /\ r.cases = longer /\ r.default = ids[s].default
       /\ r.start = ids[s].start /\ r.continue = ids[s].continue
       /\ r.end = ids[s].end /\ r.unique = ids[s].unique
  BY <1>6, <1>11, <1>12 DEF Ids
<1>14. \A k \in 1 .. Len(r.cases) :
         (\E j \in 1 .. Len(ids[s].cases) : r.cases[k] = ids[s].cases[j])
         \/ r.cases[k].unique = generator
  BY <1>8, <1>12, <1>13
<1>15. ids' = Append([ids EXCEPT ![s] = r], [Blank EXCEPT !.unique = generator])
  BY <1>5, <1>9 DEF id
<1> QED BY <1>1, <1>3, <1>5, <1>6, <1>13, <1>14, <1>15, RememberJ

LEMMA DefaultJ == ASSUME IInv, JInv, Default PROVE JInv'
<1> DEFINE x  == Plain("default")
           s  == has_container("switch")
           r  == [ids[s] EXCEPT !.default = generator]
           id == [Blank EXCEPT !.unique = generator]
<1> SUFFICES ASSUME status' = "ok" PROVE JInv'
  BY DEF JInv
<1>1. Walking /\ open # <<>> /\ CanMeet("default")
  BY DEF Default, CanMeet, Walking
<1>2. generator \in Nat /\ Len(tree) + 1 \in Nat
  BY <1>1, WalkingType
<1>3. x \in StatementIn(Len(tree) + 1) /\ x.node = "default"
  BY <1>1, <1>2, StatementMet DEF CanMeet, Plain, Called
<1>4. x \in Statement
  BY <1>2, <1>3, StatementType
<1>5. /\ s # 0 /\ FirstWalk /\ tree' = Append(tree, x) /\ generator' = generator + 1
      /\ ids' = Append([ids EXCEPT ![s].default = generator], id)
  BY DEF Default, Fail
<1> HIDE DEF x, s, id
<1>6. /\ s = Nearest(Append(tree, x), Len(tree) + 1, {"switch"})
      /\ s \in 1 .. Len(tree) /\ tree[s].node = "switch" /\ ids[s] \in Ids
  BY <1>1, <1>3, <1>4, <1>5, SwitchMet DEF s
<1>7. [ids EXCEPT ![s].default = generator] = [ids EXCEPT ![s] = r]
  OBVIOUS
<1>8. /\ r \in Ids /\ r.cases = ids[s].cases /\ r.default = generator
      /\ r.start = ids[s].start /\ r.continue = ids[s].continue
      /\ r.end = ids[s].end /\ r.unique = ids[s].unique
  <2>1. generator \in Int
    BY <1>2
  <2> QED BY <1>6, <2>1 DEF Ids
<1> HIDE DEF r
<1>9. ids' = Append([ids EXCEPT ![s] = r], [Blank EXCEPT !.unique = generator])
  BY <1>5, <1>7 DEF id
<1>10. x.node # "case"
  BY <1>3
<1> QED BY <1>1, <1>3, <1>5, <1>6, <1>8, <1>9, <1>10, RememberJ

(***************************************************************************)
(* The second walk hands out the rest of the IDs.                          *)
(***************************************************************************)
\* Only the goto or label at n is written to: it has ID u.
Recorded(t, d, d2, n, u) ==
  /\ \A i \in 1 .. Len(t) :
       /\ d2[i].start = d[i].start /\ d2[i].continue = d[i].continue
       /\ d2[i].end = d[i].end /\ d2[i].default = d[i].default /\ d2[i].cases = d[i].cases
       /\ i # n => d2[i].unique = d[i].unique
  /\ d2[n].unique = u

LEMMA NearestPosition ==
  ASSUME NEW t \in Tree, NEW p \in 1 .. Len(t), NEW kinds, Nearest(t, p, kinds) # 0
  PROVE  Nearest(t, p, kinds) \in 1 .. p - 1 /\ Nearest(t, p, kinds) \in 1 .. Len(t)
<1>1. Len(t) \in Nat
  BY DEF Tree
<1>2. p \in Nat /\ p # 0
  BY <1>1
<1>3. Nearest(t, p, kinds) \in 0 .. p - 1
  BY <1>2, NearestIs
<1> QED BY <1>1, <1>3

LEMMA TargetsRecorded ==
  ASSUME NEW t \in Tree, NEW d, NEW d2, NEW n \in 0 .. Len(t), n < Len(t),
         t[n + 1].node \in Mention, NEW u \in Nat, Recorded(t, d, d2, n + 1, u),
         TargetsOK(t, d, n)
  PROVE  TargetsOK(t, d2, n + 1)
<1>1. Len(t) \in Nat /\ n + 1 \in 1 .. Len(t)
  BY DEF Tree
<1>2. \A i \in 1 .. Len(t) :
        /\ d2[i].end = d[i].end /\ d2[i].continue = d[i].continue
        /\ d2[i].default = d[i].default /\ d2[i].cases = d[i].cases
        /\ t[i].node \notin Mention => d2[i].unique = d[i].unique
        /\ i # n + 1 => d2[i].unique = d[i].unique
  BY <1>1 DEF Recorded
<1>3. /\ BreaksOK(t, d) /\ ContinuesOK(t, d) /\ CasesOK(t, d) /\ DefaultsOK(t, d)
      /\ NumberedUpTo(t, d, n)
  BY DEF TargetsOK
<1>4. BreaksOK(t, d2)
  <2> SUFFICES ASSUME NEW p \in 1 .. Len(t), t[p].node = "break"
               PROVE  /\ Nearest(t, p, Breakable) # 0
                      /\ d2[p].unique = d2[Nearest(t, p, Breakable)].end
    BY DEF BreaksOK
  <2>1. Nearest(t, p, Breakable) # 0 /\ d[p].unique = d[Nearest(t, p, Breakable)].end
    BY <1>3 DEF BreaksOK
  <2>2. Nearest(t, p, Breakable) \in 1 .. Len(t)
    BY <2>1, NearestPosition
  <2>3. t[p].node \notin Mention
    BY DEF Mention
  <2> QED BY <1>2, <2>1, <2>2, <2>3
<1>5. ContinuesOK(t, d2)
  <2> SUFFICES ASSUME NEW p \in 1 .. Len(t), t[p].node = "continue"
               PROVE  /\ Nearest(t, p, {"loop"}) # 0
                      /\ d2[p].unique = d2[Nearest(t, p, {"loop"})].continue
    BY DEF ContinuesOK
  <2>1. Nearest(t, p, {"loop"}) # 0 /\ d[p].unique = d[Nearest(t, p, {"loop"})].continue
    BY <1>3 DEF ContinuesOK
  <2>2. Nearest(t, p, {"loop"}) \in 1 .. Len(t)
    BY <2>1, NearestPosition
  <2>3. t[p].node \notin Mention
    BY DEF Mention
  <2> QED BY <1>2, <2>1, <2>2, <2>3
<1>6. CasesOK(t, d2)
  <2> SUFFICES ASSUME NEW i \in 1 .. Len(t), t[i].node = "switch",
                      NEW k \in 1 .. Len(d2[i].cases)
               PROVE  \E q \in 1 .. Len(t) :
                        Within(t, q, i, "case") /\ d2[q].unique = d2[i].cases[k].unique
    BY DEF CasesOK
  <2>1. d2[i].cases = d[i].cases
    BY <1>2
  <2>2. PICK q \in 1 .. Len(t) :
          Within(t, q, i, "case") /\ d[q].unique = d[i].cases[k].unique
    BY <1>3, <2>1 DEF CasesOK
  <2>3. t[q].node \notin Mention
    BY <2>2 DEF Mention, Within
  <2> QED BY <1>2, <2>1, <2>2, <2>3
<1>7. DefaultsOK(t, d2)
  <2> SUFFICES ASSUME NEW i \in 1 .. Len(t), t[i].node = "switch",
                      d2[i].default # UnsetDefault
               PROVE  \E q \in 1 .. Len(t) :
                        Within(t, q, i, "default") /\ d2[q].unique = d2[i].default
    BY DEF DefaultsOK
  <2>1. d2[i].default = d[i].default
    BY <1>2
  <2>2. PICK q \in 1 .. Len(t) : Within(t, q, i, "default") /\ d[q].unique = d[i].default
    BY <1>3, <2>1 DEF DefaultsOK
  <2>3. t[q].node \notin Mention
    BY <2>2 DEF Mention, Within
  <2> QED BY <1>2, <2>1, <2>2, <2>3
<1>8. NumberedUpTo(t, d2, n + 1)
  <2> SUFFICES ASSUME NEW p \in 1 .. Len(t)
               PROVE  /\ t[p].node \in {"case", "default"} => d2[p].unique # Unset
                      /\ t[p].node = "label" => (d2[p].unique # Unset <=> p =< n + 1)
    BY DEF NumberedUpTo
  <2>1. /\ t[p].node \in {"case", "default"} => d[p].unique # Unset
        /\ t[p].node = "label" => (d[p].unique # Unset <=> p =< n)
    BY <1>3 DEF NumberedUpTo
  <2>2. CASE p = n + 1
    <3>1. d2[p].unique # Unset
      BY <2>2 DEF Recorded, Unset
    <3> QED BY <1>1, <2>2, <3>1 DEF Mention
  <2>3. CASE p # n + 1
    <3>1. p =< n <=> p =< n + 1
      BY <1>1, <2>3
    <3> QED BY <1>2, <2>1, <2>3, <3>1
  <2> QED BY <2>2, <2>3
<1> QED BY <1>4, <1>5, <1>6, <1>7, <1>8 DEF TargetsOK

NoOwner(t, d, y) == \A i \in 1 .. Len(t) : ~ Owned(t, d, i, y)

\* What is recorded at p does not change what the other nodes own.
OthersOwn(t, d, d2, p) ==
  \A i \in 1 .. Len(t) : \A y : i # p => (Owned(t, d2, i, y) <=> Owned(t, d, i, y))
OwnsOnly(t, d, p, u) == \A y : Owned(t, d, p, y) => t[p].node = "label" /\ y = u

LEMMA OwnedRecorded ==
  ASSUME NEW t \in Tree, NEW d, NEW d2, NEW p \in 1 .. Len(t), NEW u,
         t[p].node \in Mention, Recorded(t, d, d2, p, u)
  PROVE  OthersOwn(t, d, d2, p) /\ OwnsOnly(t, d2, p, u)
<1>1. OthersOwn(t, d, d2, p)
  BY DEF OthersOwn, Owned, Recorded
<1>2. OwnsOnly(t, d2, p, u)
  BY DEF OwnsOnly, Owned, Recorded, Mention
<1> QED BY <1>1, <1>2

\* The ID is nobody else's.
LEMMA OwnersRecorded ==
  ASSUME NEW t \in Tree, NEW d, NEW d2, NEW p \in 1 .. Len(t),
         t[p].node \in Mention, NEW u \in Nat, Recorded(t, d, d2, p, u),
         NEW g \in Nat, NEW g2 \in Nat, g =< g2, OwnersApart(t, d, g),
         u < g2,
         t[p].node = "label" => NoOwner(t, d, u)
  PROVE  OwnersApart(t, d2, g2)
<1>1. /\ \A i \in 1 .. Len(t) : \A y : i # p => (Owned(t, d2, i, y) <=> Owned(t, d, i, y))
      /\ \A y : Owned(t, d2, p, y) => t[p].node = "label" /\ y = u
  <2>1. OthersOwn(t, d, d2, p) /\ OwnsOnly(t, d2, p, u)
    BY OwnedRecorded
  <2> QED BY <2>1 DEF OthersOwn, OwnsOnly
<1>4. /\ \A i \in 1 .. Len(t) : \A y : Owned(t, d, i, y) => y \in Nat /\ y < g
      /\ \A i, j \in 1 .. Len(t) : \A y : Owned(t, d, i, y) /\ Owned(t, d, j, y) => i = j
  BY DEF OwnersApart
<1>5. ASSUME NEW i \in 1 .. Len(t), NEW y, Owned(t, d2, i, y)
      PROVE  y \in Nat /\ y < g2
  <2>1. CASE i = p
    BY <1>1, <1>5, <2>1
  <2>2. CASE i # p
    <3>1. Owned(t, d, i, y)
      BY <1>1, <1>5, <2>2
    <3>2. y \in Nat /\ y < g
      BY <1>4, <3>1
    <3> QED BY <3>2
  <2> QED BY <2>1, <2>2
<1>6. ASSUME NEW i \in 1 .. Len(t), NEW j \in 1 .. Len(t), NEW y,
             Owned(t, d2, i, y), Owned(t, d2, j, y)
      PROVE  i = j
  <2>1. CASE i = p /\ j # p
    <3>1. Owned(t, d, j, y)
      BY <1>1, <1>6, <2>1
    <3>2. t[p].node = "label" /\ y = u
      BY <1>1, <1>6, <2>1
    <3> QED BY <3>1, <3>2 DEF NoOwner
  <2>2. CASE i # p /\ j = p
    <3>1. Owned(t, d, i, y)
      BY <1>1, <1>6, <2>2
    <3>2. t[p].node = "label" /\ y = u
      BY <1>1, <1>6, <2>2
    <3> QED BY <3>1, <3>2 DEF NoOwner
  <2>3. CASE i # p /\ j # p
    <3>1. Owned(t, d, i, y) /\ Owned(t, d, j, y)
      BY <1>1, <1>6, <2>3
    <3> QED BY <1>4, <3>1
  <2> QED BY <2>1, <2>2, <2>3
<1>7. ASSUME NEW i \in 1 .. Len(t), t[i].node = "loop"
      PROVE  /\ d2[i].start # d2[i].continue /\ d2[i].start # d2[i].end
             /\ d2[i].continue # d2[i].end
  BY <1>7 DEF OwnersApart, Recorded
<1> QED BY <1>5, <1>6, <1>7 DEF OwnersApart

\* The list after n nodes, and the one after n + 1: entry e is the name's.
LEMMA EntriesRecorded ==
  ASSUME NEW t \in Tree, TreeOK(t), NEW d, NEW d2, NEW n \in 0 .. Len(t), n < Len(t),
         NEW node \in Mention, t[n + 1].node = node,
         NEW nm \in Name, t[n + 1].name = nm, NEW flag \in Flags,
         NEW g \in Nat, NEW l \in Seq(Entry), OwnersApart(t, d, g + 1),
         EntriesApart(t, d, l, g, n), LabelsOK(t, d, n, l),
         node = "label" => ~ \E k \in 1 .. Len(l) : l[k].name = nm /\ l[k].used_as_label,
         NEW m, m = Marked(l, nm, flag, g), NEW e \in 1 .. Len(m), m[e].name = nm,
         Recorded(t, d, d2, n + 1, m[e].id),
         NEW g2 \in Nat, g2 \in {g, g + 1},
         ~ (\E k \in 1 .. Len(l) : l[k].name = nm) => g2 = g + 1
  PROVE  /\ OwnersApart(t, d2, g2 + 1)
         /\ EntriesApart(t, d2, m, g2, n + 1)
         /\ m[e].id \in Nat
<1> DEFINE all == WithFresh(l, nm, g)
<1>1. Len(t) \in Nat /\ n + 1 \in 1 .. Len(t) /\ n + 1 \in 0 .. Len(t)
  BY DEF Tree
<1>2. NamesDiffer(l)
  BY DEF LabelsOK, NamesDiffer
<1>3. /\ all \in Seq(Entry) /\ NamesDiffer(all)
      /\ Len(l) \in Nat /\ Len(all) \in Nat /\ Len(l) =< Len(all)
      /\ \A k \in 1 .. Len(l) : all[k] = l[k]
      /\ \A k \in 1 .. Len(all) : k > Len(l) => all[k] = Fresh(nm, g)
  BY <1>2, WithFreshIs
<1>4. /\ m \in Seq(Entry) /\ Len(m) = Len(all) /\ NamesDiffer(m)
      /\ \A k \in 1 .. Len(m) : m[k].name = all[k].name /\ m[k].id = all[k].id
  <2>1. LET w == Marked(l, nm, flag, g) v == WithFresh(l, nm, g)
        IN  /\ w \in Seq(Entry) /\ Len(w) = Len(v) /\ NamesDiffer(w)
            /\ \A k \in 1 .. Len(w) : w[k].name = v[k].name /\ w[k].id = v[k].id
    BY <1>2, MarkedIs
  <2> QED BY <2>1
<1> HIDE DEF all
<1>5. Fresh(nm, g).name = nm /\ Fresh(nm, g).id = g + 1
  BY DEF Fresh
\* An entry is an old one or the fresh one, and then the name is new.
<1>6. ASSUME NEW k \in 1 .. Len(m)
      PROVE  \/ k \in 1 .. Len(l) /\ m[k].name = l[k].name /\ m[k].id = l[k].id
             \/ /\ k \notin 1 .. Len(l) /\ m[k].name = nm /\ m[k].id = g + 1 /\ g2 = g + 1
  <2>1. CASE k \in 1 .. Len(l)
    BY <1>3, <1>4, <2>1
  <2>2. CASE k \notin 1 .. Len(l)
    <3>1. k > Len(l) /\ k \in 1 .. Len(all)
      BY <1>3, <1>4, <2>2
    <3>2. m[k].name = nm /\ m[k].id = g + 1
      BY <1>3, <1>4, <1>5, <3>1
    <3>3. ~ \E j \in 1 .. Len(l) : l[j].name = nm
      <4> SUFFICES ASSUME NEW j \in 1 .. Len(l), l[j].name = nm PROVE FALSE
        OBVIOUS
      <4>1. j \in 1 .. Len(m) /\ m[j].name = nm
        BY <1>3, <1>4
      <4>2. j = k
        BY <1>4, <3>2, <4>1 DEF NamesDiffer
      <4> QED BY <2>2, <4>2
    <3> QED BY <2>2, <3>2, <3>3
  <2> QED BY <2>1, <2>2
<1>7. g =< g2 /\ g2 =< g + 1
  OBVIOUS
<1>8. /\ \A k \in 1 .. Len(l) : l[k].id =< g
      /\ \A j, k \in 1 .. Len(l) : l[j].id = l[k].id => j = k
      /\ \A k \in 1 .. Len(l) : \A p \in 1 .. Len(t) :
           Owned(t, d, p, l[k].id) => p \in Current(t, n) /\ Uses(t, p, l[k].name, "label")
  BY DEF EntriesApart
<1>9. \A k \in 1 .. Len(l) : l[k].id \in Nat
  <2> SUFFICES ASSUME NEW k \in 1 .. Len(l) PROVE l[k].id \in Nat
    OBVIOUS
  <2>1. l[k] \in Entry
    BY ElementOfSeq
  <2> QED BY <2>1 DEF Entry
<1>10. \A k \in 1 .. Len(m) : m[k].id \in 0 .. g2
  <2> SUFFICES ASSUME NEW k \in 1 .. Len(m) PROVE m[k].id \in 0 .. g2
    OBVIOUS
  <2>1. CASE k \in 1 .. Len(l) /\ m[k].id = l[k].id
    <3>1. l[k].id \in Nat /\ l[k].id =< g
      BY <1>8, <1>9, <2>1
    <3> QED BY <1>7, <2>1, <3>1
  <2>2. CASE m[k].id = g + 1 /\ g2 = g + 1
    BY <2>2
  <2> QED BY <1>6, <2>1, <2>2
<1>11. ASSUME NEW j \in 1 .. Len(m), NEW k \in 1 .. Len(m), m[j].id = m[k].id
       PROVE  j = k
  <2>1. CASE j \in 1 .. Len(l) /\ k \in 1 .. Len(l)
    BY <1>6, <1>8, <1>11, <2>1
  <2>2. CASE j \in 1 .. Len(l) /\ k \notin 1 .. Len(l)
    <3>1. l[j].id = g + 1
      BY <1>6, <1>11, <2>2
    <3>2. l[j].id =< g
      BY <1>8, <2>2
    <3> QED BY <3>1, <3>2
  <2>3. CASE j \notin 1 .. Len(l) /\ k \in 1 .. Len(l)
    <3>1. l[k].id = g + 1
      BY <1>6, <1>11, <2>3
    <3>2. l[k].id =< g
      BY <1>8, <2>3
    <3> QED BY <3>1, <3>2
  <2>4. CASE j \notin 1 .. Len(l) /\ k \notin 1 .. Len(l)
    <3>1. m[j].name = m[k].name
      BY <1>6, <2>4
    <3> QED BY <1>4, <3>1 DEF NamesDiffer
  <2> QED BY <2>1, <2>2, <2>3, <2>4
\* Whose the IDs of the entries were.
<1>12. ASSUME NEW k \in 1 .. Len(m), NEW p \in 1 .. Len(t), Owned(t, d, p, m[k].id)
       PROVE  p \in Current(t, n) /\ Uses(t, p, m[k].name, "label") /\ k \in 1 .. Len(l)
  <2>1. CASE k \in 1 .. Len(l) /\ m[k].name = l[k].name /\ m[k].id = l[k].id
    <3>1. Owned(t, d, p, l[k].id)
      BY <1>12, <2>1
    <3> QED BY <1>8, <2>1, <3>1
  <2>2. CASE m[k].id = g + 1
    <3>1. m[k].id < g + 1
      BY <1>12 DEF OwnersApart
    <3> QED BY <2>2, <3>1
  <2> QED BY <1>6, <2>1, <2>2
<1>13. t[n + 1].node = "label" => NoOwner(t, d, m[e].id)
  <2> SUFFICES ASSUME node = "label", NEW i \in 1 .. Len(t), Owned(t, d, i, m[e].id)
               PROVE  FALSE
    BY DEF NoOwner
  <2>1. i \in Current(t, n) /\ Uses(t, i, nm, "label") /\ e \in 1 .. Len(l)
    BY <1>12
  <2>2. l[e].name = nm
    BY <1>6, <2>1
  <2>3. l[e].used_as_label
    BY <2>1, <2>2 DEF LabelsOK
  <2> QED BY <2>1, <2>2, <2>3
<1>14. m[e].id \in 0 .. g2
  BY <1>10
<1>15. /\ OwnersApart(t, d2, g2 + 1)
       /\ \A i \in 1 .. Len(t) : \A y : i # n + 1 => (Owned(t, d2, i, y) <=> Owned(t, d, i, y))
       /\ \A y : Owned(t, d2, n + 1, y) => t[n + 1].node = "label" /\ y = m[e].id
  <2>1. PICK p \in 1 .. Len(t) : p = n + 1
    BY <1>1
  <2>2. PICK b \in Nat : b = g + 1
    OBVIOUS
  <2>3. PICK c \in Nat : c = g2 + 1
    OBVIOUS
  <2>4. PICK u \in Nat : u = m[e].id
    BY <1>14
  <2>5. b =< c /\ OwnersApart(t, d, b) /\ t[p].node \in Mention /\ Recorded(t, d, d2, p, u)
    BY <1>7, <2>1, <2>2, <2>3, <2>4
  <2>6. u < c
    BY <1>14, <2>3, <2>4
  <2>7. t[p].node = "label" => NoOwner(t, d, u)
    BY <1>13, <2>1, <2>4
  <2>8. OwnersApart(t, d2, c)
    BY <2>5, <2>6, <2>7, OwnersRecorded
  <2>9. /\ \A i \in 1 .. Len(t) : \A y : i # p => (Owned(t, d2, i, y) <=> Owned(t, d, i, y))
        /\ \A y : Owned(t, d2, p, y) => t[p].node = "label" /\ y = u
    <3>1. OthersOwn(t, d, d2, p) /\ OwnsOnly(t, d2, p, u)
      BY <2>5, OwnedRecorded
    <3> QED BY <3>1 DEF OthersOwn, OwnsOnly
  <2> QED BY <2>1, <2>3, <2>4, <2>8, <2>9
<1>16. \A q : q \in Current(t, n + 1) <=>
         q \in Current(t, n) \/ (q = n + 1 /\ t[q].node \in Mention)
  <2>1. t[n + 1].node # "end"
    BY DEF Mention
  <2> QED BY <2>1, CurrentGrows
<1>17. ASSUME NEW k \in 1 .. Len(m), NEW p \in 1 .. Len(t), Owned(t, d2, p, m[k].id)
       PROVE  p \in Current(t, n + 1) /\ Uses(t, p, m[k].name, "label")
  <2>1. CASE p # n + 1
    <3>1. Owned(t, d, p, m[k].id)
      BY <1>15, <1>17, <2>1
    <3> QED BY <1>12, <1>16, <3>1
  <2>2. CASE p = n + 1
    <3>1. t[n + 1].node = "label" /\ m[k].id = m[e].id
      BY <1>15, <1>17, <2>2
    <3>2. k = e
      BY <1>11, <3>1
    <3> QED BY <1>16, <2>2, <3>1, <3>2 DEF Uses
  <2> QED BY <2>1, <2>2
<1>18. \A k \in 1 .. Len(m) : m[k].id =< g2
  BY <1>10
<1>19. EntriesApart(t, d2, m, g2, n + 1)
  BY <1>11, <1>17, <1>18 DEF EntriesApart
<1> QED BY <1>14, <1>15, <1>19

\* What a step of the second walk has to show.
LEMMA SecondJ ==
  ASSUME NEW node, Replaying(node), JInv,
         OwnersApart(tree, ids', generator' + 1), TargetsOK(tree, ids', pos + 1),
         EntriesApart(tree, ids', labels', generator', pos + 1)
  PROVE  JInv'
<1>1. /\ status = "ok" /\ pass = "gotos" /\ pass' = pass /\ tree' = tree /\ pos' = pos + 1
  BY ReplayingIs
<1>2. Nested(tree) /\ EveryEnded(tree)
  BY <1>1 DEF JInv
<1>3. pass' # "loops" /\ NextId' = generator' + 1
  BY <1>1 DEF NextId
<1> QED BY <1>1, <1>2, <1>3 DEF JInv

LEMMA JIs ==
  ASSUME NEW node, Replaying(node), JInv
  PROVE  /\ OwnersApart(tree, ids, generator + 1) /\ TargetsOK(tree, ids, pos)
         /\ EntriesApart(tree, ids, labels, generator, pos)
<1>1. status = "ok" /\ pass = "gotos"
  BY ReplayingIs
<1> QED BY <1>1 DEF JInv, NextId

LEMMA UniqueUpdated ==
  ASSUME NEW o \in Ids, NEW n \in Nat
  PROVE  LET v == [o EXCEPT !.unique = n]
         IN  /\ v \in Ids /\ v.unique = n /\ v.start = o.start
             /\ v.continue = o.continue /\ v.end = o.end
             /\ v.default = o.default /\ v.cases = o.cases
<1>1. n \in Int
  OBVIOUS
<1>2. [o EXCEPT !.unique = n] \in Ids
  BY <1>1 DEF Ids
<1>3. LET v == [o EXCEPT !.unique = n]
      IN  /\ v.unique = n /\ v.start = o.start
          /\ v.continue = o.continue /\ v.end = o.end
          /\ v.default = o.default /\ v.cases = o.cases
  BY DEF Ids
<1> QED BY <1>2, <1>3

LEMMA RecordJ ==
  ASSUME NEW node \in Mention, Replaying(node), NEW flag \in Flags, JInv,
         node = "label" <=> flag = "used_as_label",
         node = "label" => ~ IsLabel(tree[pos + 1].name),
         Record(tree[pos + 1].name, flag)
  PROVE  JInv'
<1> DEFINE nm == tree[pos + 1].name
           m  == Marked(labels, nm, flag, generator)
           u  == (CHOOSE e \in {m[k] : k \in 1 .. Len(m)} : e.name = nm).id
<1>1. /\ TreeOK(tree) /\ LabelsOK(tree, ids, pos, labels)
      /\ tree \in Tree /\ Len(tree) \in Nat
      /\ ids \in Seq(Ids) /\ Len(ids) = Len(tree)
      /\ labels \in Seq(Entry) /\ generator \in Nat
      /\ pos \in 0 .. Len(tree) /\ pos < Len(tree)
      /\ pos + 1 \in 1 .. Len(tree) /\ tree[pos + 1].node = node
  BY ReplayingIs DEF SecondOK
<1>2. nm \in Name
  BY <1>1 DEF TreeOK, MentionsNamed
<1>3. NamesDiffer(labels)
  BY <1>1 DEF LabelsOK, NamesDiffer
<1>4. /\ m \in Seq(Entry) /\ Len(m) = Len(WithFresh(labels, nm, generator))
      /\ \A k \in 1 .. Len(m) : m[k].name = WithFresh(labels, nm, generator)[k].name
  <2> HIDE DEF nm
  <2>1. LET w   == Marked(labels, nm, flag, generator)
            all == WithFresh(labels, nm, generator)
        IN  /\ w \in Seq(Entry) /\ Len(w) = Len(all)
            /\ \A k \in 1 .. Len(w) : w[k].name = all[k].name
    BY <1>1, <1>2, <1>3, MarkedIs
  <2> QED BY <2>1
<1>5. \E k \in 1 .. Len(m) : m[k].name = nm
  <2> HIDE DEF nm, m
  <2>1. labels \in Seq(Entry) /\ generator \in Nat
    BY <1>1
  <2>2. LET all == WithFresh(labels, nm, generator) IN
        \E k \in 1 .. Len(all) : all[k].name = nm
    BY <1>2, <1>3, <2>1, WithFreshIs
  <2> QED BY <1>4, <2>2
<1>6. labels' = m
  BY MarkedView DEF Record
<1>7. ids' = [ids EXCEPT ![pos + 1].unique = u]
  <2>1. ids' = [ids EXCEPT ![pos + 1].unique =
                  (CHOOSE e \in {labels'[k] : k \in 1 .. Len(labels')} : e.name = nm).id]
    BY DEF Record, Next2
  <2> HIDE DEF m
  <2> QED BY <1>6, <2>1
<1>8. \E k \in 1 .. Len(m) : m[k].name = nm /\ u = m[k].id
  <2> DEFINE E  == {m[k] : k \in 1 .. Len(m)}
             e0 == CHOOSE e \in E : e.name = nm
  <2> HIDE DEF m
  <2>1. e0 \in E /\ e0.name = nm
    BY <1>5
  <2>2. u = e0.id
    OBVIOUS
  <2> HIDE DEF u, e0
  <2>3. PICK k \in 1 .. Len(m) : e0 = m[k]
    BY <2>1
  <2> QED BY <2>1, <2>2, <2>3
<1> HIDE DEF m, u
<1>9. PICK e \in 1 .. Len(m) : m[e].name = nm /\ u = m[e].id
  BY <1>8
<1>10. m[e].id \in Nat
  <2>1. m[e] \in Entry
    BY <1>4, ElementOfSeq
  <2> QED BY <2>1 DEF Entry
<1>11. Recorded(tree, ids, ids', pos + 1, m[e].id)
  <2> DEFINE r == [ids[pos + 1] EXCEPT !.unique = u]
  <2>1. ids' = [ids EXCEPT ![pos + 1] = r]
    BY <1>7
  <2>2. ids[pos + 1] \in Ids
    BY <1>1, ElementOfSeq
  <2>3. /\ r \in Ids /\ r.unique = u /\ r.start = ids[pos + 1].start
        /\ r.continue = ids[pos + 1].continue /\ r.end = ids[pos + 1].end
        /\ r.default = ids[pos + 1].default /\ r.cases = ids[pos + 1].cases
    <3>1. u \in Nat
      BY <1>9, <1>10
    <3> QED BY <2>2, <3>1, UniqueUpdated
  <2> HIDE DEF r
  <2>4. /\ ids'[pos + 1] = r
        /\ \A q \in 1 .. Len(ids) : q # pos + 1 => ids'[q] = ids[q]
    BY <1>1, <2>1, <2>3, ExceptSeq
  <2> QED BY <1>1, <1>9, <2>3, <2>4 DEF Recorded
<1>12. node = "label" =>
         ~ \E k \in 1 .. Len(labels) : labels[k].name = nm /\ labels[k].used_as_label
  BY DEF IsLabel, Named
<1>13. /\ generator' \in Nat /\ generator' \in {generator, generator + 1}
       /\ ~ (\E k \in 1 .. Len(labels) : labels[k].name = nm) => generator' = generator + 1
  BY <1>1 DEF Record, Named
<1>14. /\ OwnersApart(tree, ids, generator + 1) /\ TargetsOK(tree, ids, pos)
       /\ EntriesApart(tree, ids, labels, generator, pos)
  BY JIs
<1>15. m = Marked(labels, nm, flag, generator) /\ tree[pos + 1].name = nm
  BY DEF m
<1> HIDE DEF nm
<1>16. PICK g2 \in Nat : g2 = generator'
  BY <1>13
<1>17. PICK g \in Nat : g = generator
  BY <1>1
<1>18. PICK n \in 0 .. Len(tree) : n = pos
  BY <1>1
<1>19. /\ OwnersApart(tree, ids', g2 + 1)
       /\ EntriesApart(tree, ids', m, g2, n + 1)
  <2>1. /\ g2 \in {g, g + 1} /\ m = Marked(labels, nm, flag, g)
        /\ ~ (\E k \in 1 .. Len(labels) : labels[k].name = nm) => g2 = g + 1
        /\ OwnersApart(tree, ids, g + 1)
        /\ EntriesApart(tree, ids, labels, g, n) /\ LabelsOK(tree, ids, n, labels)
        /\ Recorded(tree, ids, ids', n + 1, m[e].id)
        /\ n < Len(tree) /\ tree[n + 1].node = node /\ tree[n + 1].name = nm
    BY <1>1, <1>11, <1>13, <1>14, <1>15, <1>16, <1>17, <1>18
  <2> QED BY <1>1, <1>2, <1>9, <1>12, <2>1, EntriesRecorded
<1>20. TargetsOK(tree, ids', n + 1)
  <2>1. /\ Recorded(tree, ids, ids', n + 1, m[e].id) /\ TargetsOK(tree, ids, n)
        /\ n < Len(tree) /\ tree[n + 1].node \in Mention
    BY <1>1, <1>11, <1>14, <1>18
  <2> QED BY <1>1, <1>10, <2>1, TargetsRecorded
<1>21. /\ OwnersApart(tree, ids', generator' + 1) /\ TargetsOK(tree, ids', pos + 1)
       /\ EntriesApart(tree, ids', labels', generator', pos + 1)
  BY <1>6, <1>16, <1>18, <1>19, <1>20
<1> QED BY <1>21, SecondJ

LEMMA GotoIdJ == ASSUME IInv, JInv, GotoId PROVE JInv'
<1>1. Replaying("goto") /\ Record(tree[pos + 1].name, "used_as_target")
  BY DEF GotoId, Next2, Replaying
<1>2. "goto" \in Mention /\ "used_as_target" \in Flags
  BY DEF Mention, Flags
<1> QED BY <1>1, <1>2, RecordJ

LEMMA LabelIdJ == ASSUME IInv, JInv, LabelId PROVE JInv'
<1> SUFFICES ASSUME status' = "ok" PROVE JInv'
  BY DEF JInv
<1>1. Replaying("label")
  BY DEF LabelId, Replaying
<1>2. ~ IsLabel(tree[pos + 1].name) /\ Record(tree[pos + 1].name, "used_as_label")
  BY DEF LabelId, Next2
<1>3. "label" \in Mention /\ "used_as_label" \in Flags
  BY DEF Mention, Flags
<1> QED BY <1>1, <1>2, <1>3, RecordJ

\* Nodes that are no gotos and no labels.
LEMMA PassOverJ ==
  ASSUME NEW node, Replaying(node), JInv, node \notin Mention,
         node = "end" /\ tree[tree[pos + 1].num].node = "function" => labels' = <<>>,
         ~ (node = "end" /\ tree[tree[pos + 1].num].node = "function") => labels' = labels,
         UNCHANGED <<ids, generator>>
  PROVE  JInv'
<1>1. /\ TreeOK(tree) /\ tree \in Tree /\ Len(tree) \in Nat
      /\ pos \in 0 .. Len(tree) /\ pos < Len(tree)
      /\ pos + 1 \in 1 .. Len(tree) /\ tree[pos + 1].node = node
  BY ReplayingIs
<1>2. /\ OwnersApart(tree, ids, generator + 1) /\ TargetsOK(tree, ids, pos)
      /\ EntriesApart(tree, ids, labels, generator, pos)
  BY JIs
<1>3. TargetsOK(tree, ids', pos + 1)
  <2>1. NumberedUpTo(tree, ids, pos)
    BY <1>2 DEF TargetsOK
  <2>2. ASSUME NEW p \in 1 .. Len(tree), tree[p].node = "label"
        PROVE  p =< pos <=> p =< pos + 1
    <3>1. p # pos + 1
      BY <1>1, <2>2 DEF Mention
    <3> QED BY <1>1, <3>1
  <2>3. NumberedUpTo(tree, ids, pos + 1)
    BY <2>1, <2>2 DEF NumberedUpTo
  <2> QED BY <1>2, <2>3 DEF TargetsOK
<1>4. EntriesApart(tree, ids', labels', generator', pos + 1)
  <2>1. CASE labels' = <<>>
    BY <2>1 DEF EntriesApart
  <2>2. CASE labels' = labels /\ ~ (node = "end" /\ tree[tree[pos + 1].num].node = "function")
    <3>1. Current(tree, pos + 1) = Current(tree, pos)
      <4>1. \A q : q \in Current(tree, pos + 1) <=>
                     q \in Current(tree, pos) \/ (q = pos + 1 /\ tree[q].node \in Mention)
        BY <1>1, <2>2, CurrentGrows
      <4> QED BY <1>1, <4>1
    <3> QED BY <1>2, <2>2, <3>1 DEF EntriesApart
  <2> QED BY <2>1, <2>2
<1>5. OwnersApart(tree, ids', generator' + 1)
  BY <1>2
<1> QED BY <1>3, <1>4, <1>5, SecondJ

LEMMA FunctionLabelsJ == ASSUME IInv, JInv, FunctionLabels PROVE JInv'
<1>1. PICK node \in {"function", "prototype"} : Replaying(node)
  BY DEF FunctionLabels, Replaying
<1>2. UNCHANGED <<ids, labels, generator>>
  BY DEF FunctionLabels
<1>3. node \notin Mention /\ node # "end"
  BY DEF Mention
<1> QED BY <1>1, <1>2, <1>3, PassOverJ

LEMMA PassedOverJ == ASSUME IInv, JInv, PassOver PROVE JInv'
<1>1. PICK node \in {"loop", "switch", "if", "ifelse", "else", "logical", "return",
                     "break", "continue", "case", "default"} : Replaying(node)
  BY DEF PassOver, Replaying
<1>2. UNCHANGED <<ids, labels, generator>>
  BY DEF PassOver
<1>3. node \notin Mention /\ node # "end"
  BY <1>1 DEF Mention
<1> QED BY <1>1, <1>2, <1>3, PassOverJ

LEMMA EndFunctionJ == ASSUME IInv, JInv, EndFunctionLabels PROVE JInv'
<1> SUFFICES ASSUME status' = "ok" PROVE JInv'
  BY DEF JInv
<1>1. Replaying("end") /\ UNCHANGED <<ids, generator>> /\ "end" \notin Mention
  BY DEF EndFunctionLabels, Replaying, Mention
<1>2. /\ tree[tree[pos + 1].num].node = "function" => labels' = <<>>
      /\ tree[tree[pos + 1].num].node # "function" => labels' = labels
  BY DEF EndFunctionLabels, Next2
<1> QED BY <1>1, <1>2, PassOverJ

LEMMA EndLoopsJ == ASSUME IInv, JInv, EndLoops PROVE JInv'
<1>1. /\ Walking /\ open = <<>> /\ status = "ok" /\ pass = "loops" /\ pass' = "gotos"
      /\ UNCHANGED <<tree, ids, labels, generator, pos>>
  BY DEF EndLoops, Walking
<1>2. /\ tree \in Tree /\ OpenOK(tree, open) /\ generator \in Nat
  BY <1>1, WalkingType
<1>3. EveryEnded(tree)
  BY <1>1, <1>2, NothingOpen
<1>4. /\ Nested(tree) /\ OwnersApart(tree, ids, generator) /\ TargetsOK(tree, ids, pos)
      /\ EntriesApart(tree, ids, labels, generator, pos)
  BY <1>1 DEF JInv, NextId
<1>5. OwnersApart(tree, ids, generator + 1)
  BY <1>2, <1>4 DEF OwnersApart
<1>6. NextId' = generator + 1
  BY <1>1 DEF NextId
<1> QED BY <1>1, <1>3, <1>4, <1>5, <1>6 DEF JInv

LEMMA EndGotosJ == ASSUME IInv, JInv, EndGotos PROVE JInv'
<1>1. /\ status = "ok" /\ pass = "gotos" /\ pass' = "labelled"
      /\ UNCHANGED <<tree, ids, labels, generator, pos, status>>
  BY DEF EndGotos
<1>2. NextId' = NextId
  BY <1>1 DEF NextId
<1> QED BY <1>1, <1>2 DEF JInv

LEMMA JInit == Init => JInv
BY DEF Init, JInv, Nested, EndsNested, FunctionsOutside, ElsesOK, IfsHaveElses,
       OwnersApart, TargetsOK, BreaksOK, ContinuesOK, CasesOK, DefaultsOK, NumberedUpTo,
       EntriesApart

LEMMA JStep == IInv /\ JInv /\ [Next]_vars => JInv'
<1> SUFFICES ASSUME IInv, JInv, [Next]_vars PROVE JInv'
  OBVIOUS
<1>1. CASE UNCHANGED vars
  <2>1. UNCHANGED <<tree, ids, labels, generator, pos, pass, status>>
    BY <1>1 DEF vars
  <2>2. NextId' = NextId
    BY <2>1 DEF NextId
  <2> QED BY <2>1, <2>2 DEF JInv
<1>2. CASE EnterFunction
  BY <1>2, FunctionJ
<1>3. CASE Prototype
  BY <1>3, PrototypeJ
<1>4. CASE \E test \in Tests : EnterLoop(test)
  BY <1>4, LoopJ
<1>5. CASE \E control \in Controls : EnterSwitch(control)
  BY <1>5, SwitchJ
<1>6. CASE \E node \in {"if", "ifelse"} : EnterIf(node)
  BY <1>6, IfJ
<1>7. CASE Else
  BY <1>7, ElseJ
<1>8. CASE Break
  BY <1>8, BreakJ
<1>9. CASE Continue
  BY <1>9, ContinueJ
<1>10. CASE Default
  BY <1>10, DefaultJ
<1>11. CASE \E node \in {"logical", "return"} : Other(node)
  BY <1>11, OtherJ
<1>12. CASE \E v \in Value : Case(v)
  BY <1>12, CaseJ
<1>13. CASE \E n \in Name : Goto(n) \/ Label(n)
  BY <1>13, GotoJ
<1>14. CASE Exit
  BY <1>14, ExitJ
<1>15. CASE EndLoops
  BY <1>15, EndLoopsJ
<1>16. CASE GotoId
  BY <1>16, GotoIdJ
<1>17. CASE LabelId
  BY <1>17, LabelIdJ
<1>18. CASE FunctionLabels
  BY <1>18, FunctionLabelsJ
<1>19. CASE EndFunctionLabels
  BY <1>19, EndFunctionJ
<1>20. CASE PassOver
  BY <1>20, PassedOverJ
<1>21. CASE EndGotos
  BY <1>21, EndGotosJ
<1> QED BY <1>1, <1>2, <1>3, <1>4, <1>5, <1>6, <1>7, <1>8, <1>9, <1>10, <1>11, <1>12,
           <1>13, <1>14, <1>15, <1>16, <1>17, <1>18, <1>19, <1>20, <1>21 DEF Next

(***************************************************************************)
(* The lowering appends operations.  ops are those of the node at p, after *)
(* n of them; o, c and e are the activations and the next label before it, *)
(* o2, c2 and e2 those after it.                                           *)
(***************************************************************************)
Emitted(s, ops, s2) ==
  /\ Len(s2) = Len(s) + Len(ops)
  /\ \A k \in 1 .. Len(s) : s2[k] = s[k]
  /\ \A k \in 1 .. Len(ops) : s2[Len(s) + k] = ops[k]

\* Every place has an ID of its own, handed out by the walks.
PlacesApart(t, d, base) ==
  /\ \A p \in 1 .. Len(t) : \A x : Places(t, d, p, x) => x \in Nat /\ x < base
  /\ \A p, q \in 1 .. Len(t) : \A x : Places(t, d, p, x) /\ Places(t, d, q, x) => p = q

NewLabels(t, d, n, p, o, c, ops, base, e, e2) ==
  /\ \A j \in 1 .. Len(ops) : ops[j].op = "label" =>
       \/ Places(t, d, p, ops[j].id)
       \/ ops[j].id \in e .. e2 - 1
       \/ \E m \in 1 .. Len(c) : Awaits(t, n, o, c, m, ops[j].id)
  /\ \A i, j \in 1 .. Len(ops) :
       ops[i].op = "label" /\ ops[j].op = "label" /\ ops[i].id = ops[j].id => i = j
  /\ \A x : Places(t, d, p, x) => \E j \in 1 .. Len(ops) : IsLabelOp(ops, j, x)

Reached(t, d, p, x) == \E q \in 1 .. Len(t) : Places(t, d, q, x) /\ Together(t, p, q)

NewJumps(t, d, p, o2, c2, ops, base, e2) ==
  \A j \in 1 .. Len(ops) :
    \/ ops[j].op = "label"
    \/ ops[j].op = "ret" /\ ops[j].id = Unset
    \/ ops[j].op # "ret" /\ Reached(t, d, p, ops[j].id)
    \/ /\ ops[j].op # "ret" /\ ops[j].id \in base .. e2 - 1
       /\ \/ \E l \in 1 .. Len(ops) : IsLabelOp(ops, l, ops[j].id)
          \/ \E m \in 1 .. Len(c2) :
               Awaits(t, p, o2, c2, m, ops[j].id) /\ Together(t, p, o2[m])

StillAwaited(t, n, p, o, c, o2, c2, ops) ==
  \A m \in 1 .. Len(c) : \A x : Awaits(t, n, o, c, m, x) =>
    \/ \E m2 \in 1 .. Len(c2) : Awaits(t, p, o2, c2, m2, x) /\ o2[m2] = o[m]
    \/ Together(t, o[m], p) /\ \E j \in 1 .. Len(ops) : IsLabelOp(ops, j, x)

AwaitedNow(t, n, p, o, c, o2, c2, ops, e) ==
  \A m2 \in 1 .. Len(c2) : \A x : Awaits(t, p, o2, c2, m2, x) =>
    /\ x >= e \/ \E m \in 1 .. Len(c) : Awaits(t, n, o, c, m, x)
    /\ \A j \in 1 .. Len(ops) : ~ IsLabelOp(ops, j, x)

\* An operation is an old one or a new one.
Parted(s, ops, s2) ==
  /\ \A k \in 1 .. Len(s2) :
       \/ k \in 1 .. Len(s) /\ s2[k] = s[k]
       \/ \E j \in 1 .. Len(ops) : k = Len(s) + j /\ s2[k] = ops[j]
  /\ \A k \in 1 .. Len(s) : k \in 1 .. Len(s2) /\ s2[k] = s[k]
  /\ \A j \in 1 .. Len(ops) : Len(s) + j \in 1 .. Len(s2) /\ s2[Len(s) + j] = ops[j]

LEMMA OldOrNew ==
  ASSUME NEW s, NEW ops, NEW s2, Len(s) \in Nat, Len(ops) \in Nat, Emitted(s, ops, s2)
  PROVE  Parted(s, ops, s2)
<1>1. Len(s2) = Len(s) + Len(ops)
  BY DEF Emitted
<1>2. ASSUME NEW k \in 1 .. Len(s2), k \notin 1 .. Len(s)
      PROVE  \E j \in 1 .. Len(ops) : k = Len(s) + j /\ s2[k] = ops[j]
  <2>1. k - Len(s) \in 1 .. Len(ops) /\ k = Len(s) + (k - Len(s))
    BY <1>1, <1>2
  <2> QED BY <2>1 DEF Emitted
<1>3. \A k \in 1 .. Len(s) : k \in 1 .. Len(s2)
  BY <1>1
<1>4. \A j \in 1 .. Len(ops) : Len(s) + j \in 1 .. Len(s2)
  BY <1>1
<1> QED BY <1>2, <1>3, <1>4 DEF Emitted, Parted

LEMMA AwaitedRange ==
  ASSUME NEW t, NEW n, NEW o, NEW c, NEW base, NEW e, ClausesOK(t, n, o, c, base, e),
         NEW m \in 1 .. Len(c), NEW x, Awaits(t, n, o, c, m, x)
  PROVE  x \in base .. e - 1
BY DEF ClausesOK, Awaits

LEMMA LabelsStep ==
  ASSUME NEW t \in Tree, NEW d, NEW n \in Nat, NEW p \in 1 .. Len(t), p = n + 1,
         NEW o, NEW c, NEW s, NEW ops, NEW s2,
         NEW base \in Nat, NEW e \in Nat, NEW e2 \in Nat, base =< e, e =< e2,
         Len(s) \in Nat, Len(ops) \in Nat, Emitted(s, ops, s2),
         \A j \in 1 .. Len(ops) : ops[j].from = p,
         \A k \in 1 .. Len(s) : s[k].from \in 1 .. n,
         PlacesApart(t, d, base), ClausesOK(t, n, o, c, base, e),
         LabelsPut(t, d, n, s, base, e), NotYet(t, n, o, c, s),
         NewLabels(t, d, n, p, o, c, ops, base, e, e2)
  PROVE  LabelsPut(t, d, p, s2, base, e2)
<1>1. /\ \A k \in 1 .. Len(s2) :
           \/ k \in 1 .. Len(s) /\ s2[k] = s[k]
           \/ \E j \in 1 .. Len(ops) : k = Len(s) + j /\ s2[k] = ops[j]
      /\ \A k \in 1 .. Len(s) : k \in 1 .. Len(s2) /\ s2[k] = s[k]
      /\ \A j \in 1 .. Len(ops) : Len(s) + j \in 1 .. Len(s2) /\ s2[Len(s) + j] = ops[j]
  <2>1. Parted(s, ops, s2)
    BY OldOrNew
  <2> QED BY <2>1 DEF Parted
<1>2. Len(t) \in Nat /\ 1 .. n \subseteq 1 .. Len(t)
  BY DEF Tree
\* Old labels.
<1>3. /\ \A k \in 1 .. Len(s) : s[k].op = "label" =>
           /\ s[k].id \in 0 .. e - 1
           /\ s[k].id < base => Places(t, d, s[k].from, s[k].id)
      /\ \A k, l \in 1 .. Len(s) :
           s[k].op = "label" /\ s[l].op = "label" /\ s[k].id = s[l].id => k = l
      /\ \A q \in 1 .. n : \A x : Places(t, d, q, x) =>
           \E k \in 1 .. Len(s) : IsLabelOp(s, k, x) /\ s[k].from = q
  BY DEF LabelsPut
\* New labels.
<1>4. ASSUME NEW j \in 1 .. Len(ops), ops[j].op = "label"
      PROVE  /\ ops[j].id \in 0 .. e2 - 1
             /\ ops[j].id < base => Places(t, d, p, ops[j].id)
             /\ \A k \in 1 .. Len(s) : ~ IsLabelOp(s, k, ops[j].id)
  <2>1. CASE Places(t, d, p, ops[j].id)
    <3>1. ops[j].id \in Nat /\ ops[j].id < base
      BY <2>1 DEF PlacesApart
    <3>2. ASSUME NEW k \in 1 .. Len(s), IsLabelOp(s, k, ops[j].id) PROVE FALSE
      <4>1. Places(t, d, s[k].from, ops[j].id)
        BY <1>3, <3>1, <3>2 DEF IsLabelOp
      <4>2. s[k].from \in 1 .. n /\ s[k].from \in 1 .. Len(t)
        BY <1>2
      <4>3. s[k].from = p
        BY <2>1, <4>1, <4>2 DEF PlacesApart
      <4> QED BY <4>2, <4>3
    <3> QED BY <2>1, <3>1, <3>2
  <2>2. CASE ops[j].id \in e .. e2 - 1
    <3>1. ASSUME NEW k \in 1 .. Len(s), IsLabelOp(s, k, ops[j].id) PROVE FALSE
      <4>1. ops[j].id \in 0 .. e - 1
        BY <1>3, <3>1 DEF IsLabelOp
      <4> QED BY <2>2, <4>1
    <3> QED BY <2>2, <3>1
  <2>3. CASE \E m \in 1 .. Len(c) : Awaits(t, n, o, c, m, ops[j].id)
    <3>1. PICK m \in 1 .. Len(c) : Awaits(t, n, o, c, m, ops[j].id)
      BY <2>3
    <3>2. ops[j].id \in base .. e - 1
      BY <3>1, AwaitedRange
    <3>3. ASSUME NEW k \in 1 .. Len(s), IsLabelOp(s, k, ops[j].id) PROVE FALSE
      BY <3>1, <3>3 DEF NotYet, IsLabelOp
    <3> QED BY <3>2, <3>3
  <2> QED BY <1>4, <2>1, <2>2, <2>3 DEF NewLabels
<1>5. ASSUME NEW k \in 1 .. Len(s2), s2[k].op = "label"
      PROVE  /\ s2[k].id \in 0 .. e2 - 1
             /\ s2[k].id < base => Places(t, d, s2[k].from, s2[k].id)
  <2>1. CASE k \in 1 .. Len(s) /\ s2[k] = s[k]
    <3>1. /\ s[k].id \in 0 .. e - 1
          /\ s[k].id < base => Places(t, d, s[k].from, s[k].id)
      BY <1>3, <1>5, <2>1
    <3> QED BY <2>1, <3>1
  <2>2. CASE \E j \in 1 .. Len(ops) : k = Len(s) + j /\ s2[k] = ops[j]
    <3>1. PICK j \in 1 .. Len(ops) : s2[k] = ops[j]
      BY <2>2
    <3> QED BY <1>4, <1>5, <3>1
  <2> QED BY <1>1, <2>1, <2>2
<1>6. ASSUME NEW k \in 1 .. Len(s2), NEW l \in 1 .. Len(s2),
             s2[k].op = "label", s2[l].op = "label", s2[k].id = s2[l].id
      PROVE  k = l
  <2> DEFINE Old(i) == i \in 1 .. Len(s) /\ s2[i] = s[i]
             Made(i) == \E j \in 1 .. Len(ops) : i = Len(s) + j /\ s2[i] = ops[j]
  <2>1. CASE Old(k) /\ Old(l)
    BY <1>3, <1>6, <2>1
  <2>2. CASE Old(k) /\ Made(l)
    <3>1. PICK j \in 1 .. Len(ops) : s2[l] = ops[j]
      BY <2>2
    <3>2. IsLabelOp(s, k, ops[j].id)
      BY <1>6, <2>2, <3>1 DEF IsLabelOp
    <3> QED BY <1>4, <1>6, <2>2, <3>1, <3>2
  <2>3. CASE Made(k) /\ Old(l)
    <3>1. PICK j \in 1 .. Len(ops) : s2[k] = ops[j]
      BY <2>3
    <3>2. IsLabelOp(s, l, ops[j].id)
      BY <1>6, <2>3, <3>1 DEF IsLabelOp
    <3> QED BY <1>4, <1>6, <2>3, <3>1, <3>2
  <2>4. CASE Made(k) /\ Made(l)
    <3>1. PICK i \in 1 .. Len(ops) : k = Len(s) + i /\ s2[k] = ops[i]
      BY <2>4
    <3>2. PICK j \in 1 .. Len(ops) : l = Len(s) + j /\ s2[l] = ops[j]
      BY <2>4
    <3>3. i = j
      BY <1>6, <3>1, <3>2 DEF NewLabels
    <3> QED BY <3>1, <3>2, <3>3
  <2> QED BY <1>1, <2>1, <2>2, <2>3, <2>4
<1>7. ASSUME NEW q \in 1 .. p, NEW x, Places(t, d, q, x)
      PROVE  \E k \in 1 .. Len(s2) : IsLabelOp(s2, k, x) /\ s2[k].from = q
  <2>1. CASE q = p
    <3>1. PICK j \in 1 .. Len(ops) : IsLabelOp(ops, j, x)
      BY <1>7, <2>1 DEF NewLabels
    <3>2. Len(s) + j \in 1 .. Len(s2) /\ s2[Len(s) + j] = ops[j]
      BY <1>1
    <3>3. IsLabelOp(s2, Len(s) + j, x) /\ s2[Len(s) + j].from = q
      BY <2>1, <3>1, <3>2 DEF IsLabelOp
    <3> QED BY <3>2, <3>3
  <2>2. CASE q # p
    <3>1. q \in 1 .. n
      BY <2>2
    <3>2. PICK k \in 1 .. Len(s) : IsLabelOp(s, k, x) /\ s[k].from = q
      BY <1>3, <1>7, <3>1
    <3> QED BY <1>1, <3>2 DEF IsLabelOp
  <2> QED BY <2>1, <2>2
<1> QED BY <1>5, <1>6, <1>7 DEF LabelsPut

LEMMA JumpsEmitted ==
  ASSUME NEW t \in Tree, NEW d, NEW n \in Nat, NEW p \in 1 .. Len(t), p = n + 1,
         NEW o, NEW c, NEW o2, NEW c2, NEW s, NEW ops, NEW s2,
         NEW base \in Nat, NEW e \in Nat, NEW e2 \in Nat, base =< e, e =< e2,
         Len(s) \in Nat, Len(ops) \in Nat, Emitted(s, ops, s2),
         \A j \in 1 .. Len(ops) : ops[j].from = p,
         PlacesApart(t, d, base), ClausesOK(t, n, o, c, base, e),
         JumpsDestined(t, d, n, o, c, s, base, e),
         NewLabels(t, d, n, p, o, c, ops, base, e, e2),
         NewJumps(t, d, p, o2, c2, ops, base, e2),
         StillAwaited(t, n, p, o, c, o2, c2, ops)
  PROVE  JumpsDestined(t, d, p, o2, c2, s2, base, e2)
<1>1. /\ \A k \in 1 .. Len(s2) :
           \/ k \in 1 .. Len(s) /\ s2[k] = s[k]
           \/ \E j \in 1 .. Len(ops) : k = Len(s) + j /\ s2[k] = ops[j]
      /\ \A k \in 1 .. Len(s) : k \in 1 .. Len(s2) /\ s2[k] = s[k]
      /\ \A j \in 1 .. Len(ops) : Len(s) + j \in 1 .. Len(s2) /\ s2[Len(s) + j] = ops[j]
  <2>1. Parted(s, ops, s2)
    BY OldOrNew
  <2> QED BY <2>1 DEF Parted
<1>2. ASSUME NEW j \in 1 .. Len(ops), NEW x, IsLabelOp(ops, j, x)
      PROVE  \E l \in 1 .. Len(s2) : IsLabelOp(s2, l, x) /\ s2[l].from = p
  <2>1. Len(s) + j \in 1 .. Len(s2) /\ s2[Len(s) + j] = ops[j]
    BY <1>1
  <2>2. IsLabelOp(s2, Len(s) + j, x) /\ s2[Len(s) + j].from = p
    BY <1>2, <2>1 DEF IsLabelOp
  <2> QED BY <2>1, <2>2
<1>3. ASSUME NEW q \in 1 .. Len(t), NEW x, Places(t, d, q, x)
      PROVE  x \in Nat /\ x < base
  BY <1>3 DEF PlacesApart
<1> DEFINE Fine(k) == IF s2[k].op = "ret" THEN s2[k].id = Unset
                      ELSE s2[k].id \in Nat /\ Destined(t, d, p, o2, c2, s2, k, base, e2)
\* Old operations.
<1>4. ASSUME NEW k \in 1 .. Len(s2), k \in 1 .. Len(s), s2[k] = s[k]
      PROVE  Fine(k)
  <2>1. CASE s[k].op = "ret"
    BY <1>4, <2>1 DEF JumpsDestined
  <2>2. CASE s[k].op # "ret"
    <3> DEFINE x == s[k].id
    <3>1. x \in Nat /\ Destined(t, d, n, o, c, s, k, base, e)
      BY <1>4, <2>2 DEF JumpsDestined
    <3>2. CASE x < base /\ \E q \in 1 .. Len(t) : Places(t, d, q, x) /\ Together(t, s[k].from, q)
      BY <1>4, <2>2, <3>1, <3>2 DEF Destined
    <3>3. CASE /\ x \in base .. e - 1
               /\ \E l \in 1 .. Len(s) :
                    IsLabelOp(s, l, x) /\ Together(t, s[k].from, s[l].from)
      <4>1. PICK l \in 1 .. Len(s) : IsLabelOp(s, l, x) /\ Together(t, s[k].from, s[l].from)
        BY <3>3
      <4>2. l \in 1 .. Len(s2) /\ IsLabelOp(s2, l, x) /\ Together(t, s2[k].from, s2[l].from)
        BY <1>1, <1>4, <4>1 DEF IsLabelOp
      <4>3. x \in base .. e2 - 1
        BY <3>3
      <4> QED BY <1>4, <2>2, <3>1, <4>2, <4>3 DEF Destined
    <3>4. CASE /\ x \in base .. e - 1
               /\ \E m \in 1 .. Len(c) : Awaits(t, n, o, c, m, x) /\ Together(t, s[k].from, o[m])
      <4>1. PICK m \in 1 .. Len(c) : Awaits(t, n, o, c, m, x) /\ Together(t, s[k].from, o[m])
        BY <3>4
      <4>2. x \in base .. e2 - 1
        BY <3>4
      <4>3. CASE \E m2 \in 1 .. Len(c2) : Awaits(t, p, o2, c2, m2, x) /\ o2[m2] = o[m]
        <5>1. PICK m2 \in 1 .. Len(c2) : Awaits(t, p, o2, c2, m2, x) /\ o2[m2] = o[m]
          BY <4>3
        <5>2. Together(t, s2[k].from, o2[m2])
          BY <1>4, <4>1, <5>1
        <5> QED BY <1>4, <2>2, <3>1, <4>2, <5>1, <5>2 DEF Destined
      <4>4. CASE Together(t, o[m], p) /\ \E j \in 1 .. Len(ops) : IsLabelOp(ops, j, x)
        <5>1. PICK l \in 1 .. Len(s2) : IsLabelOp(s2, l, x) /\ s2[l].from = p
          BY <1>2, <4>4
        <5>2. Together(t, s2[k].from, s2[l].from)
          BY <1>4, <4>1, <4>4, <5>1 DEF Together
        <5> QED BY <1>4, <2>2, <3>1, <4>2, <5>1, <5>2 DEF Destined
      <4> QED BY <4>1, <4>3, <4>4 DEF StillAwaited
    <3> QED BY <3>1, <3>2, <3>3, <3>4 DEF Destined
  <2> QED BY <2>1, <2>2
\* New ones.
<1>5. ASSUME NEW k \in 1 .. Len(s2), NEW j \in 1 .. Len(ops), s2[k] = ops[j]
      PROVE  Fine(k)
  <2> DEFINE x == ops[j].id
  <2>1. s2[k].from = p
    BY <1>5
  <2>2. CASE ops[j].op # "ret" /\ Reached(t, d, p, x)
    <3>1. PICK q \in 1 .. Len(t) : Places(t, d, q, x) /\ Together(t, p, q)
      BY <2>2 DEF Reached
    <3>2. x \in Nat /\ x < base
      BY <1>3, <3>1
    <3> QED BY <1>5, <2>1, <2>2, <3>1, <3>2 DEF Destined
  <2>3. CASE ops[j].op # "ret" /\ x \in base .. e2 - 1 /\ \E l \in 1 .. Len(ops) : IsLabelOp(ops, l, x)
    <3>1. PICK l \in 1 .. Len(s2) : IsLabelOp(s2, l, x) /\ s2[l].from = p
      BY <1>2, <2>3
    <3>2. Together(t, s2[k].from, s2[l].from)
      BY <2>1, <3>1 DEF Together
    <3>3. x \in Nat
      BY <2>3
    <3> QED BY <1>5, <2>3, <3>1, <3>2, <3>3 DEF Destined
  <2>4. CASE /\ ops[j].op # "ret" /\ x \in base .. e2 - 1
             /\ \E m \in 1 .. Len(c2) : Awaits(t, p, o2, c2, m, x) /\ Together(t, p, o2[m])
    <3>1. x \in Nat
      BY <2>4
    <3> QED BY <1>5, <2>1, <2>4, <3>1 DEF Destined
  <2>5. CASE ops[j].op = "label"
    <3>1. CASE Places(t, d, p, x)
      <4>1. Reached(t, d, p, x)
        BY <3>1 DEF Reached, Together
      <4> QED BY <2>2, <2>5, <4>1
    <3>2. CASE ~ Places(t, d, p, x)
      <4>1. x \in base .. e2 - 1
        <5>1. CASE x \in e .. e2 - 1
          BY <5>1
        <5>2. CASE \E m \in 1 .. Len(c) : Awaits(t, n, o, c, m, x)
          <6>1. x \in base .. e - 1
            BY <5>2, AwaitedRange
          <6> QED BY <6>1
        <5> QED BY <2>5, <3>2, <5>1, <5>2 DEF NewLabels
      <4>2. IsLabelOp(ops, j, x)
        BY <2>5 DEF IsLabelOp
      <4> QED BY <2>3, <2>5, <4>1, <4>2
    <3> QED BY <3>1, <3>2
  <2>6. CASE ops[j].op = "ret" /\ ops[j].id = Unset
    BY <1>5, <2>6
  <2> QED BY <2>2, <2>3, <2>4, <2>5, <2>6 DEF NewJumps
<1> HIDE DEF Fine
<1>6. \A k \in 1 .. Len(s2) : Fine(k)
  BY <1>1, <1>4, <1>5
<1> QED BY <1>6 DEF Fine, JumpsDestined

LEMMA NotYetEmitted ==
  ASSUME NEW t \in Tree, NEW d, NEW n \in Nat, NEW p,
         NEW o, NEW c, NEW o2, NEW c2, NEW s, NEW ops, NEW s2, NEW base \in Nat, NEW e \in Nat,
         Len(s) \in Nat, Len(ops) \in Nat, Emitted(s, ops, s2),
         LabelsPut(t, d, n, s, base, e), NotYet(t, n, o, c, s),
         AwaitedNow(t, n, p, o, c, o2, c2, ops, e)
  PROVE  NotYet(t, p, o2, c2, s2)
<1>1. \A k \in 1 .. Len(s2) :
        \/ k \in 1 .. Len(s) /\ s2[k] = s[k]
        \/ \E j \in 1 .. Len(ops) : k = Len(s) + j /\ s2[k] = ops[j]
  <2>1. Parted(s, ops, s2)
    BY OldOrNew
  <2> QED BY <2>1 DEF Parted
<1> SUFFICES ASSUME NEW m \in 1 .. Len(c2), NEW k \in 1 .. Len(s2), s2[k].op = "label",
                    Awaits(t, p, o2, c2, m, s2[k].id)
             PROVE  FALSE
  BY DEF NotYet
<1>2. /\ s2[k].id >= e \/ \E l \in 1 .. Len(c) : Awaits(t, n, o, c, l, s2[k].id)
      /\ \A j \in 1 .. Len(ops) : ~ IsLabelOp(ops, j, s2[k].id)
  BY DEF AwaitedNow
<1>3. CASE k \in 1 .. Len(s) /\ s2[k] = s[k]
  <2>1. s[k].id \in 0 .. e - 1
    BY <1>3 DEF LabelsPut
  <2>2. \A l \in 1 .. Len(c) : ~ Awaits(t, n, o, c, l, s[k].id)
    BY <1>3 DEF NotYet
  <2> QED BY <1>2, <1>3, <2>1, <2>2
<1>4. CASE \E j \in 1 .. Len(ops) : s2[k] = ops[j]
  BY <1>2, <1>4 DEF IsLabelOp
<1> QED BY <1>1, <1>3, <1>4

\* A node is lowered.
LEMMA EmitStep ==
  ASSUME NEW t \in Tree, NEW d, NEW n \in Nat, NEW p \in 1 .. Len(t), p = n + 1,
         NEW o, NEW c, NEW o2, NEW c2, NEW s, NEW ops, NEW s2,
         NEW base \in Nat, NEW e \in Nat, NEW e2 \in Nat, base =< e, e =< e2,
         Len(s) \in Nat, Len(ops) \in Nat, Emitted(s, ops, s2),
         \A j \in 1 .. Len(ops) : ops[j].from = p,
         \A k \in 1 .. Len(s) : s[k].from \in 1 .. n,
         PlacesApart(t, d, base), CodeOK(t, d, n, o, c, s, base, e),
         ClausesOK(t, p, o2, c2, base, e2),
         NewLabels(t, d, n, p, o, c, ops, base, e, e2),
         NewJumps(t, d, p, o2, c2, ops, base, e2),
         StillAwaited(t, n, p, o, c, o2, c2, ops),
         AwaitedNow(t, n, p, o, c, o2, c2, ops, e)
  PROVE  CodeOK(t, d, p, o2, c2, s2, base, e2)
<1>1. /\ ClausesOK(t, n, o, c, base, e) /\ LabelsPut(t, d, n, s, base, e)
      /\ JumpsDestined(t, d, n, o, c, s, base, e) /\ NotYet(t, n, o, c, s)
  BY DEF CodeOK
<1>2. LabelsPut(t, d, p, s2, base, e2)
  BY <1>1, LabelsStep
<1>3. JumpsDestined(t, d, p, o2, c2, s2, base, e2)
  BY <1>1, JumpsEmitted
<1>4. NotYet(t, p, o2, c2, s2)
  BY <1>1, NotYetEmitted
<1> QED BY <1>2, <1>3, <1>4 DEF CodeOK

(***************************************************************************)
(* The tree the walks are done with, and where its jumps go.               *)
(***************************************************************************)
Finished(t, d, base) ==
  /\ TreeOK(t) /\ Nested(t) /\ EveryEnded(t)
  /\ OwnersApart(t, d, base) /\ TargetsOK(t, d, Len(t))
  /\ \A p \in 1 .. Len(t) : t[p].node = "goto" => Resolved(t, d, p)

LEMMA FinishedIs ==
  ASSUME IInv, JInv, pass = "labelled"
  PROVE  Finished(tree, ids, generator + 1)
<1>1. /\ TypeOK /\ TreeOK(tree) /\ AllEnded(tree) /\ status = "ok" /\ pos = Len(tree)
      /\ ResolvedOK(tree, ids, Len(tree))
  BY DEF IInv, SecondOK
<1>2. tree \in Tree
  BY <1>1, TreeType
<1>3. /\ Nested(tree) /\ EveryEnded(tree) /\ OwnersApart(tree, ids, generator + 1)
      /\ TargetsOK(tree, ids, Len(tree))
  BY <1>1 DEF JInv, NextId
<1>4. \A p \in 1 .. Len(tree) : tree[p].node = "goto" => Resolved(tree, ids, p)
  <2> SUFFICES ASSUME NEW p \in 1 .. Len(tree), tree[p].node = "goto"
               PROVE  Resolved(tree, ids, p)
    OBVIOUS
  <2>1. tree[p].node \in Mention
    BY DEF Mention
  <2> QED BY <1>1, <1>2, <2>1, AllResolved
<1> QED BY <1>1, <1>3, <1>4 DEF Finished

LEMMA EndIs ==
  ASSUME NEW t \in Tree, EndsOK(t), NEW p \in 1 .. Len(t), t[p].node = "end"
  PROVE  /\ t[p].num \in 1 .. p - 1 /\ t[p].num \in 1 .. Len(t)
         /\ t[t[p].num].node \in Constructs
         /\ p \in EndsOf(t, t[p].num) /\ \A k \in EndsOf(t, t[p].num) : k = p
<1>1. Len(t) \in Nat
  BY DEF Tree
<1>2. /\ t[p].num \in 1 .. p - 1 /\ t[t[p].num].node \in Constructs
      /\ \A k \in EndsOf(t, t[p].num) : k = p
  BY DEF EndsOK
<1>3. t[p].num \in 1 .. Len(t)
  BY <1>1, <1>2
<1>4. p \in EndsOf(t, t[p].num)
  BY DEF EndsOf
<1> QED BY <1>2, <1>3, <1>4

\* Who owns the ID placed at p: the node, or the construct it ends.
Owner(t, p) == IF t[p].node = "end" THEN t[p].num ELSE p

LEMMA PlaceOwned ==
  ASSUME NEW t \in Tree, NEW d, NEW base, Finished(t, d, base),
         NEW p \in 1 .. Len(t), NEW x, Places(t, d, p, x)
  PROVE  Owner(t, p) \in 1 .. Len(t) /\ Owned(t, d, Owner(t, p), x)
<1>1. EndsOK(t) /\ NumberedUpTo(t, d, Len(t)) /\ Len(t) \in Nat
  BY DEF Finished, TreeOK, TargetsOK, Tree
<1>2. CASE t[p].node = "end"
  <2>1. t[p].num \in 1 .. Len(t)
    BY <1>1, <1>2, EndIs
  <2> QED BY <1>2, <2>1 DEF Owner, Owned, Places
<1>3. CASE t[p].node # "end"
  <2>1. Owner(t, p) = p
    BY <1>3 DEF Owner
  <2>2. CASE t[p].node = "loop"
    BY <1>3, <2>1, <2>2 DEF Owned, Places
  <2>3. CASE t[p].node \in {"case", "default", "label"} /\ x = d[p].unique
    <3>1. d[p].unique # Unset
      BY <1>1, <2>3 DEF NumberedUpTo
    <3> QED BY <2>1, <2>3, <3>1 DEF Owned
  <2> QED BY <1>3, <2>2, <2>3 DEF Places
<1> QED BY <1>2, <1>3

LEMMA PlacesStandApart ==
  ASSUME NEW t \in Tree, NEW d, NEW base, Finished(t, d, base)
  PROVE  PlacesApart(t, d, base)
<1>1. EndsOK(t) /\ OwnersApart(t, d, base)
  BY DEF Finished, TreeOK
<1>2. ASSUME NEW p \in 1 .. Len(t), NEW x, Places(t, d, p, x)
      PROVE  x \in Nat /\ x < base
  <2>1. Owner(t, p) \in 1 .. Len(t) /\ Owned(t, d, Owner(t, p), x)
    BY <1>2, PlaceOwned
  <2> QED BY <1>1, <2>1 DEF OwnersApart
<1>3. ASSUME NEW p \in 1 .. Len(t), NEW q \in 1 .. Len(t), NEW x,
             Places(t, d, p, x), Places(t, d, q, x)
      PROVE  p = q
  <2>1. Owner(t, p) \in 1 .. Len(t) /\ Owned(t, d, Owner(t, p), x)
    BY <1>3, PlaceOwned
  <2>2. Owner(t, q) \in 1 .. Len(t) /\ Owned(t, d, Owner(t, q), x)
    BY <1>3, PlaceOwned
  <2>3. Owner(t, p) = Owner(t, q)
    BY <1>1, <2>1, <2>2 DEF OwnersApart
  <2>4. CASE t[p].node # "end" /\ t[q].node # "end"
    BY <2>3, <2>4 DEF Owner
  <2>5. CASE t[p].node = "end" /\ t[q].node = "end"
    <3>1. t[p].num = t[q].num
      BY <2>3, <2>5 DEF Owner
    <3>2. q \in EndsOf(t, t[p].num)
      BY <2>5, <3>1 DEF EndsOf
    <3>3. \A k \in EndsOf(t, t[p].num) : k = p
      BY <1>1, <2>5, EndIs
    <3> QED BY <3>2, <3>3
  <2>6. CASE t[p].node # "end" /\ t[q].node = "end"
    <3>1. p = t[q].num
      BY <2>3, <2>6 DEF Owner
    <3>2. t[p].node = "loop" /\ x = d[p].start /\ (x = d[p].continue \/ x = d[p].end)
      BY <1>3, <2>6, <3>1 DEF Places
    <3> QED BY <1>1, <3>2 DEF OwnersApart
  <2>7. CASE t[p].node = "end" /\ t[q].node # "end"
    <3>1. q = t[p].num
      BY <2>3, <2>7 DEF Owner
    <3>2. t[q].node = "loop" /\ x = d[q].start /\ (x = d[q].continue \/ x = d[q].end)
      BY <1>3, <2>7, <3>1 DEF Places
    <3> QED BY <1>1, <3>2 DEF OwnersApart
  <2> QED BY <2>4, <2>5, <2>6, <2>7
<1> QED BY <1>2, <1>3 DEF PlacesApart

\* Until it ends, a construct is in one function.
LEMMA InOneFunction ==
  ASSUME NEW t \in Tree, NEW d, NEW base, Finished(t, d, base),
         NEW i \in 1 .. Len(t), t[i].node \in Constructs, t[i].node # "function",
         NEW p \in 1 .. Len(t), i < p, \A k \in EndsOf(t, i) : p =< k
  PROVE  Together(t, p, i)
<1> DEFINE F == {"function"}
<1>1. /\ Len(t) \in Nat /\ EndsNested(t) /\ FunctionsOutside(t)
      /\ \A j : \A k \in EndsOf(t, j) : k \in 1 .. Len(t)
  BY DEF Finished, Nested, Tree, EndsOf
<1>2. ASSUME NEW f \in Inside(t, i, F)
      PROVE  f \in Inside(t, p, F)
  <2>1. /\ f \in 1 .. i - 1 /\ f \in 1 .. Len(t) /\ t[f].node = "function"
        /\ \A k \in EndsOf(t, f) : i < k
    BY <1>1 DEF Inside
  <2>2. ASSUME NEW k \in EndsOf(t, f) PROVE p < k
    <3>1. t[f].node \in Constructs /\ f < i /\ i < k
      BY <2>1 DEF Constructs
    <3>2. PICK l \in EndsOf(t, i) : l < k
      BY <1>1, <2>1, <3>1 DEF EndsNested
    <3> QED BY <1>1, <3>2
  <2>3. f \in 1 .. p - 1
    BY <2>1
  <2> QED BY <2>1, <2>2, <2>3 DEF Inside
<1>3. ASSUME NEW f \in Inside(t, p, F)
      PROVE  f \in Inside(t, i, F)
  <2>1. /\ f \in 1 .. p - 1 /\ f \in 1 .. Len(t) /\ t[f].node = "function"
        /\ \A k \in EndsOf(t, f) : p < k
    BY <1>1 DEF Inside
  <2>2. f < i
    <3>1. f # i
      BY <2>1
    <3>2. ASSUME i < f PROVE FALSE
      <4>1. PICK k \in EndsOf(t, i) : k < f
        BY <1>1, <2>1, <3>2 DEF FunctionsOutside
      <4>2. p =< k /\ k \in Nat
        BY <1>1
      <4> QED BY <2>1, <4>1, <4>2
    <3> QED BY <2>1, <3>1, <3>2
  <2>3. f \in 1 .. i - 1
    BY <2>1, <2>2
  <2>4. ASSUME NEW k \in EndsOf(t, f) PROVE i < k
    <3>1. p < k /\ k \in Nat
      BY <1>1, <2>1
    <3> QED BY <3>1
  <2> QED BY <2>1, <2>3, <2>4 DEF Inside
<1>4. Inside(t, p, F) = Inside(t, i, F)
  BY <1>2, <1>3
<1>5. p \in Nat /\ i \in Nat
  BY <1>1
<1>6. Nearest(t, p, F) = Nearest(t, i, F)
  <2> HIDE DEF F
  <2>1. CASE Inside(t, i, F) = {}
    BY <1>4, <1>5, <2>1, NearestIs
  <2>2. CASE Inside(t, i, F) # {}
    <3> DEFINE f == Nearest(t, i, F)
    <3>1. f \in Inside(t, i, F) /\ \A j \in Inside(t, i, F) : j =< f
      BY <1>5, <2>2, NearestIs
    <3> HIDE DEF f
    <3>2. f \in Inside(t, p, F) /\ \A j \in Inside(t, p, F) : j =< f
      BY <1>4, <3>1
    <3>3. Nearest(t, p, F) = f
      BY <1>5, <3>2, NearestOf
    <3> QED BY <3>3 DEF f
  <2> QED BY <2>1, <2>2
<1> QED BY <1>6 DEF Together, Function

\* A construct around p, and its end.
LEMMA AroundTogether ==
  ASSUME NEW t \in Tree, NEW d, NEW base, Finished(t, d, base),
         NEW p \in 1 .. Len(t), NEW kinds, kinds \subseteq Constructs \ {"function"},
         Nearest(t, p, kinds) # 0
  PROVE  /\ Nearest(t, p, kinds) \in 1 .. Len(t) /\ t[Nearest(t, p, kinds)].node \in kinds
         /\ Together(t, p, Nearest(t, p, kinds))
<1> DEFINE i == Nearest(t, p, kinds)
<1>1. Len(t) \in Nat /\ p \in Nat
  BY DEF Tree
<1>2. i \in Inside(t, p, kinds)
  BY <1>1, NearestIs
<1>3. i \in 1 .. p - 1 /\ i \in 1 .. Len(t) /\ t[i].node \in kinds /\ \A k \in EndsOf(t, i) : p < k
  BY <1>1, <1>2 DEF Inside
<1> HIDE DEF i
<1>4. t[i].node \in Constructs /\ t[i].node # "function" /\ i < p
  BY <1>3
<1>5. \A k \in EndsOf(t, i) : p =< k
  <2> SUFFICES ASSUME NEW k \in EndsOf(t, i) PROVE p =< k
    OBVIOUS
  <2>1. p < k /\ k \in 1 .. Len(t)
    BY <1>3 DEF EndsOf
  <2> QED BY <1>1, <2>1
<1>6. Together(t, p, i)
  BY <1>3, <1>4, <1>5, InOneFunction
<1> QED BY <1>3, <1>6 DEF i

\* The labels at the end of a loop or switch are reached from there.
LEMMA EndReached ==
  ASSUME NEW t \in Tree, NEW d, NEW base, Finished(t, d, base),
         NEW i \in 1 .. Len(t), t[i].node \in Breakable
  PROVE  \E q \in EndsOf(t, i) :
           /\ q \in 1 .. Len(t) /\ i < q /\ Together(t, i, q)
           /\ Places(t, d, q, d[i].end)
           /\ t[i].node = "loop" => Places(t, d, q, d[i].continue)
<1>1. t[i].node \in Constructs /\ t[i].node # "function" /\ EndsOK(t) /\ Len(t) \in Nat
  BY DEF Breakable, Constructs, Finished, TreeOK, Tree
<1>2. PICK q \in EndsOf(t, i) : TRUE
  BY <1>1 DEF Finished, EveryEnded
<1>3. q \in 1 .. Len(t) /\ t[q].node = "end" /\ t[q].num = i
  BY <1>2 DEF EndsOf
<1>4. i \in 1 .. q - 1 /\ \A k \in EndsOf(t, i) : k = q
  BY <1>1, <1>3, EndIs
<1>5. i < q /\ \A k \in EndsOf(t, i) : q =< k
  BY <1>1, <1>3, <1>4
<1>6. Together(t, q, i)
  BY <1>1, <1>3, <1>5, InOneFunction
<1>7. Places(t, d, q, d[i].end)
  BY <1>3 DEF Places, Breakable
<1>8. t[i].node = "loop" => Places(t, d, q, d[i].continue)
  BY <1>3 DEF Places
<1> QED BY <1>3, <1>5, <1>6, <1>7, <1>8 DEF Together

LEMMA TogetherBoth ==
  ASSUME NEW t, NEW p, NEW q, NEW r, Together(t, p, r), Together(t, q, r)
  PROVE  Together(t, p, q)
BY DEF Together

LEMMA JumpReached ==
  ASSUME NEW t \in Tree, NEW d, NEW base, Finished(t, d, base),
         NEW p \in 1 .. Len(t), t[p].node \in {"break", "continue", "goto"}
  PROVE  Reached(t, d, p, d[p].unique)
<1>1. BreaksOK(t, d) /\ ContinuesOK(t, d)
  BY DEF Finished, TargetsOK
<1>2. CASE t[p].node = "break"
  <2> DEFINE i == Nearest(t, p, Breakable)
  <2>1. i # 0 /\ d[p].unique = d[i].end
    BY <1>1, <1>2 DEF BreaksOK
  <2>2. Breakable \subseteq Constructs \ {"function"}
    BY DEF Breakable, Constructs
  <2>3. i \in 1 .. Len(t) /\ t[i].node \in Breakable /\ Together(t, p, i)
    BY <2>1, <2>2, AroundTogether
  <2> HIDE DEF i
  <2>4. PICK q \in EndsOf(t, i) : q \in 1 .. Len(t) /\ Together(t, i, q) /\ Places(t, d, q, d[i].end)
    BY <2>3, EndReached
  <2>5. Together(t, p, q)
    BY <2>3, <2>4 DEF Together
  <2> QED BY <2>1, <2>4, <2>5 DEF Reached
<1>3. CASE t[p].node = "continue"
  <2> DEFINE i == Nearest(t, p, {"loop"})
  <2>1. i # 0 /\ d[p].unique = d[i].continue
    BY <1>1, <1>3 DEF ContinuesOK
  <2>2. {"loop"} \subseteq Constructs \ {"function"}
    BY DEF Constructs
  <2>3. i \in 1 .. Len(t) /\ t[i].node \in {"loop"} /\ Together(t, p, i)
    BY <2>1, <2>2, AroundTogether
  <2>4. t[i].node = "loop" /\ t[i].node \in Breakable
    BY <2>3 DEF Breakable
  <2> HIDE DEF i
  <2>5. PICK q \in EndsOf(t, i) :
          q \in 1 .. Len(t) /\ Together(t, i, q) /\ Places(t, d, q, d[i].continue)
    BY <2>3, <2>4, EndReached
  <2>6. Together(t, p, q)
    BY <2>3, <2>5 DEF Together
  <2> QED BY <2>1, <2>5, <2>6 DEF Reached
<1>4. CASE t[p].node = "goto"
  <2>1. Resolved(t, d, p)
    BY <1>4 DEF Finished
  <2>2. PICK q \in 1 .. Len(t) :
          LabelsIn(t, p, t[p].name) = {q} /\ d[q].unique = d[p].unique
    BY <2>1 DEF Resolved
  <2>3. q \in LabelsIn(t, p, t[p].name)
    BY <2>2
  <2>4. t[q].node = "label" /\ Together(t, p, q)
    BY <2>3 DEF LabelsIn, Uses, Together
  <2>5. Places(t, d, q, d[q].unique)
    BY <2>4 DEF Places
  <2> QED BY <2>2, <2>4, <2>5 DEF Reached
<1> QED BY <1>2, <1>3, <1>4

LEMMA WithinTogether ==
  ASSUME NEW t \in Tree, NEW d, NEW base, Finished(t, d, base),
         NEW q \in 1 .. Len(t), NEW i \in 1 .. Len(t), NEW node, Within(t, q, i, node)
  PROVE  Together(t, i, q)
<1>1. Nearest(t, q, {"switch"}) = i /\ i # 0
  BY DEF Within
<1>2. {"switch"} \subseteq Constructs \ {"function"}
  BY DEF Constructs
<1>3. Nearest(t, q, {"switch"}) # 0
  BY <1>1
<1>4. Together(t, q, Nearest(t, q, {"switch"}))
  BY <1>2, <1>3, AroundTogether
<1> QED BY <1>1, <1>4 DEF Together

LEMMA SwitchReached ==
  ASSUME NEW t \in Tree, NEW d, NEW base, Finished(t, d, base),
         NEW p \in 1 .. Len(t), t[p].node = "switch"
  PROVE  /\ \A k \in 1 .. Len(d[p].cases) : Reached(t, d, p, d[p].cases[k].unique)
         /\ d[p].default # UnsetDefault => Reached(t, d, p, d[p].default)
         /\ Reached(t, d, p, d[p].end)
<1>1. CasesOK(t, d) /\ DefaultsOK(t, d)
  BY DEF Finished, TargetsOK
<1>2. ASSUME NEW k \in 1 .. Len(d[p].cases)
      PROVE  Reached(t, d, p, d[p].cases[k].unique)
  <2>1. PICK q \in 1 .. Len(t) :
          Within(t, q, p, "case") /\ d[q].unique = d[p].cases[k].unique
    BY <1>1 DEF CasesOK
  <2>2. Together(t, p, q)
    BY <2>1, WithinTogether
  <2>3. Places(t, d, q, d[q].unique)
    BY <2>1 DEF Places, Within
  <2> QED BY <2>1, <2>2, <2>3 DEF Reached
<1>3. ASSUME d[p].default # UnsetDefault
      PROVE  Reached(t, d, p, d[p].default)
  <2>1. PICK q \in 1 .. Len(t) : Within(t, q, p, "default") /\ d[q].unique = d[p].default
    BY <1>1, <1>3 DEF DefaultsOK
  <2>2. Together(t, p, q)
    BY <2>1, WithinTogether
  <2>3. Places(t, d, q, d[q].unique)
    BY <2>1 DEF Places, Within
  <2> QED BY <2>1, <2>2, <2>3 DEF Reached
<1>4. Reached(t, d, p, d[p].end)
  <2>1. t[p].node \in Breakable
    BY DEF Breakable
  <2>2. PICK q \in EndsOf(t, p) : q \in 1 .. Len(t) /\ Together(t, p, q) /\ Places(t, d, q, d[p].end)
    BY <2>1, EndReached
  <2> QED BY <2>2 DEF Reached
<1> QED BY <1>2, <1>3, <1>4

\* From the node of a loop and from its end.
LEMMA LoopReached ==
  ASSUME NEW t \in Tree, NEW d, NEW base, Finished(t, d, base),
         NEW i \in 1 .. Len(t), t[i].node = "loop", NEW p \in 1 .. Len(t),
         p = i \/ p \in EndsOf(t, i)
  PROVE  Reached(t, d, p, d[i].start) /\ Reached(t, d, p, d[i].end)
<1>1. t[i].node \in Breakable
  BY DEF Breakable
<1>2. PICK q \in EndsOf(t, i) : q \in 1 .. Len(t) /\ Together(t, i, q) /\ Places(t, d, q, d[i].end)
  BY <1>1, EndReached
<1>3. p = i \/ p = q
  <2>1. EndsOK(t) /\ t[q].node = "end" /\ t[q].num = i
    BY <1>2 DEF Finished, TreeOK, EndsOf
  <2>2. \A k \in EndsOf(t, i) : k = q
    BY <1>2, <2>1, EndIs
  <2> QED BY <2>2
<1>4. Places(t, d, i, d[i].start)
  BY DEF Places
<1>5. Together(t, p, i) /\ Together(t, p, q)
  BY <1>2, <1>3 DEF Together
<1> QED BY <1>2, <1>4, <1>5 DEF Reached

(***************************************************************************)
(* The activations of ir_if_else.                                          *)
(***************************************************************************)
OtherNode(t, p) ==
  /\ t[p].node \notin IfNodes \cup {"else"}
  /\ t[p].node = "end" => t[t[p].num].node \notin IfNodes

LEMMA SameClauses ==
  ASSUME NEW t \in Tree, NEW n \in Nat, NEW p \in 1 .. Len(t), p = n + 1,
         OtherNode(t, p), NEW o, NEW c, NEW base \in Nat, NEW e \in Nat, NEW e2 \in Nat,
         e =< e2, ClausesOK(t, n, o, c, base, e)
  PROVE  /\ ClausesOK(t, p, o, c, base, e2)
         /\ \A m \in 1 .. Len(c) : \A x :
              Awaits(t, p, o, c, m, x) <=> Awaits(t, n, o, c, m, x)
<1>1. Len(t) \in Nat /\ 1 .. p = (1 .. n) \cup {p}
  BY DEF Tree
<1>2. \A i : Elsed(t, p, i) <=> Elsed(t, n, i)
  BY <1>1 DEF Elsed, OtherNode
<1>3. ASSUME NEW m \in 1 .. Len(c), NEW x
      PROVE  Awaits(t, p, o, c, m, x) <=> Awaits(t, n, o, c, m, x)
  BY <1>2 DEF Awaits
<1>4. ASSUME NEW i PROVE IsOpen(o, i) <=> i \in 1 .. p /\ OpenIf(t, p, i)
  <2>1. IsOpen(o, i) <=> i \in 1 .. n /\ OpenIf(t, n, i)
    BY DEF ClausesOK, ClausesOf
  <2>2. ~ OpenIf(t, p, p)
    BY DEF OtherNode, OpenIf
  <2>3. ASSUME i \in 1 .. n PROVE OpenIf(t, n, i) <=> OpenIf(t, p, i)
    <3>1. ASSUME t[i].node \in IfNodes, NEW k \in EndsOf(t, i) PROVE n < k <=> p < k
      <4>1. k \in 1 .. Len(t) /\ t[k].node = "end" /\ t[k].num = i
        BY <3>1 DEF EndsOf
      <4>2. k # p
        BY <3>1, <4>1 DEF OtherNode
      <4> QED BY <1>1, <4>1, <4>2
    <3> QED BY <3>1 DEF OpenIf
  <2> QED BY <1>1, <2>1, <2>2, <2>3
<1>5. /\ Len(o) = Len(c)
      /\ \A j, k \in 1 .. Len(o) : j < k => o[j] < o[k]
      /\ \A m \in 1 .. Len(c) :
           /\ c[m].cond \in base .. e - 1
           /\ t[o[m]].node = "ifelse" => c[m].end \in base .. e - 1 /\ c[m].cond # c[m].end
      /\ \A l, m \in 1 .. Len(c) : \A x :
           Awaits(t, n, o, c, l, x) /\ Awaits(t, n, o, c, m, x) => l = m
  BY DEF ClausesOK, ClausesOf
<1>6. \A x : x \in base .. e - 1 => x \in base .. e2 - 1
  OBVIOUS
<1>7. ClausesOf(t, p, o)
  BY <1>4, <1>5 DEF ClausesOf
<1>8. \A m \in 1 .. Len(c) :
        /\ c[m].cond \in base .. e2 - 1
        /\ t[o[m]].node = "ifelse" => c[m].end \in base .. e2 - 1 /\ c[m].cond # c[m].end
  BY <1>5, <1>6
<1>9. \A l, m \in 1 .. Len(c) : \A x :
        Awaits(t, p, o, c, l, x) /\ Awaits(t, p, o, c, m, x) => l = m
  BY <1>3, <1>5
<1> QED BY <1>3, <1>5, <1>7, <1>8, <1>9 DEF ClausesOK

\* A node that puts the labels of its places and jumps to those of others.
PlainOps(t, d, p, ops) ==
  /\ \A j \in 1 .. Len(ops) :
       /\ ops[j].from = p
       /\ \/ ops[j].op = "label" /\ Places(t, d, p, ops[j].id)
          \/ ops[j].op = "ret" /\ ops[j].id = Unset
          \/ ops[j].op \notin {"label", "ret"} /\ Reached(t, d, p, ops[j].id)
  /\ \A i, j \in 1 .. Len(ops) :
       ops[i].op = "label" /\ ops[j].op = "label" /\ ops[i].id = ops[j].id => i = j
  /\ \A x : Places(t, d, p, x) => \E j \in 1 .. Len(ops) : IsLabelOp(ops, j, x)

LEMMA PlainStep ==
  ASSUME NEW t \in Tree, NEW d, NEW n \in Nat, NEW p \in 1 .. Len(t), p = n + 1,
         NEW o, NEW c, NEW s, NEW ops, NEW s2, NEW base \in Nat, NEW e \in Nat, base =< e,
         Len(s) \in Nat, Len(ops) \in Nat, Emitted(s, ops, s2),
         \A k \in 1 .. Len(s) : s[k].from \in 1 .. n,
         PlacesApart(t, d, base), CodeOK(t, d, n, o, c, s, base, e),
         OtherNode(t, p), PlainOps(t, d, p, ops)
  PROVE  CodeOK(t, d, p, o, c, s2, base, e)
<1>1. ClausesOK(t, n, o, c, base, e)
  BY DEF CodeOK
<1>2. /\ ClausesOK(t, p, o, c, base, e)
      /\ \A m \in 1 .. Len(c) : \A x :
           Awaits(t, p, o, c, m, x) <=> Awaits(t, n, o, c, m, x)
  BY <1>1, SameClauses
<1>3. NewLabels(t, d, n, p, o, c, ops, base, e, e)
  BY DEF NewLabels, PlainOps
<1>4. NewJumps(t, d, p, o, c, ops, base, e)
  BY DEF NewJumps, PlainOps
<1>5. StillAwaited(t, n, p, o, c, o, c, ops)
  BY <1>2 DEF StillAwaited
<1>6. AwaitedNow(t, n, p, o, c, o, c, ops, e)
  <2> SUFFICES ASSUME NEW m \in 1 .. Len(c), NEW x, Awaits(t, p, o, c, m, x)
               PROVE  /\ \E l \in 1 .. Len(c) : Awaits(t, n, o, c, l, x)
                      /\ \A j \in 1 .. Len(ops) : ~ IsLabelOp(ops, j, x)
    BY DEF AwaitedNow
  <2>1. Awaits(t, n, o, c, m, x)
    BY <1>2
  <2>2. x \in base .. e - 1
    BY <1>1, <2>1, AwaitedRange
  <2>3. ASSUME NEW j \in 1 .. Len(ops), IsLabelOp(ops, j, x) PROVE FALSE
    <3>1. Places(t, d, p, x)
      BY <2>3 DEF PlainOps, IsLabelOp
    <3>2. x \in Nat /\ x < base
      BY <3>1 DEF PlacesApart
    <3> QED BY <2>2, <3>2
  <2> QED BY <2>1, <2>3
<1>7. \A j \in 1 .. Len(ops) : ops[j].from = p
  BY DEF PlainOps
<1>8. e =< e
  OBVIOUS
<1> QED BY <1>2, <1>3, <1>4, <1>5, <1>6, <1>7, <1>8, EmitStep

(***************************************************************************)
(* The actions.  What the next node is lowered from:                       *)
(***************************************************************************)
LEMMA LowersIs ==
  ASSUME LInv, NEW nodes, Lower(nodes)
  PROVE  /\ tree \in Tree /\ at \in Nat /\ Now \in 1 .. Len(tree) /\ Now = at + 1
         /\ generator + 1 \in Nat /\ env_labels \in Nat /\ generator + 1 =< env_labels
         /\ Finished(tree, ids, generator + 1) /\ PlacesApart(tree, ids, generator + 1)
         /\ code \in Seq(Operation(at)) /\ Len(code) \in Nat
         /\ \A k \in 1 .. Len(code) : code[k].from \in 1 .. at
         /\ \E o \in Seq(1 .. at) :
              CodeOK(tree, ids, at, o, clauses, code, generator + 1, env_labels)
         /\ tree[Now].node \in nodes
         /\ ids \in Seq(Ids) /\ Len(ids) = Len(tree)
         /\ clauses \in Seq(Clause)
<1>1. /\ env_labels # 0 /\ at < Len(tree) /\ tree[Now].node \in nodes
  BY DEF Lower
<1>2. /\ IInv /\ JInv /\ LTypeOK /\ pass = "labelled" /\ generator < env_labels
      /\ \E o \in Seq(1 .. at) :
           CodeOK(tree, ids, at, o, clauses, code, generator + 1, env_labels)
  BY <1>1 DEF LInv
<1>3. TypeOK
  BY <1>2 DEF IInv
<1>4. tree \in Tree /\ generator \in Nat /\ ids \in Seq(Ids) /\ Len(ids) = Len(tree)
  BY <1>3, TreeType DEF TypeOK
<1>5. Len(tree) \in Nat /\ at \in 0 .. Len(tree) /\ env_labels \in Nat
  BY <1>2, <1>4 DEF LTypeOK, Tree
<1>6. at \in Nat /\ Now \in 1 .. Len(tree) /\ Now = at + 1
  BY <1>1, <1>5 DEF Now
<1>7. generator + 1 \in Nat /\ generator + 1 =< env_labels
  BY <1>2, <1>4, <1>5
<1>8. Finished(tree, ids, generator + 1)
  BY <1>2, FinishedIs
<1>9. PlacesApart(tree, ids, generator + 1)
  BY <1>4, <1>8, PlacesStandApart
<1>10. code \in Seq(Operation(at)) /\ clauses \in Seq(Clause)
  BY <1>2 DEF LTypeOK
<1>11. Len(code) \in Nat
  BY <1>10
<1>12. \A k \in 1 .. Len(code) : code[k].from \in 1 .. at
  <2> SUFFICES ASSUME NEW k \in 1 .. Len(code) PROVE code[k].from \in 1 .. at
    OBVIOUS
  <2>1. code[k] \in Operation(at)
    BY <1>10
  <2> QED BY <2>1 DEF Operation
<1> QED BY <1>1, <1>2, <1>4, <1>5, <1>6, <1>7, <1>8, <1>9, <1>10, <1>11, <1>12

LEMMA WiderSeq ==
  ASSUME NEW S, NEW T, S \subseteq T, NEW s \in Seq(S)
  PROVE  s \in Seq(T)
OBVIOUS

LEMMA EmittedIs ==
  ASSUME NEW S, NEW T, NEW s \in Seq(S), NEW ops \in Seq(T)
  PROVE  /\ Emitted(s, ops, s \o ops)
         /\ Len(s) \in Nat /\ Len(ops) \in Nat
         /\ \A k \in 1 .. Len(s) : s[k] \in S
         /\ \A k \in 1 .. Len(ops) : ops[k] \in T
<1>1. s \in Seq(S \cup T) /\ ops \in Seq(S \cup T)
  OBVIOUS
<1>2. /\ Len(s \o ops) = Len(s) + Len(ops)
      /\ \A k \in 1 .. Len(s) + Len(ops) :
           (s \o ops)[k] = IF k =< Len(s) THEN s[k] ELSE ops[k - Len(s)]
  BY <1>1, ConcatProperties
<1>3. Len(s) \in Nat /\ Len(ops) \in Nat
  OBVIOUS
<1>4. ASSUME NEW k \in 1 .. Len(s) PROVE (s \o ops)[k] = s[k]
  <2>1. k \in 1 .. Len(s) + Len(ops) /\ k =< Len(s)
    BY <1>3
  <2> QED BY <1>2, <2>1
<1>5. ASSUME NEW k \in 1 .. Len(ops) PROVE (s \o ops)[Len(s) + k] = ops[k]
  <2>1. PICK b \in Nat : b = Len(s) + k
    BY <1>3
  <2>2. b \in 1 .. Len(s) + Len(ops) /\ ~ (b =< Len(s)) /\ b - Len(s) = k
    BY <1>3, <2>1
  <2> QED BY <1>2, <2>1, <2>2
<1> QED BY <1>2, <1>3, <1>4, <1>5 DEF Emitted

\* The next node is lowered to ops.
LEMMA LowersTo ==
  ASSUME LInv, NEW nodes, Lower(nodes), NEW ops \in Seq(Operation(Now)), Emit(ops),
         clauses' \in Seq(Clause),
         env_labels' \in Nat, env_labels =< env_labels', NEW o2 \in Seq(1 .. Now),
         CodeOK(tree, ids, Now, o2, clauses', code', generator + 1, env_labels')
  PROVE  LInv'
<1>1. /\ tree \in Tree /\ at \in Nat /\ Now \in 1 .. Len(tree) /\ Now = at + 1
      /\ env_labels \in Nat /\ code \in Seq(Operation(at)) /\ Len(code) \in Nat
      /\ generator + 1 =< env_labels /\ generator + 1 \in Nat
  BY LowersIs
<1>2. UNCHANGED vars /\ at' = Now /\ starts' = Append(starts, Len(code) + 1)
      /\ env_labels # 0
  BY DEF Lower
<1>3. IInv /\ JInv /\ LTypeOK /\ pass = "labelled"
  BY <1>2 DEF LInv
<1>4. IInv' /\ JInv'
  BY <1>2, <1>3, IStuttering, JStep
<1>5. tree' = tree /\ ids' = ids /\ generator' = generator /\ pass' = pass
  BY <1>2 DEF vars
<1>6. code' \in Seq(Operation(Now)) /\ Len(code') = Len(code) + Len(ops) /\ Len(ops) \in Nat
  <2>1. Operation(at) \subseteq Operation(Now)
    BY <1>1 DEF Operation
  <2>2. code \in Seq(Operation(Now))
    BY <1>1, <2>1
  <2> QED BY <2>2 DEF Emit
<1>7. starts' \in Seq(1 .. Len(code') + 1) /\ Len(starts') = Now
  <2>1. starts \in Seq(1 .. Len(code) + 1) /\ Len(starts) = at
    BY <1>3 DEF LTypeOK
  <2>2. 1 .. Len(code) + 1 \subseteq 1 .. Len(code') + 1 /\ Len(code) + 1 \in 1 .. Len(code') + 1
    BY <1>1, <1>6
  <2>3. starts \in Seq(1 .. Len(code') + 1)
    BY <2>1, <2>2, WiderSeq
  <2> DEFINE S == 1 .. Len(code') + 1
             a == Len(code) + 1
  <2>4. a \in S /\ starts \in Seq(S)
    BY <2>2, <2>3
  <2> HIDE DEF S, a
  <2>5. Append(starts, a) \in Seq(S) /\ Len(Append(starts, a)) = Len(starts) + 1
    BY <2>4
  <2>6. starts' = Append(starts, a)
    BY <1>2 DEF a
  <2>7. starts' \in Seq(S)
    BY <2>5, <2>6
  <2>8. Len(starts') = Now
    BY <1>1, <2>1, <2>5, <2>6
  <2> QED BY <2>7, <2>8 DEF S
<1>8. LTypeOK'
  <2>1. Now \in 0 .. Len(tree)
    BY <1>1
  <2> QED BY <1>2, <1>5, <1>6, <1>7, <2>1 DEF LTypeOK
<1>9. env_labels' # 0 /\ generator < env_labels'
  <2>1. generator \in Nat
    BY <1>3 DEF IInv, TypeOK
  <2> QED BY <1>1, <1>2, <2>1
<1> QED BY <1>2, <1>3, <1>4, <1>5, <1>8, <1>9 DEF LInv

\* Operations of a node that makes no labels but those of its places.
PlainOp(t, d, p) ==
  {r \in Operation(p) :
     /\ r.from = p
     /\ \/ r.op = "label" /\ Places(t, d, p, r.id)
        \/ r.op = "ret" /\ r.id = Unset
        \/ r.op \notin {"label", "ret"} /\ Reached(t, d, p, r.id)}

LEMMA LowersPlainly ==
  ASSUME LInv, NEW nodes, Lower(nodes), KeepEnv, OtherNode(tree, Now),
         NEW ops \in Seq(PlainOp(tree, ids, Now)), Emit(ops),
         \A i, j \in 1 .. Len(ops) :
           ops[i].op = "label" /\ ops[j].op = "label" /\ ops[i].id = ops[j].id => i = j,
         \A x : Places(tree, ids, Now, x) => \E j \in 1 .. Len(ops) : IsLabelOp(ops, j, x)
  PROVE  LInv'
<1>1. /\ tree \in Tree /\ at \in Nat /\ Now \in 1 .. Len(tree) /\ Now = at + 1
      /\ generator + 1 \in Nat /\ env_labels \in Nat /\ generator + 1 =< env_labels
      /\ PlacesApart(tree, ids, generator + 1)
      /\ code \in Seq(Operation(at)) /\ Len(code) \in Nat
      /\ \A k \in 1 .. Len(code) : code[k].from \in 1 .. at
      /\ clauses \in Seq(Clause)
  BY LowersIs
<1>2. PICK o \in Seq(1 .. at) :
        CodeOK(tree, ids, at, o, clauses, code, generator + 1, env_labels)
  BY LowersIs
<1>3. ops \in Seq(Operation(Now))
  <2>1. PlainOp(tree, ids, Now) \subseteq Operation(Now)
    BY DEF PlainOp
  <2> QED BY <2>1
<1>4. Emitted(code, ops, code') /\ Len(ops) \in Nat
      /\ \A k \in 1 .. Len(ops) : ops[k] \in PlainOp(tree, ids, Now)
  BY <1>1, EmittedIs DEF Emit
<1>5. PlainOps(tree, ids, Now, ops)
  BY <1>4 DEF PlainOps, PlainOp
<1>6. CodeOK(tree, ids, Now, o, clauses, code', generator + 1, env_labels)
  BY <1>1, <1>2, <1>4, <1>5, PlainStep
<1>7. clauses' = clauses /\ env_labels' = env_labels
  BY DEF KeepEnv
<1>8. o \in Seq(1 .. Now)
  <2>1. 1 .. at \subseteq 1 .. Now
    BY <1>1
  <2> QED BY <2>1, WiderSeq
<1>9. /\ clauses' \in Seq(Clause) /\ env_labels' \in Nat
      /\ env_labels =< env_labels'
      /\ CodeOK(tree, ids, Now, o, clauses', code', generator + 1, env_labels')
  BY <1>1, <1>6, <1>7
<1> QED BY <1>3, <1>8, <1>9, LowersTo

\* The operations a node makes are plain ones.
LEMMA PlainIs ==
  ASSUME LInv, NEW nodes, Lower(nodes)
  PROVE  /\ \A id : Places(tree, ids, Now, id) => Op("label", id) \in PlainOp(tree, ids, Now)
         /\ \A op \in {"jump", "jump_if_zero", "jump_if_equal"} : \A id :
              Reached(tree, ids, Now, id) => Op(op, id) \in PlainOp(tree, ids, Now)
         /\ Op("ret", Unset) \in PlainOp(tree, ids, Now)
<1>1. Now \in 1 .. Now /\ PlacesApart(tree, ids, generator + 1) /\ Now \in 1 .. Len(tree)
  BY LowersIs
<1>2. ASSUME NEW id, Places(tree, ids, Now, id)
      PROVE  Op("label", id) \in PlainOp(tree, ids, Now)
  <2>1. id \in Nat
    BY <1>1, <1>2 DEF PlacesApart
  <2> QED BY <1>1, <1>2, <2>1 DEF PlainOp, Op, Operation
<1>3. ASSUME NEW op \in {"jump", "jump_if_zero", "jump_if_equal"}, NEW id,
             Reached(tree, ids, Now, id)
      PROVE  Op(op, id) \in PlainOp(tree, ids, Now)
  <2>1. id \in Nat
    BY <1>1, <1>3 DEF PlacesApart, Reached
  <2> QED BY <1>1, <1>3, <2>1 DEF PlainOp, Op, Operation
<1>4. Op("ret", Unset) \in PlainOp(tree, ids, Now)
  BY <1>1 DEF PlainOp, Op, Operation
<1> QED BY <1>2, <1>3, <1>4

\* One operation, or none, and no place.
LEMMA LowersToOne ==
  ASSUME LInv, NEW nodes, Lower(nodes), KeepEnv, OtherNode(tree, Now),
         NEW r \in PlainOp(tree, ids, Now), Emit(<<r>>),
         \A x : Places(tree, ids, Now, x) => r.op = "label" /\ r.id = x
  PROVE  LInv'
<1> DEFINE ops == <<r>>
<1>1. ops \in Seq(PlainOp(tree, ids, Now)) /\ Len(ops) = 1 /\ ops[1] = r
  OBVIOUS
<1> HIDE DEF ops
<1>2. Emit(ops)
  BY DEF ops
<1>3. \A i, j \in 1 .. Len(ops) :
        ops[i].op = "label" /\ ops[j].op = "label" /\ ops[i].id = ops[j].id => i = j
  BY <1>1
<1>4. \A x : Places(tree, ids, Now, x) => \E j \in 1 .. Len(ops) : IsLabelOp(ops, j, x)
  BY <1>1 DEF IsLabelOp
<1> QED BY <1>1, <1>2, <1>3, <1>4, LowersPlainly

LEMMA LowersToNone ==
  ASSUME LInv, NEW nodes, Lower(nodes), KeepEnv, OtherNode(tree, Now),
         Emit(<<>>), \A x : ~ Places(tree, ids, Now, x)
  PROVE  LInv'
<1> DEFINE ops == <<>>
<1>1. ops \in Seq(PlainOp(tree, ids, Now)) /\ Len(ops) = 0
  OBVIOUS
<1> HIDE DEF ops
<1>2. Emit(ops)
  BY DEF ops
<1>3. \A i, j \in 1 .. Len(ops) :
        ops[i].op = "label" /\ ops[j].op = "label" /\ ops[i].id = ops[j].id => i = j
  BY <1>1
<1>4. \A x : Places(tree, ids, Now, x) => \E j \in 1 .. Len(ops) : IsLabelOp(ops, j, x)
  OBVIOUS
<1> QED BY <1>1, <1>2, <1>3, <1>4, LowersPlainly

LEMMA FunctionLowered == ASSUME LInv, LowerFunction PROVE LInv'
<1>1. Lower({"function", "prototype"}) /\ Emit(<<>>) /\ KeepEnv
  BY DEF LowerFunction
<1>2. tree[Now].node \in {"function", "prototype"}
  BY <1>1, LowersIs
<1>3. OtherNode(tree, Now) /\ \A x : ~ Places(tree, ids, Now, x)
  BY <1>2 DEF OtherNode, Places, IfNodes
<1> QED BY <1>1, <1>3, LowersToNone

LEMMA FunctionEndLowered == ASSUME LInv, EndFunction PROVE LInv'
<1>1. Lower({"end"}) /\ tree[tree[Now].num].node = "function" /\ KeepEnv
  BY DEF EndFunction
<1>2. tree[Now].node = "end"
  BY <1>1, LowersIs
<1>3. OtherNode(tree, Now) /\ \A x : ~ Places(tree, ids, Now, x)
  BY <1>1, <1>2 DEF OtherNode, Places, IfNodes
<1>4. Op("ret", Unset) \in PlainOp(tree, ids, Now)
  BY <1>1, PlainIs
<1>5. Emit(<<>>) \/ Emit(<< Op("ret", Unset) >>)
  BY DEF EndFunction
<1>6. CASE Emit(<<>>)
  BY <1>1, <1>3, <1>6, LowersToNone
<1>7. CASE Emit(<< Op("ret", Unset) >>)
  BY <1>1, <1>3, <1>4, <1>7, LowersToOne
<1> QED BY <1>5, <1>6, <1>7

LEMMA ReturnLowered == ASSUME LInv, Return PROVE LInv'
<1>1. Lower({"return"}) /\ Emit(<< Op("ret", Unset) >>) /\ KeepEnv
  BY DEF Return
<1>2. tree[Now].node = "return"
  BY <1>1, LowersIs
<1>3. OtherNode(tree, Now) /\ \A x : ~ Places(tree, ids, Now, x)
  BY <1>2 DEF OtherNode, Places, IfNodes
<1>4. Op("ret", Unset) \in PlainOp(tree, ids, Now)
  BY <1>1, PlainIs
<1> QED BY <1>1, <1>3, <1>4, LowersToOne

LEMMA JumpLowered == ASSUME LInv, LowerJump PROVE LInv'
<1> DEFINE r == Op("jump", ids[Now].unique)
<1>1. Lower({"break", "continue", "goto"}) /\ Emit(<<r>>) /\ KeepEnv
  BY DEF LowerJump
<1>2. /\ tree[Now].node \in {"break", "continue", "goto"} /\ Now \in 1 .. Len(tree)
      /\ tree \in Tree /\ Finished(tree, ids, generator + 1)
  BY <1>1, LowersIs
<1>3. OtherNode(tree, Now) /\ \A x : ~ Places(tree, ids, Now, x)
  BY <1>2 DEF OtherNode, Places, IfNodes
<1>4. Reached(tree, ids, Now, ids[Now].unique)
  BY <1>2, JumpReached
<1>5. r \in PlainOp(tree, ids, Now)
  BY <1>1, <1>4, PlainIs
<1> HIDE DEF r
<1> QED BY <1>1, <1>3, <1>5, LowersToOne

LEMMA LabelLowered == ASSUME LInv, LowerLabel PROVE LInv'
<1> DEFINE r == Op("label", ids[Now].unique)
<1>1. Lower({"label", "case", "default"}) /\ Emit(<<r>>) /\ KeepEnv
  BY DEF LowerLabel
<1>2. tree[Now].node \in {"label", "case", "default"}
  BY <1>1, LowersIs
<1>3. OtherNode(tree, Now) /\ \A x : Places(tree, ids, Now, x) <=> x = ids[Now].unique
  BY <1>2 DEF OtherNode, Places, IfNodes
<1>4. r \in PlainOp(tree, ids, Now)
  BY <1>1, <1>3, PlainIs
<1>5. r.op = "label" /\ r.id = ids[Now].unique
  BY DEF Op
<1> HIDE DEF r
<1> QED BY <1>1, <1>3, <1>4, <1>5, LowersToOne

LEMMA SwitchEndLowered == ASSUME LInv, EndSwitch PROVE LInv'
<1> DEFINE i == tree[Now].num
           r == Op("label", ids[i].end)
<1>1. Lower({"end"}) /\ tree[i].node = "switch" /\ Emit(<<r>>) /\ KeepEnv
  BY DEF EndSwitch
<1>2. tree[Now].node = "end"
  BY <1>1, LowersIs
<1>3. OtherNode(tree, Now) /\ \A x : Places(tree, ids, Now, x) <=> x = ids[i].end
  BY <1>1, <1>2 DEF OtherNode, Places, IfNodes
<1>4. r \in PlainOp(tree, ids, Now)
  BY <1>1, <1>3, PlainIs
<1>5. r.op = "label" /\ r.id = ids[i].end
  BY DEF Op
<1> HIDE DEF r
<1> QED BY <1>1, <1>3, <1>4, <1>5, LowersToOne

LEMMA SameSeq ==
  ASSUME NEW S, NEW s \in Seq(S), NEW u \in Seq(S), NEW v \in Seq(S),
         Len(v) = Len(s) + Len(u), \A i \in 1 .. Len(s) : v[i] = s[i],
         \A i \in 1 .. Len(u) : v[Len(s) + i] = u[i]
  PROVE  s \o u = v
<1>1. /\ s \o u \in Seq(S) /\ Len(s \o u) = Len(v)
      /\ Len(s) \in Nat /\ Len(u) \in Nat
  BY ConcatProperties
<1>2. ASSUME NEW i \in 1 .. Len(v) PROVE (s \o u)[i] = v[i]
  <2>1. (s \o u)[i] = IF i =< Len(s) THEN s[i] ELSE u[i - Len(s)]
    BY <1>1, ConcatProperties
  <2>2. CASE i =< Len(s)
    BY <1>1, <2>1, <2>2
  <2>3. CASE ~ (i =< Len(s))
    <3>1. PICK j \in 1 .. Len(u) : j = i - Len(s)
      BY <1>1, <2>3
    <3>2. i = Len(s) + j
      BY <1>1, <3>1
    <3> QED BY <2>1, <2>3, <3>1, <3>2
  <2> QED BY <2>2, <2>3
<1> QED BY <1>1, <1>2, SeqEqual

LEMMA JoinedTwo ==
  ASSUME NEW a, NEW b
  PROVE  <<a>> \o <<b>> = <<a, b>>
<1> DEFINE S == {a, b} s == <<a>> u == <<b>> v == <<a, b>>
<1>1. /\ s \in Seq(S) /\ u \in Seq(S) /\ v \in Seq(S)
      /\ Len(s) = 1 /\ Len(u) = 1 /\ Len(v) = 2
      /\ s[1] = a /\ u[1] = b /\ v[1] = a /\ v[2] = b
  OBVIOUS
<1> HIDE DEF S, s, u, v
<1>2. Len(v) = Len(s) + Len(u) /\ \A i \in 1 .. Len(s) : v[i] = s[i]
  BY <1>1
<1>3. \A i \in 1 .. Len(u) : v[Len(s) + i] = u[i]
  BY <1>1
<1>4. s \o u = v
  BY <1>1, <1>2, <1>3, SameSeq
<1> QED BY <1>4 DEF s, u, v

LEMMA JoinedThree ==
  ASSUME NEW a, NEW b, NEW c
  PROVE  <<a>> \o <<b, c>> = <<a, b, c>>
<1> DEFINE S == {a, b, c} s == <<a>> u == <<b, c>> v == <<a, b, c>>
<1>1. /\ s \in Seq(S) /\ u \in Seq(S) /\ v \in Seq(S)
      /\ Len(s) = 1 /\ Len(u) = 2 /\ Len(v) = 3
      /\ s[1] = a /\ u[1] = b /\ u[2] = c /\ v[1] = a /\ v[2] = b /\ v[3] = c
  OBVIOUS
<1> HIDE DEF S, s, u, v
<1>2. \A i \in 1 .. Len(u) : v[Len(s) + i] = u[i]
  <2>1. \A i \in 1 .. Len(u) : i = 1 \/ i = 2
    BY <1>1
  <2> QED BY <1>1, <2>1
<1>3. Len(v) = Len(s) + Len(u) /\ \A i \in 1 .. Len(s) : v[i] = s[i]
  BY <1>1
<1>4. s \o u = v
  BY <1>1, <1>2, <1>3, SameSeq
<1> QED BY <1>4 DEF s, u, v

LEMMA JoinedFour ==
  ASSUME NEW a, NEW b, NEW c, NEW d
  PROVE  <<a, b>> \o <<c, d>> = <<a, b, c, d>>
<1> DEFINE S == {a, b, c, d} s == <<a, b>> u == <<c, d>> v == <<a, b, c, d>>
<1>1. /\ s \in Seq(S) /\ u \in Seq(S) /\ v \in Seq(S)
      /\ Len(s) = 2 /\ Len(u) = 2 /\ Len(v) = 4
      /\ s[1] = a /\ s[2] = b /\ u[1] = c /\ u[2] = d
      /\ v[1] = a /\ v[2] = b /\ v[3] = c /\ v[4] = d
  OBVIOUS
<1> HIDE DEF S, s, u, v
<1>2. \A i \in 1 .. 2 : v[Len(s) + i] = u[i] /\ v[i] = s[i]
  <2>1. \A i \in 1 .. 2 : i = 1 \/ i = 2
    OBVIOUS
  <2> QED BY <1>1, <2>1
<1>3. /\ Len(v) = Len(s) + Len(u) /\ \A i \in 1 .. Len(s) : v[i] = s[i]
      /\ \A i \in 1 .. Len(u) : v[Len(s) + i] = u[i]
  BY <1>1, <1>2
<1>4. s \o u = v
  BY <1>1, <1>3, SameSeq
<1> QED BY <1>4 DEF s, u, v

\* The start label of a loop, and its test if it comes first.
LEMMA LoopLowered == ASSUME LInv, LowerLoop PROVE LInv'
<1> DEFINE a == Op("label", ids[Now].start)
           b == Op("jump_if_zero", ids[Now].end)
<1>1. Lower({"loop"}) /\ KeepEnv
      /\ Emit(<<a>> \o IF tree[Now].name = "before" THEN <<b>> ELSE <<>>)
  BY DEF LowerLoop
<1>2. /\ tree[Now].node = "loop" /\ Now \in 1 .. Len(tree)
      /\ tree \in Tree /\ Finished(tree, ids, generator + 1)
  BY <1>1, LowersIs
<1>3. OtherNode(tree, Now) /\ \A x : Places(tree, ids, Now, x) <=> x = ids[Now].start
  BY <1>2 DEF OtherNode, Places, IfNodes
<1>4. Reached(tree, ids, Now, ids[Now].end)
  BY <1>2, LoopReached
<1>5. /\ a \in PlainOp(tree, ids, Now) /\ b \in PlainOp(tree, ids, Now)
      /\ a.op = "label" /\ a.id = ids[Now].start /\ b.op # "label"
  <2>1. a \in PlainOp(tree, ids, Now)
    BY <1>1, <1>3, PlainIs
  <2>2. b \in PlainOp(tree, ids, Now)
    BY <1>1, <1>4, PlainIs
  <2> QED BY <2>1, <2>2 DEF Op
<1> HIDE DEF a, b
<1>6. CASE Emit(<<a>>)
  BY <1>1, <1>3, <1>5, <1>6, LowersToOne
<1>7. CASE Emit(<<a, b>>)
  <2> DEFINE ops == <<a, b>>
  <2>1. ops \in Seq(PlainOp(tree, ids, Now)) /\ Len(ops) = 2 /\ ops[1] = a /\ ops[2] = b
    BY <1>5
  <2> HIDE DEF ops
  <2>2. Emit(ops)
    BY <1>7 DEF ops
  <2>3. \A i, j \in 1 .. Len(ops) :
          ops[i].op = "label" /\ ops[j].op = "label" /\ ops[i].id = ops[j].id => i = j
    <3>1. \A i \in 1 .. Len(ops) : ops[i].op = "label" => i = 1
      BY <1>5, <2>1
    <3> QED BY <3>1
  <2>4. \A x : Places(tree, ids, Now, x) => \E j \in 1 .. Len(ops) : IsLabelOp(ops, j, x)
    <3>1. 1 \in 1 .. Len(ops) /\ IsLabelOp(ops, 1, ids[Now].start)
      BY <1>5, <2>1 DEF IsLabelOp
    <3> QED BY <1>3, <3>1
  <2> QED BY <1>1, <1>3, <2>1, <2>2, <2>3, <2>4, LowersPlainly
<1>8. Emit(<<a>>) \/ Emit(<<a, b>>)
  <2>1. <<a>> \o <<b>> = <<a, b>>
    BY JoinedTwo
  <2>2. <<a>> \o <<>> = <<a>>
    OBVIOUS
  <2> QED BY <1>1, <2>1, <2>2
<1> QED BY <1>6, <1>7, <1>8

\* The labels for continue and break, and the jump between them.
LEMMA LoopEndLowered == ASSUME LInv, EndLoop PROVE LInv'
<1> DEFINE i == tree[Now].num
           a == Op("label", ids[i].continue)
           b == Op("jump_if_zero", ids[i].end)
           c == Op("jump", ids[i].start)
           e == Op("label", ids[i].end)
<1>1. Lower({"end"}) /\ tree[i].node = "loop" /\ KeepEnv
      /\ Emit(<<a>> \o (IF tree[i].name = "after" THEN <<b>> ELSE <<>>) \o <<c, e>>)
  BY DEF EndLoop
<1>2. /\ tree[Now].node = "end" /\ Now \in 1 .. Len(tree)
      /\ tree \in Tree /\ Finished(tree, ids, generator + 1)
  BY <1>1, LowersIs
<1>3. OtherNode(tree, Now)
      /\ \A x : Places(tree, ids, Now, x) <=> x = ids[i].continue \/ x = ids[i].end
  BY <1>1, <1>2 DEF OtherNode, Places, IfNodes
<1>4. i \in 1 .. Len(tree) /\ Now \in EndsOf(tree, i)
  <2>1. EndsOK(tree)
    BY <1>2 DEF Finished, TreeOK
  <2> QED BY <1>2, <2>1, EndIs
<1>5. Reached(tree, ids, Now, ids[i].start) /\ Reached(tree, ids, Now, ids[i].end)
  BY <1>1, <1>2, <1>4, LoopReached
<1>6. ids[i].continue # ids[i].end
  BY <1>1, <1>2, <1>4 DEF Finished, OwnersApart
<1>7. /\ a \in PlainOp(tree, ids, Now) /\ b \in PlainOp(tree, ids, Now)
      /\ c \in PlainOp(tree, ids, Now) /\ e \in PlainOp(tree, ids, Now)
  <2>1. a \in PlainOp(tree, ids, Now) /\ e \in PlainOp(tree, ids, Now)
    BY <1>1, <1>3, PlainIs
  <2>2. b \in PlainOp(tree, ids, Now) /\ c \in PlainOp(tree, ids, Now)
    BY <1>1, <1>5, PlainIs
  <2> QED BY <2>1, <2>2
<1>8. /\ a.op = "label" /\ a.id = ids[i].continue /\ b.op # "label"
      /\ c.op # "label" /\ e.op = "label" /\ e.id = ids[i].end
  BY DEF Op
<1> DEFINE start == ids[i].start  cont == ids[i].continue  end == ids[i].end
<1>9. \A x : Places(tree, ids, Now, x) <=> x = cont \/ x = end
  BY <1>3
<1>10. a.id = cont /\ e.id = end /\ cont # end
  BY <1>6, <1>8
<1> HIDE DEF a, b, c, e, start, cont, end
<1>11. CASE Emit(<<a, c, e>>)
  <2> DEFINE ops == <<a, c, e>>
  <2>1. ops \in Seq(PlainOp(tree, ids, Now)) /\ Len(ops) = 3
        /\ ops[1] = a /\ ops[2] = c /\ ops[3] = e
    BY <1>7
  <2> HIDE DEF ops
  <2>2. Emit(ops)
    BY <1>11 DEF ops
  <2>3. \A k, j \in 1 .. Len(ops) :
          ops[k].op = "label" /\ ops[j].op = "label" /\ ops[k].id = ops[j].id => k = j
    <3>1. \A k \in 1 .. Len(ops) : ops[k].op = "label" =>
            \/ k = 1 /\ ops[k].id = cont
            \/ k = 3 /\ ops[k].id = end
      BY <1>8, <1>10, <2>1
    <3> QED BY <1>10, <3>1
  <2>4. \A x : Places(tree, ids, Now, x) => \E j \in 1 .. Len(ops) : IsLabelOp(ops, j, x)
    <3>1. /\ 1 \in 1 .. Len(ops) /\ IsLabelOp(ops, 1, cont)
          /\ 3 \in 1 .. Len(ops) /\ IsLabelOp(ops, 3, end)
      BY <1>8, <1>10, <2>1 DEF IsLabelOp
    <3> QED BY <1>9, <3>1
  <2> QED BY <1>1, <1>3, <2>1, <2>2, <2>3, <2>4, LowersPlainly
<1>12. CASE Emit(<<a, b, c, e>>)
  <2> DEFINE ops == <<a, b, c, e>>
  <2>1. ops \in Seq(PlainOp(tree, ids, Now)) /\ Len(ops) = 4
        /\ ops[1] = a /\ ops[2] = b /\ ops[3] = c /\ ops[4] = e
    BY <1>7
  <2> HIDE DEF ops
  <2>2. Emit(ops)
    BY <1>12 DEF ops
  <2>3. \A k, j \in 1 .. Len(ops) :
          ops[k].op = "label" /\ ops[j].op = "label" /\ ops[k].id = ops[j].id => k = j
    <3>1. \A k \in 1 .. Len(ops) : ops[k].op = "label" =>
            \/ k = 1 /\ ops[k].id = cont
            \/ k = 4 /\ ops[k].id = end
      BY <1>8, <1>10, <2>1
    <3> QED BY <1>10, <3>1
  <2>4. \A x : Places(tree, ids, Now, x) => \E j \in 1 .. Len(ops) : IsLabelOp(ops, j, x)
    <3>1. /\ 1 \in 1 .. Len(ops) /\ IsLabelOp(ops, 1, cont)
          /\ 4 \in 1 .. Len(ops) /\ IsLabelOp(ops, 4, end)
      BY <1>8, <1>10, <2>1 DEF IsLabelOp
    <3> QED BY <1>9, <3>1
  <2> QED BY <1>1, <1>3, <2>1, <2>2, <2>3, <2>4, LowersPlainly
<1>13. Emit(<<a, c, e>>) \/ Emit(<<a, b, c, e>>)
  <2>1. Emit(<<a>> \o <<b>> \o <<c, e>>) \/ Emit(<<a>> \o <<>> \o <<c, e>>)
    BY <1>1
  <2>2. <<a>> \o <<b>> = <<a, b>> /\ <<a>> \o <<>> = <<a>>
    BY JoinedTwo
  <2>3. <<a, b>> \o <<c, e>> = <<a, b, c, e>>
    BY JoinedFour
  <2>4. <<a>> \o <<c, e>> = <<a, c, e>>
    BY JoinedThree
  <2> QED BY <2>1, <2>2, <2>3, <2>4
<1> QED BY <1>11, <1>12, <1>13

\* Jumps to the cases, to the default and past the body: no labels.
LEMMA SwitchLowered == ASSUME LInv, LowerSwitch PROVE LInv'
<1> DEFINE G == {r \in PlainOp(tree, ids, Now) : r.op # "label"}
           J == CaseJumpers(Now)
           D == DefaultJumper(Now)
           E == << Op("jump", ids[Now].end) >>
           ops == J \o D \o E
<1>1. Lower({"switch"}) /\ KeepEnv /\ Emit(ops)
  BY DEF LowerSwitch
<1>2. /\ tree[Now].node = "switch" /\ Now \in 1 .. Len(tree)
      /\ tree \in Tree /\ Finished(tree, ids, generator + 1)
      /\ ids \in Seq(Ids) /\ Len(ids) = Len(tree)
  BY <1>1, LowersIs
<1>3. OtherNode(tree, Now) /\ \A x : ~ Places(tree, ids, Now, x)
  BY <1>2 DEF OtherNode, Places, IfNodes
<1>4. /\ \A k \in 1 .. Len(ids[Now].cases) : Reached(tree, ids, Now, ids[Now].cases[k].unique)
      /\ ids[Now].default # UnsetDefault => Reached(tree, ids, Now, ids[Now].default)
      /\ Reached(tree, ids, Now, ids[Now].end)
  BY <1>2, SwitchReached
<1>5. ids[Now] \in Ids
  BY <1>2
<1>6. ids[Now].cases \in Seq([value: Nat, unique: Nat]) /\ ids[Now].default \in Int
  BY <1>5 DEF Ids
<1> DEFINE cases == ids[Now].cases
<1>7. J \in Seq(G)
  <2>1. Len(cases) \in Nat
    BY <1>6
  <2>2. ASSUME NEW k \in 1 .. Len(cases)
        PROVE  [Op("jump_if_equal", cases[Len(cases) + 1 - k].unique)
                  EXCEPT !.value = cases[Len(cases) + 1 - k].value] \in G
    <3>1. PICK m \in 1 .. Len(cases) : m = Len(cases) + 1 - k
      <4> HIDE DEF cases
      <4>1. Len(cases) + 1 - k \in 1 .. Len(cases)
        BY <2>1
      <4> QED BY <4>1
    <3>2. cases[m].value \in Nat
      <4>1. cases \in Seq([value: Nat, unique: Nat]) /\ m \in 1 .. Len(cases)
        BY <1>6
      <4> DEFINE Cases == [value: Nat, unique: Nat]
      <4> HIDE DEF cases, Cases
      <4>2. cases[m] \in Cases
        BY <4>1, ElementOfSeq DEF Cases
      <4> QED BY <4>2 DEF Cases
    <3>3. Op("jump_if_equal", cases[m].unique) \in PlainOp(tree, ids, Now)
      BY <1>1, <1>4, PlainIs
    <3>4. [Op("jump_if_equal", cases[m].unique) EXCEPT !.value = cases[m].value] \in G
      BY <3>2, <3>3 DEF PlainOp, Operation, Op
    <3> QED BY <3>1, <3>4
  <2>3. J = [k \in 1 .. Len(cases) |->
               [Op("jump_if_equal", cases[Len(cases) + 1 - k].unique)
                  EXCEPT !.value = cases[Len(cases) + 1 - k].value]]
    BY DEF CaseJumpers
  <2> HIDE DEF G, J, cases
  <2> QED BY <2>1, <2>2, <2>3
<1>8. D \in Seq(G)
  <2>1. CASE ids[Now].default >= 0
    <3>1. ids[Now].default # UnsetDefault
      BY <1>6, <2>1 DEF UnsetDefault
    <3>2. Op("jump", ids[Now].default) \in PlainOp(tree, ids, Now)
      BY <1>1, <1>4, <3>1, PlainIs
    <3>3. Op("jump", ids[Now].default) \in G
      BY <3>2 DEF Op
    <3>4. D = << Op("jump", ids[Now].default) >>
      BY <2>1 DEF DefaultJumper
    <3> HIDE DEF G, D
    <3> QED BY <3>3, <3>4
  <2>2. CASE ~ (ids[Now].default >= 0)
    <3>1. D = <<>>
      BY <2>2 DEF DefaultJumper
    <3> HIDE DEF G, D
    <3> QED BY <3>1
  <2> QED BY <2>1, <2>2
<1>9. E \in Seq(G)
  <2>1. Op("jump", ids[Now].end) \in PlainOp(tree, ids, Now)
    BY <1>1, <1>4, PlainIs
  <2>2. Op("jump", ids[Now].end) \in G
    BY <2>1 DEF Op
  <2> HIDE DEF G
  <2> QED BY <2>2
<1>10. ops \in Seq(G)
  <2> HIDE DEF G, J, D, E
  <2> QED BY <1>7, <1>8, <1>9
<1> HIDE DEF ops
<1>11. ops \in Seq(PlainOp(tree, ids, Now)) /\ \A k \in 1 .. Len(ops) : ops[k] \in G
  <2>1. G \subseteq PlainOp(tree, ids, Now)
    OBVIOUS
  <2> HIDE DEF G
  <2> QED BY <1>10, <2>1, WiderSeq
<1>12. \A k \in 1 .. Len(ops) : ops[k].op # "label"
  BY <1>11
<1> HIDE DEF G
<1>13. \A i, j \in 1 .. Len(ops) :
         ops[i].op = "label" /\ ops[j].op = "label" /\ ops[i].id = ops[j].id => i = j
  BY <1>12
<1>14. \A x : Places(tree, ids, Now, x) => \E j \in 1 .. Len(ops) : IsLabelOp(ops, j, x)
  BY <1>3
<1> QED BY <1>1, <1>3, <1>11, <1>13, <1>14, LowersPlainly

(***************************************************************************)
(* The nodes of an if, which push an activation, change it and pop it.     *)
(***************************************************************************)
Pushed(s, x, s2) ==
  /\ Len(s) \in Nat /\ Len(s2) = Len(s) + 1
  /\ \A k \in 1 .. Len(s) : s2[k] = s[k]
  /\ s2[Len(s) + 1] = x
Popped(s, s2) ==
  /\ Len(s) \in Nat /\ Len(s2) \in Nat /\ Len(s) = Len(s2) + 1
  /\ \A k \in 1 .. Len(s2) : s2[k] = s[k]

PopBoth(o, o2, c, c2) == Len(c) # 0 => Popped(o, o2) /\ Popped(c, c2)

\* What the activations up to m await at p is what they awaited at n.
SameAwaits(t, n, p, o, c, o2, c2, m) ==
  \A k \in 1 .. m : \A x : Awaits(t, p, o2, c2, k, x) <=> Awaits(t, n, o, c, k, x)

\* The if at p waits for its new labels.
LEMMA IfClauses ==
  ASSUME NEW t \in Tree, EndsOK(t), ElsesOK(t), NEW n \in Nat, NEW p \in 1 .. Len(t), p = n + 1,
         t[p].node \in IfNodes, NEW o, NEW c, NEW o2, NEW c2, NEW r,
         NEW base \in Nat, NEW e \in Nat, NEW e2 \in Nat, base =< e, e < e2,
         ClausesOK(t, n, o, c, base, e), Pushed(o, p, o2), Pushed(c, r, c2),
         r.cond = e, t[p].node = "ifelse" => r.end = e + 1 /\ e + 1 < e2
  PROVE  /\ ClausesOK(t, p, o2, c2, base, e2)
         /\ SameAwaits(t, n, p, o, c, o2, c2, Len(c))
         /\ \A x : Awaits(t, p, o2, c2, Len(c) + 1, x) => x >= e
         /\ Awaits(t, p, o2, c2, Len(c) + 1, e)
<1> DEFINE top == Len(c) + 1
<1>1. /\ Len(t) \in Nat /\ 1 .. p = (1 .. n) \cup {p} /\ p \notin 1 .. n
      /\ Len(c) \in Nat /\ Len(o) = Len(c) /\ Len(o2) = top /\ Len(c2) = top
      /\ o2[top] = p /\ c2[top] = r /\ 1 .. top = (1 .. Len(c)) \cup {top} /\ top \notin 1 .. Len(c)
  <2>1. Len(c) \in Nat /\ Len(o) = Len(c)
    BY DEF ClausesOK, Pushed
  <2> QED BY <2>1 DEF Tree, Pushed
<1>2. \A k \in 1 .. Len(c) : o2[k] = o[k] /\ c2[k] = c[k]
  BY <1>1 DEF Pushed
<1>3. /\ t[p].node # "else" /\ t[p].node # "end" /\ t[p].node \in Constructs
  BY DEF IfNodes, Constructs
<1>4. \A i : Elsed(t, p, i) <=> Elsed(t, n, i)
  BY <1>1, <1>3 DEF Elsed
<1>5. ~ Elsed(t, p, p)
  <2> SUFFICES ASSUME NEW q \in 1 .. p, t[q].node = "else", t[q].num = p PROVE FALSE
    BY DEF Elsed
  <2>1. q \in 1 .. Len(t)
    BY <1>1
  <2>2. p \in 1 .. q - 1
    BY <2>1 DEF ElsesOK
  <2> QED BY <2>2
<1>6. SameAwaits(t, n, p, o, c, o2, c2, Len(c))
  BY <1>2, <1>4 DEF SameAwaits, Awaits
<1>7. \A x : Awaits(t, p, o2, c2, top, x) <=> x = e \/ (t[p].node = "ifelse" /\ x = e + 1)
  BY <1>1, <1>5 DEF Awaits
<1>8. ASSUME NEW i PROVE IsOpen(o2, i) <=> i \in 1 .. p /\ OpenIf(t, p, i)
  <2>1. IsOpen(o, i) <=> i \in 1 .. n /\ OpenIf(t, n, i)
    BY DEF ClausesOK, ClausesOf
  <2>2. IsOpen(o2, i) <=> IsOpen(o, i) \/ i = p
    BY <1>1, <1>2 DEF IsOpen
  <2>3. OpenIf(t, p, p)
    <3> SUFFICES ASSUME NEW k \in EndsOf(t, p) PROVE p < k
      BY DEF OpenIf
    <3>1. k \in 1 .. Len(t) /\ t[k].node = "end" /\ t[k].num = p
      BY DEF EndsOf
    <3>2. p \in 1 .. k - 1
      BY <3>1, EndIs
    <3> QED BY <1>1, <3>1, <3>2
  <2>4. OpenIf(t, n, i) <=> OpenIf(t, p, i)
    <3>1. ASSUME NEW k \in EndsOf(t, i) PROVE n < k <=> p < k
      <4>1. k \in 1 .. Len(t) /\ k # p
        BY <1>3 DEF EndsOf
      <4> QED BY <1>1, <4>1
    <3> QED BY <3>1 DEF OpenIf
  <2> QED BY <1>1, <2>1, <2>2, <2>3, <2>4
<1>9. \A j, k \in 1 .. Len(o2) : j < k => o2[j] < o2[k]
  <2> SUFFICES ASSUME NEW j \in 1 .. Len(o2), NEW k \in 1 .. Len(o2), j < k
               PROVE  o2[j] < o2[k]
    OBVIOUS
  <2>1. j \in 1 .. Len(c)
    BY <1>1
  <2>2. CASE k \in 1 .. Len(c)
    BY <1>1, <1>2, <2>1, <2>2 DEF ClausesOK, ClausesOf
  <2>3. CASE k = top
    <3>1. IsOpen(o, o[j])
      BY <1>1, <2>1 DEF IsOpen
    <3>2. o[j] \in 1 .. n
      BY <3>1 DEF ClausesOK, ClausesOf
    <3> QED BY <1>1, <1>2, <2>1, <2>3, <3>2
  <2> QED BY <1>1, <2>2, <2>3
<1>10. ClausesOf(t, p, o2)
  BY <1>8, <1>9 DEF ClausesOf
<1>11. ASSUME NEW m \in 1 .. Len(c2)
       PROVE  /\ c2[m].cond \in base .. e2 - 1
              /\ t[o2[m]].node = "ifelse" =>
                   c2[m].end \in base .. e2 - 1 /\ c2[m].cond # c2[m].end
  <2>1. CASE m \in 1 .. Len(c)
    <3>1. /\ c[m].cond \in base .. e - 1
          /\ t[o[m]].node = "ifelse" => c[m].end \in base .. e - 1 /\ c[m].cond # c[m].end
      BY <2>1 DEF ClausesOK
    <3>2. \A x : x \in base .. e - 1 => x \in base .. e2 - 1
      OBVIOUS
    <3> QED BY <1>2, <2>1, <3>1, <3>2
  <2>2. CASE m = top
    <3>1. c2[m] = r /\ o2[m] = p
      BY <1>1, <2>2
    <3> QED BY <3>1
  <2> QED BY <1>1, <2>1, <2>2
<1> HIDE DEF top
<1>12. ASSUME NEW l \in 1 .. Len(c2), NEW m \in 1 .. Len(c2), NEW x,
              Awaits(t, p, o2, c2, l, x), Awaits(t, p, o2, c2, m, x)
       PROVE  l = m
  <2>1. \A k \in 1 .. Len(c) : \A y : Awaits(t, p, o2, c2, k, y) =>
          Awaits(t, n, o, c, k, y) /\ y < e
    <3> SUFFICES ASSUME NEW k \in 1 .. Len(c), NEW y, Awaits(t, p, o2, c2, k, y)
                 PROVE  Awaits(t, n, o, c, k, y) /\ y < e
      OBVIOUS
    <3>1. Awaits(t, n, o, c, k, y)
      BY <1>6 DEF SameAwaits
    <3>2. y \in base .. e - 1
      BY <3>1, AwaitedRange
    <3> QED BY <3>1, <3>2
  <2>2. \A y : Awaits(t, p, o2, c2, top, y) => y >= e /\ y \in Int
    BY <1>7
  <2>3. CASE l \in 1 .. Len(c) /\ m \in 1 .. Len(c)
    BY <1>12, <2>1, <2>3 DEF ClausesOK
  <2>4. CASE l = top \/ m = top
    BY <1>1, <1>12, <2>1, <2>2, <2>4
  <2> QED BY <1>1, <2>3, <2>4
<1>13. ClausesOK(t, p, o2, c2, base, e2)
  BY <1>1, <1>10, <1>11, <1>12 DEF ClausesOK
<1>14. /\ \A x : Awaits(t, p, o2, c2, top, x) => x >= e
       /\ Awaits(t, p, o2, c2, top, e)
  BY <1>7
<1> QED BY <1>6, <1>13, <1>14 DEF top

LEMMA IfStep ==
  ASSUME NEW t \in Tree, NEW d, EndsOK(t), ElsesOK(t),
         NEW n \in Nat, NEW p \in 1 .. Len(t), p = n + 1,
         t[p].node \in IfNodes, NEW o, NEW c, NEW o2, NEW c2, NEW r,
         NEW s, NEW ops, NEW s2,
         NEW base \in Nat, NEW e \in Nat, NEW e2 \in Nat, base =< e, e < e2,
         Len(s) \in Nat, Emitted(s, ops, s2), \A k \in 1 .. Len(s) : s[k].from \in 1 .. n,
         PlacesApart(t, d, base), CodeOK(t, d, n, o, c, s, base, e),
         Pushed(o, p, o2), Pushed(c, r, c2),
         r.cond = e, t[p].node = "ifelse" => r.end = e + 1 /\ e + 1 < e2,
         Len(ops) = 1, ops[1].from = p, ops[1].op = "jump_if_zero", ops[1].id = e
  PROVE  CodeOK(t, d, p, o2, c2, s2, base, e2)
<1>1. ClausesOK(t, n, o, c, base, e)
  BY DEF CodeOK
<1>2. /\ ClausesOK(t, p, o2, c2, base, e2)
      /\ SameAwaits(t, n, p, o, c, o2, c2, Len(c))
      /\ \A x : Awaits(t, p, o2, c2, Len(c) + 1, x) => x >= e
      /\ Awaits(t, p, o2, c2, Len(c) + 1, e)
  BY <1>1, IfClauses
<1>3. /\ Len(c) \in Nat /\ Len(o) = Len(c) /\ Len(c2) = Len(c) + 1 /\ o2[Len(c) + 1] = p
      /\ \A k \in 1 .. Len(c) : o2[k] = o[k]
  BY <1>1 DEF Pushed, ClausesOK
<1>4. /\ 1 .. Len(c2) = (1 .. Len(c)) \cup {Len(c) + 1} /\ 1 .. Len(ops) = {1}
  BY <1>3
<1>5. \A x : ~ Places(t, d, p, x)
  BY DEF Places, IfNodes
<1>6. \A j \in 1 .. Len(ops) : ops[j].from = p /\ ops[j].op # "label"
  BY <1>4
<1>7. NewLabels(t, d, n, p, o, c, ops, base, e, e2)
  BY <1>5, <1>6 DEF NewLabels
<1>8. NewJumps(t, d, p, o2, c2, ops, base, e2)
  <2>1. /\ Len(c) + 1 \in 1 .. Len(c2) /\ Awaits(t, p, o2, c2, Len(c) + 1, e)
        /\ Together(t, p, o2[Len(c) + 1])
    BY <1>2, <1>3, <1>4 DEF Together
  <2>2. e \in base .. e2 - 1
    OBVIOUS
  <2> QED BY <1>4, <2>1, <2>2 DEF NewJumps
<1>9. StillAwaited(t, n, p, o, c, o2, c2, ops)
  BY <1>2, <1>3, <1>4 DEF StillAwaited, SameAwaits
<1>10. AwaitedNow(t, n, p, o, c, o2, c2, ops, e)
  BY <1>2, <1>4, <1>6 DEF AwaitedNow, SameAwaits, IsLabelOp
<1>11. Len(ops) \in Nat /\ e =< e2
  OBVIOUS
<1> QED BY <1>2, <1>6, <1>7, <1>8, <1>9, <1>10, <1>11, EmitStep

\* What is open above the innermost if would have to end first.
LEMMA TopIf ==
  ASSUME NEW t \in Tree, NEW n \in Nat, NEW o, Len(o) \in Nat, ClausesOf(t, n, o),
         NEW i \in 1 .. n, n =< Len(t), OpenIf(t, n, i),
         \A j \in 1 .. n : i < j /\ t[j].node \in Constructs => \E l \in EndsOf(t, j) : l =< n
  PROVE  Len(o) \in 1 .. Len(o) /\ o[Len(o)] = i
<1>1. IsOpen(o, i)
  BY DEF ClausesOf
<1>2. PICK m \in 1 .. Len(o) : o[m] = i
  BY <1>1 DEF IsOpen
<1>3. Len(o) \in 1 .. Len(o)
  BY <1>2
<1>4. ASSUME m # Len(o) PROVE FALSE
  <2>1. i < o[Len(o)]
    <3>1. m < Len(o)
      BY <1>2, <1>4
    <3> QED BY <1>2, <1>3, <3>1 DEF ClausesOf
  <2>2. IsOpen(o, o[Len(o)])
    BY <1>3 DEF IsOpen
  <2>3. o[Len(o)] \in 1 .. n /\ OpenIf(t, n, o[Len(o)])
    BY <2>2 DEF ClausesOf
  <2>4. t[o[Len(o)]].node \in Constructs
    BY <2>3 DEF OpenIf, IfNodes, Constructs
  <2>5. PICK l \in EndsOf(t, o[Len(o)]) : l =< n
    BY <2>1, <2>3, <2>4
  <2>6. n < l /\ l \in Nat
    BY <2>3, <2>5 DEF OpenIf, EndsOf
  <2> QED BY <2>5, <2>6
<1> QED BY <1>2, <1>3, <1>4

\* The else at p: from there on its if waits for the end label alone.
LEMMA ElseClauses ==
  ASSUME NEW t \in Tree, ElsesOK(t), NEW n \in Nat, NEW p \in 1 .. Len(t), p = n + 1,
         t[p].node = "else", NEW o, NEW c, NEW base \in Nat, NEW e \in Nat,
         Len(c) \in Nat, ClausesOK(t, n, o, c, base, e)
  PROVE  /\ ClausesOK(t, p, o, c, base, e)
         /\ Len(c) \in 1 .. Len(c) /\ o[Len(c)] = t[p].num /\ t[o[Len(c)]].node = "ifelse"
         /\ SameAwaits(t, n, p, o, c, o, c, Len(c) - 1)
         /\ ~ Elsed(t, n, o[Len(c)]) /\ Elsed(t, p, o[Len(c)])
<1> DEFINE i == t[p].num
           top == Len(c)
<1>1. Len(t) \in Nat /\ 1 .. p = (1 .. n) \cup {p} /\ p \notin 1 .. n /\ n =< Len(t)
  BY DEF Tree
<1>2. /\ i \in 1 .. p - 1 /\ t[i].node = "ifelse" /\ \A k \in EndsOf(t, i) : p < k
      /\ \A j \in 1 .. Len(t) :
           i < j /\ j < p /\ t[j].node \in Constructs => \E l \in EndsOf(t, j) : l < p
      /\ ElsesOf(t, i) = {p}
  BY DEF ElsesOK
<1> HIDE DEF i
<1>3. i \in 1 .. n /\ OpenIf(t, n, i)
  <2>1. \A k \in EndsOf(t, i) : n < k
    <3> SUFFICES ASSUME NEW k \in EndsOf(t, i) PROVE n < k
      OBVIOUS
    <3>1. k \in Nat /\ p < k
      BY <1>2 DEF EndsOf
    <3> QED BY <3>1
  <2> QED BY <1>2, <2>1 DEF OpenIf, IfNodes
<1>4. \A j \in 1 .. n : i < j /\ t[j].node \in Constructs => \E l \in EndsOf(t, j) : l =< n
  <2> SUFFICES ASSUME NEW j \in 1 .. n, i < j, t[j].node \in Constructs
               PROVE  \E l \in EndsOf(t, j) : l =< n
    OBVIOUS
  <2>1. j \in 1 .. Len(t) /\ j < p
    BY <1>1
  <2>2. PICK l \in EndsOf(t, j) : l < p
    BY <1>2, <2>1
  <2>3. l \in Nat
    BY DEF EndsOf
  <2> QED BY <2>2, <2>3
<1>5. ClausesOf(t, n, o) /\ Len(o) = Len(c)
  BY DEF ClausesOK
<1>6. top \in 1 .. top /\ o[top] = i
  <2>1. Len(o) \in 1 .. Len(o) /\ o[Len(o)] = i
    BY <1>1, <1>3, <1>4, <1>5, TopIf
  <2> QED BY <1>5, <2>1
<1>7. ~ Elsed(t, n, i) /\ Elsed(t, p, i)
  <2>1. Elsed(t, p, i)
    BY <1>1 DEF Elsed, i
  <2>2. ASSUME Elsed(t, n, i) PROVE FALSE
    <3>1. PICK q \in 1 .. n : t[q].node = "else" /\ t[q].num = i
      BY <2>2 DEF Elsed
    <3>2. q \in ElsesOf(t, i)
      BY <1>1, <3>1 DEF ElsesOf
    <3> QED BY <1>1, <1>2, <3>2
  <2> QED BY <2>1, <2>2
<1>8. \A j : j # i => (Elsed(t, p, j) <=> Elsed(t, n, j))
  BY <1>1 DEF Elsed, i
<1>9. \A k \in 1 .. top - 1 : k \in 1 .. top /\ o[k] # i
  <2> SUFFICES ASSUME NEW k \in 1 .. top - 1 PROVE k \in 1 .. top /\ o[k] # i
    OBVIOUS
  <2>1. k \in 1 .. Len(o) /\ top \in 1 .. Len(o) /\ k < top
    BY <1>5, <1>6
  <2>2. o[k] < o[top]
    BY <1>5, <2>1 DEF ClausesOf
  <2> QED BY <1>3, <1>5, <1>6, <2>1, <2>2
<1>10. SameAwaits(t, n, p, o, c, o, c, top - 1)
  BY <1>8, <1>9 DEF SameAwaits, Awaits
<1>11. \A m \in 1 .. top : \A x : Awaits(t, p, o, c, m, x) => Awaits(t, n, o, c, m, x)
  <2> SUFFICES ASSUME NEW m \in 1 .. top, NEW x, Awaits(t, p, o, c, m, x)
               PROVE  Awaits(t, n, o, c, m, x)
    OBVIOUS
  <2>1. Elsed(t, n, o[m]) => Elsed(t, p, o[m])
    BY <1>1 DEF Elsed
  <2> QED BY <2>1 DEF Awaits
<1>12. ClausesOf(t, p, o)
  <2>1. ASSUME NEW j PROVE OpenIf(t, n, j) <=> OpenIf(t, p, j)
    <3>1. ASSUME NEW k \in EndsOf(t, j) PROVE n < k <=> p < k
      <4>1. k \in 1 .. Len(t) /\ k # p
        BY DEF EndsOf
      <4> QED BY <1>1, <4>1
    <3> QED BY <3>1 DEF OpenIf
  <2>2. ~ OpenIf(t, p, p)
    BY DEF OpenIf, IfNodes
  <2> QED BY <1>1, <1>5, <2>1, <2>2 DEF ClausesOf
<1>13. ClausesOK(t, p, o, c, base, e)
  <2>1. /\ \A m \in 1 .. Len(c) :
             /\ c[m].cond \in base .. e - 1
             /\ t[o[m]].node = "ifelse" => c[m].end \in base .. e - 1 /\ c[m].cond # c[m].end
        /\ \A l, m \in 1 .. Len(c) : \A x :
             Awaits(t, n, o, c, l, x) /\ Awaits(t, n, o, c, m, x) => l = m
    BY DEF ClausesOK
  <2>2. \A l, m \in 1 .. Len(c) : \A x :
          Awaits(t, p, o, c, l, x) /\ Awaits(t, p, o, c, m, x) => l = m
    BY <1>11, <2>1
  <2> QED BY <1>5, <1>12, <2>1, <2>2 DEF ClausesOK
<1> QED BY <1>2, <1>6, <1>7, <1>10, <1>13 DEF i

LEMMA ElseStep ==
  ASSUME NEW t \in Tree, NEW d, NEW base \in Nat, Finished(t, d, base),
         NEW n \in Nat, NEW p \in 1 .. Len(t), p = n + 1, t[p].node = "else",
         NEW o, NEW c, NEW s, NEW ops, NEW s2, NEW e \in Nat, base =< e, Len(c) \in Nat,
         Len(s) \in Nat, Emitted(s, ops, s2), \A k \in 1 .. Len(s) : s[k].from \in 1 .. n,
         PlacesApart(t, d, base), CodeOK(t, d, n, o, c, s, base, e),
         Len(ops) = 2, ops[1].from = p, ops[2].from = p,
         ops[1].op = "jump", ops[1].id = c[Len(c)].end,
         ops[2].op = "label", ops[2].id = c[Len(c)].cond
  PROVE  CodeOK(t, d, p, o, c, s2, base, e)
<1> DEFINE top == Len(c)
<1>1. ClausesOK(t, n, o, c, base, e) /\ ElsesOK(t)
  BY DEF CodeOK, Finished, Nested
<1>2. /\ ClausesOK(t, p, o, c, base, e)
      /\ top \in 1 .. top /\ o[top] = t[p].num /\ t[o[top]].node = "ifelse"
      /\ SameAwaits(t, n, p, o, c, o, c, top - 1)
      /\ ~ Elsed(t, n, o[top]) /\ Elsed(t, p, o[top])
  BY <1>1, ElseClauses
<1> HIDE DEF top
<1>3. /\ \A x : Awaits(t, n, o, c, top, x) <=> x = c[top].cond \/ x = c[top].end
      /\ \A x : Awaits(t, p, o, c, top, x) <=> x = c[top].end
  BY <1>2 DEF Awaits
<1>4. c[top].cond # c[top].end /\ c[top].end \in base .. e - 1
  BY <1>1, <1>2 DEF ClausesOK, top
<1>5. Together(t, p, o[top])
  <2> DEFINE i == o[top]
  <2>1. i \in 1 .. p - 1 /\ \A k \in EndsOf(t, i) : p < k
    BY <1>1, <1>2 DEF ElsesOK
  <2>2. i \in 1 .. Len(t) /\ i < p /\ t[i].node \in Constructs /\ t[i].node # "function"
    BY <1>2, <2>1 DEF Constructs, Tree
  <2>3. \A k \in EndsOf(t, i) : p =< k
    <3> SUFFICES ASSUME NEW k \in EndsOf(t, i) PROVE p =< k
      OBVIOUS
    <3>1. k \in Nat /\ p < k
      BY <2>1 DEF EndsOf
    <3> QED BY <3>1
  <2> HIDE DEF i
  <2>4. Together(t, p, i)
    BY <2>2, <2>3, InOneFunction
  <2> QED BY <2>4 DEF i
<1>6. 1 .. Len(ops) = {1, 2} /\ 1 \in 1 .. Len(ops) /\ 2 \in 1 .. Len(ops)
  OBVIOUS
<1>7. \A j \in 1 .. Len(ops) : ops[j].from = p /\ (ops[j].op = "label" => j = 2)
  BY <1>6
<1>8. IsLabelOp(ops, 2, c[top].cond) /\ \A x : \A j \in 1 .. Len(ops) :
        IsLabelOp(ops, j, x) => x = c[top].cond
  BY <1>6, <1>7 DEF IsLabelOp, top
<1>9. NewLabels(t, d, n, p, o, c, ops, base, e, e)
  <2>1. \A x : ~ Places(t, d, p, x)
    BY DEF Places
  <2>2. Awaits(t, n, o, c, top, ops[2].id)
    BY <1>3 DEF top
  <2>3. top \in 1 .. Len(c)
    BY <1>2 DEF top
  <2> QED BY <1>7, <2>1, <2>2, <2>3 DEF NewLabels
<1>10. NewJumps(t, d, p, o, c, ops, base, e)
  <2>1. Awaits(t, p, o, c, top, ops[1].id) /\ ops[1].id \in base .. e - 1
    BY <1>3, <1>4 DEF top
  <2>2. top \in 1 .. Len(c)
    BY <1>2 DEF top
  <2> QED BY <1>5, <1>6, <2>1, <2>2 DEF NewJumps
<1>11. 1 .. Len(c) = (1 .. top - 1) \cup {top}
  BY <1>2 DEF top
<1>12. StillAwaited(t, n, p, o, c, o, c, ops)
  <2> SUFFICES ASSUME NEW m \in 1 .. Len(c), NEW x, Awaits(t, n, o, c, m, x)
               PROVE  \/ Awaits(t, p, o, c, m, x)
                      \/ Together(t, o[m], p) /\ \E j \in 1 .. Len(ops) : IsLabelOp(ops, j, x)
    BY DEF StillAwaited
  <2>1. CASE m \in 1 .. top - 1
    BY <1>2, <2>1 DEF SameAwaits
  <2>2. CASE m = top
    <3>1. x = c[top].cond \/ Awaits(t, p, o, c, top, x)
      BY <1>3, <2>2
    <3>2. Together(t, o[top], p)
      BY <1>5 DEF Together
    <3> QED BY <1>6, <1>8, <2>2, <3>1, <3>2
  <2> QED BY <1>11, <2>1, <2>2
<1>13. AwaitedNow(t, n, p, o, c, o, c, ops, e)
  <2> SUFFICES ASSUME NEW m \in 1 .. Len(c), NEW x, Awaits(t, p, o, c, m, x)
               PROVE  Awaits(t, n, o, c, m, x) /\ x # c[top].cond
    BY <1>8 DEF AwaitedNow
  <2>1. CASE m \in 1 .. top - 1
    <3>1. Awaits(t, n, o, c, m, x)
      BY <1>2, <2>1 DEF SameAwaits
    <3>2. m # top /\ top \in 1 .. Len(c)
      BY <1>2, <2>1 DEF top
    <3>3. ~ Awaits(t, n, o, c, top, x)
      BY <1>1, <3>1, <3>2 DEF ClausesOK
    <3> QED BY <1>3, <3>1, <3>3
  <2>2. CASE m = top
    BY <1>3, <1>4, <2>2
  <2> QED BY <1>11, <2>1, <2>2
<1>14. Len(ops) \in Nat /\ e =< e
  OBVIOUS
<1> QED BY <1>2, <1>7, <1>9, <1>10, <1>12, <1>13, <1>14, EmitStep

\* The end of an if at p: its activation is the last one, and is popped.
LEMMA EndClauses ==
  ASSUME NEW t \in Tree, EndsOK(t), Nested(t), NEW n \in Nat, NEW p \in 1 .. Len(t), p = n + 1,
         t[p].node = "end", t[t[p].num].node \in IfNodes,
         NEW o, NEW c, NEW o2, NEW c2, NEW base \in Nat, NEW e \in Nat,
         ClausesOK(t, n, o, c, base, e), PopBoth(o, o2, c, c2),
         Len(c) \in Nat
  PROVE  /\ ClausesOK(t, p, o2, c2, base, e)
         /\ Len(c) \in 1 .. Len(c) /\ o[Len(c)] = t[p].num /\ Len(c2) = Len(c) - 1
         /\ \A k \in 1 .. Len(c2) : o2[k] = o[k]
         /\ SameAwaits(t, n, p, o, c, o2, c2, Len(c2))
         /\ Elsed(t, n, o[Len(c)]) <=> t[o[Len(c)]].node = "ifelse"
<1> DEFINE i == t[p].num
           top == Len(c)
<1>1. Len(t) \in Nat /\ 1 .. p = (1 .. n) \cup {p} /\ p \notin 1 .. n /\ n =< Len(t)
  BY DEF Tree
<1>2. /\ i \in 1 .. p - 1 /\ i \in 1 .. Len(t)
      /\ p \in EndsOf(t, i) /\ \A k \in EndsOf(t, i) : k = p
  BY EndIs
<1>3. t[i].node \in Constructs /\ t[i].node \in IfNodes /\ ElsesOK(t) /\ EndsNested(t)
      /\ IfsHaveElses(t)
  BY DEF IfNodes, Constructs, Nested
<1>4. \A j : p \in EndsOf(t, j) => j = i
  BY DEF EndsOf
<1> HIDE DEF i
<1>5. i \in 1 .. n /\ OpenIf(t, n, i)
  <2>1. i \in 1 .. n /\ n < p
    BY <1>2
  <2>2. \A k \in EndsOf(t, i) : n < k
    BY <1>2, <2>1
  <2> QED BY <1>3, <2>1, <2>2 DEF OpenIf
<1>6. \A j \in 1 .. n : i < j /\ t[j].node \in Constructs => \E l \in EndsOf(t, j) : l =< n
  <2> SUFFICES ASSUME NEW j \in 1 .. n, i < j, t[j].node \in Constructs
               PROVE  \E l \in EndsOf(t, j) : l =< n
    OBVIOUS
  <2>1. j \in 1 .. Len(t) /\ j < p
    BY <1>1
  <2>2. PICK l \in EndsOf(t, j) : l < p
    BY <1>2, <1>3, <2>1 DEF EndsNested
  <2>3. l \in Nat
    BY DEF EndsOf
  <2> QED BY <2>2, <2>3
<1>7. ClausesOf(t, n, o) /\ Len(o) = Len(c)
  BY DEF ClausesOK
<1>8. top \in 1 .. top /\ o[top] = i
  <2>1. Len(o) \in 1 .. Len(o) /\ o[Len(o)] = i
    BY <1>1, <1>5, <1>6, <1>7, TopIf
  <2> QED BY <1>7, <2>1
<1>9. /\ Len(c2) = top - 1 /\ Len(o2) = top - 1
      /\ \A k \in 1 .. top - 1 : k \in 1 .. top /\ k # top /\ o2[k] = o[k] /\ c2[k] = c[k]
      /\ 1 .. top = (1 .. top - 1) \cup {top}
  BY <1>7, <1>8 DEF Popped, PopBoth
<1>10. \A k \in 1 .. top - 1 : o[k] < i
  <2> SUFFICES ASSUME NEW k \in 1 .. top - 1 PROVE o[k] < i
    OBVIOUS
  <2>1. k \in 1 .. Len(o) /\ top \in 1 .. Len(o) /\ k < top
    BY <1>7, <1>8
  <2>2. o[k] < o[top]
    BY <1>7, <2>1 DEF ClausesOf
  <2> QED BY <1>8, <2>2
<1>11. \A j : Elsed(t, p, j) <=> Elsed(t, n, j)
  BY <1>1 DEF Elsed
<1>12. SameAwaits(t, n, p, o, c, o2, c2, top - 1)
  BY <1>9, <1>11 DEF SameAwaits, Awaits
<1>13. ASSUME NEW j PROVE IsOpen(o2, j) <=> j \in 1 .. p /\ OpenIf(t, p, j)
  <2>1. IsOpen(o, j) <=> j \in 1 .. n /\ OpenIf(t, n, j)
    BY <1>7 DEF ClausesOf
  <2>2. IsOpen(o2, j) <=> IsOpen(o, j) /\ j # i
    <3>1. ASSUME IsOpen(o2, j) PROVE IsOpen(o, j) /\ j # i
      <4>1. PICK k \in 1 .. top - 1 : o2[k] = j
        BY <1>9, <3>1 DEF IsOpen
      <4>2. k \in 1 .. Len(o) /\ o[k] = j
        BY <1>7, <1>9, <4>1
      <4>3. j < i
        BY <1>10, <4>2
      <4> QED BY <1>2, <4>2, <4>3 DEF IsOpen
    <3>2. ASSUME IsOpen(o, j), j # i PROVE IsOpen(o2, j)
      <4>1. PICK k \in 1 .. top : o[k] = j
        BY <1>7, <3>2 DEF IsOpen
      <4>2. k \in 1 .. top - 1
        BY <1>8, <1>9, <3>2, <4>1
      <4> QED BY <1>9, <4>1, <4>2 DEF IsOpen
    <3> QED BY <3>1, <3>2
  <2>3. ~ OpenIf(t, p, p)
    BY DEF OpenIf, IfNodes
  <2>4. j # i => (OpenIf(t, n, j) <=> OpenIf(t, p, j))
    <3>1. ASSUME j # i, NEW k \in EndsOf(t, j) PROVE n < k <=> p < k
      <4>1. k \in 1 .. Len(t) /\ k # p
        BY <1>4, <3>1 DEF EndsOf
      <4> QED BY <1>1, <4>1
    <3> QED BY <3>1 DEF OpenIf
  <2>5. ~ OpenIf(t, p, i)
    BY <1>2 DEF OpenIf
  <2> QED BY <1>1, <2>1, <2>2, <2>3, <2>4, <2>5
<1>14. \A j, k \in 1 .. Len(o2) : j < k => o2[j] < o2[k]
  <2>1. \A j, k \in 1 .. Len(o) : j < k => o[j] < o[k]
    BY <1>7 DEF ClausesOf
  <2> QED BY <1>7, <1>9, <2>1
<1>15. ClausesOf(t, p, o2)
  BY <1>13, <1>14 DEF ClausesOf
<1>16. ClausesOK(t, p, o2, c2, base, e)
  <2>1. /\ \A m \in 1 .. Len(c) :
             /\ c[m].cond \in base .. e - 1
             /\ t[o[m]].node = "ifelse" => c[m].end \in base .. e - 1 /\ c[m].cond # c[m].end
        /\ \A l, m \in 1 .. Len(c) : \A x :
             Awaits(t, n, o, c, l, x) /\ Awaits(t, n, o, c, m, x) => l = m
    BY DEF ClausesOK
  <2>2. \A m \in 1 .. Len(c2) :
          /\ c2[m].cond \in base .. e - 1
          /\ t[o2[m]].node = "ifelse" => c2[m].end \in base .. e - 1 /\ c2[m].cond # c2[m].end
    BY <1>9, <2>1
  <2>3. \A l, m \in 1 .. Len(c2) : \A x :
          Awaits(t, p, o2, c2, l, x) /\ Awaits(t, p, o2, c2, m, x) => l = m
    <3> SUFFICES ASSUME NEW l \in 1 .. Len(c2), NEW m \in 1 .. Len(c2), NEW x,
                        Awaits(t, p, o2, c2, l, x), Awaits(t, p, o2, c2, m, x)
                 PROVE  l = m
      OBVIOUS
    <3>1. Awaits(t, n, o, c, l, x) /\ Awaits(t, n, o, c, m, x)
      BY <1>9, <1>12 DEF SameAwaits
    <3>2. l \in 1 .. Len(c) /\ m \in 1 .. Len(c)
      BY <1>9
    <3> QED BY <2>1, <3>1, <3>2
  <2> QED BY <1>9, <1>15, <2>2, <2>3 DEF ClausesOK
<1>17. Elsed(t, n, i) => t[i].node = "ifelse"
  <2> SUFFICES ASSUME NEW q \in 1 .. n, t[q].node = "else", t[q].num = i
               PROVE  t[i].node = "ifelse"
    BY DEF Elsed
  <2>1. q \in 1 .. Len(t)
    BY <1>1
  <2> QED BY <1>3, <2>1 DEF ElsesOK
<1>18. t[i].node = "ifelse" => Elsed(t, n, i)
  <2> SUFFICES ASSUME t[i].node = "ifelse" PROVE Elsed(t, n, i)
    OBVIOUS
  <2>1. PICK q \in ElsesOf(t, i) : q < p
    BY <1>2, <1>3 DEF IfsHaveElses
  <2>2. q \in 1 .. n /\ t[q].node = "else" /\ t[q].num = i
    BY <1>1, <2>1 DEF ElsesOf
  <2> QED BY <2>2 DEF Elsed
<1> QED BY <1>8, <1>9, <1>12, <1>16, <1>17, <1>18 DEF i

LEMMA EndIfStep ==
  ASSUME NEW t \in Tree, NEW d, NEW base \in Nat, Finished(t, d, base),
         NEW n \in Nat, NEW p \in 1 .. Len(t), p = n + 1, t[p].node = "end",
         t[t[p].num].node \in IfNodes,
         NEW o, NEW c, NEW o2, NEW c2, NEW s, NEW ops, NEW s2, NEW e \in Nat, base =< e,
         Len(c) \in Nat, PopBoth(o, o2, c, c2),
         Len(s) \in Nat, Emitted(s, ops, s2), \A k \in 1 .. Len(s) : s[k].from \in 1 .. n,
         PlacesApart(t, d, base), CodeOK(t, d, n, o, c, s, base, e),
         Len(ops) = 1, ops[1].from = p, ops[1].op = "label",
         t[t[p].num].node = "if" => ops[1].id = c[Len(c)].cond,
         t[t[p].num].node # "if" => ops[1].id = c[Len(c)].end
  PROVE  CodeOK(t, d, p, o2, c2, s2, base, e)
<1> DEFINE top == Len(c)
           id  == ops[1].id
<1>1. ClausesOK(t, n, o, c, base, e) /\ EndsOK(t) /\ Nested(t)
  BY DEF CodeOK, Finished, TreeOK
<1>2. /\ ClausesOK(t, p, o2, c2, base, e)
      /\ top \in 1 .. top /\ o[top] = t[p].num /\ Len(c2) = top - 1
      /\ \A k \in 1 .. Len(c2) : o2[k] = o[k]
      /\ SameAwaits(t, n, p, o, c, o2, c2, Len(c2))
      /\ Elsed(t, n, o[top]) <=> t[o[top]].node = "ifelse"
  BY <1>1, EndClauses
<1>3. \A x : Awaits(t, n, o, c, top, x) <=> x = id
  <2>1. t[o[top]].node \in {"if", "ifelse"}
    BY <1>2 DEF IfNodes
  <2> QED BY <1>2, <2>1 DEF Awaits
<1> HIDE DEF top, id
<1>4. Together(t, o[top], p)
  <2> DEFINE i == t[p].num
  <2>1. i \in 1 .. p - 1 /\ i \in 1 .. Len(t) /\ \A k \in EndsOf(t, i) : k = p
    BY <1>1, EndIs
  <2>2. t[i].node \in Constructs /\ t[i].node # "function" /\ i < p
    BY <2>1 DEF Constructs, IfNodes
  <2>3. \A k \in EndsOf(t, i) : p =< k
    BY <2>1
  <2> HIDE DEF i
  <2>4. Together(t, p, i)
    BY <2>1, <2>2, <2>3, InOneFunction
  <2> QED BY <1>2, <2>4 DEF i, Together
<1>5. 1 .. Len(ops) = {1} /\ 1 \in 1 .. Len(ops)
  OBVIOUS
<1>6. \A j \in 1 .. Len(ops) : j = 1 /\ ops[j].from = p /\ ops[j].op = "label" /\ ops[j].id = id
  BY <1>5 DEF id
<1>7. \A x : ~ Places(t, d, p, x)
  BY DEF Places, IfNodes
<1>8. top \in 1 .. Len(c) /\ 1 .. Len(c) = (1 .. Len(c2)) \cup {top} /\ top \notin 1 .. Len(c2)
  BY <1>2 DEF top
<1>9. NewLabels(t, d, n, p, o, c, ops, base, e, e)
  BY <1>3, <1>6, <1>7, <1>8 DEF NewLabels
<1>10. NewJumps(t, d, p, o2, c2, ops, base, e)
  BY <1>6 DEF NewJumps
<1>11. StillAwaited(t, n, p, o, c, o2, c2, ops)
  <2> SUFFICES ASSUME NEW m \in 1 .. Len(c), NEW x, Awaits(t, n, o, c, m, x)
               PROVE  \/ \E m2 \in 1 .. Len(c2) : Awaits(t, p, o2, c2, m2, x) /\ o2[m2] = o[m]
                      \/ Together(t, o[m], p) /\ \E j \in 1 .. Len(ops) : IsLabelOp(ops, j, x)
    BY DEF StillAwaited
  <2>1. CASE m \in 1 .. Len(c2)
    BY <1>2, <2>1 DEF SameAwaits
  <2>2. CASE m = top
    BY <1>3, <1>4, <1>5, <1>6, <2>2 DEF IsLabelOp
  <2> QED BY <1>8, <2>1, <2>2
<1>12. AwaitedNow(t, n, p, o, c, o2, c2, ops, e)
  <2> SUFFICES ASSUME NEW m \in 1 .. Len(c2), NEW x, Awaits(t, p, o2, c2, m, x)
               PROVE  /\ \E l \in 1 .. Len(c) : Awaits(t, n, o, c, l, x)
                      /\ \A j \in 1 .. Len(ops) : ~ IsLabelOp(ops, j, x)
    BY DEF AwaitedNow
  <2>1. Awaits(t, n, o, c, m, x) /\ m \in 1 .. Len(c) /\ m # top
    BY <1>2, <1>8 DEF SameAwaits
  <2>2. ~ Awaits(t, n, o, c, top, x)
    BY <1>1, <1>8, <2>1 DEF ClausesOK
  <2> QED BY <1>3, <1>6, <2>1, <2>2 DEF IsLabelOp
<1>13. Len(ops) \in Nat /\ e =< e
  OBVIOUS
<1> QED BY <1>2, <1>6, <1>9, <1>10, <1>11, <1>12, <1>13, EmitStep

\* && and || have labels that nobody else waits for.
LogicalOps(ops, p, e, e2) ==
  /\ e + 1 < e2
  /\ Len(ops) = 5 /\ \A j \in 1 .. 5 : ops[j].from = p
  /\ \A j \in 1 .. 3 : ops[j].op \notin {"label", "ret"} /\ ops[j].id \in {e, e + 1}
  /\ ops[4].op = "label" /\ ops[4].id = e /\ ops[5].op = "label" /\ ops[5].id = e + 1

LEMMA LogicalStep ==
  ASSUME NEW t \in Tree, NEW d, NEW n \in Nat, NEW p \in 1 .. Len(t), p = n + 1,
         t[p].node = "logical", NEW o, NEW c, NEW s, NEW ops, NEW s2,
         NEW base \in Nat, NEW e \in Nat, NEW e2 \in Nat, base =< e, e =< e2,
         Len(s) \in Nat, Emitted(s, ops, s2), \A k \in 1 .. Len(s) : s[k].from \in 1 .. n,
         PlacesApart(t, d, base), CodeOK(t, d, n, o, c, s, base, e),
         LogicalOps(ops, p, e, e2)
  PROVE  CodeOK(t, d, p, o, c, s2, base, e2)
<1>1. ClausesOK(t, n, o, c, base, e)
  BY DEF CodeOK
<1>2. e \in base .. e2 - 1 /\ e + 1 \in base .. e2 - 1 /\ e \in e .. e2 - 1 /\ e + 1 \in e .. e2 - 1
  BY DEF LogicalOps
<1>3. OtherNode(t, p) /\ \A x : ~ Places(t, d, p, x)
  BY DEF OtherNode, Places, IfNodes
<1>4. /\ ClausesOK(t, p, o, c, base, e2)
      /\ \A m \in 1 .. Len(c) : \A x : Awaits(t, p, o, c, m, x) <=> Awaits(t, n, o, c, m, x)
  BY <1>1, <1>3, SameClauses
<1>5. 1 .. Len(ops) = (1 .. 3) \cup {4, 5} /\ 4 \in 1 .. Len(ops) /\ 5 \in 1 .. Len(ops)
  BY DEF LogicalOps
<1>6. IsLabelOp(ops, 4, e) /\ IsLabelOp(ops, 5, e + 1)
  BY DEF IsLabelOp, LogicalOps
<1>7. \A j \in 1 .. Len(ops) :
        /\ ops[j].op = "label" => j \in {4, 5}
        /\ ops[j].op # "ret" /\ ops[j].id \in {e, e + 1}
  BY <1>5 DEF LogicalOps
<1>8. NewLabels(t, d, n, p, o, c, ops, base, e, e2)
  <2>1. \A i, j \in 1 .. Len(ops) :
          ops[i].op = "label" /\ ops[j].op = "label" /\ ops[i].id = ops[j].id => i = j
    <3>1. e # e + 1
      OBVIOUS
    <3>2. \A j \in {4, 5} : ops[j].id = IF j = 4 THEN e ELSE e + 1
      BY DEF LogicalOps
    <3> QED BY <1>7, <3>1, <3>2
  <2> QED BY <1>2, <1>3, <1>7, <2>1 DEF NewLabels
<1>9. NewJumps(t, d, p, o, c, ops, base, e2)
  BY <1>2, <1>5, <1>6, <1>7 DEF NewJumps
<1>10. StillAwaited(t, n, p, o, c, o, c, ops)
  BY <1>4 DEF StillAwaited
<1>11. AwaitedNow(t, n, p, o, c, o, c, ops, e)
  <2> SUFFICES ASSUME NEW m \in 1 .. Len(c), NEW x, Awaits(t, p, o, c, m, x)
               PROVE  /\ Awaits(t, n, o, c, m, x)
                      /\ \A j \in 1 .. Len(ops) : ~ IsLabelOp(ops, j, x)
    BY DEF AwaitedNow
  <2>1. Awaits(t, n, o, c, m, x)
    BY <1>4
  <2>2. x \in base .. e - 1
    BY <1>1, <2>1, AwaitedRange
  <2>3. x # e /\ x # e + 1
    BY <2>2
  <2> QED BY <1>7, <2>1, <2>3 DEF IsLabelOp
<1>12. Len(ops) \in Nat /\ \A j \in 1 .. Len(ops) : ops[j].from = p
  BY DEF LogicalOps
<1> QED BY <1>1, <1>4, <1>8, <1>9, <1>10, <1>11, <1>12, EmitStep

LEMMA PushedIs ==
  ASSUME NEW S, NEW s \in Seq(S), NEW x \in S
  PROVE  Append(s, x) \in Seq(S) /\ Pushed(s, x, Append(s, x))
<1>1. /\ Append(s, x) \in Seq(S) /\ Len(Append(s, x)) = Len(s) + 1 /\ Len(s) \in Nat
      /\ \A i \in 1 .. Len(s) : Append(s, x)[i] = s[i]
      /\ Append(s, x)[Len(s) + 1] = x
  BY AppendProperties
<1> QED BY <1>1 DEF Pushed

LEMMA PoppedIs ==
  ASSUME NEW S, NEW s \in Seq(S)
  PROVE  Pop(s) \in Seq(S) /\ Len(s) \in Nat /\ (Len(s) # 0 => Popped(s, Pop(s)))
<1>1. Len(s) \in Nat
  OBVIOUS
<1>2. CASE Len(s) = 0
  <2>1. Pop(s) = <<>>
    BY <1>2 DEF Pop
  <2> QED BY <1>2, <2>1
<1>3. CASE Len(s) # 0
  <2>1. s # <<>>
    BY <1>3
  <2> QED BY <1>1, <1>3, <2>1, PopIs DEF Popped
<1> QED BY <1>2, <1>3

\* What LowersIs says of CodeOK and its arguments.
LEMMA LowersNow ==
  ASSUME LInv, NEW nodes, Lower(nodes), NEW ops \in Seq(Operation(Now)), Emit(ops)
  PROVE  /\ Emitted(code, ops, code') /\ clauses \in Seq(Clause) /\ Len(clauses) \in Nat
         /\ \E o \in Seq(1 .. at) :
              /\ o \in Seq(1 .. Now) /\ Len(o) = Len(clauses)
              /\ CodeOK(tree, ids, at, o, clauses, code, generator + 1, env_labels)
<1>1. /\ at \in Nat /\ Now = at + 1 /\ code \in Seq(Operation(at))
      /\ clauses \in Seq(Clause)
  BY LowersIs
<1>2. PICK o \in Seq(1 .. at) :
        CodeOK(tree, ids, at, o, clauses, code, generator + 1, env_labels)
  BY LowersIs
<1>3. 1 .. at \subseteq 1 .. Now
  BY <1>1
<1>4. o \in Seq(1 .. Now)
  BY <1>3, WiderSeq
<1>5. Len(o) = Len(clauses)
  BY <1>2 DEF CodeOK, ClausesOK
<1>6. Emitted(code, ops, code')
  BY <1>1, EmittedIs DEF Emit
<1> QED BY <1>1, <1>2, <1>4, <1>5, <1>6

LEMMA IfLowered == ASSUME LInv, LowerIf PROVE LInv'
<1> DEFINE a   == Op("jump_if_zero", env_labels)
           ops == <<a>>
           r   == IF tree[Now].node = "ifelse"
                  THEN [cond |-> env_labels, end |-> env_labels + 1]
                  ELSE [cond |-> env_labels, end |-> Unset]
<1>1. /\ Lower({"if", "ifelse"}) /\ Emit(ops) /\ clauses' = Append(clauses, r)
      /\ env_labels' = IF tree[Now].node = "ifelse" THEN env_labels + 2 ELSE env_labels + 1
  BY DEF LowerIf
<1>2. /\ tree \in Tree /\ at \in Nat /\ Now \in 1 .. Len(tree) /\ Now = at + 1
      /\ generator + 1 \in Nat /\ env_labels \in Nat /\ generator + 1 =< env_labels
      /\ Finished(tree, ids, generator + 1) /\ PlacesApart(tree, ids, generator + 1)
      /\ Len(code) \in Nat /\ \A k \in 1 .. Len(code) : code[k].from \in 1 .. at
      /\ tree[Now].node \in {"if", "ifelse"}
  BY <1>1, LowersIs
<1>3. a \in Operation(Now) /\ a.from = Now /\ a.op = "jump_if_zero" /\ a.id = env_labels
  BY <1>2 DEF Op, Operation
<1>4. ops \in Seq(Operation(Now)) /\ Len(ops) = 1 /\ ops[1] = a
  BY <1>3
<1>5. /\ r \in Clause /\ r.cond = env_labels
      /\ tree[Now].node = "ifelse" => r.end = env_labels + 1 /\ env_labels + 1 < env_labels'
      /\ env_labels' \in Nat /\ env_labels < env_labels' /\ env_labels =< env_labels'
  <2>1. CASE tree[Now].node = "ifelse"
    <3>1. r = [cond |-> env_labels, end |-> env_labels + 1] /\ env_labels' = env_labels + 2
      BY <1>1, <2>1
    <3> HIDE DEF r
    <3> QED BY <1>2, <2>1, <3>1 DEF Clause
  <2>2. CASE tree[Now].node # "ifelse"
    <3>1. r = [cond |-> env_labels, end |-> Unset] /\ env_labels' = env_labels + 1
      BY <1>1, <2>2
    <3> HIDE DEF r
    <3> QED BY <1>2, <2>2, <3>1 DEF Clause
  <2> QED BY <2>1, <2>2
<1> HIDE DEF a, ops, r
<1>6. /\ Emitted(code, ops, code') /\ clauses \in Seq(Clause) /\ Len(clauses) \in Nat
  BY <1>1, <1>4, LowersNow
<1>7. PICK o \in Seq(1 .. at) :
        /\ o \in Seq(1 .. Now) /\ Len(o) = Len(clauses)
        /\ CodeOK(tree, ids, at, o, clauses, code, generator + 1, env_labels)
  BY <1>1, <1>4, LowersNow
<1> DEFINE o2 == Append(o, Now)
<1>8. clauses' \in Seq(Clause) /\ Pushed(clauses, r, clauses')
  BY <1>1, <1>5, <1>6, PushedIs
<1>9. Now \in 1 .. Now
  BY <1>2
<1>10. o2 \in Seq(1 .. Now) /\ Pushed(o, Now, o2)
  BY <1>7, <1>9, PushedIs
<1> HIDE DEF o2
<1>11. EndsOK(tree) /\ ElsesOK(tree) /\ tree[Now].node \in IfNodes
  BY <1>2 DEF Finished, TreeOK, Nested, IfNodes
<1>12. ops[1].from = Now /\ ops[1].op = "jump_if_zero" /\ ops[1].id = env_labels
  BY <1>3, <1>4
<1>13. CodeOK(tree, ids, Now, o2, clauses', code', generator + 1, env_labels')
  BY <1>2, <1>4, <1>5, <1>6, <1>7, <1>8, <1>10, <1>11, <1>12, IfStep
<1> QED BY <1>1, <1>4, <1>5, <1>8, <1>10, <1>13, LowersTo

LEMMA ElseLowered == ASSUME LInv, LowerElse PROVE LInv'
<1> DEFINE a   == Op("jump", Top(clauses).end)
           b   == Op("label", Top(clauses).cond)
           ops == <<a, b>>
<1>1. Lower({"else"}) /\ Emit(ops) /\ clauses' = clauses /\ env_labels' = env_labels
  BY DEF LowerElse, KeepEnv
<1>2. /\ tree \in Tree /\ at \in Nat /\ Now \in 1 .. Len(tree) /\ Now = at + 1
      /\ generator + 1 \in Nat /\ env_labels \in Nat /\ generator + 1 =< env_labels
      /\ Finished(tree, ids, generator + 1) /\ PlacesApart(tree, ids, generator + 1)
      /\ Len(code) \in Nat /\ \A k \in 1 .. Len(code) : code[k].from \in 1 .. at
      /\ tree[Now].node = "else" /\ clauses \in Seq(Clause)
  BY <1>1, LowersIs
<1>3. ElsesOK(tree) /\ Len(clauses) \in Nat
  BY <1>2 DEF Finished, Nested
<1>4. Len(clauses) \in 1 .. Len(clauses)
  <2>1. PICK o \in Seq(1 .. at) :
          CodeOK(tree, ids, at, o, clauses, code, generator + 1, env_labels)
    BY <1>1, LowersIs
  <2>2. ClausesOK(tree, at, o, clauses, generator + 1, env_labels)
    BY <2>1 DEF CodeOK
  <2> QED BY <1>2, <1>3, <2>2, ElseClauses
<1>5. Top(clauses) \in Clause
  BY <1>2, <1>4 DEF Top
<1>6. /\ a \in Operation(Now) /\ a.from = Now /\ a.op = "jump" /\ a.id = Top(clauses).end
      /\ b \in Operation(Now) /\ b.from = Now /\ b.op = "label" /\ b.id = Top(clauses).cond
  BY <1>2, <1>5 DEF Op, Operation, Clause
<1>7. ops \in Seq(Operation(Now)) /\ Len(ops) = 2 /\ ops[1] = a /\ ops[2] = b
  BY <1>6
<1> HIDE DEF a, b, ops
<1>8. Emitted(code, ops, code')
  BY <1>1, <1>7, LowersNow
<1>9. PICK o \in Seq(1 .. at) :
        /\ o \in Seq(1 .. Now) /\ Len(o) = Len(clauses)
        /\ CodeOK(tree, ids, at, o, clauses, code, generator + 1, env_labels)
  BY <1>1, <1>7, LowersNow
<1>10. /\ ops[1].from = Now /\ ops[1].op = "jump" /\ ops[1].id = clauses[Len(clauses)].end
       /\ ops[2].from = Now /\ ops[2].op = "label" /\ ops[2].id = clauses[Len(clauses)].cond
  BY <1>6, <1>7 DEF Top
<1>11. CodeOK(tree, ids, Now, o, clauses, code', generator + 1, env_labels)
  BY <1>2, <1>3, <1>7, <1>8, <1>9, <1>10, ElseStep
<1>12. /\ CodeOK(tree, ids, Now, o, clauses', code', generator + 1, env_labels')
       /\ clauses' \in Seq(Clause)
       /\ env_labels' \in Nat /\ env_labels =< env_labels'
  BY <1>1, <1>2, <1>11
<1> QED BY <1>1, <1>7, <1>9, <1>12, LowersTo

LEMMA IfEndLowered == ASSUME LInv, EndIf PROVE LInv'
<1> DEFINE i   == tree[Now].num
           a   == Op("label", IF tree[i].node = "if" THEN Top(clauses).cond
                                                     ELSE Top(clauses).end)
           ops == <<a>>
<1>1. /\ Lower({"end"}) /\ Emit(ops) /\ tree[i].node \in IfNodes
      /\ clauses' = Pop(clauses) /\ env_labels' = env_labels
  BY DEF EndIf, Pop, IfNodes
<1>2. /\ tree \in Tree /\ at \in Nat /\ Now \in 1 .. Len(tree) /\ Now = at + 1
      /\ generator + 1 \in Nat /\ env_labels \in Nat /\ generator + 1 =< env_labels
      /\ Finished(tree, ids, generator + 1) /\ PlacesApart(tree, ids, generator + 1)
      /\ Len(code) \in Nat /\ \A k \in 1 .. Len(code) : code[k].from \in 1 .. at
      /\ tree[Now].node = "end" /\ clauses \in Seq(Clause)
  BY <1>1, LowersIs
<1>3. EndsOK(tree) /\ Nested(tree) /\ clauses \in Seq(Clause)
  BY <1>2 DEF Finished, TreeOK
<1>4. /\ Len(clauses) \in Nat /\ clauses' \in Seq(Clause)
      /\ Len(clauses) # 0 => Popped(clauses, clauses')
  BY <1>1, <1>3, PoppedIs
<1>5. ASSUME NEW o \in Seq(1 .. Now), Len(o) = Len(clauses)
      PROVE  Pop(o) \in Seq(1 .. Now) /\ PopBoth(o, Pop(o), clauses, clauses')
  <2>1. Pop(o) \in Seq(1 .. Now) /\ (Len(o) # 0 => Popped(o, Pop(o)))
    BY PoppedIs
  <2> QED BY <1>4, <1>5, <2>1 DEF PopBoth
<1>6. Len(clauses) \in 1 .. Len(clauses)
  <2>1. PICK o \in Seq(1 .. at) :
          CodeOK(tree, ids, at, o, clauses, code, generator + 1, env_labels)
    BY <1>1, LowersIs
  <2>2. ClausesOK(tree, at, o, clauses, generator + 1, env_labels)
    BY <2>1 DEF CodeOK
  <2>3. Len(o) = Len(clauses)
    BY <2>2 DEF ClausesOK
  <2>4. 1 .. at \subseteq 1 .. Now
    BY <1>2
  <2>5. o \in Seq(1 .. Now)
    BY <2>4, WiderSeq
  <2>6. PopBoth(o, Pop(o), clauses, clauses')
    BY <1>5, <2>3, <2>5
  <2> HIDE DEF i
  <2> QED BY <1>1, <1>2, <1>3, <1>4, <2>2, <2>6, EndClauses DEF i
<1>7. Top(clauses) \in Clause
  BY <1>3, <1>6 DEF Top
<1>8. /\ a \in Operation(Now) /\ a.from = Now /\ a.op = "label"
      /\ tree[i].node = "if" => a.id = Top(clauses).cond
      /\ tree[i].node # "if" => a.id = Top(clauses).end
  BY <1>2, <1>7 DEF Op, Operation, Clause
<1>9. ops \in Seq(Operation(Now)) /\ Len(ops) = 1 /\ ops[1] = a
  BY <1>8
<1> HIDE DEF a, ops
<1>10. Emitted(code, ops, code')
  BY <1>1, <1>9, LowersNow
<1>11. PICK o \in Seq(1 .. at) :
         /\ o \in Seq(1 .. Now) /\ Len(o) = Len(clauses)
         /\ CodeOK(tree, ids, at, o, clauses, code, generator + 1, env_labels)
  BY <1>1, <1>9, LowersNow
<1>12. Pop(o) \in Seq(1 .. Now) /\ PopBoth(o, Pop(o), clauses, clauses')
  BY <1>5, <1>11
<1>13. /\ ops[1].from = Now /\ ops[1].op = "label"
       /\ tree[i].node = "if" => ops[1].id = clauses[Len(clauses)].cond
       /\ tree[i].node # "if" => ops[1].id = clauses[Len(clauses)].end
  BY <1>8, <1>9 DEF Top
<1>14. CodeOK(tree, ids, Now, Pop(o), clauses', code', generator + 1, env_labels)
  BY <1>1, <1>2, <1>4, <1>9, <1>10, <1>11, <1>12, <1>13, EndIfStep
<1>15. /\ CodeOK(tree, ids, Now, Pop(o), clauses', code', generator + 1, env_labels')
       /\ clauses' \in Seq(Clause)
       /\ env_labels' \in Nat /\ env_labels =< env_labels'
  BY <1>1, <1>2, <1>4, <1>14
<1> QED BY <1>1, <1>9, <1>12, <1>15, LowersTo

LEMMA LogicalLowered == ASSUME LInv, LowerLogical PROVE LInv'
<1> DEFINE e   == env_labels
           a   == Op("jump_if_zero", e)
           b   == Op("jump", e + 1)
           l   == Op("label", e)
           k   == Op("label", e + 1)
           ops == <<a, a, b, l, k>>
<1>1. Lower({"logical"}) /\ Emit(ops) /\ clauses' = clauses /\ env_labels' = e + 2
  BY DEF LowerLogical
<1>2. /\ tree \in Tree /\ at \in Nat /\ Now \in 1 .. Len(tree) /\ Now = at + 1
      /\ generator + 1 \in Nat /\ env_labels \in Nat /\ generator + 1 =< env_labels
      /\ PlacesApart(tree, ids, generator + 1)
      /\ Len(code) \in Nat /\ \A j \in 1 .. Len(code) : code[j].from \in 1 .. at
      /\ tree[Now].node = "logical" /\ clauses \in Seq(Clause)
  BY <1>1, LowersIs
<1>3. /\ a \in Operation(Now) /\ b \in Operation(Now)
      /\ l \in Operation(Now) /\ k \in Operation(Now)
  BY <1>2 DEF Op, Operation
<1>4. /\ a.from = Now /\ a.op = "jump_if_zero" /\ a.id = e
      /\ b.from = Now /\ b.op = "jump" /\ b.id = e + 1
      /\ l.from = Now /\ l.op = "label" /\ l.id = e
      /\ k.from = Now /\ k.op = "label" /\ k.id = e + 1
  BY DEF Op
<1> HIDE DEF a, b, l, k
<1>5. /\ ops \in Seq(Operation(Now)) /\ Len(ops) = 5
      /\ ops[1] = a /\ ops[2] = a /\ ops[3] = b /\ ops[4] = l /\ ops[5] = k
  BY <1>3
<1> HIDE DEF ops
<1>6. Emitted(code, ops, code')
  BY <1>1, <1>5, LowersNow
<1>7. PICK o \in Seq(1 .. at) :
        /\ o \in Seq(1 .. Now)
        /\ CodeOK(tree, ids, at, o, clauses, code, generator + 1, env_labels)
  BY <1>1, <1>5, LowersNow
<1>8. LogicalOps(ops, Now, env_labels, env_labels')
  <2>1. \A j \in 1 .. 5 : j = 1 \/ j = 2 \/ j = 3 \/ j = 4 \/ j = 5
    OBVIOUS
  <2>2. \A j \in 1 .. 3 : j = 1 \/ j = 2 \/ j = 3
    OBVIOUS
  <2>3. \A j \in 1 .. 5 : ops[j].from = Now
    BY <1>4, <1>5, <2>1
  <2>4. \A j \in 1 .. 3 : ops[j].op \notin {"label", "ret"} /\ ops[j].id \in {e, e + 1}
    BY <1>4, <1>5, <2>2
  <2>5. env_labels + 1 < env_labels'
    BY <1>1, <1>2
  <2> QED BY <1>4, <1>5, <2>3, <2>4, <2>5 DEF LogicalOps
<1>9. env_labels' \in Nat /\ env_labels =< env_labels'
  BY <1>1, <1>2
<1>10. CodeOK(tree, ids, Now, o, clauses, code', generator + 1, env_labels')
  BY <1>2, <1>6, <1>7, <1>8, <1>9, LogicalStep
<1>11. /\ CodeOK(tree, ids, Now, o, clauses', code', generator + 1, env_labels')
       /\ clauses' \in Seq(Clause)
  BY <1>1, <1>2, <1>10
<1> QED BY <1>1, <1>5, <1>7, <1>9, <1>11, LowersTo

(***************************************************************************)
(* The invariant.                                                          *)
(***************************************************************************)
\* The walks come before the lowering.
LEMMA WalksAreOver == ASSUME pass = "labelled" PROVE ~ Next
<1>1. /\ ~ EnterFunction /\ ~ Prototype /\ ~ Else /\ ~ Break /\ ~ Continue /\ ~ Default
      /\ ~ Exit /\ ~ EndLoops
  BY DEF EnterFunction, Prototype, CanMeet, Else, Break, Continue, Default, Exit, EndLoops
<1>2. /\ \A test \in Tests : ~ EnterLoop(test)
      /\ \A control \in Controls : ~ EnterSwitch(control)
      /\ \A node \in {"if", "ifelse"} : ~ EnterIf(node)
      /\ \A node \in {"logical", "return"} : ~ Other(node)
      /\ \A v \in Value : ~ Case(v)
      /\ \A n \in Name : ~ Goto(n) /\ ~ Label(n)
  BY DEF EnterLoop, EnterSwitch, EnterIf, Other, Case, Goto, Label, CanMeet
<1>3. /\ ~ GotoId /\ ~ LabelId /\ ~ FunctionLabels /\ ~ EndFunctionLabels /\ ~ PassOver
      /\ ~ EndGotos
  BY DEF GotoId, LabelId, FunctionLabels, EndFunctionLabels, PassOver, EndGotos, SecondWalk
<1> QED BY <1>1, <1>2, <1>3 DEF Next

LEMMA NothingLowered ==
  ASSUME code = <<>>, starts = <<>>, clauses = <<>>, at = 0, env_labels \in Nat,
         Len(tree) \in Nat
  PROVE  LTypeOK
BY DEF LTypeOK

LEMMA LInitially == LInit => LInv
<1> SUFFICES ASSUME LInit PROVE LInv
  OBVIOUS
<1>1. Init /\ code = <<>> /\ starts = <<>> /\ clauses = <<>> /\ env_labels = 0 /\ at = 0
  BY DEF LInit
<1>2. IInv /\ JInv
  BY <1>1, IInit, JInit
<1>3. Len(tree) \in Nat /\ env_labels \in Nat
  BY <1>1 DEF Init
<1>4. LTypeOK
  BY <1>1, <1>3, NothingLowered
<1> QED BY <1>1, <1>2, <1>4 DEF LInv

LEMMA WalkedStep == ASSUME LInv, [Next]_vars, UNCHANGED lvars PROVE LInv'
<1>1. /\ code' = code /\ starts' = starts /\ clauses' = clauses
      /\ env_labels' = env_labels /\ at' = at
  BY DEF lvars
<1>2. IInv' /\ JInv'
  BY IStep, JStep DEF LInv
<1>3. CASE env_labels = 0
  <2>1. at = 0 /\ code = <<>> /\ clauses = <<>> /\ starts = <<>>
    <3>1. at = 0 /\ code = <<>> /\ clauses = <<>> /\ Len(starts) = at
      BY <1>3 DEF LInv, LTypeOK
    <3>2. starts \in Seq(1 .. Len(code) + 1)
      BY DEF LInv, LTypeOK
    <3> QED BY <3>1, <3>2
  <2>2. Len(tree') \in Nat
    <3>1. TypeOK'
      BY <1>2 DEF IInv
    <3>2. \E S : tree' \in Seq(S)
      BY <3>1, Zenon DEF TypeOK
    <3> QED BY <3>2
  <2>3. LTypeOK'
    BY <1>1, <1>3, <2>1, <2>2 DEF LTypeOK
  <2> QED BY <1>1, <1>2, <1>3, <2>1, <2>3 DEF LInv
<1>4. CASE env_labels # 0
  <2>1. pass = "labelled"
    BY <1>4 DEF LInv
  <2>2. UNCHANGED vars
    BY <2>1, WalksAreOver
  <2>3. tree' = tree /\ ids' = ids /\ generator' = generator /\ pass' = pass
    BY <2>2 DEF vars
  <2>4. LTypeOK'
    BY <1>1, <2>3 DEF LInv, LTypeOK
  <2> QED BY <1>1, <1>2, <1>4, <2>3, <2>4 DEF LInv
<1> QED BY <1>3, <1>4

LEMMA NothingAwaited ==
  ASSUME NEW t, NEW d, NEW base \in Nat
  PROVE  CodeOK(t, d, 0, <<>>, <<>>, <<>>, base, base)
<1>1. 1 .. 0 = {} /\ Len(<<>>) = 0
  OBVIOUS
<1>2. ClausesOK(t, 0, <<>>, <<>>, base, base)
  BY <1>1 DEF ClausesOK, ClausesOf, IsOpen
<1>3. LabelsPut(t, d, 0, <<>>, base, base)
  BY <1>1 DEF LabelsPut
<1>4. JumpsDestined(t, d, 0, <<>>, <<>>, <<>>, base, base)
  BY <1>1 DEF JumpsDestined
<1>5. NotYet(t, 0, <<>>, <<>>, <<>>)
  BY <1>1 DEF NotYet
<1> QED BY <1>2, <1>3, <1>4, <1>5 DEF CodeOK

LEMMA InitStep == ASSUME LInv, ir_init PROVE LInv'
<1>1. /\ pass = "labelled" /\ env_labels = 0 /\ env_labels' = generator + 1
      /\ UNCHANGED vars /\ code' = code /\ starts' = starts /\ clauses' = clauses /\ at' = at
  BY DEF ir_init, base_label, vars
<1>2. tree' = tree /\ ids' = ids /\ generator' = generator /\ pass' = pass
  BY <1>1 DEF vars
<1>3. IInv' /\ JInv'
  <2>1. IInv /\ JInv
    BY DEF LInv
  <2> QED BY <1>1, <2>1, IStuttering, JStep
<1>4. /\ at = 0 /\ code = <<>> /\ clauses = <<>> /\ LTypeOK
  BY <1>1 DEF LInv
<1>5. generator \in Nat /\ generator + 1 \in Nat
  <2>1. TypeOK
    BY DEF LInv, IInv
  <2>2. generator \in Nat
    BY <2>1, TreeType
  <2> QED BY <2>2
<1>6. LTypeOK'
  BY <1>1, <1>2, <1>4, <1>5 DEF LTypeOK
<1>7. CodeOK(tree, ids, 0, <<>>, <<>>, <<>>, generator + 1, generator + 1)
  BY <1>5, NothingAwaited
<1>8. /\ <<>> \in Seq(1 .. at')
      /\ CodeOK(tree', ids', at', <<>>, clauses', code', generator' + 1, env_labels')
  BY <1>1, <1>2, <1>4, <1>7
<1>9. env_labels' # 0 /\ generator' < env_labels' /\ pass' = "labelled"
  BY <1>1, <1>2, <1>5
<1> QED BY <1>3, <1>6, <1>8, <1>9 DEF LInv

LEMMA LStep == LInv /\ [LNext]_allvars => LInv'
<1> SUFFICES ASSUME LInv, [LNext]_allvars PROVE LInv'
  OBVIOUS
<1>1. CASE UNCHANGED allvars
  BY <1>1, WalkedStep DEF allvars
<1>2. CASE Next /\ UNCHANGED lvars
  BY <1>2, WalkedStep
<1>3. CASE ir_init
  BY <1>3, InitStep
<1>4. CASE LowerFunction
  BY <1>4, FunctionLowered
<1>5. CASE EndFunction
  BY <1>5, FunctionEndLowered
<1>6. CASE Return
  BY <1>6, ReturnLowered
<1>7. CASE LowerLoop
  BY <1>7, LoopLowered
<1>8. CASE EndLoop
  BY <1>8, LoopEndLowered
<1>9. CASE LowerJump
  BY <1>9, JumpLowered
<1>10. CASE LowerLabel
  BY <1>10, LabelLowered
<1>11. CASE LowerSwitch
  BY <1>11, SwitchLowered
<1>12. CASE EndSwitch
  BY <1>12, SwitchEndLowered
<1>13. CASE LowerIf
  BY <1>13, IfLowered
<1>14. CASE LowerElse
  BY <1>14, ElseLowered
<1>15. CASE EndIf
  BY <1>15, IfEndLowered
<1>16. CASE LowerLogical
  BY <1>16, LogicalLowered
<1> QED BY <1>1, <1>2, <1>3, <1>4, <1>5, <1>6, <1>7, <1>8, <1>9, <1>10, <1>11, <1>12,
           <1>13, <1>14, <1>15, <1>16 DEF LNext

\* The invariant of the lowering holds in every state.
THEOREM LInvariance == LSpec => []LInv
<1>1. LInit => LInv
  BY LInitially
<1>2. LInv /\ [LNext]_allvars => LInv'
  BY LStep
<1> QED BY <1>1, <1>2, PTL DEF LSpec

\* The lowering changes nothing the walks left: its behaviours are behaviours
\* of module Labels, and what is proved of those holds of them.
THEOREM LoweringWalks == LSpec => Spec
<1>1. LInit => Init
  BY DEF LInit
<1>2. [LNext]_allvars => [Next]_vars
  BY DEF LNext, allvars, ir_init, Lower, LowerFunction, EndFunction, Return, LowerLoop, EndLoop,
         LowerJump, LowerLabel, LowerSwitch, EndSwitch, LowerIf, LowerElse, EndIf, LowerLogical
<1> QED BY <1>1, <1>2, PTL DEF LSpec, Spec

\* Operations, activations and counters keep their types.
THEOREM LoweringTyped == LSpec => []LowerTypeOK
<1>1. LInv => LowerTypeOK
  <2> SUFFICES ASSUME LInv PROVE LowerTypeOK
    OBVIOUS
  <2> DEFINE Operations == [op: {"label", "jump", "jump_if_zero", "jump_if_equal", "ret"},
                            id: {Unset} \cup Nat, value: Nat, from: 1 .. Len(tree)]
  <2>1. TypeOK /\ LTypeOK
    BY DEF LInv, IInv
  <2>2. Len(tree) \in Nat
    <3>1. tree \in Tree
      BY <2>1, TreeType
    <3> QED BY <3>1 DEF Tree
  <2>3. Operation(at) \subseteq Operations
    BY <2>1, <2>2 DEF LTypeOK, Operation
  <2>4. code \in Seq(Operation(at))
    BY <2>1 DEF LTypeOK
  <2> HIDE DEF Operations
  <2>5. code \in Seq(Operations)
    BY <2>3, <2>4, WiderSeq
  <2> QED BY <2>1, <2>5 DEF LowerTypeOK, LTypeOK, Clause, Operations
<1> QED BY <1>1, LInvariance, PTL

\* Once all is lowered, no activation waits for anything.
LEMMA AllClosed ==
  ASSUME NEW t \in Tree, EveryEnded(t), NEW o, Len(o) \in Nat, ClausesOf(t, Len(t), o)
  PROVE  Len(o) = 0
<1>1. Len(t) \in Nat
  BY DEF Tree
<1> SUFFICES ASSUME Len(o) # 0 PROVE FALSE
  OBVIOUS
<1>2. IsOpen(o, o[1])
  BY DEF IsOpen
<1>3. o[1] \in 1 .. Len(t) /\ OpenIf(t, Len(t), o[1])
  BY <1>2 DEF ClausesOf
<1>4. t[o[1]].node \in Constructs
  BY <1>3 DEF OpenIf, IfNodes, Constructs
<1>5. PICK k \in EndsOf(t, o[1]) : TRUE
  BY <1>3, <1>4 DEF EveryEnded
<1>6. Len(t) < k
  BY <1>3 DEF OpenIf
<1>7. k \in 1 .. Len(t)
  BY DEF EndsOf
<1> QED BY <1>1, <1>6, <1>7

\* For a tree of any size: each label is put once, and each jump of the code
\* has its label, in the same function.
THEOREM LabelsPutOnce == LSpec => []LabelsDefinedOnce
<1>1. LInv => LabelsDefinedOnce
  <2> SUFFICES ASSUME LInv, Lowered, NEW k \in 1 .. Len(code), code[k].id # Unset
               PROVE  /\ Cardinality(LabelsAt(code[k].id)) = 1
                      /\ \A l \in LabelsAt(code[k].id) :
                           SameFunction(code[k].from, code[l].from)
    BY DEF LabelsDefinedOnce
  <2> DEFINE x    == code[k].id
             base == generator + 1
  <2>1. env_labels # 0 /\ at = Len(tree) /\ pass = "labelled" /\ IInv /\ JInv /\ TypeOK
    BY DEF Lowered, LInv, IInv
  <2>2. Finished(tree, ids, base) /\ tree \in Tree
    BY <2>1, FinishedIs, TreeType
  <2>3. PICK o \in Seq(1 .. at) :
          CodeOK(tree, ids, at, o, clauses, code, base, env_labels)
    BY <2>1 DEF LInv
  <2>4. /\ ClausesOK(tree, at, o, clauses, base, env_labels)
        /\ LabelsPut(tree, ids, at, code, base, env_labels)
        /\ JumpsDestined(tree, ids, at, o, clauses, code, base, env_labels)
    BY <2>3 DEF CodeOK
  <2>5. Len(clauses) = 0
    <3>1. ClausesOf(tree, Len(tree), o) /\ Len(o) = Len(clauses) /\ Len(o) \in Nat
      BY <2>1, <2>3, <2>4 DEF ClausesOK
    <3>2. EveryEnded(tree)
      BY <2>2 DEF Finished
    <3>3. Len(o) = 0
      BY <2>2, <3>1, <3>2, AllClosed
    <3> QED BY <3>1, <3>3
  <2>6. \E l \in 1 .. Len(code) :
          IsLabelOp(code, l, x) /\ Together(tree, code[k].from, code[l].from)
    <3>1. CASE code[k].op = "label"
      BY <3>1 DEF IsLabelOp, Together
    <3>2. CASE code[k].op # "label"
      <4>1. Destined(tree, ids, at, o, clauses, code, k, base, env_labels)
        BY <2>4 DEF JumpsDestined
      <4>2. CASE \E q \in 1 .. Len(tree) :
                   Places(tree, ids, q, x) /\ Together(tree, code[k].from, q)
        <5>1. PICK q \in 1 .. Len(tree) :
                Places(tree, ids, q, x) /\ Together(tree, code[k].from, q)
          BY <4>2
        <5>2. PICK l \in 1 .. Len(code) : IsLabelOp(code, l, x) /\ code[l].from = q
          BY <2>1, <2>4, <5>1 DEF LabelsPut
        <5> QED BY <5>1, <5>2
      <4>3. CASE \E m \in 1 .. Len(clauses) : TRUE
        BY <2>5, <4>3
      <4> QED BY <4>1, <4>2, <4>3 DEF Destined
    <3> QED BY <3>1, <3>2
  <2>7. PICK l \in 1 .. Len(code) :
          IsLabelOp(code, l, x) /\ Together(tree, code[k].from, code[l].from)
    BY <2>6
  <2>8. \A j \in 1 .. Len(code) : IsLabelOp(code, j, x) => j = l
    BY <2>4, <2>7 DEF LabelsPut, IsLabelOp
  <2>9. LabelsAt(x) = {l}
    BY <2>7, <2>8 DEF LabelsAt, IsLabelOp
  <2>10. Cardinality(LabelsAt(x)) = 1
    BY <2>9, FS_Singleton
  <2>11. SameFunction(code[k].from, code[l].from)
    BY <2>7, Views DEF SameFunction, Together, Function
  <2> QED BY <2>9, <2>10, <2>11
<1> QED BY <1>1, LInvariance, PTL
=============================================================================
