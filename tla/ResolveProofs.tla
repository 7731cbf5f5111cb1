----------------------------- MODULE ResolveProofs -----------------------------
(***************************************************************************)
(* Proofs about module Resolve: its invariants hold whatever the names of  *)
(* the program, the number of its declarations and the depth of its        *)
(* blocks.                                                                 *)
(***************************************************************************)
EXTENDS Resolve, Inductions, SequenceTheorems, TLAPS

Table == Seq(Symbol(Name))

(***************************************************************************)
(* The operations of module SymbolTable.                                   *)
(***************************************************************************)
\* symbols_get_impl: what it finds is a node of that name.
LEMMA GetIsNode ==
  ASSUME NEW t \in Table, NEW n \in Name, NEW limited \in BOOLEAN,
         Get(t, n, limited) # 0
  PROVE  /\ Get(t, n, limited) \in 1 .. Len(t)
         /\ t[Get(t, n, limited)].name = n
<1> DEFINE hits == Hits(t, n, limited)
<1>1. hits \in SUBSET (1 .. Len(t)) /\ Len(t) \in Nat
  BY DEF Hits, Table
<1>2. hits # {}
  BY DEF Get
<1>3. \E i \in hits : \A j \in hits : j =< i
  <2> HIDE DEF hits
  <2> QED BY <1>1, <1>2, LastPosition
<1>4. Get(t, n, limited) \in hits
  BY <1>2, <1>3 DEF Get
<1> QED BY <1>4, <1>1 DEF Hits

\* symbols_prepend: the new head has an ID of its own, above all that came
\* before, and the other nodes stay as they are.
LEMMA PrependNode ==
  ASSUME NEW t \in Table, NEW n \in Name
  PROVE  /\ Prepend(t, n) \in Table
         /\ Len(Prepend(t, n)) = Len(t) + 1
         /\ \A i \in 1 .. Len(t) : Prepend(t, n)[i] = t[i]
         /\ HeadOf(Prepend(t, n)) =
              [name |-> n, unique |-> NextUnique(t), cookie |-> NextCookie(t),
               delim |-> FALSE, linkage |-> NoLinkage]
         /\ NextUnique(t) \in Nat /\ NextCookie(t) \in Nat
         /\ NextUnique(t) =< NextCookie(t)
         /\ t # <<>> => /\ HeadOf(t).cookie < NextUnique(t)
                        /\ HeadOf(t).cookie =< NextCookie(t)
<1>1. t # <<>> => HeadOf(t) \in Symbol(Name)
  BY DEF Table, HeadOf
<1>2. /\ NextUnique(t) \in Nat /\ NextCookie(t) \in Nat
      /\ NextUnique(t) =< NextCookie(t)
      /\ t # <<>> => /\ HeadOf(t).cookie < NextUnique(t)
                     /\ HeadOf(t).cookie =< NextCookie(t)
  BY <1>1 DEF NextUnique, NextCookie, Larger, Symbol
<1> DEFINE node == [name |-> n, unique |-> NextUnique(t), cookie |-> NextCookie(t),
                    delim |-> FALSE, linkage |-> NoLinkage]
<1>3. node \in Symbol(Name)
  BY <1>2 DEF Symbol, Linkage
<1>4. Prepend(t, n) = Append(t, node)
  BY DEF Prepend
<1> HIDE DEF node
<1>5. /\ Append(t, node) \in Table
      /\ Len(Append(t, node)) = Len(t) + 1
      /\ \A i \in 1 .. Len(t) : Append(t, node)[i] = t[i]
      /\ Append(t, node)[Len(t) + 1] = node
  BY <1>3, AppendProperties DEF Table
<1> QED BY <1>2, <1>4, <1>5 DEF HeadOf, node

\* Setting one mark touches nothing else.
LEMMA SetDelimNode ==
  ASSUME NEW t \in Table, NEW p \in 1 .. Len(t), NEW b \in BOOLEAN
  PROVE  /\ SetDelim(t, p, b) \in Table
         /\ Len(SetDelim(t, p, b)) = Len(t)
         /\ \A i \in 1 .. Len(t) :
              /\ SetDelim(t, p, b)[i].name = t[i].name
              /\ SetDelim(t, p, b)[i].unique = t[i].unique
              /\ SetDelim(t, p, b)[i].cookie = t[i].cookie
              /\ SetDelim(t, p, b)[i].linkage = t[i].linkage
              /\ i = p => (SetDelim(t, p, b)[i].delim <=> b)
              /\ i # p => (SetDelim(t, p, b)[i].delim <=> t[i].delim)
<1> DEFINE e == [t[p] EXCEPT !.delim = b]
<1>1. t[p] \in Symbol(Name)
  BY DEF Table
<1>2. /\ e \in Symbol(Name)
      /\ e.name = t[p].name /\ e.unique = t[p].unique /\ e.cookie = t[p].cookie
      /\ e.linkage = t[p].linkage /\ e.delim = b
  BY <1>1 DEF Symbol
<1>3. SetDelim(t, p, b) = [t EXCEPT ![p] = e]
  BY DEF SetDelim
<1> HIDE DEF e
<1>4. /\ [t EXCEPT ![p] = e] \in Table
      /\ Len([t EXCEPT ![p] = e]) = Len(t)
      /\ \A j \in 1 .. Len(t) : [t EXCEPT ![p] = e][j] = IF j = p THEN e ELSE t[j]
  BY <1>2, ExceptSeq DEF Table
<1> QED BY <1>2, <1>3, <1>4

\* symbols_reset_scope: a prefix of the table, that keeps the largest ID.
LEMMA ResetScopeNode ==
  ASSUME NEW t \in Table, NEW p \in 1 .. Len(t)
  PROVE  /\ ResetScope(t, p) \in Table
         /\ Len(ResetScope(t, p)) = p
         /\ \A i \in 1 .. p :
              /\ ResetScope(t, p)[i].name = t[i].name
              /\ ResetScope(t, p)[i].unique = t[i].unique
              /\ ResetScope(t, p)[i].linkage = t[i].linkage
              /\ ResetScope(t, p)[i].delim = t[i].delim
         /\ HeadOf(ResetScope(t, p)).cookie = HeadOf(t).cookie
<1> DEFINE s == SubSeq(t, 1, p)
           e == [s[p] EXCEPT !.cookie = HeadOf(t).cookie]
<1>1. /\ s \in Table /\ Len(s) = p
      /\ \A i \in 1 .. p : s[i] = t[i]
  BY DEF Table
<1>2. HeadOf(t).cookie \in Nat
  <2>1. HeadOf(t) \in Symbol(Name)
    BY DEF HeadOf, Table
  <2> QED BY <2>1 DEF Symbol
<1>3. ResetScope(t, p) = [s EXCEPT ![p] = e]
  BY DEF ResetScope
<1> HIDE DEF s
<1>4. s[p] \in Symbol(Name)
  BY <1>1 DEF Table
<1>5. /\ e \in Symbol(Name)
      /\ e.name = s[p].name /\ e.unique = s[p].unique /\ e.delim = s[p].delim
      /\ e.linkage = s[p].linkage /\ e.cookie = HeadOf(t).cookie
  BY <1>2, <1>4 DEF Symbol
<1> HIDE DEF e
<1>6. /\ [s EXCEPT ![p] = e] \in Table
      /\ Len([s EXCEPT ![p] = e]) = p
      /\ \A j \in 1 .. p : [s EXCEPT ![p] = e][j] = IF j = p THEN e ELSE s[j]
  BY <1>1, <1>5, ExceptSeq DEF Table
<1> QED BY <1>1, <1>3, <1>5, <1>6 DEF HeadOf

\* The end of an activation: the nodes up to its reset, the mark cleared if
\* the activation set it.
LEMMA LeaveNode ==
  ASSUME NEW t \in Table, NEW f \in Frame,
         f.point =< f.reset, f.reset =< Len(t)
  PROVE  /\ Leave(t, f) \in Table
         /\ Len(Leave(t, f)) = f.reset
         /\ \A i \in 1 .. f.reset :
              /\ Leave(t, f)[i].name = t[i].name
              /\ Leave(t, f)[i].unique = t[i].unique
              /\ Leave(t, f)[i].linkage = t[i].linkage
              /\ (Leave(t, f)[i].delim <=> t[i].delim /\ ~ (f.cleanup /\ i = f.point))
         /\ HeadOf(Leave(t, f)).cookie = HeadOf(t).cookie
<1> DEFINE r == ResetScope(t, f.reset)
<1>1. /\ f.reset \in 1 .. Len(t) /\ f.point \in 1 .. f.reset
      /\ f.cleanup \in BOOLEAN
  BY DEF Frame, Table
<1>2. /\ r \in Table /\ Len(r) = f.reset
      /\ \A i \in 1 .. f.reset :
           /\ r[i].name = t[i].name /\ r[i].unique = t[i].unique
           /\ r[i].linkage = t[i].linkage /\ r[i].delim = t[i].delim
      /\ HeadOf(r).cookie = HeadOf(t).cookie
  BY <1>1, ResetScopeNode
<1>3. Leave(t, f) = IF f.cleanup THEN SetDelim(r, f.point, FALSE) ELSE r
  BY DEF Leave
<1>4. \A i \in 1 .. f.reset : t[i].delim \in BOOLEAN
  <2>1. \A i \in 1 .. f.reset : t[i] \in Symbol(Name)
    BY <1>1 DEF Table
  <2> QED BY <2>1 DEF Symbol
<1> HIDE DEF r
<1>5. CASE f.cleanup
  <2>1. PICK b \in BOOLEAN : b = FALSE
    OBVIOUS
  <2> DEFINE s == SetDelim(r, f.point, b)
  <2>2. f.point \in 1 .. Len(r)
    BY <1>1, <1>2
  <2>3. Leave(t, f) = s
    BY <1>3, <1>5, <2>1
  <2>4. /\ s \in Table /\ Len(s) = Len(r)
        /\ \A i \in 1 .. Len(r) :
             /\ s[i].name = r[i].name /\ s[i].unique = r[i].unique
             /\ s[i].cookie = r[i].cookie /\ s[i].linkage = r[i].linkage
             /\ i = f.point => (s[i].delim <=> b)
             /\ i # f.point => (s[i].delim <=> r[i].delim)
    BY <1>2, <2>2, SetDelimNode
  <2> HIDE DEF s
  <2>5. HeadOf(s).cookie = HeadOf(r).cookie
    BY <1>1, <1>2, <2>4 DEF HeadOf
  <2>6. \A i \in 1 .. f.reset :
          s[i].delim <=> t[i].delim /\ ~ (f.cleanup /\ i = f.point)
    BY <1>2, <1>4, <1>5, <2>1, <2>4
  <2> QED BY <1>2, <2>3, <2>4, <2>5, <2>6
<1>6. CASE ~ f.cleanup
  BY <1>2, <1>3, <1>4, <1>6
<1> QED BY <1>5, <1>6

(***************************************************************************)
(* The scopes: activations and their marks.                                *)
(***************************************************************************)
\* An activation goes back to a head at or above its mark, none of them goes
\* back above an inner one, and a body follows the header it belongs to.
FramesOK(t, fr) ==
  /\ \A k \in 1 .. Len(fr) : fr[k].point =< fr[k].reset /\ fr[k].reset =< Len(t)
  /\ \A j, k \in 1 .. Len(fr) : j =< k => fr[j].reset =< fr[k].reset
  /\ \A k \in 1 .. Len(fr) :
       fr[k].kind = "body" => k > 1 /\ fr[k - 1].kind = "header"

\* The outermost activation with a mark is the one that clears it.
CleanupOK(fr) ==
  \A k \in 1 .. Len(fr) :
    fr[k].cleanup <=> \A j \in 1 .. k - 1 : fr[j].point # fr[k].point

MarksOK(t, fr) ==
  \A i \in 1 .. Len(t) : t[i].delim <=> \E k \in 1 .. Len(fr) : fr[k].point = i

ScopesOK(t, fr) == FramesOK(t, fr) /\ CleanupOK(fr) /\ MarksOK(t, fr)

\* A declaration adds a node without a mark to the innermost scope.
LEMMA ExtendScopes ==
  ASSUME NEW t \in Table, NEW fr \in Seq(Frame), ScopesOK(t, fr),
         NEW s \in Table, Len(s) = Len(t) + 1,
         \A i \in 1 .. Len(t) : s[i].delim <=> t[i].delim,
         ~ s[Len(t) + 1].delim
  PROVE  ScopesOK(s, fr)
<1>1. Len(t) \in Nat /\ Len(fr) \in Nat
  BY DEF Table
<1>2. FramesOK(s, fr)
  <2>1. \A k \in 1 .. Len(fr) : fr[k] \in Frame
    OBVIOUS
  <2>2. \A k \in 1 .. Len(fr) : fr[k].reset \in Nat
    BY <2>1 DEF Frame
  <2> QED BY <1>1, <2>2 DEF ScopesOK, FramesOK
<1>3. MarksOK(s, fr)
  <2>1. \A k \in 1 .. Len(fr) : fr[k] \in Frame
    OBVIOUS
  <2>2. \A k \in 1 .. Len(fr) : fr[k].point \in Nat /\ fr[k].reset \in Nat
    BY <2>1 DEF Frame
  <2>3. \A k \in 1 .. Len(fr) : fr[k].point =< Len(t)
    BY <1>1, <2>2 DEF ScopesOK, FramesOK
  <2>4. ASSUME NEW i \in 1 .. Len(s)
        PROVE  s[i].delim <=> \E k \in 1 .. Len(fr) : fr[k].point = i
    <3>1. CASE i = Len(t) + 1
      BY <1>1, <2>2, <2>3, <3>1
    <3>2. CASE i \in 1 .. Len(t)
      BY <3>2 DEF ScopesOK, MarksOK
    <3> QED BY <1>1, <3>1, <3>2
  <2> QED BY <2>4 DEF MarksOK
<1> QED BY <1>2, <1>3 DEF ScopesOK

\* The activation that starts on table t and marks node p.
Activation(t, kind, p) ==
  [kind |-> kind, reset |-> Len(t), point |-> p, cleanup |-> Prepares(t, p)]

\* resolve_block and resolve_function enter a scope: the mark is set, and
\* the activation that found it unset is the one to clear it.
LEMMA PushScopes ==
  ASSUME NEW t \in Table, NEW fr \in Seq(Frame), ScopesOK(t, fr),
         NEW p \in 1 .. Len(t), NEW kind \in {"header", "body", "block"},
         kind = "body" => fr # <<>> /\ fr[Len(fr)].kind = "header"
  PROVE  /\ SetDelim(t, p, TRUE) \in Table
         /\ Append(fr, Activation(t, kind, p)) \in Seq(Frame)
         /\ ScopesOK(SetDelim(t, p, TRUE), Append(fr, Activation(t, kind, p)))
<1> DEFINE f == Activation(t, kind, p)
<1>1. PICK b \in BOOLEAN : b = TRUE /\ b
  OBVIOUS
<1> DEFINE s == SetDelim(t, p, b)
           g == Append(fr, f)
<1>2. s = SetDelim(t, p, TRUE)
  BY <1>1
<1>3. /\ s \in Table /\ Len(s) = Len(t)
      /\ \A i \in 1 .. Len(t) :
           /\ i = p => (s[i].delim <=> b)
           /\ i # p => (s[i].delim <=> t[i].delim)
  BY SetDelimNode
<1>4. /\ f \in Frame
      /\ f.kind = kind /\ f.reset = Len(t) /\ f.point = p
      /\ f.cleanup <=> ~ t[p].delim
  <2>1. Len(t) \in Nat \ {0} /\ p \in Nat \ {0}
    BY DEF Table
  <2>2. Prepares(t, p) \in BOOLEAN
    BY DEF Prepares
  <2>3. /\ f \in Frame
        /\ f.kind = kind /\ f.reset = Len(t) /\ f.point = p
    BY <2>1, <2>2 DEF Frame, Activation
  <2>4. f.cleanup <=> ~ t[p].delim
    BY DEF Prepares, Activation
  <2> QED BY <2>3, <2>4
<1> HIDE DEF f, s
<1>5. /\ g \in Seq(Frame) /\ Len(g) = Len(fr) + 1
      /\ \A k \in 1 .. Len(fr) : g[k] = fr[k]
      /\ g[Len(fr) + 1] = f
  BY <1>4, AppendProperties
<1> HIDE DEF g
<1>6. Len(t) \in Nat /\ Len(fr) \in Nat
  BY DEF Table
<1>7. \A k \in 1 .. Len(fr) :
        /\ fr[k].point \in Nat /\ fr[k].reset \in Nat
        /\ fr[k].point =< fr[k].reset /\ fr[k].reset =< Len(t)
  <2>1. \A k \in 1 .. Len(fr) : fr[k] \in Frame
    OBVIOUS
  <2>2. \A k \in 1 .. Len(fr) : fr[k].point \in Nat /\ fr[k].reset \in Nat
    BY <2>1 DEF Frame
  <2> QED BY <2>2 DEF ScopesOK, FramesOK
<1>8. FramesOK(s, g)
  <2>1. \A k \in 1 .. Len(g) : g[k].point =< g[k].reset /\ g[k].reset =< Len(s)
    BY <1>3, <1>4, <1>5, <1>6, <1>7
  <2>2. \A j, k \in 1 .. Len(g) : j =< k => g[j].reset =< g[k].reset
    BY <1>4, <1>5, <1>6, <1>7 DEF ScopesOK, FramesOK
  <2>3. \A k \in 1 .. Len(g) :
          g[k].kind = "body" => k > 1 /\ g[k - 1].kind = "header"
    <3>1. ASSUME NEW k \in 1 .. Len(fr), g[k].kind = "body"
          PROVE  k > 1 /\ g[k - 1].kind = "header"
      BY <1>5, <1>6, <3>1 DEF ScopesOK, FramesOK
    <3>2. ASSUME g[Len(fr) + 1].kind = "body"
          PROVE  Len(fr) + 1 > 1 /\ g[Len(fr)].kind = "header"
      BY <1>4, <1>5, <1>6, <3>2
    <3> QED BY <1>5, <1>6, <3>1, <3>2
  <2> QED BY <2>1, <2>2, <2>3 DEF FramesOK
<1>9. t[p].delim <=> \E k \in 1 .. Len(fr) : fr[k].point = p
  BY DEF ScopesOK, MarksOK
<1>10. CleanupOK(g)
  <2>1. ASSUME NEW k \in 1 .. Len(fr)
        PROVE  g[k].cleanup <=> \A j \in 1 .. k - 1 : g[j].point # g[k].point
    <3>1. fr[k].cleanup <=> \A j \in 1 .. k - 1 : fr[j].point # fr[k].point
      BY DEF ScopesOK, CleanupOK
    <3>2. \A j \in 1 .. k - 1 : g[j] = fr[j]
      BY <1>5, <1>6
    <3> QED BY <1>5, <3>1, <3>2
  <2>2. f.cleanup <=> \A j \in 1 .. Len(fr) : g[j].point # f.point
    BY <1>4, <1>5, <1>9
  <2> QED BY <1>5, <1>6, <2>1, <2>2 DEF CleanupOK
<1>11. MarksOK(s, g)
  <2>1. ASSUME NEW i \in 1 .. Len(t)
        PROVE  s[i].delim <=> \E k \in 1 .. Len(g) : g[k].point = i
    <3>1. CASE i = p
      <4>1. g[Len(fr) + 1].point = i /\ Len(fr) + 1 \in 1 .. Len(g)
        BY <1>4, <1>5, <1>6, <3>1
      <4>2. s[i].delim <=> b
        BY <1>3, <3>1
      <4>3. s[i].delim
        BY <1>1, <4>2, Zenon
      <4> QED BY <4>1, <4>3
    <3>2. CASE i # p
      <4>1. t[i].delim <=> \E k \in 1 .. Len(fr) : fr[k].point = i
        BY DEF ScopesOK, MarksOK
      <4>2. (\E k \in 1 .. Len(fr) : fr[k].point = i)
              <=> \E k \in 1 .. Len(g) : g[k].point = i
        BY <1>4, <1>5, <1>6, <3>2
      <4> QED BY <1>3, <3>2, <4>1, <4>2
    <3> QED BY <3>1, <3>2
  <2> QED BY <1>3, <2>1 DEF MarksOK
<1>12. ScopesOK(s, g)
  BY <1>8, <1>10, <1>11 DEF ScopesOK
<1> QED BY <1>2, <1>3, <1>5, <1>12 DEF f, g

\* A sequence without its last element.
LEMMA AllButLast ==
  ASSUME NEW S, NEW q \in Seq(S), q # <<>>
  PROVE  LET g == SubSeq(q, 1, Len(q) - 1)
         IN  /\ g \in Seq(S) /\ Len(g) = Len(q) - 1
             /\ \A k \in 1 .. Len(q) - 1 : g[k] = q[k]
<1> DEFINE m == Len(q)
<1>1. m \in Nat \ {0}
  OBVIOUS
<1>2. \A k \in 1 .. m - 1 : q[k] \in S
  BY <1>1
<1>3. 1 \in Int /\ m - 1 \in Int
  BY <1>1
<1> HIDE DEF m
<1>4. LET g == SubSeq(q, 1, m - 1)
      IN  /\ g \in Seq(S) /\ Len(g) = m - 1
          /\ \A k \in 1 .. m - 1 : g[k] = q[k]
  BY <1>1, <1>2, <1>3, SubSeqProperties
<1> QED BY <1>4 DEF m

\* The end of an activation: the nodes of its scope are gone, and so is the
\* mark, unless an activation around it has the same.
LEMMA PopScopes ==
  ASSUME NEW t \in Table, NEW fr \in Seq(Frame), ScopesOK(t, fr), fr # <<>>
  PROVE  LET f == fr[Len(fr)]
         IN  /\ f \in Frame /\ f.point =< f.reset /\ f.reset \in 1 .. Len(t)
             /\ SubSeq(fr, 1, Len(fr) - 1) \in Seq(Frame)
             /\ ScopesOK(Leave(t, f), SubSeq(fr, 1, Len(fr) - 1))
<1> DEFINE m == Len(fr)
           f == fr[m]
           g == SubSeq(fr, 1, m - 1)
           s == Leave(t, f)
<1>1. m \in Nat \ {0} /\ m \in 1 .. m /\ Len(t) \in Nat
  BY DEF Table
<1>2. \A k \in 1 .. m :
        /\ fr[k] \in Frame
        /\ fr[k].point \in Nat \ {0} /\ fr[k].reset \in Nat \ {0}
        /\ fr[k].point =< fr[k].reset /\ fr[k].reset =< Len(t)
  <2>1. \A k \in 1 .. m : fr[k] \in Frame
    OBVIOUS
  <2>2. \A k \in 1 .. m : fr[k].point \in Nat \ {0} /\ fr[k].reset \in Nat \ {0}
    BY <2>1 DEF Frame
  <2> QED BY <2>1, <2>2 DEF ScopesOK, FramesOK
<1>3. /\ g \in Seq(Frame) /\ Len(g) = m - 1
      /\ \A k \in 1 .. m - 1 : g[k] = fr[k]
  BY <1>1, AllButLast
<1>4. /\ f \in Frame /\ f.point =< f.reset /\ f.reset =< Len(t)
      /\ f.point \in Nat \ {0} /\ f.reset \in Nat \ {0}
  BY <1>1, <1>2
<1>5. /\ s \in Table /\ Len(s) = f.reset
      /\ \A i \in 1 .. f.reset :
           s[i].delim <=> t[i].delim /\ ~ (f.cleanup /\ i = f.point)
  BY <1>4, LeaveNode
<1> HIDE DEF s, g
<1>6. FramesOK(s, g)
  <2>1. \A k \in 1 .. m - 1 : fr[k].reset =< f.reset
    BY <1>1 DEF ScopesOK, FramesOK
  <2>2. \A k \in 1 .. Len(g) : g[k].point =< g[k].reset /\ g[k].reset =< Len(s)
    <3>1. ASSUME NEW k \in 1 .. Len(g)
          PROVE  g[k].point =< g[k].reset /\ g[k].reset =< Len(s)
      <4>1. k \in 1 .. m /\ k \in 1 .. m - 1 /\ g[k] = fr[k]
        BY <1>1, <1>3
      <4> QED BY <1>2, <1>5, <2>1, <4>1
    <3> QED BY <3>1
  <2>3. \A j, k \in 1 .. Len(g) : j =< k => g[j].reset =< g[k].reset
    BY <1>1, <1>3 DEF ScopesOK, FramesOK
  <2>4. ASSUME NEW k \in 1 .. Len(g), g[k].kind = "body"
        PROVE  k > 1 /\ g[k - 1].kind = "header"
    BY <1>1, <1>3, <2>4 DEF ScopesOK, FramesOK
  <2> QED BY <2>2, <2>3, <2>4 DEF FramesOK
<1>7. CleanupOK(g)
  <2>1. ASSUME NEW k \in 1 .. Len(g)
        PROVE  g[k].cleanup <=> \A j \in 1 .. k - 1 : g[j].point # g[k].point
    <3>1. k \in 1 .. m /\ g[k] = fr[k] /\ \A j \in 1 .. k - 1 : g[j] = fr[j]
      BY <1>1, <1>3
    <3>2. fr[k].cleanup <=> \A j \in 1 .. k - 1 : fr[j].point # fr[k].point
      BY <3>1 DEF ScopesOK, CleanupOK
    <3> QED BY <3>1, <3>2
  <2> QED BY <2>1 DEF CleanupOK
<1>8. MarksOK(s, g)
  <2>1. ASSUME NEW i \in 1 .. Len(s)
        PROVE  s[i].delim <=> \E k \in 1 .. Len(g) : g[k].point = i
    <3>1. t[i].delim <=> \E k \in 1 .. m : fr[k].point = i
      BY <1>1, <1>4, <1>5 DEF ScopesOK, MarksOK
    <3>2. f.cleanup <=> \A j \in 1 .. m - 1 : fr[j].point # f.point
      BY <1>1 DEF ScopesOK, CleanupOK
    <3>3. (\E k \in 1 .. Len(g) : g[k].point = i)
            <=> \E k \in 1 .. m - 1 : fr[k].point = i
      BY <1>3
    <3>4. s[i].delim <=> t[i].delim /\ ~ (f.cleanup /\ i = f.point)
      BY <1>5
    <3>5. CASE i = f.point
      BY <1>1, <3>1, <3>2, <3>3, <3>4, <3>5
    <3>6. CASE i # f.point
      <4>1. (\E k \in 1 .. m : fr[k].point = i)
              <=> \E k \in 1 .. m - 1 : fr[k].point = i
        BY <1>1, <3>6
      <4> QED BY <3>1, <3>3, <3>4, <3>6, <4>1
    <3> QED BY <3>5, <3>6
  <2> QED BY <2>1 DEF MarksOK
<1> QED BY <1>3, <1>4, <1>6, <1>7, <1>8 DEF ScopesOK, s, g

(***************************************************************************)
(* The IDs.                                                                *)
(***************************************************************************)
\* The head of the table remembers the largest ID handed out.
IdsBelowCookie ==
  /\ symbols = <<>> => issued = <<>>
  /\ symbols # <<>> =>
       \A k \in 1 .. Len(issued) : issued[k].id =< HeadOf(symbols).cookie

\* No declaration has internal linkage before the semantic pass.
NoInternalLinkage ==
  \A i \in 1 .. Len(symbols) : symbols[i].linkage # Internal

IdsOK ==
  /\ IdsBelowCookie /\ IdsNeverReused
  /\ NodesKeepTheirName /\ NoInternalLinkage /\ SharedIdIsOneObject
  /\ BaseIdIsFresh

SameNode(a, b) ==
  a.name = b.name /\ a.unique = b.unique /\ a.linkage = b.linkage

\* The walk enters or leaves a scope: the nodes that stay keep their IDs,
\* and the largest ID is remembered.
LEMMA KeepIds ==
  ASSUME TypeOK, IdsOK, status = "ok",
         symbols' \in Table, Len(symbols') \in 1 .. Len(symbols),
         \A i \in 1 .. Len(symbols') : SameNode(symbols'[i], symbols[i]),
         HeadOf(symbols').cookie = HeadOf(symbols).cookie,
         UNCHANGED <<issued, status, generator>>
  PROVE  IdsOK'
<1> DEFINE m == Len(symbols')
<1>1. /\ symbols # <<>> /\ symbols' # <<>>
      /\ Len(symbols) \in Nat /\ m \in Nat /\ m =< Len(symbols)
  BY DEF TypeOK, Table
<1>2. \A i \in 1 .. m : i \in 1 .. Len(symbols)
  BY <1>1
<1>3. \A i \in 1 .. m : /\ symbols'[i].name = symbols[i].name
                        /\ symbols'[i].unique = symbols[i].unique
                        /\ symbols'[i].linkage = symbols[i].linkage
  BY DEF SameNode
<1> HIDE DEF m
<1>4. IdsBelowCookie'
  BY <1>1 DEF IdsOK, IdsBelowCookie
<1>5. IdsNeverReused'
  BY DEF IdsOK, IdsNeverReused
<1>6. NodesKeepTheirName'
  BY <1>2, <1>3 DEF IdsOK, NodesKeepTheirName, m
<1>7. NoInternalLinkage'
  BY <1>2, <1>3 DEF IdsOK, NoInternalLinkage, m
<1>8. SharedIdIsOneObject'
  BY <1>2, <1>3 DEF IdsOK, SharedIdIsOneObject, m
<1>9. BaseIdIsFresh'
  BY DEF BaseIdIsFresh
<1> QED BY <1>4, <1>5, <1>6, <1>7, <1>8, <1>9 DEF IdsOK

\* The IDs of the nodes, and the next one, against those handed out.
LEMMA NextIsFresh ==
  ASSUME TypeOK, IdsOK
  PROVE  /\ \A k \in 1 .. Len(issued) :
              issued[k].id < NextUnique(symbols) /\ issued[k].id =< NextCookie(symbols)
         /\ \A i \in 1 .. Len(symbols) : symbols[i].unique < NextUnique(symbols)
<1>1. \A k \in 1 .. Len(issued) : issued[k].id \in Nat
  <2>1. issued \in Seq([id: Nat, name: Name])
    BY DEF TypeOK
  <2>2. \A k \in 1 .. Len(issued) : issued[k] \in [id: Nat, name: Name]
    BY <2>1, ElementOfSeq
  <2> QED BY <2>2
<1>2. symbols \in Table
  BY DEF TypeOK, Table
<1>3. symbols # <<>> => HeadOf(symbols) \in Symbol(Name)
  BY <1>2 DEF Table, HeadOf
<1>4. symbols # <<>> =>
        HeadOf(symbols).cookie \in Nat /\ HeadOf(symbols).unique \in Nat
  BY <1>3 DEF Symbol
<1>5. ASSUME NEW k \in 1 .. Len(issued)
      PROVE  issued[k].id < NextUnique(symbols) /\ issued[k].id =< NextCookie(symbols)
  <2>1. symbols # <<>> /\ issued[k].id =< HeadOf(symbols).cookie
    BY DEF IdsOK, IdsBelowCookie
  <2> QED BY <1>1, <1>4, <2>1 DEF NextUnique, NextCookie, Larger
<1>6. ASSUME NEW i \in 1 .. Len(symbols)
      PROVE  symbols[i].unique < NextUnique(symbols)
  <2>1. PICK k \in 1 .. Len(issued) :
          issued[k] = [id |-> symbols[i].unique, name |-> symbols[i].name]
    BY DEF IdsOK, NodesKeepTheirName
  <2>2. issued[k].id = symbols[i].unique
    BY <2>1
  <2> QED BY <1>5, <2>2
<1> QED BY <1>5, <1>6

\* A new object: its ID is above all others, so nothing shares it.
LEMMA AddIds ==
  ASSUME NEW n \in Name, TypeOK, IdsOK, status' # "done", Issue(n),
         symbols' \in Table, Len(symbols') = Len(symbols) + 1,
         \A i \in 1 .. Len(symbols) : SameNode(symbols'[i], symbols[i]),
         HeadOf(symbols').name = n,
         HeadOf(symbols').unique = NextUnique(symbols),
         HeadOf(symbols').cookie = NextCookie(symbols),
         HeadOf(symbols').linkage # Internal
  PROVE  IdsOK' /\ issued' \in Seq([id: Nat, name: Name])
<1> DEFINE l == Len(symbols)
           m == Len(issued)
           object == [id |-> NextUnique(symbols), name |-> n]
<1>1. l \in Nat /\ m \in Nat /\ symbols \in Table
  BY DEF TypeOK, Table
<1>2. NextUnique(symbols) \in Nat /\ NextCookie(symbols) \in Nat
      /\ NextUnique(symbols) =< NextCookie(symbols)
  BY <1>1, PrependNode
<1>3. object \in [id: Nat, name: Name]
  BY <1>2
<1>4. /\ issued' \in Seq([id: Nat, name: Name])
      /\ Len(issued') = m + 1
      /\ \A k \in 1 .. m : issued'[k] = issued[k]
      /\ issued'[m + 1] = object
  <2>1. issued \in Seq([id: Nat, name: Name]) /\ issued' = Append(issued, object)
    BY DEF TypeOK, Issue
  <2> HIDE DEF object
  <2> QED BY <1>3, <2>1, AppendProperties
<1>5. object.id = NextUnique(symbols) /\ object.name = n
  OBVIOUS
<1>6. /\ \A i \in 1 .. l : /\ symbols'[i].name = symbols[i].name
                           /\ symbols'[i].unique = symbols[i].unique
                           /\ symbols'[i].linkage = symbols[i].linkage
      /\ symbols'[l + 1].name = n
      /\ symbols'[l + 1].unique = NextUnique(symbols)
      /\ symbols'[l + 1].linkage # Internal
      /\ symbols' # <<>>
  BY <1>1 DEF SameNode, HeadOf, Table
<1>7. Len(symbols') = l + 1
  OBVIOUS
<1> HIDE DEF object, l, m
<1>8. \A k \in 1 .. m : issued[k].id < NextUnique(symbols)
                        /\ issued[k].id =< NextCookie(symbols)
  BY NextIsFresh DEF m
<1>9. \A i \in 1 .. l : symbols[i].unique < NextUnique(symbols)
  BY NextIsFresh DEF l
<1>10. IdsBelowCookie'
  <2>1. \A k \in 1 .. m + 1 : issued'[k].id =< NextCookie(symbols)
    BY <1>1, <1>2, <1>4, <1>5, <1>8
  <2> QED BY <1>4, <1>6, <2>1 DEF IdsBelowCookie
<1>11. IdsNeverReused'
  <2>1. \A k \in 1 .. m : issued[k].id # NextUnique(symbols)
    BY <1>2, <1>8, <1>4
  <2>2. \A i, j \in 1 .. m : issued[i].id = issued[j].id => i = j
    BY DEF IdsOK, IdsNeverReused, m
  <2> QED BY <1>1, <1>4, <1>5, <2>1, <2>2 DEF IdsNeverReused
<1>12. NodesKeepTheirName'
  <2>1. ASSUME NEW i \in 1 .. l
        PROVE  \E k \in 1 .. m + 1 :
                 issued'[k] = [id |-> symbols'[i].unique, name |-> symbols'[i].name]
    <3>1. PICK k \in 1 .. m :
            issued[k] = [id |-> symbols[i].unique, name |-> symbols[i].name]
      BY DEF IdsOK, NodesKeepTheirName, l, m
    <3>2. k \in 1 .. m + 1
      BY <1>1
    <3> QED BY <1>4, <1>6, <3>1, <3>2
  <2>2. issued'[m + 1] = [id |-> symbols'[l + 1].unique, name |-> symbols'[l + 1].name]
    BY <1>4, <1>6 DEF object
  <2>3. m + 1 \in 1 .. m + 1
    BY <1>1
  <2> QED BY <1>1, <1>4, <1>7, <2>1, <2>2, <2>3 DEF NodesKeepTheirName
<1>13. NoInternalLinkage'
  BY <1>1, <1>6, <1>7 DEF IdsOK, NoInternalLinkage, l
<1>14. SharedIdIsOneObject'
  <2>1. ASSUME NEW i \in 1 .. l, NEW j \in 1 .. l, i # j,
               symbols'[i].unique = symbols'[j].unique
        PROVE  /\ symbols'[i].name = symbols'[j].name
               /\ symbols'[i].linkage = External /\ symbols'[j].linkage = External
    BY <1>6, <2>1 DEF IdsOK, SharedIdIsOneObject, l
  <2>2. \A i \in 1 .. l : symbols'[i].unique # symbols'[l + 1].unique
    <3>1. \A i \in 1 .. l : symbols[i].unique \in Int
      <4>1. \A i \in 1 .. l : symbols[i] \in Symbol(Name)
        BY <1>1 DEF Table, l
      <4> QED BY <4>1 DEF Symbol
    <3> QED BY <1>2, <1>6, <1>9, <3>1
  <2> QED BY <1>1, <1>7, <2>1, <2>2 DEF SharedIdIsOneObject
<1>15. BaseIdIsFresh'
  BY DEF BaseIdIsFresh
<1> QED BY <1>4, <1>10, <1>11, <1>12, <1>13, <1>14, <1>15 DEF IdsOK

\* A re-declaration of a visible object with external linkage: the new node
\* shares its ID, with nodes of that name and linkage only.
LEMMA AddStub ==
  ASSUME NEW old \in 1 .. Len(symbols), TypeOK, IdsOK, status' # "done",
         UNCHANGED issued,
         symbols' \in Table, Len(symbols') = Len(symbols) + 1,
         \A i \in 1 .. Len(symbols) : SameNode(symbols'[i], symbols[i]),
         SameNode(HeadOf(symbols'), symbols[old]),
         symbols[old].linkage = External,
         HeadOf(symbols').cookie = NextCookie(symbols)
  PROVE  IdsOK'
<1> DEFINE l == Len(symbols)
<1>1. l \in Nat /\ symbols \in Table
  BY DEF TypeOK, Table
<1>2. /\ \A i \in 1 .. l : /\ symbols'[i].name = symbols[i].name
                           /\ symbols'[i].unique = symbols[i].unique
                           /\ symbols'[i].linkage = symbols[i].linkage
      /\ symbols'[l + 1].name = symbols[old].name
      /\ symbols'[l + 1].unique = symbols[old].unique
      /\ symbols'[l + 1].linkage = External
      /\ symbols' # <<>>
  BY <1>1 DEF SameNode, HeadOf, Table
<1>3. Len(symbols') = l + 1 /\ old \in 1 .. l
  OBVIOUS
<1>4. \A k \in 1 .. Len(issued) : issued[k].id =< NextCookie(symbols)
  BY NextIsFresh
<1> HIDE DEF l
<1>5. IdsBelowCookie'
  BY <1>2, <1>4 DEF IdsBelowCookie
<1>6. IdsNeverReused'
  BY DEF IdsOK, IdsNeverReused
<1>7. NodesKeepTheirName'
  <2>1. \A i \in 1 .. l : \E k \in 1 .. Len(issued) :
          issued[k] = [id |-> symbols[i].unique, name |-> symbols[i].name]
    BY DEF IdsOK, NodesKeepTheirName, l
  <2>2. \A i \in 1 .. l + 1 : \E j \in 1 .. l :
          symbols'[i].name = symbols[j].name /\ symbols'[i].unique = symbols[j].unique
    BY <1>1, <1>2, <1>3
  <2> QED BY <1>3, <2>1, <2>2 DEF NodesKeepTheirName
<1>8. NoInternalLinkage'
  BY <1>1, <1>2, <1>3 DEF IdsOK, NoInternalLinkage, l, Internal, External
<1>9. SharedIdIsOneObject'
  <2>1. \A i, j \in 1 .. l :
          /\ i # j
          /\ symbols[i].unique = symbols[j].unique
          => /\ symbols[i].name = symbols[j].name
             /\ symbols[i].linkage = External /\ symbols[j].linkage = External
    BY DEF IdsOK, SharedIdIsOneObject, l
  <2>2. \A i \in 1 .. l : symbols[i].unique = symbols[old].unique =>
          symbols[i].name = symbols[old].name /\ symbols[i].linkage = External
    BY <1>3, <2>1
  <2> QED BY <1>1, <1>2, <1>3, <2>1, <2>2 DEF SharedIdIsOneObject
<1>10. BaseIdIsFresh'
  BY DEF BaseIdIsFresh
<1> QED BY <1>5, <1>6, <1>7, <1>8, <1>9, <1>10 DEF IdsOK

(***************************************************************************)
(* The inductive invariant.  The five invariants of module Resolve are not *)
(* inductive alone: what they say of the table rests on the largest ID it  *)
(* remembers, on the nesting of the activations, and on which of them      *)
(* clears a mark.                                                          *)
(***************************************************************************)
IInv == TypeOK /\ ScopesOK(symbols, frames) /\ IdsOK

LEMMA InitIInv == Init => IInv
<1> SUFFICES ASSUME Init PROVE IInv
  OBVIOUS
<1>1. TypeOK
  BY DEF Init, TypeOK
<1>2. ScopesOK(symbols, frames)
  BY DEF Init, ScopesOK, FramesOK, CleanupOK, MarksOK
<1>3. IdsOK
  BY DEF Init, IdsOK, IdsBelowCookie, IdsNeverReused, NodesKeepTheirName,
         NoInternalLinkage, SharedIdIsOneObject, BaseIdIsFresh
<1> QED BY <1>1, <1>2, <1>3 DEF IInv

\* resolve_symbol records an ID the table holds.
LEMMA ResolveInType ==
  ASSUME NEW t \in Table, NEW n \in Name, TypeOK, status = "ok", ResolveIn(t, n)
  PROVE  /\ seen' \in {<<>>} \cup (Name \X Nat)
         /\ status' \in {"ok", "undeclared"}
<1>1. CASE GetAnywhere(t, n) = 0
  BY <1>1 DEF ResolveIn, TypeOK
<1>2. CASE GetAnywhere(t, n) # 0
  <2>1. GetAnywhere(t, n) \in 1 .. Len(t)
    <3>1. PICK b \in BOOLEAN : GetAnywhere(t, n) = Get(t, n, b)
      BY DEF GetAnywhere
    <3> QED BY <1>2, <3>1, GetIsNode
  <2>2. t[GetAnywhere(t, n)] \in Symbol(Name)
    BY <2>1 DEF Table
  <2>3. t[GetAnywhere(t, n)].unique \in Nat
    BY <2>2 DEF Symbol
  <2> QED BY <1>2, <2>3 DEF ResolveIn
<1> QED BY <1>1, <1>2

LEMMA ResolveInitType ==
  ASSUME NEW t \in Table, NEW init \in Name \cup {NoName}, TypeOK,
         status = "ok", ResolveInit(t, init)
  PROVE  /\ seen' \in {<<>>} \cup (Name \X Nat)
         /\ status' \in {"ok", "undeclared"}
<1>1. CASE init = NoName
  BY <1>1 DEF ResolveInit, TypeOK
<1>2. CASE init # NoName
  BY <1>2, ResolveInType DEF ResolveInit
<1> QED BY <1>1, <1>2

\* Every action but those that give the table a new head or a new scope.
LEMMA SameTable ==
  ASSUME IInv, status = "ok", UNCHANGED <<symbols, frames, issued>>,
         seen' \in {<<>>} \cup (Name \X Nat),
         status' \in {"ok", "duplicate", "undeclared"}, generator' \in Nat
  PROVE  IInv'
<1>1. TypeOK'
  BY DEF IInv, TypeOK
<1>2. ScopesOK(symbols, frames)'
  BY DEF IInv, ScopesOK, FramesOK, CleanupOK, MarksOK
<1>3. IdsOK'
  <2>1. BaseIdIsFresh'
    BY DEF BaseIdIsFresh
  <2> QED
    BY <2>1 DEF IInv, IdsOK, IdsBelowCookie, IdsNeverReused, NodesKeepTheirName,
                NoInternalLinkage, SharedIdIsOneObject
<1> QED BY <1>1, <1>2, <1>3 DEF IInv

LEMMA UseStep ==
  ASSUME IInv, NEW n \in Name, Use(n)
  PROVE  IInv'
<1>1. symbols \in Table /\ TypeOK
  BY DEF IInv, TypeOK, Table
<1>2. seen' \in {<<>>} \cup (Name \X Nat) /\ status' \in {"ok", "undeclared"}
  BY <1>1, ResolveInType DEF Use
<1>3. generator' \in Nat /\ UNCHANGED <<symbols, frames, issued>> /\ status = "ok"
  BY <1>1 DEF Use, TypeOK
<1> QED BY <1>2, <1>3, SameTable

Relinked(node, u, l) == [node EXCEPT !.unique = u, !.linkage = l]

\* A node keeps its name, its mark and the largest ID when it is given the
\* ID and the linkage of another.
LEMMA RelinkedNode ==
  ASSUME NEW node \in Symbol(Name), NEW u \in Nat, NEW l \in Linkage
  PROVE  /\ Relinked(node, u, l) \in Symbol(Name)
         /\ Relinked(node, u, l).name = node.name
         /\ Relinked(node, u, l).unique = u
         /\ Relinked(node, u, l).cookie = node.cookie
         /\ Relinked(node, u, l).linkage = l
         /\ Relinked(node, u, l).delim <=> node.delim
  BY DEF Relinked, Symbol

\* The declaration of a variable: the table after it, as the walk goes on.
LEMMA DeclareStep ==
  ASSUME IInv, NEW n \in Name, NEW ext \in BOOLEAN,
         NEW init \in Name \cup {NoName}, Declare(n, ext, init)
  PROVE  IInv'
<1> DEFINE l == DeclaredLinkage(ext)
           i == GetLimited(symbols, n)
           t == Prepend(symbols, n)
           m == Len(symbols)
<1>1. /\ symbols \in Table /\ TypeOK /\ IdsOK /\ ScopesOK(symbols, frames)
      /\ frames \in Seq(Frame) /\ m \in Nat
  BY DEF IInv, TypeOK, Table
<1>2. status = "ok" /\ UNCHANGED <<frames, generator>> /\ generator \in Nat
  BY <1>1 DEF Declare, CanDeclare, TypeOK
<1>3. l \in {NoLinkage, External}
  BY DEF DeclaredLinkage, Larger, NoLinkage, External
<1>4. /\ t \in Table /\ Len(t) = m + 1
      /\ \A k \in 1 .. m : t[k] = symbols[k]
      /\ t[m + 1] \in Symbol(Name)
      /\ t[m + 1].name = n /\ t[m + 1].unique = NextUnique(symbols)
      /\ t[m + 1].cookie = NextCookie(symbols) /\ ~ t[m + 1].delim
      /\ NextUnique(symbols) \in Nat
  <2>1. /\ t \in Table /\ Len(t) = m + 1
        /\ \A k \in 1 .. m : t[k] = symbols[k]
        /\ NextUnique(symbols) \in Nat
    BY <1>1, PrependNode
  <2>2. t[m + 1] = [name |-> n, unique |-> NextUnique(symbols),
                    cookie |-> NextCookie(symbols), delim |-> FALSE,
                    linkage |-> NoLinkage]
    BY <1>1, <2>1, PrependNode DEF HeadOf
  <2>3. t[m + 1] \in Symbol(Name)
    BY <1>1, <2>1 DEF Table
  <2> HIDE DEF t
  <2> QED BY <2>1, <2>2, <2>3
\* The new head, whatever the declaration made of it, leaves scopes alone.
<1>5. ASSUME NEW node \in Symbol(Name), ~ node.delim,
             symbols' = [t EXCEPT ![m + 1] = node]
      PROVE  /\ symbols' \in Table /\ Len(symbols') = m + 1
             /\ \A k \in 1 .. m : symbols'[k] = symbols[k]
             /\ HeadOf(symbols') = node
             /\ ScopesOK(symbols, frames)'
  <2> HIDE DEF t
  <2>1. /\ symbols' \in Table /\ Len(symbols') = m + 1
        /\ \A k \in 1 .. m + 1 :
             symbols'[k] = IF k = m + 1 THEN node ELSE t[k]
    BY <1>1, <1>4, <1>5, ExceptSeq DEF Table
  <2>2. /\ \A k \in 1 .. m : symbols'[k] = symbols[k]
        /\ symbols'[m + 1] = node
    BY <1>1, <1>4, <2>1
  <2>3. ScopesOK(symbols', frames)
    BY <1>1, <1>5, <2>1, <2>2, ExtendScopes
  <2> QED BY <1>2, <2>1, <2>2, <2>3 DEF HeadOf, ScopesOK, FramesOK, CleanupOK, MarksOK
<1>6. CASE DeclareConflict(n, l, i)
  BY <1>1, <1>2, <1>6, SameTable DEF DeclareConflict, TypeOK
<1>7. CASE DeclareAgain(n, l, i, init)
  <2>1. seen' \in {<<>>} \cup (Name \X Nat) /\ status' \in {"ok", "undeclared"}
    BY <1>1, <1>2, <1>7, ResolveInitType DEF DeclareAgain
  <2> QED BY <1>1, <1>2, <1>7, <2>1, SameTable DEF DeclareAgain, TypeOK
<1>8. CASE DeclareStub(n, l, i, init)
  <2> DEFINE k == GetAnywhere(symbols, n)
             node == Relinked(t[m + 1], symbols[k].unique, symbols[k].linkage)
  <2>1. k # 0 /\ some_linkage(symbols[k].linkage)
    BY <1>8 DEF DeclareStub, Adopts
  <2>2. k \in 1 .. m /\ symbols[k].name = n
    <3>1. PICK b \in BOOLEAN : k = Get(symbols, n, b)
      BY DEF GetAnywhere
    <3> QED BY <1>1, <2>1, <3>1, GetIsNode
  <2>3. symbols[k] \in Symbol(Name)
    BY <1>1, <2>2 DEF Table
  <2>4. symbols[k].linkage = External
    BY <1>1, <2>1, <2>2 DEF IdsOK, NoInternalLinkage, some_linkage
  <2>5. symbols[k].unique \in Nat /\ symbols[k].linkage \in Linkage
    BY <2>3 DEF Symbol
  <2>6. /\ node \in Symbol(Name) /\ ~ node.delim
        /\ node.cookie = NextCookie(symbols)
        /\ SameNode(node, symbols[k])
    <3> HIDE DEF t, k
    <3>1. /\ node \in Symbol(Name) /\ (node.delim <=> t[m + 1].delim)
          /\ node.name = t[m + 1].name /\ node.cookie = t[m + 1].cookie
          /\ node.unique = symbols[k].unique
          /\ node.linkage = symbols[k].linkage
      BY <1>4, <2>5, RelinkedNode
    <3> HIDE DEF node
    <3> QED BY <1>4, <2>2, <3>1 DEF SameNode
  <2>7. symbols' = [t EXCEPT ![m + 1] = node]
    BY <1>4, <1>8 DEF DeclareStub, StubTable, Relinked
  <2> HIDE DEF node, t, k
  <2>8. /\ symbols' \in Table /\ Len(symbols') = m + 1
        /\ \A j \in 1 .. m : symbols'[j] = symbols[j]
        /\ HeadOf(symbols') = node
        /\ ScopesOK(symbols, frames)'
    BY <1>5, <2>6, <2>7
  <2>9. seen' \in {<<>>} \cup (Name \X Nat) /\ status' \in {"ok", "undeclared"}
    BY <1>1, <1>2, <1>8, <2>8, ResolveInitType DEF DeclareStub
  <2>10. IdsOK'
    <3>1. \A j \in 1 .. m : SameNode(symbols'[j], symbols[j])
      BY <2>8 DEF SameNode
    <3>2. UNCHANGED issued
      BY <1>8 DEF DeclareStub
    <3> QED BY <1>1, <2>2, <2>4, <2>6, <2>8, <2>9, <3>1, <3>2, AddStub
  <2>11. TypeOK'
    BY <1>1, <1>2, <1>8, <2>8, <2>9 DEF TypeOK, DeclareStub, Table
  <2> QED BY <2>8, <2>10, <2>11 DEF IInv
<1>9. CASE DeclareNew(n, l, i, init)
  <2> DEFINE node == Relinked(t[m + 1], NextUnique(symbols), l)
  <2>1. node = [t[m + 1] EXCEPT !.linkage = l]
    <3> HIDE DEF t
    <3> QED BY <1>4 DEF Symbol, Relinked
  <2>2. l \in Linkage /\ l # Internal
    BY <1>3 DEF Linkage, NoLinkage, Internal, External
  <2> HIDE DEF l, t
  <2>3. /\ node \in Symbol(Name) /\ ~ node.delim
        /\ node.name = n /\ node.unique = NextUnique(symbols)
        /\ node.cookie = NextCookie(symbols) /\ node.linkage # Internal
    BY <1>4, <2>2, RelinkedNode
  <2>4. symbols' = [t EXCEPT ![m + 1] = node]
    BY <1>4, <1>9, <2>1 DEF DeclareNew, NewTable, l, t
  <2> HIDE DEF node
  <2>5. /\ symbols' \in Table /\ Len(symbols') = m + 1
        /\ \A j \in 1 .. m : symbols'[j] = symbols[j]
        /\ HeadOf(symbols') = node
        /\ ScopesOK(symbols, frames)'
    BY <1>5, <2>3, <2>4
  <2>6. seen' \in {<<>>} \cup (Name \X Nat) /\ status' \in {"ok", "undeclared"}
    BY <1>1, <1>2, <1>9, <2>5, ResolveInitType DEF DeclareNew
  <2>7. IdsOK' /\ issued' \in Seq([id: Nat, name: Name])
    <3>1. \A j \in 1 .. m : SameNode(symbols'[j], symbols[j])
      BY <2>5 DEF SameNode
    <3>2. Issue(n)
      BY <1>9 DEF DeclareNew
    <3> QED BY <1>1, <2>3, <2>5, <2>6, <3>1, <3>2, AddIds
  <2>8. TypeOK'
    BY <1>1, <1>2, <2>5, <2>6, <2>7 DEF TypeOK, Table
  <2> QED BY <2>5, <2>7, <2>8 DEF IInv
<1> QED BY <1>6, <1>7, <1>8, <1>9 DEF Declare

\* A scope is entered: the table changes by a mark.
LEMMA EnterStep ==
  ASSUME IInv, NEW p \in 1 .. Len(symbols), NEW kind \in {"header", "body", "block"},
         kind = "body" => frames # <<>> /\ TopFrame.kind = "header",
         status = "ok",
         symbols' = SetDelim(symbols, p, TRUE),
         frames' = Append(frames, Activation(symbols, kind, p)),
         UNCHANGED <<issued, seen, status, generator>>
  PROVE  IInv'
<1>1. /\ symbols \in Table /\ frames \in Seq(Frame) /\ ScopesOK(symbols, frames)
      /\ TypeOK /\ IdsOK
  BY DEF IInv, TypeOK, Table
<1>2. kind = "body" => frames # <<>> /\ frames[Len(frames)].kind = "header"
  BY DEF TopFrame, Depth
<1>3. symbols' \in Table /\ frames' \in Seq(Frame) /\ ScopesOK(symbols', frames')
  <2>1. /\ SetDelim(symbols, p, TRUE) \in Table
        /\ Append(frames, Activation(symbols, kind, p)) \in Seq(Frame)
        /\ ScopesOK(SetDelim(symbols, p, TRUE),
                    Append(frames, Activation(symbols, kind, p)))
    BY <1>1, <1>2, PushScopes
  <2> QED BY <2>1
<1>4. PICK b \in BOOLEAN : symbols' = SetDelim(symbols, p, b)
  OBVIOUS
<1>5. /\ Len(symbols') = Len(symbols)
      /\ \A i \in 1 .. Len(symbols) :
           /\ symbols'[i].name = symbols[i].name
           /\ symbols'[i].unique = symbols[i].unique
           /\ symbols'[i].cookie = symbols[i].cookie
           /\ symbols'[i].linkage = symbols[i].linkage
  <2> DEFINE s == SetDelim(symbols, p, b)
  <2>1. /\ Len(s) = Len(symbols)
        /\ \A i \in 1 .. Len(symbols) :
             /\ s[i].name = symbols[i].name
             /\ s[i].unique = symbols[i].unique
             /\ s[i].cookie = symbols[i].cookie
             /\ s[i].linkage = symbols[i].linkage
    BY <1>1, SetDelimNode
  <2>2. symbols' = s
    BY <1>4
  <2> HIDE DEF s
  <2> QED BY <2>1, <2>2
<1>6. Len(symbols) \in Nat /\ Len(symbols) \in 1 .. Len(symbols)
  BY <1>1 DEF Table
<1>7. HeadOf(symbols').cookie = HeadOf(symbols).cookie
  BY <1>5, <1>6 DEF HeadOf
<1>8. \A i \in 1 .. Len(symbols') : SameNode(symbols'[i], symbols[i])
  BY <1>5 DEF SameNode
<1>9. IdsOK'
  BY <1>1, <1>3, <1>5, <1>6, <1>7, <1>8, KeepIds
<1>10. TypeOK'
  BY <1>1, <1>3 DEF TypeOK, Table
<1> QED BY <1>3, <1>9, <1>10 DEF IInv, ScopesOK, FramesOK, CleanupOK, MarksOK

\* One or more scopes have been left: what the nodes left keep.
LEMMA LeaveStep ==
  ASSUME IInv, status = "ok",
         symbols' \in Table, frames' \in Seq(Frame), ScopesOK(symbols', frames'),
         Len(symbols') \in 1 .. Len(symbols),
         \A i \in 1 .. Len(symbols') : SameNode(symbols'[i], symbols[i]),
         HeadOf(symbols').cookie = HeadOf(symbols).cookie,
         UNCHANGED <<issued, seen, status, generator>>
  PROVE  IInv'
<1>1. IdsOK'
  BY KeepIds DEF IInv
<1>2. TypeOK'
  BY DEF IInv, TypeOK, Table
<1> QED BY <1>1, <1>2 DEF IInv, ScopesOK, FramesOK, CleanupOK, MarksOK

\* Leaving the innermost scope of a table t with activations fr.
LEMMA PopNode ==
  ASSUME NEW t \in Table, NEW fr \in Seq(Frame), ScopesOK(t, fr), fr # <<>>
  PROVE  LET s == Leave(t, fr[Len(fr)])
         IN  /\ s \in Table /\ Len(s) \in 1 .. Len(t)
             /\ \A i \in 1 .. Len(s) : SameNode(s[i], t[i])
             /\ HeadOf(s).cookie = HeadOf(t).cookie
             /\ SubSeq(fr, 1, Len(fr) - 1) \in Seq(Frame)
             /\ ScopesOK(s, SubSeq(fr, 1, Len(fr) - 1))
<1> DEFINE f == fr[Len(fr)]
           s == Leave(t, f)
<1>1. /\ f \in Frame /\ f.point =< f.reset /\ f.reset \in 1 .. Len(t)
      /\ SubSeq(fr, 1, Len(fr) - 1) \in Seq(Frame)
      /\ ScopesOK(s, SubSeq(fr, 1, Len(fr) - 1))
  BY PopScopes
<1>2. f.reset =< Len(t)
  BY <1>1 DEF Table
<1> HIDE DEF f
<1>3. /\ s \in Table /\ Len(s) = f.reset
      /\ \A i \in 1 .. f.reset :
           /\ s[i].name = t[i].name /\ s[i].unique = t[i].unique
           /\ s[i].linkage = t[i].linkage
      /\ HeadOf(s).cookie = HeadOf(t).cookie
  BY <1>1, <1>2, LeaveNode
<1> HIDE DEF s
<1>4. \A i \in 1 .. Len(s) : SameNode(s[i], t[i])
  BY <1>3 DEF SameNode
<1> QED BY <1>1, <1>3, <1>4 DEF f, s

LEMMA CloseStep ==
  ASSUME IInv, status = "ok", frames # <<>>,
         symbols' = Leave(symbols, TopFrame), frames' = Popped(1),
         UNCHANGED <<issued, seen, status, generator>>
  PROVE  IInv'
<1>1. symbols \in Table /\ frames \in Seq(Frame) /\ ScopesOK(symbols, frames)
  BY DEF IInv, TypeOK, Table
<1>2. /\ symbols' = Leave(symbols, frames[Len(frames)])
      /\ frames' = SubSeq(frames, 1, Len(frames) - 1)
  BY DEF TopFrame, Popped, Depth
<1>3. /\ symbols' \in Table /\ Len(symbols') \in 1 .. Len(symbols)
      /\ \A i \in 1 .. Len(symbols') : SameNode(symbols'[i], symbols[i])
      /\ HeadOf(symbols').cookie = HeadOf(symbols).cookie
      /\ frames' \in Seq(Frame) /\ ScopesOK(symbols', frames')
  BY <1>1, <1>2, PopNode
<1> QED BY <1>3, LeaveStep

\* The end of a definition leaves two scopes, its body and its header.
LEMMA CloseFunctionNodes ==
  ASSUME IInv, CloseFunction
  PROVE  /\ status = "ok" /\ UNCHANGED <<issued, seen, status, generator>>
         /\ symbols' \in Table /\ Len(symbols') \in 1 .. Len(symbols)
         /\ \A i \in 1 .. Len(symbols') : SameNode(symbols'[i], symbols[i])
         /\ HeadOf(symbols').cookie = HeadOf(symbols).cookie
         /\ frames' \in Seq(Frame) /\ ScopesOK(symbols', frames')
<1> DEFINE m == Len(frames)
           s == Leave(symbols, frames[m])
           g == SubSeq(frames, 1, m - 1)
<1>1. symbols \in Table /\ frames \in Seq(Frame) /\ ScopesOK(symbols, frames)
  BY DEF IInv, TypeOK, Table
<1>2. status = "ok" /\ frames # <<>> /\ frames[m].kind = "body"
  BY DEF CloseFunction, InBlock, FileScope, TopFrame, Depth
<1>3. m \in Nat /\ m > 1
  <2>1. m \in Nat /\ m \in 1 .. m
    BY <1>1, <1>2
  <2> QED BY <1>1, <1>2, <2>1 DEF ScopesOK, FramesOK
<1>4. /\ symbols' = Leave(s, frames[m - 1])
      /\ frames' = SubSeq(frames, 1, m - 2)
      /\ UNCHANGED <<issued, seen, status, generator>>
  BY DEF CloseFunction, TopFrame, Popped, Depth
<1>5. /\ s \in Table /\ Len(s) \in 1 .. Len(symbols)
      /\ \A i \in 1 .. Len(s) : SameNode(s[i], symbols[i])
      /\ HeadOf(s).cookie = HeadOf(symbols).cookie
      /\ g \in Seq(Frame) /\ ScopesOK(s, g)
  BY <1>1, <1>2, PopNode
<1> HIDE DEF s
<1>6. Len(g) = m - 1 /\ g[m - 1] = frames[m - 1] /\ g # <<>>
  <2>1. Len(g) = m - 1 /\ \A k \in 1 .. m - 1 : g[k] = frames[k]
    BY <1>1, <1>2, AllButLast
  <2> HIDE DEF g
  <2> QED BY <1>3, <2>1
<1>7. SubSeq(g, 1, Len(g) - 1) = frames'
  BY <1>1, <1>3, <1>4, <1>6, <1>5
<1> HIDE DEF g
<1>8. /\ symbols' \in Table /\ Len(symbols') \in 1 .. Len(s)
      /\ \A i \in 1 .. Len(symbols') : SameNode(symbols'[i], s[i])
      /\ HeadOf(symbols').cookie = HeadOf(s).cookie
      /\ frames' \in Seq(Frame) /\ ScopesOK(symbols', frames')
  <2>1. symbols' = Leave(s, g[Len(g)])
    BY <1>4, <1>6
  <2> QED BY <1>5, <1>6, <1>7, <2>1, PopNode
<1>9. Len(symbols') \in 1 .. Len(symbols)
  BY <1>1, <1>5, <1>8 DEF Table
<1>10. \A i \in 1 .. Len(symbols') : SameNode(symbols'[i], symbols[i])
  <2>1. \A i \in 1 .. Len(symbols') : i \in 1 .. Len(s)
    BY <1>1, <1>5, <1>8 DEF Table
  <2> QED BY <1>5, <1>8, <2>1 DEF SameNode
<1> QED BY <1>2, <1>4, <1>5, <1>8, <1>9, <1>10

LEMMA CloseFunctionStep ==
  ASSUME IInv, CloseFunction
  PROVE  IInv'
  BY CloseFunctionNodes, LeaveStep

LEMMA OpenFunctionStep ==
  ASSUME IInv, NEW n \in Name, OpenFunction(n)
  PROVE  IInv'
<1> DEFINE t == Prepend(symbols, n)
           p == Len(t)
<1>1. /\ symbols \in Table /\ frames \in Seq(Frame) /\ ScopesOK(symbols, frames)
      /\ TypeOK /\ IdsOK /\ Len(symbols) \in Nat
  BY DEF IInv, TypeOK, Table
<1>2. status = "ok" /\ Issue(n) /\ UNCHANGED <<seen, status, generator>>
  BY DEF OpenFunction, CanDeclare
<1>3. /\ symbols' = SetDelim(t, p, TRUE)
      /\ frames' = Append(frames, Activation(t, "header", p))
  BY DEF OpenFunction, Activation
<1>4. /\ t \in Table /\ p = Len(symbols) + 1
      /\ \A i \in 1 .. Len(symbols) : t[i] = symbols[i]
      /\ t[p].name = n /\ t[p].unique = NextUnique(symbols)
      /\ t[p].cookie = NextCookie(symbols) /\ t[p].linkage = NoLinkage
      /\ ~ t[p].delim
  <2>1. HeadOf(t) = [name |-> n, unique |-> NextUnique(symbols),
                     cookie |-> NextCookie(symbols), delim |-> FALSE,
                     linkage |-> NoLinkage]
    BY <1>1, PrependNode
  <2>2. /\ t \in Table /\ p = Len(symbols) + 1
        /\ \A i \in 1 .. Len(symbols) : t[i] = symbols[i]
    BY <1>1, PrependNode
  <2> HIDE DEF t
  <2> QED BY <2>1, <2>2 DEF HeadOf
<1> HIDE DEF t
<1>5. p \in 1 .. Len(t)
  BY <1>1, <1>4
<1>6. ScopesOK(t, frames)
  BY <1>1, <1>4, ExtendScopes
<1>7. symbols' \in Table /\ frames' \in Seq(Frame) /\ ScopesOK(symbols', frames')
  BY <1>1, <1>3, <1>4, <1>5, <1>6, PushScopes
<1>8. PICK b \in BOOLEAN : symbols' = SetDelim(t, p, b)
  BY <1>3
<1>9. /\ Len(symbols') = p
      /\ \A i \in 1 .. p :
           /\ symbols'[i].name = t[i].name
           /\ symbols'[i].unique = t[i].unique
           /\ symbols'[i].cookie = t[i].cookie
           /\ symbols'[i].linkage = t[i].linkage
  BY <1>4, <1>5, <1>8, SetDelimNode
<1>10. /\ HeadOf(symbols').name = n
       /\ HeadOf(symbols').unique = NextUnique(symbols)
       /\ HeadOf(symbols').cookie = NextCookie(symbols)
       /\ HeadOf(symbols').linkage # Internal
  BY <1>1, <1>4, <1>5, <1>9 DEF HeadOf, NoLinkage, Internal
<1>11. \A i \in 1 .. Len(symbols) : SameNode(symbols'[i], symbols[i])
  BY <1>1, <1>4, <1>9 DEF SameNode
<1>12. Len(symbols') = Len(symbols) + 1 /\ status' # "done"
  BY <1>2, <1>4, <1>9
<1>13. IdsOK' /\ issued' \in Seq([id: Nat, name: Name])
  BY <1>1, <1>2, <1>7, <1>10, <1>11, <1>12, AddIds
<1>14. TypeOK'
  BY <1>1, <1>2, <1>7, <1>13 DEF TypeOK, Table
<1> QED BY <1>7, <1>13, <1>14 DEF IInv, ScopesOK, FramesOK, CleanupOK, MarksOK

LEMMA ParameterStep ==
  ASSUME IInv, NEW n \in Name, Parameter(n)
  PROVE  IInv'
<1>1. /\ symbols \in Table /\ frames \in Seq(Frame) /\ ScopesOK(symbols, frames)
      /\ TypeOK /\ IdsOK /\ Len(symbols) \in Nat
  BY DEF IInv, TypeOK, Table
<1>2. /\ status = "ok" /\ Issue(n) /\ UNCHANGED <<frames, seen, status, generator>>
      /\ symbols' = Prepend(symbols, n)
  BY DEF Parameter
<1>3. /\ symbols' \in Table /\ Len(symbols') = Len(symbols) + 1
      /\ \A i \in 1 .. Len(symbols) : symbols'[i] = symbols[i]
  BY <1>1, <1>2, PrependNode
<1>4. HeadOf(symbols') = [name |-> n, unique |-> NextUnique(symbols),
                          cookie |-> NextCookie(symbols), delim |-> FALSE,
                          linkage |-> NoLinkage]
  BY <1>1, <1>2, PrependNode
<1>5. ScopesOK(symbols', frames')
  <2>1. ~ symbols'[Len(symbols) + 1].delim
    BY <1>3, <1>4 DEF HeadOf
  <2> QED BY <1>1, <1>2, <1>3, <2>1, ExtendScopes
<1>6. \A i \in 1 .. Len(symbols) : SameNode(symbols'[i], symbols[i])
  BY <1>3 DEF SameNode
<1>7. /\ HeadOf(symbols').name = n
      /\ HeadOf(symbols').unique = NextUnique(symbols)
      /\ HeadOf(symbols').cookie = NextCookie(symbols)
      /\ HeadOf(symbols').linkage # Internal
      /\ status' # "done"
  BY <1>2, <1>4 DEF NoLinkage, Internal
<1>8. IdsOK' /\ issued' \in Seq([id: Nat, name: Name])
  BY <1>1, <1>2, <1>3, <1>6, <1>7, AddIds
<1>9. TypeOK'
  BY <1>1, <1>2, <1>3, <1>8 DEF TypeOK, Table
<1> QED BY <1>5, <1>8, <1>9 DEF IInv, ScopesOK, FramesOK, CleanupOK, MarksOK

\* parse_init hands the largest ID over: the IR counts on from above it.
LEMMA FinishStep ==
  ASSUME IInv, Finish
  PROVE  IInv'
<1>1. /\ TypeOK /\ IdsOK /\ ScopesOK(symbols, frames) /\ symbols \in Table
  BY DEF IInv, TypeOK, Table
<1>2. symbols # <<>> => HeadOf(symbols).cookie \in Nat
  <2>1. symbols # <<>> => HeadOf(symbols) \in Symbol(Name)
    BY <1>1 DEF Table, HeadOf
  <2> QED BY <2>1 DEF Symbol
<1>3. TypeOK'
  BY <1>1, <1>2 DEF Finish, TypeOK
<1>4. ScopesOK(symbols, frames)'
  BY <1>1 DEF Finish, ScopesOK, FramesOK, CleanupOK, MarksOK
<1>5. BaseIdIsFresh'
  <2>1. issued \in Seq([id: Nat, name: Name])
    BY <1>1 DEF TypeOK
  <2>2. \A k \in 1 .. Len(issued) : issued[k] \in [id: Nat, name: Name]
    BY <2>1, ElementOfSeq
  <2>3. \A k \in 1 .. Len(issued) : issued[k].id \in Nat
    BY <2>2
  <2>4. CASE symbols = <<>>
    BY <1>1, <2>4 DEF IdsOK, IdsBelowCookie, BaseIdIsFresh, Finish
  <2>5. CASE symbols # <<>>
    <3>1. generator' = HeadOf(symbols).cookie /\ issued' = issued
      BY <2>5 DEF Finish
    <3>2. \A k \in 1 .. Len(issued) : issued[k].id =< HeadOf(symbols).cookie
      BY <1>1, <2>5 DEF IdsOK, IdsBelowCookie
    <3> QED BY <1>2, <2>3, <2>5, <3>1, <3>2 DEF BaseIdIsFresh
  <2> QED BY <2>4, <2>5
<1>6. IdsOK'
  BY <1>1, <1>5 DEF Finish, IdsOK, IdsBelowCookie, IdsNeverReused,
       NodesKeepTheirName, NoInternalLinkage, SharedIdIsOneObject
<1> QED BY <1>3, <1>4, <1>6 DEF IInv

\* A scope is open, so the table is not empty: activations have a mark.
LEMMA OpenScope ==
  ASSUME IInv, frames # <<>>
  PROVE  /\ TopFrame \in Frame
         /\ TopFrame.point \in 1 .. Len(symbols)
         /\ Len(symbols) \in 1 .. Len(symbols)
<1>1. symbols \in Table /\ frames \in Seq(Frame) /\ ScopesOK(symbols, frames)
  BY DEF IInv, TypeOK, Table
<1>2. TopFrame \in Frame /\ Len(frames) \in 1 .. Len(frames)
  BY <1>1 DEF TopFrame, Depth
<1>3. TopFrame.point \in Nat \ {0} /\ TopFrame.reset \in Nat \ {0}
  BY <1>2 DEF Frame
<1>4. TopFrame.point =< TopFrame.reset /\ TopFrame.reset =< Len(symbols)
  BY <1>1, <1>2 DEF ScopesOK, FramesOK, TopFrame, Depth
<1> QED BY <1>1, <1>2, <1>3, <1>4 DEF Table

LEMMA NextIInv == IInv /\ [Next]_vars => IInv'
<1> SUFFICES ASSUME IInv, [Next]_vars PROVE IInv'
  OBVIOUS
<1>1. ASSUME NEW n \in Name, Use(n) PROVE IInv'
  BY <1>1, UseStep
<1>2. ASSUME NEW n \in Name, OpenFunction(n) PROVE IInv'
  BY <1>2, OpenFunctionStep
<1>3. ASSUME NEW n \in Name, Parameter(n) PROVE IInv'
  BY <1>3, ParameterStep
<1>4. ASSUME NEW n \in Name, NEW ext \in BOOLEAN, NEW init \in Name \cup {NoName},
             Declare(n, ext, init)
      PROVE  IInv'
  BY <1>4, DeclareStep
<1>5. frames # <<>> =>
        /\ TopFrame \in Frame
        /\ TopFrame.point \in 1 .. Len(symbols)
        /\ Len(symbols) \in 1 .. Len(symbols)
  BY OpenScope
<1>6. CASE OpenBlock
  <2>1. frames # <<>> /\ status = "ok"
    BY <1>6 DEF OpenBlock, InBlock, FileScope
  <2>2. /\ symbols' = SetDelim(symbols, Len(symbols), TRUE)
        /\ frames' = Append(frames, Activation(symbols, "block", Len(symbols)))
        /\ UNCHANGED <<issued, seen, status, generator>>
    BY <1>6 DEF OpenBlock, Activation
  <2> QED BY <1>5, <2>1, <2>2, EnterStep
<1>7. CASE OpenBody
  <2>1. frames # <<>> /\ TopFrame.kind = "header" /\ status = "ok"
    BY <1>7 DEF OpenBody, InHeader, FileScope
  <2>2. /\ symbols' = SetDelim(symbols, TopFrame.point, TRUE)
        /\ frames' = Append(frames, Activation(symbols, "body", TopFrame.point))
        /\ UNCHANGED <<issued, seen, status, generator>>
    BY <1>7 DEF OpenBody, Activation
  <2> QED BY <1>5, <2>1, <2>2, EnterStep
<1>8. CASE CloseBlock
  BY <1>8, CloseStep DEF CloseBlock, InBlock, FileScope
<1>9. CASE CloseDeclaration
  BY <1>9, CloseStep DEF CloseDeclaration, InHeader, FileScope
<1>10. CASE CloseFunction
  BY <1>10, CloseFunctionStep
<1>11. CASE Finish
  BY <1>11, FinishStep
<1>12. CASE UNCHANGED vars
  BY <1>12 DEF vars, IInv, TypeOK, ScopesOK, FramesOK, CleanupOK, MarksOK, IdsOK,
       IdsBelowCookie, IdsNeverReused, NodesKeepTheirName, NoInternalLinkage,
       SharedIdIsOneObject, BaseIdIsFresh
<1> QED
  BY <1>1, <1>2, <1>3, <1>4, <1>6, <1>7, <1>8, <1>9, <1>10, <1>11, <1>12 DEF Next

LEMMA Invariance == Spec => []IInv
  BY InitIInv, NextIInv, PTL DEF Spec

(***************************************************************************)
(* The theorems.                                                           *)
(***************************************************************************)
\* The table, the activations and the histories keep their types; what a
\* lookup finds is a node of the table (resolve.c, symbol.c).
THEOREM TypeCorrect == Spec => []TypeOK
<1>1. IInv => TypeOK
  BY DEF IInv
<1> QED BY Invariance, <1>1, PTL

\* symbols_prepend never hands out an ID twice, whatever scopes
\* symbols_reset_scope has closed in between.
THEOREM IdsUnique == Spec => []IdsNeverReused
<1>1. IInv => IdsNeverReused
  BY DEF IInv, IdsOK
<1> QED BY Invariance, <1>1, PTL

\* Nodes that share an ID are re-declarations of one external object: the
\* stub of resolve_declaration aliases nothing else.
THEOREM SharingIsRedeclaration == Spec => []SharedIdIsOneObject
<1>1. IInv => SharedIdIsOneObject
  BY DEF IInv, IdsOK
<1> QED BY Invariance, <1>1, PTL

\* A node's ID was issued for its name.
THEOREM NamesKept == Spec => []NodesKeepTheirName
<1>1. IInv => NodesKeepTheirName
  BY DEF IInv, IdsOK
<1> QED BY Invariance, <1>1, PTL

\* level_delimiter_prepare and the cleanup of its two callers keep the marks
\* in step with the open scopes, also when a body shares its header's mark.
THEOREM MarksMatchScopes == Spec => []DelimitersMatchScopes
<1>1. IInv => DelimitersMatchScopes
  BY DEF IInv, ScopesOK, MarksOK, DelimitersMatchScopes, Depth
<1> QED BY Invariance, <1>1, PTL

\* The IDs main.c leaves to the temporaries of the IR are above all others.
THEOREM TemporariesAreFresh == Spec => []BaseIdIsFresh
<1>1. IInv => BaseIdIsFresh
  BY DEF IInv, IdsOK
<1> QED BY Invariance, <1>1, PTL

(***************************************************************************)
(* The walk over one list with marks in it implements the block-structured *)
(* scopes of module LexicalScope, for every program: what the list and its *)
(* marks stand for at each moment, what each operation of the list does to *)
(* that, and what its lookups find there.                                  *)
(***************************************************************************)

(***************************************************************************)
(* Where the scopes begin.                                                 *)
(***************************************************************************)
\* The file scope alone.
FilePoints == <<0>>

LEMMA AddPointType ==
  ASSUME NEW points \in Seq(Nat), NEW f \in Frame
  PROVE  AddPoint(points, f) \in Seq(Nat)
<1>1. f.point \in Nat
  BY DEF Frame
<1> QED BY <1>1, AppendProperties DEF AddPoint

\* The marks of the scopes, activation by activation.
LEMMA PointsTurns ==
  ASSUME NEW fr \in Seq(Frame)
  PROVE  /\ PointsOf(fr) \in [0 .. Len(fr) -> Seq(Nat)]
         /\ PointsOf(fr)[0] = FilePoints
         /\ \A i \in 1 .. Len(fr) :
              PointsOf(fr)[i] = AddPoint(PointsOf(fr)[i - 1], fr[i])
<1> DEFINE n == Len(fr)
           F == [x \in Seq(Nat) \X (1 .. n) |-> AddPoint(x[1], fr[x[2]])]
<1>1. n \in Nat /\ \A i \in 1 .. n : fr[i] \in Frame
  OBVIOUS
<1>2. ASSUME NEW x \in Seq(Nat) \X (1 .. n)
      PROVE  AddPoint(x[1], fr[x[2]]) \in Seq(Nat)
  <2>1. x[1] \in Seq(Nat) /\ x[2] \in 1 .. n
    OBVIOUS
  <2> QED BY <1>1, <2>1, AddPointType
<1>3. F \in [Seq(Nat) \X (1 .. n) -> Seq(Nat)]
  BY <1>2
<1>4. FilePoints \in Seq(Nat)
  BY DEF FilePoints
<1>5. PICK f : Recurs(f, n, Seq(Nat), FilePoints, F)
  <2> HIDE DEF F, n
  <2> QED BY <1>1, <1>3, <1>4, RecursionExists
<1>6. \A i \in 1 .. n : f[i] = AddPoint(f[i - 1], fr[i])
  <2> HIDE DEF F, n
  <2>1. f \in [0 .. n -> Seq(Nat)] /\ \A i \in 1 .. n : f[i] = F[<<f[i - 1], i>>]
    BY <1>5, Zenon DEF Recurs
  <2>2. \A i \in 1 .. n : i - 1 \in 0 .. n
    BY <1>1
  <2>3. \A i \in 1 .. n : f[i - 1] \in Seq(Nat)
    BY <2>1, <2>2
  <2>4. \A q \in Seq(Nat) : \A i \in 1 .. n : F[<<q, i>>] = AddPoint(q, fr[i])
    BY DEF F
  <2> QED BY <2>1, <2>3, <2>4
<1>7. f = [i \in 0 .. n |-> IF i = 0 THEN FilePoints ELSE AddPoint(f[i - 1], fr[i])]
  <2> HIDE DEF F
  <2> QED BY <1>5, <1>6 DEF Recurs
<1> DEFINE g == PointsOf(fr)
<1>8. g = [i \in 0 .. n |-> IF i = 0 THEN FilePoints ELSE AddPoint(g[i - 1], fr[i])]
  BY <1>7 DEF PointsOf, FilePoints
<1> HIDE DEF g, F
<1>9. g[0] = FilePoints /\ \A i \in 1 .. n : g[i] = AddPoint(g[i - 1], fr[i])
  BY <1>1, <1>8
<1> DEFINE T == {k \in 0 .. n : g[k] = f[k]}
<1>10. \A i \in 0 .. n : i \in T
  <2>1. 0 \in T
    BY <1>1, <1>5, <1>9 DEF Recurs
  <2>2. ASSUME NEW i \in 1 .. n, i - 1 \in T
        PROVE  i \in T
    BY <1>6, <1>9, <2>2
  <2> HIDE DEF T, n
  <2> QED BY <1>1, <2>1, <2>2, UpTo
<1>11. g = f
  BY <1>5, <1>8, <1>10 DEF Recurs
<1> QED BY <1>5, <1>6, <1>11 DEF g, Recurs

\* The marks of outer scopes do not depend on inner activations.
LEMMA PointsPrefix ==
  ASSUME NEW fr \in Seq(Frame), NEW gr \in Seq(Frame),
         NEW m \in Nat, m =< Len(fr), m =< Len(gr),
         \A k \in 1 .. m : fr[k] = gr[k]
  PROVE  PointsOf(fr)[m] = PointsOf(gr)[m]
<1> DEFINE T == {k \in 0 .. m : PointsOf(fr)[k] = PointsOf(gr)[k]}
<1>1. Len(fr) \in Nat /\ Len(gr) \in Nat
  OBVIOUS
<1>2. 0 \in T
  <2>1. PointsOf(fr)[0] = FilePoints /\ PointsOf(gr)[0] = FilePoints
    BY PointsTurns
  <2> QED BY <2>1
<1>3. ASSUME NEW i \in 1 .. m, i - 1 \in T
      PROVE  i \in T
  <2>1. i \in 1 .. Len(fr) /\ i \in 1 .. Len(gr)
    BY <1>1
  <2>2. PointsOf(fr)[i] = AddPoint(PointsOf(fr)[i - 1], fr[i])
    BY <2>1, PointsTurns
  <2>3. PointsOf(gr)[i] = AddPoint(PointsOf(gr)[i - 1], gr[i])
    BY <2>1, PointsTurns
  <2> QED BY <1>3, <2>2, <2>3
<1>4. \A i \in 0 .. m : i \in T
  <2> HIDE DEF T
  <2> QED BY <1>2, <1>3, UpTo
<1> QED BY <1>4

\* An activation adds its mark, one that ends takes it away.
LEMMA PointsAppend ==
  ASSUME NEW fr \in Seq(Frame), NEW f \in Frame
  PROVE  ScopePoints(Append(fr, f)) = AddPoint(ScopePoints(fr), f)
<1> DEFINE g == Append(fr, f)
<1>1. /\ g \in Seq(Frame) /\ Len(g) = Len(fr) + 1 /\ Len(fr) \in Nat
      /\ \A k \in 1 .. Len(fr) : g[k] = fr[k]
      /\ g[Len(fr) + 1] = f
  BY AppendProperties
<1> HIDE DEF g
<1>2. Len(g) \in 1 .. Len(g) /\ Len(g) - 1 = Len(fr)
  BY <1>1
<1>3. PointsOf(g)[Len(g)] = AddPoint(PointsOf(g)[Len(g) - 1], g[Len(g)])
  BY <1>1, <1>2, PointsTurns
<1>4. PointsOf(g)[Len(fr)] = PointsOf(fr)[Len(fr)]
  <2>1. Len(fr) =< Len(fr) /\ Len(fr) =< Len(g)
    BY <1>1
  <2> QED BY <1>1, <2>1, PointsPrefix
<1> QED BY <1>1, <1>2, <1>3, <1>4 DEF ScopePoints, g

LEMMA PointsPop ==
  ASSUME NEW fr \in Seq(Frame), fr # <<>>
  PROVE  ScopePoints(fr) =
           AddPoint(ScopePoints(SubSeq(fr, 1, Len(fr) - 1)), fr[Len(fr)])
<1> DEFINE g == SubSeq(fr, 1, Len(fr) - 1)
<1>1. /\ g \in Seq(Frame) /\ Len(g) = Len(fr) - 1 /\ Len(fr) \in Nat \ {0}
      /\ \A k \in 1 .. Len(fr) - 1 : g[k] = fr[k]
  BY AllButLast
<1> HIDE DEF g
<1>2. Len(fr) \in 1 .. Len(fr)
  BY <1>1
<1>3. PointsOf(fr)[Len(fr)] = AddPoint(PointsOf(fr)[Len(fr) - 1], fr[Len(fr)])
  BY <1>2, PointsTurns
<1>4. PointsOf(fr)[Len(fr) - 1] = PointsOf(g)[Len(fr) - 1]
  <2>1. /\ Len(fr) - 1 \in Nat /\ Len(fr) - 1 =< Len(fr) /\ Len(fr) - 1 =< Len(g)
        /\ \A k \in 1 .. Len(fr) - 1 : fr[k] = g[k]
    BY <1>1
  <2> QED BY <1>1, <2>1, PointsPrefix
<1> QED BY <1>1, <1>3, <1>4 DEF ScopePoints, g


(***************************************************************************)
(* The list as a stack of scopes.                                          *)
(***************************************************************************)
\* A function or a block begins at the head it goes back to; the body of a
\* function shares the mark of its header.
NestOK(fr) ==
  \A k \in 1 .. Len(fr) :
    /\ fr[k].kind # "body" => fr[k].point = fr[k].reset
    /\ fr[k].kind = "body" => k > 1 /\ fr[k].point = fr[k - 1].point

\* Scopes that begin one after the other in a table of n nodes.
Nested(points, n) ==
  /\ points \in Seq(Nat) /\ Len(points) \in Nat \ {0}
  /\ points[1] = 0
  /\ \A j, k \in 1 .. Len(points) : j =< k => points[j] =< points[k]
  /\ \A k \in 1 .. Len(points) : points[k] =< n

LEMMA NestedAppend ==
  ASSUME NEW points, NEW n \in Nat, Nested(points, n),
         NEW p \in Nat, points[Len(points)] =< p, p =< n
  PROVE  Nested(Append(points, p), n)
<1> DEFINE q == Append(points, p)
           m == Len(points)
<1>1. points \in Seq(Nat) /\ m \in Nat \ {0}
  BY DEF Nested
<1>2. /\ q \in Seq(Nat) /\ Len(q) = m + 1
      /\ \A k \in 1 .. m : q[k] = points[k]
      /\ q[m + 1] = p
  BY <1>1, AppendProperties
<1>3. \A k \in 1 .. m : points[k] \in Nat /\ points[k] =< p
  <2>1. ASSUME NEW k \in 1 .. m
        PROVE  points[k] \in Nat /\ points[k] =< p
    <3>1. points[k] \in Nat /\ points[m] \in Nat
      BY <1>1
    <3>2. points[k] =< points[m]
      BY <1>1 DEF Nested
    <3> QED BY <3>1, <3>2
  <2> QED BY <2>1
<1> HIDE DEF q
<1>4. q[1] = 0
  BY <1>1, <1>2 DEF Nested
<1>5. ASSUME NEW j \in 1 .. m + 1, NEW k \in 1 .. m + 1, j =< k
      PROVE  q[j] =< q[k]
  <2>1. CASE k \in 1 .. m
    <3>1. j \in 1 .. m
      BY <1>1, <1>5, <2>1
    <3> QED BY <1>2, <1>5, <2>1, <3>1 DEF Nested
  <2>2. CASE k = m + 1 /\ j \in 1 .. m
    BY <1>2, <1>3, <2>2
  <2>3. CASE k = m + 1 /\ j = m + 1
    BY <1>2, <2>3
  <2> QED BY <1>1, <2>1, <2>2, <2>3
<1>6. \A k \in 1 .. m + 1 : q[k] =< n
  BY <1>1, <1>2 DEF Nested
<1> QED BY <1>1, <1>2, <1>4, <1>5, <1>6 DEF Nested, q

\* After the first k activations.
GoodPoints(fr, k, n) ==
  /\ Nested(PointsOf(fr)[k], n)
  /\ PointsOf(fr)[k][Len(PointsOf(fr)[k])] = IF k = 0 THEN 0 ELSE fr[k].point
  /\ k # 0 => Len(PointsOf(fr)[k]) > 1

\* The scopes of the open activations begin one after the other, the last of
\* them at the mark of the innermost activation.
LEMMA PointsNested ==
  ASSUME NEW t \in Table, NEW fr \in Seq(Frame), ScopesOK(t, fr), NestOK(fr)
  PROVE  GoodPoints(fr, Len(fr), Len(t))
<1> DEFINE n == Len(t)
           T == {k \in 0 .. Len(fr) : GoodPoints(fr, k, n)}
<1>1. n \in Nat /\ Len(fr) \in Nat
  BY DEF Table
<1>2. 0 \in T
  <2>1. PointsOf(fr)[0] = FilePoints
    BY PointsTurns
  <2>2. /\ FilePoints \in Seq(Nat) /\ Len(FilePoints) = 1
        /\ FilePoints[1] = 0
    BY DEF FilePoints
  <2>3. Nested(FilePoints, n)
    BY <1>1, <2>2 DEF Nested
  <2>4. GoodPoints(fr, 0, n)
    BY <2>1, <2>2, <2>3 DEF GoodPoints
  <2> QED BY <1>1, <2>4
<1>3. \A k \in 1 .. Len(fr) :
        /\ fr[k] \in Frame
        /\ fr[k].point \in Nat \ {0} /\ fr[k].reset \in Nat \ {0}
        /\ fr[k].point =< fr[k].reset /\ fr[k].reset =< n
  <2>1. \A k \in 1 .. Len(fr) : fr[k] \in Frame
    OBVIOUS
  <2>2. \A k \in 1 .. Len(fr) : fr[k].point \in Nat \ {0} /\ fr[k].reset \in Nat \ {0}
    BY <2>1 DEF Frame
  <2> QED BY <2>1, <2>2 DEF ScopesOK, FramesOK
<1>4. ASSUME NEW k \in 1 .. Len(fr), k - 1 \in T
      PROVE  k \in T
  <2> DEFINE old == PointsOf(fr)[k - 1]
             new == PointsOf(fr)[k]
             p   == fr[k].point
  <2>1. new = AddPoint(old, fr[k])
    BY PointsTurns
  <2>2. GoodPoints(fr, k - 1, n)
    BY <1>4
  <2>3. /\ Nested(old, n)
        /\ old[Len(old)] = IF k - 1 = 0 THEN 0 ELSE fr[k - 1].point
        /\ k - 1 # 0 => Len(old) > 1
    BY <2>2 DEF GoodPoints
  <2> HIDE DEF old, new
  <2>4. CASE fr[k].kind = "body"
    <3>1. k > 1 /\ p = fr[k - 1].point
      BY <2>4 DEF NestOK
    <3>2. new = old
      BY <2>1, <2>4 DEF AddPoint
    <3>3. Nested(new, n) /\ new[Len(new)] = p /\ Len(new) > 1
      BY <2>3, <3>1, <3>2
    <3> QED BY <3>3 DEF GoodPoints, new
  <2>5. CASE fr[k].kind # "body"
    <3>1. new = Append(old, p)
      BY <2>1, <2>5 DEF AddPoint
    <3>2. p = fr[k].reset
      BY <2>5 DEF NestOK
    <3>3. old[Len(old)] =< p
      <4>1. CASE k = 1
        BY <1>3, <2>3, <4>1
      <4>2. CASE k # 1
        <5>1. k - 1 \in 1 .. Len(fr) /\ k - 1 =< k /\ k - 1 # 0
          BY <1>1, <4>2
        <5>2. fr[k - 1].reset =< fr[k].reset
          BY <5>1 DEF ScopesOK, FramesOK
        <5>3. fr[k - 1].point =< fr[k - 1].reset /\ fr[k - 1].point \in Nat
              /\ fr[k - 1].reset \in Nat /\ fr[k].reset \in Nat
          BY <1>3, <5>1
        <5>4. old[Len(old)] = fr[k - 1].point
          BY <2>3, <5>1
        <5> HIDE DEF p
        <5> QED BY <3>2, <5>2, <5>3, <5>4
      <4> QED BY <4>1, <4>2
    <3>4. p \in Nat /\ p =< n
      BY <1>1, <1>3, <3>2
    <3> HIDE DEF p
    <3>5. Nested(Append(old, p), n)
      BY <1>1, <2>3, <3>3, <3>4, NestedAppend
    <3>6. old \in Seq(Nat) /\ Len(old) \in Nat \ {0}
      BY <2>3 DEF Nested
    <3>7. new[Len(new)] = p /\ Len(new) > 1
      BY <3>1, <3>4, <3>6, AppendProperties
    <3>8. Nested(new, n) /\ new[Len(new)] = fr[k].point /\ Len(new) > 1
      BY <3>1, <3>5, <3>7 DEF p
    <3> QED BY <3>8 DEF GoodPoints, new
  <2> QED BY <2>4, <2>5
<1>5. \A k \in 0 .. Len(fr) : k \in T
  <2> HIDE DEF T
  <2> QED BY <1>1, <1>2, <1>4, UpTo
<1>6. Len(fr) \in T
  <2> HIDE DEF T
  <2> QED BY <1>1, <1>5
<1> QED BY <1>6

\* The same about ScopePoints, and what the marks say: the innermost scope
\* begins at the last one.
LEMMA ScopePointsNested ==
  ASSUME NEW t \in Table, NEW fr \in Seq(Frame), ScopesOK(t, fr), NestOK(fr)
  PROVE  LET points == ScopePoints(fr)
             last   == points[Len(points)]
         IN  /\ Nested(points, Len(t))
             /\ last \in Nat
             /\ last = IF fr = <<>> THEN 0 ELSE fr[Len(fr)].point
             /\ fr = <<>> => Len(points) = 1
             /\ fr # <<>> => Len(points) > 1
             /\ \A i \in 1 .. Len(t) : t[i].delim => i =< last
             /\ last # 0 => t[last].delim
<1> DEFINE points == ScopePoints(fr)
           last == points[Len(points)]
           m == Len(fr)
<1>1. m \in Nat /\ Len(t) \in Nat /\ (fr = <<>> <=> m = 0)
  BY DEF Table
<1>2. /\ Nested(points, Len(t))
      /\ last = IF m = 0 THEN 0 ELSE fr[m].point
      /\ m # 0 => Len(points) > 1
  BY PointsNested DEF GoodPoints, ScopePoints
<1>3. fr = <<>> => Len(points) = 1
  <2>1. PointsOf(fr)[0] = FilePoints
    BY PointsTurns
  <2>2. Len(FilePoints) = 1
    BY DEF FilePoints
  <2>3. fr = <<>> => points = FilePoints
    BY <1>1, <2>1 DEF ScopePoints
  <2> QED BY <2>2, <2>3
<1> HIDE DEF points
<1>4. points \in Seq(Nat) /\ Len(points) \in Nat \ {0} /\ Len(points) \in 1 .. Len(points)
  BY <1>2 DEF Nested
<1>5. last \in Nat /\ last =< Len(t)
  BY <1>2, <1>4 DEF Nested
<1>6. \A k \in 1 .. m : fr[k].point \in Nat \ {0}
  <2>1. \A k \in 1 .. m : fr[k] \in Frame
    OBVIOUS
  <2> QED BY <2>1 DEF Frame
<1> HIDE DEF last
<1>7. last # 0 => t[last].delim
  <2> SUFFICES ASSUME last # 0
               PROVE  t[last].delim
    OBVIOUS
  <2>1. m \in 1 .. m /\ last = fr[m].point /\ last \in 1 .. Len(t)
    BY <1>1, <1>2, <1>5
  <2> QED BY <2>1 DEF ScopesOK, MarksOK
\* No activation has its mark above that of the innermost one.
<1>8. ASSUME NEW k \in 1 .. m
      PROVE  fr[k].point =< last
  <2>3. PICK e \in Nat : e = m - k
    BY <1>1
  <2> DEFINE T == {i \in 0 .. e : fr[k].point =< fr[k + i].point}
  <2>1. 0 \in T
    BY <1>1, <1>6
  <2>2. ASSUME NEW i \in 1 .. e, i - 1 \in T
        PROVE  i \in T
    <3>1. k + i \in 1 .. m /\ k + i - 1 \in 1 .. m /\ k + (i - 1) = k + i - 1
          /\ k + i - 1 =< k + i
      BY <1>1, <2>3
    <3>2. fr[k].point =< fr[k + i - 1].point
      BY <2>2, <3>1
    <3>3. fr[k + i - 1].point =< fr[k + i].point
      <4>1. CASE fr[k + i].kind = "body"
        <5>1. fr[k + i].point = fr[k + i - 1].point
          BY <3>1, <4>1 DEF NestOK
        <5> QED BY <1>6, <3>1, <5>1
      <4>2. CASE fr[k + i].kind # "body"
        <5>1. fr[k + i].point = fr[k + i].reset
          BY <3>1, <4>2 DEF NestOK
        <5>2. /\ fr[k + i - 1].point =< fr[k + i - 1].reset
              /\ fr[k + i - 1].reset =< fr[k + i].reset
          BY <3>1 DEF ScopesOK, FramesOK
        <5>3. \A j \in 1 .. m : fr[j].reset \in Nat
          <6>1. \A j \in 1 .. m : fr[j] \in Frame
            OBVIOUS
          <6> QED BY <6>1 DEF Frame
        <5> QED BY <1>6, <3>1, <5>1, <5>2, <5>3
      <4> QED BY <4>1, <4>2
    <3>4. fr[k].point \in Nat /\ fr[k + i - 1].point \in Nat /\ fr[k + i].point \in Nat
      BY <1>6, <3>1
    <3>5. fr[k].point =< fr[k + i].point
      BY <3>2, <3>3, <3>4
    <3> QED BY <1>1, <3>5
  <2>4. \A i \in 0 .. e : i \in T
    <3> HIDE DEF T
    <3> QED BY <2>1, <2>2, <2>3, UpTo
  <2>5. fr[k].point =< fr[k + e].point
    BY <2>4
  <2>6. k + e = m /\ m # 0
    BY <1>1, <2>3
  <2> QED BY <1>2, <2>5, <2>6
<1>9. \A i \in 1 .. Len(t) : t[i].delim => i =< last
  BY <1>8 DEF ScopesOK, MarksOK
<1> QED BY <1>1, <1>2, <1>3, <1>5, <1>7, <1>9 DEF last, points


(***************************************************************************)
(* The bindings of a scope.                                                *)
(***************************************************************************)
Binding == [name: Name, id: Nat, linked: BOOLEAN]

LEMMA BindingAtType ==
  ASSUME NEW t \in Table, NEW i \in 1 .. Len(t)
  PROVE  /\ BindingAt(t, i) \in Binding
         /\ BindingAt(t, i).name = t[i].name
         /\ BindingAt(t, i).id = t[i].unique
         /\ BindingAt(t, i).linked <=> t[i].linkage = External
<1>1. t[i] \in Symbol(Name)
  BY DEF Table
<1>2. t[i].name \in Name /\ t[i].unique \in Nat
  BY <1>1 DEF Symbol
<1>3. (t[i].linkage = External) \in BOOLEAN
  OBVIOUS
<1> QED BY <1>2, <1>3 DEF BindingAt, Binding

\* Where scope k ends in table t.
EndOf(t, points, k) == IF k = Len(points) THEN Len(t) ELSE points[k + 1]

LEMMA EndOfIs ==
  ASSUME NEW t \in Table, NEW points, Nested(points, Len(t)),
         NEW k \in 1 .. Len(points)
  PROVE  /\ points[k] \in Nat /\ EndOf(t, points, k) \in Nat
         /\ points[k] =< EndOf(t, points, k) /\ EndOf(t, points, k) =< Len(t)
<1>1. Len(t) \in Nat /\ points \in Seq(Nat) /\ Len(points) \in Nat \ {0}
  BY DEF Table, Nested
<1>2. points[k] \in Nat /\ points[k] =< Len(t)
  BY <1>1 DEF Nested
<1>3. CASE k = Len(points)
  BY <1>1, <1>2, <1>3 DEF EndOf
<1>4. CASE k # Len(points)
  <2>1. k + 1 \in 1 .. Len(points) /\ k =< k + 1
    BY <1>1, <1>4
  <2>2. points[k + 1] \in Nat /\ points[k] =< points[k + 1] /\ points[k + 1] =< Len(t)
    BY <1>1, <2>1 DEF Nested
  <2> QED BY <1>2, <1>4, <2>2 DEF EndOf
<1> QED BY <1>3, <1>4

LEMMA ScopeBetweenType ==
  ASSUME NEW t \in Table, NEW lo \in Nat, NEW hi \in Nat, hi =< Len(t)
  PROVE  ScopeBetween(t, lo, hi) \in SUBSET Binding
<1>1. Len(t) \in Nat
  BY DEF Table
<1>2. \A i \in lo + 1 .. hi : i \in 1 .. Len(t)
  BY <1>1
<1>3. \A i \in lo + 1 .. hi : BindingAt(t, i) \in Binding
  BY <1>2, BindingAtType
<1> QED BY <1>3 DEF ScopeBetween

LEMMA ScopesOfIs ==
  ASSUME NEW t \in Table, NEW points, Nested(points, Len(t))
  PROVE  /\ ScopesOf(t, points) \in Seq(SUBSET Binding)
         /\ Len(ScopesOf(t, points)) = Len(points)
         /\ \A k \in 1 .. Len(points) :
              ScopesOf(t, points)[k] =
                ScopeBetween(t, points[k], EndOf(t, points, k))
<1> DEFINE n == Len(points)
           f == [k \in 1 .. n |-> ScopeBetween(t, points[k], EndOf(t, points, k))]
<1>1. n \in Nat
  BY DEF Nested
<1>2. \A k \in 1 .. n :
        ScopeBetween(t, points[k], EndOf(t, points, k)) \in SUBSET Binding
  BY EndOfIs, ScopeBetweenType
<1>3. /\ f \in Seq(SUBSET Binding) /\ Len(f) = n
      /\ \A k \in 1 .. n : f[k] = ScopeBetween(t, points[k], EndOf(t, points, k))
  BY <1>1, <1>2
<1>4. ScopesOf(t, points) = <<>> \o f
  BY DEF ScopesOf, EndOf
<1> HIDE DEF f
<1>5. <<>> \o f = f
  BY <1>3, ConcatEmptySeq
<1> QED BY <1>3, <1>4, <1>5

\* Node i is the last one of name n among those from lo + 1 to hi.
IsLast(t, n, lo, hi, i) ==
  /\ i \in lo + 1 .. hi
  /\ t[i].name = n
  /\ \A j \in i + 1 .. hi : t[j].name # n

LEMMA SomeIsLast ==
  ASSUME NEW t, NEW n, NEW lo \in Nat, NEW hi \in Nat,
         NEW j \in lo + 1 .. hi, t[j].name = n
  PROVE  \E i \in j .. hi : IsLast(t, n, lo, hi, i)
<1> DEFINE T == {i \in 1 .. hi : i >= j /\ t[i].name = n}
<1>1. j \in T /\ T \in SUBSET (1 .. hi)
  OBVIOUS
<1>2. PICK i \in T : \A k \in T : k =< i
  <2> HIDE DEF T
  <2> QED BY <1>1, LastPosition
<1>3. i \in j .. hi /\ i \in lo + 1 .. hi /\ t[i].name = n
  BY <1>2
<1>4. ASSUME NEW k \in i + 1 .. hi
      PROVE  t[k].name # n
  <2>1. k \in 1 .. hi /\ k >= j /\ ~ (k =< i)
    BY <1>3
  <2> QED BY <1>2, <2>1
<1> QED BY <1>3, <1>4 DEF IsLast

\* What a scope binds a name to is the last node of that name.
LEMMA BindingOfLast ==
  ASSUME NEW t, NEW n, NEW lo \in Nat, NEW hi \in Nat, NEW i,
         IsLast(t, n, lo, hi, i)
  PROVE  /\ n \in Abstract!Names(ScopeBetween(t, lo, hi))
         /\ Abstract!BindingOf(ScopeBetween(t, lo, hi), n) = BindingAt(t, i)
<1> DEFINE sc == ScopeBetween(t, lo, hi)
<1>1. BindingAt(t, i) \in sc
  BY DEF IsLast, ScopeBetween
<1>2. BindingAt(t, i).name = n
  BY DEF IsLast, BindingAt
<1>3. ASSUME NEW b \in sc, b.name = n
      PROVE  b = BindingAt(t, i)
  <2>1. PICK j \in lo + 1 .. hi : /\ b = BindingAt(t, j)
                                 /\ \A k \in j + 1 .. hi : t[k].name # t[j].name
    BY <1>3 DEF ScopeBetween
  <2>2. t[j].name = n
    BY <1>3, <2>1 DEF BindingAt
  <2>3. i \in lo + 1 .. hi /\ i \in Int /\ j \in Int
    BY DEF IsLast
  <2>4. ~ (j < i)
    BY <2>1, <2>2, <2>3 DEF IsLast
  <2>5. ~ (i < j)
    BY <2>1, <2>2, <2>3 DEF IsLast
  <2> QED BY <2>1, <2>3, <2>4, <2>5
<1> HIDE DEF sc
<1>4. n \in Abstract!Names(sc)
  BY <1>1, <1>2 DEF Abstract!Names
<1>5. Abstract!BindingOf(sc, n) = BindingAt(t, i)
  BY <1>1, <1>2, <1>3 DEF Abstract!BindingOf
<1> QED BY <1>4, <1>5 DEF sc

LEMMA NamesHaveLast ==
  ASSUME NEW t, NEW n, NEW lo \in Nat, NEW hi \in Nat,
         n \in Abstract!Names(ScopeBetween(t, lo, hi))
  PROVE  \E i : IsLast(t, n, lo, hi, i)
<1>1. PICK j \in lo + 1 .. hi : t[j].name = n
  BY DEF Abstract!Names, ScopeBetween, BindingAt
<1> QED BY <1>1, SomeIsLast


(***************************************************************************)
(* Lookups.                                                                *)
(***************************************************************************)
\* What symbols_get_impl finds among the nodes it reaches.
LEMMA GetIsLast ==
  ASSUME NEW t \in Table, NEW n, NEW limited \in BOOLEAN,
         NEW lo \in Nat,
         \A i \in 1 .. Len(t) : Reaches(t, i, limited) <=> i > lo
  PROVE  /\ Get(t, n, limited) = 0 => \A i \in lo + 1 .. Len(t) : t[i].name # n
         /\ Get(t, n, limited) # 0 => IsLast(t, n, lo, Len(t), Get(t, n, limited))
<1> DEFINE hits == Hits(t, n, limited)
           g == Get(t, n, limited)
<1>1. Len(t) \in Nat
  BY DEF Table
<1>2. \A i : i \in hits <=> i \in lo + 1 .. Len(t) /\ t[i].name = n
  BY <1>1 DEF Hits
<1>3. hits \in SUBSET (1 .. Len(t))
  BY DEF Hits
<1>4. g = IF hits = {} THEN 0 ELSE CHOOSE i \in hits : \A j \in hits : j =< i
  BY DEF Get
<1> HIDE DEF hits, g
<1>5. CASE hits = {}
  <2>1. g = 0
    BY <1>4, <1>5
  <2> QED BY <1>2, <1>5, <2>1 DEF g
<1>6. CASE hits # {}
  <2>1. \E i \in hits : \A j \in hits : j =< i
    BY <1>1, <1>3, <1>6, LastPosition
  <2>2. g \in hits /\ \A j \in hits : j =< g
    BY <1>4, <1>6, <2>1
  <2>3. g \in lo + 1 .. Len(t) /\ t[g].name = n
    BY <1>2, <2>2
  <2>4. ASSUME NEW j \in g + 1 .. Len(t)
        PROVE  t[j].name # n
    <3>1. j \in lo + 1 .. Len(t) /\ ~ (j =< g)
      BY <1>1, <2>3
    <3> QED BY <1>2, <2>2, <3>1
  <2>5. IsLast(t, n, lo, Len(t), g)
    BY <2>3, <2>4 DEF IsLast
  <2>6. g # 0
    BY <2>3
  <2> QED BY <2>5, <2>6 DEF g
<1> QED BY <1>5, <1>6

\* An unlimited lookup sees the whole list.
LEMMA GetAnywhereIs ==
  ASSUME NEW t \in Table, NEW n
  PROVE  /\ GetAnywhere(t, n) = 0 => \A i \in 1 .. Len(t) : t[i].name # n
         /\ GetAnywhere(t, n) # 0 => IsLast(t, n, 0, Len(t), GetAnywhere(t, n))
<1>1. PICK b \in BOOLEAN : b = FALSE /\ ~ b
  OBVIOUS
<1>2. GetAnywhere(t, n) = Get(t, n, b)
  BY <1>1 DEF GetAnywhere
<1>3. \A i \in 1 .. Len(t) : Reaches(t, i, b)
  BY <1>1 DEF Reaches
<1>4. PICK z \in Nat : z = 0
  OBVIOUS
<1>5. \A i \in 1 .. Len(t) : Reaches(t, i, b) <=> i > z
  BY <1>3, <1>4 DEF Table
<1>6. /\ Get(t, n, b) = 0 => \A i \in z + 1 .. Len(t) : t[i].name # n
      /\ Get(t, n, b) # 0 => IsLast(t, n, z, Len(t), Get(t, n, b))
  BY <1>5, GetIsLast
<1>7. z + 1 = 1
  BY <1>4
<1> QED BY <1>2, <1>4, <1>6, <1>7

\* A limited one sees the innermost scope.
LEMMA GetLimitedIs ==
  ASSUME NEW t \in Table, NEW n, NEW last \in Nat,
         \A i \in 1 .. Len(t) : t[i].delim => i =< last,
         last # 0 => t[last].delim, last =< Len(t)
  PROVE  /\ GetLimited(t, n) = 0 => \A i \in last + 1 .. Len(t) : t[i].name # n
         /\ GetLimited(t, n) # 0 => IsLast(t, n, last, Len(t), GetLimited(t, n))
<1>1. PICK b \in BOOLEAN : b = TRUE /\ b
  OBVIOUS
<1>2. GetLimited(t, n) = Get(t, n, b)
  BY <1>1 DEF GetLimited
<1>3. Len(t) \in Nat
  BY DEF Table
<1>4. ASSUME NEW i \in 1 .. Len(t)
      PROVE  Reaches(t, i, b) <=> i > last
  <2>1. Reaches(t, i, b) <=> \A j \in i .. Len(t) : ~ t[j].delim
    BY <1>1 DEF Reaches
  <2>2. CASE i > last
    <3>1. \A j \in i .. Len(t) : j \in 1 .. Len(t) /\ ~ (j =< last)
      BY <1>3, <2>2
    <3> QED BY <2>1, <2>2, <3>1
  <2>3. CASE ~ (i > last)
    <3>1. last \in i .. Len(t) /\ last # 0
      BY <1>3, <2>3
    <3> QED BY <2>1, <2>3, <3>1
  <2> QED BY <2>2, <2>3
<1>5. /\ Get(t, n, b) = 0 => \A i \in last + 1 .. Len(t) : t[i].name # n
      /\ Get(t, n, b) # 0 => IsLast(t, n, last, Len(t), Get(t, n, b))
  BY <1>4, GetIsLast
<1> QED BY <1>2, <1>5

\* Each node belongs to a scope, the last one that begins below it.
LEMMA ScopeOfNode ==
  ASSUME NEW t \in Table, NEW points, Nested(points, Len(t)), NEW i \in 1 .. Len(t)
  PROVE  \E k \in 1 .. Len(points) :
           /\ points[k] < i /\ i =< EndOf(t, points, k)
           /\ \A j \in 1 .. Len(points) : k < j => i =< points[j]
<1> DEFINE T == {k \in 1 .. Len(points) : points[k] < i}
<1>1. /\ points \in Seq(Nat) /\ Len(points) \in Nat \ {0} /\ points[1] = 0
      /\ Len(t) \in Nat
  BY DEF Nested, Table
<1>2. 1 \in T /\ T \in SUBSET (1 .. Len(points))
  BY <1>1
<1>3. PICK k \in T : \A j \in T : j =< k
  <2> HIDE DEF T
  <2> QED BY <1>1, <1>2, LastPosition
<1>4. k \in 1 .. Len(points) /\ points[k] < i
  OBVIOUS
<1>5. ASSUME NEW j \in 1 .. Len(points), k < j
      PROVE  i =< points[j]
  <2>1. j \notin T
    BY <1>3, <1>5
  <2>2. points[j] \in Nat
    BY <1>1
  <2> QED BY <2>1, <2>2
<1>6. i =< EndOf(t, points, k)
  <2>1. CASE k = Len(points)
    BY <1>1, <2>1 DEF EndOf
  <2>2. CASE k # Len(points)
    <3>1. k + 1 \in 1 .. Len(points) /\ k < k + 1
      BY <1>1, <2>2
    <3> QED BY <1>5, <2>2, <3>1 DEF EndOf
  <2> QED BY <2>1, <2>2
<1> QED BY <1>4, <1>5, <1>6

DepthsIn(sc, n) == {k \in 1 .. Len(sc) : n \in Abstract!Names(sc[k])}

Innermost(sc, n) == CHOOSE k \in DepthsIn(sc, n) : \A j \in DepthsIn(sc, n) : j =< k

VisibleIn(sc, n) == Abstract!BindingOf(sc[Innermost(sc, n)], n)

\* An unlimited lookup finds the innermost scope that binds the name.
LEMMA LookupIs ==
  ASSUME NEW t \in Table, NEW points, Nested(points, Len(t)), NEW n
  PROVE  /\ GetAnywhere(t, n) = 0 <=> DepthsIn(ScopesOf(t, points), n) = {}
         /\ GetAnywhere(t, n) # 0 =>
              /\ GetAnywhere(t, n) \in 1 .. Len(t)
              /\ VisibleIn(ScopesOf(t, points), n) = BindingAt(t, GetAnywhere(t, n))
<1> DEFINE sc == ScopesOf(t, points)
           g == GetAnywhere(t, n)
<1>1. Len(t) \in Nat /\ Len(points) \in Nat /\ points \in Seq(Nat)
  BY DEF Table, Nested
<1>2. /\ Len(sc) = Len(points)
      /\ \A k \in 1 .. Len(points) :
           sc[k] = ScopeBetween(t, points[k], EndOf(t, points, k))
  BY ScopesOfIs
<1>3. /\ g = 0 => \A i \in 1 .. Len(t) : t[i].name # n
      /\ g # 0 => IsLast(t, n, 0, Len(t), g)
  BY GetAnywhereIs
<1> HIDE DEF sc, g
\* A scope that binds the name has a node of that name.
<1>4. ASSUME NEW k \in DepthsIn(sc, n)
      PROVE  /\ k \in 1 .. Len(points)
             /\ \E i \in 1 .. Len(t) : points[k] < i /\ t[i].name = n
  <2>1. k \in 1 .. Len(points) /\ n \in Abstract!Names(sc[k])
    BY <1>2 DEF DepthsIn
  <2>2. /\ points[k] \in Nat /\ EndOf(t, points, k) \in Nat
        /\ EndOf(t, points, k) =< Len(t)
    BY <2>1, EndOfIs
  <2>3. n \in Abstract!Names(ScopeBetween(t, points[k], EndOf(t, points, k)))
    BY <1>2, <2>1
  <2>4. PICK i : IsLast(t, n, points[k], EndOf(t, points, k), i)
    BY <2>2, <2>3, NamesHaveLast
  <2>5. i \in points[k] + 1 .. EndOf(t, points, k) /\ t[i].name = n
    BY <2>4 DEF IsLast
  <2>6. i \in 1 .. Len(t) /\ points[k] < i
    BY <1>1, <2>2, <2>5
  <2> QED BY <2>1, <2>5, <2>6
<1>5. CASE g = 0
  <2>1. DepthsIn(sc, n) = {}
    BY <1>3, <1>4, <1>5
  <2> QED BY <1>5, <2>1 DEF sc, g
<1>6. CASE g # 0
  <2>1. /\ g \in 1 .. Len(t) /\ t[g].name = n
        /\ \A j \in g + 1 .. Len(t) : t[j].name # n
    BY <1>3, <1>6 DEF IsLast
  <2>2. PICK k \in 1 .. Len(points) :
             /\ points[k] < g /\ g =< EndOf(t, points, k)
             /\ \A j \in 1 .. Len(points) : k < j => g =< points[j]
    BY <2>1, ScopeOfNode
  <2>3. /\ points[k] \in Nat /\ EndOf(t, points, k) \in Nat
        /\ EndOf(t, points, k) =< Len(t)
    BY EndOfIs
  <2>4. IsLast(t, n, points[k], EndOf(t, points, k), g)
    <3>1. g \in points[k] + 1 .. EndOf(t, points, k)
      BY <1>1, <2>1, <2>2, <2>3
    <3>2. \A j \in g + 1 .. EndOf(t, points, k) : j \in g + 1 .. Len(t)
      BY <1>1, <2>1, <2>3
    <3> QED BY <2>1, <3>1, <3>2 DEF IsLast
  <2>5. /\ n \in Abstract!Names(sc[k])
        /\ Abstract!BindingOf(sc[k], n) = BindingAt(t, g)
    BY <1>2, <2>3, <2>4, BindingOfLast
  <2>6. k \in DepthsIn(sc, n)
    BY <1>2, <2>5 DEF DepthsIn
  <2>7. ASSUME NEW j \in DepthsIn(sc, n)
        PROVE  j =< k
    <3>1. j \in 1 .. Len(points)
      BY <1>4
    <3>2. PICK i \in 1 .. Len(t) : points[j] < i /\ t[i].name = n
      BY <1>4
    <3>3. ~ (g < i)
      BY <1>1, <2>1, <3>2
    <3>4. points[j] \in Nat
      BY <1>1, <3>1
    <3>5. ~ (k < j)
      BY <1>1, <2>1, <2>2, <3>1, <3>2, <3>3, <3>4
    <3> QED BY <1>1, <3>1, <3>5
  <2>8. \A j \in DepthsIn(sc, n) : j \in Int
    BY <1>4
  <2>9. Innermost(sc, n) = k
    <3>1. \A j \in DepthsIn(sc, n) : (\A i \in DepthsIn(sc, n) : i =< j) => j = k
      BY <2>6, <2>7, <2>8
    <3> QED BY <2>6, <2>7, <3>1 DEF Innermost
  <2>10. VisibleIn(sc, n) = BindingAt(t, g)
    BY <2>5, <2>9 DEF VisibleIn
  <2> QED BY <1>6, <2>1, <2>6, <2>10 DEF sc, g
<1> QED BY <1>5, <1>6

\* A limited lookup finds what the innermost scope binds.
LEMMA TopIs ==
  ASSUME NEW t \in Table, NEW points, Nested(points, Len(t)), NEW n,
         \A i \in 1 .. Len(t) : t[i].delim => i =< points[Len(points)],
         points[Len(points)] # 0 => t[points[Len(points)]].delim
  PROVE  LET top == ScopesOf(t, points)[Len(points)]
             g   == GetLimited(t, n)
         IN  /\ g = 0 <=> n \notin Abstract!Names(top)
             /\ g # 0 => /\ g \in 1 .. Len(t)
                         /\ Abstract!BindingOf(top, n) = BindingAt(t, g)
<1> DEFINE m == Len(points)
           top == ScopesOf(t, points)[m]
           g == GetLimited(t, n)
<1>1. Len(t) \in Nat /\ m \in 1 .. m /\ points \in Seq(Nat)
  BY DEF Table, Nested
<1>2. points[m] \in Nat /\ points[m] =< Len(t)
  BY <1>1 DEF Nested
<1>3. top = ScopeBetween(t, points[m], Len(t))
  <2>1. top = ScopeBetween(t, points[m], EndOf(t, points, m))
    BY <1>1, ScopesOfIs
  <2> QED BY <2>1 DEF EndOf
<1>4. /\ g = 0 => \A i \in points[m] + 1 .. Len(t) : t[i].name # n
      /\ g # 0 => IsLast(t, n, points[m], Len(t), g)
  BY <1>2, GetLimitedIs
<1> HIDE DEF top, g
<1>5. CASE g = 0
  <2>1. n \notin Abstract!Names(top)
    <3>1. n \in Abstract!Names(top) =>
            \E i : IsLast(t, n, points[m], Len(t), i)
      BY <1>1, <1>2, <1>3, NamesHaveLast
    <3> QED BY <1>4, <1>5, <3>1 DEF IsLast
  <2> QED BY <1>5, <2>1 DEF top, g
<1>6. CASE g # 0
  <2>1. IsLast(t, n, points[m], Len(t), g)
    BY <1>4, <1>6
  <2>2. n \in Abstract!Names(top) /\ Abstract!BindingOf(top, n) = BindingAt(t, g)
    BY <1>1, <1>2, <1>3, <2>1, BindingOfLast
  <2>3. g \in 1 .. Len(t)
    BY <1>1, <1>2, <2>1 DEF IsLast
  <2> QED BY <1>6, <2>2, <2>3 DEF top, g
<1> QED BY <1>5, <1>6


(***************************************************************************)
(* What the operations of the list do to the scopes.                       *)
(***************************************************************************)
\* Marks and cookies do not matter.
LEMMA SameBetween ==
  ASSUME NEW s, NEW t, NEW lo \in Nat, NEW hi \in Nat,
         \A i \in lo + 1 .. hi : SameNode(s[i], t[i])
  PROVE  ScopeBetween(s, lo, hi) = ScopeBetween(t, lo, hi)
<1>1. \A i \in lo + 1 .. hi : BindingAt(s, i) = BindingAt(t, i)
  BY DEF SameNode, BindingAt
<1>2. ASSUME NEW i \in lo + 1 .. hi
      PROVE  (\A j \in i + 1 .. hi : s[j].name # s[i].name)
               <=> \A j \in i + 1 .. hi : t[j].name # t[i].name
  <2>1. \A j \in i + 1 .. hi : j \in lo + 1 .. hi
    OBVIOUS
  <2>2. \A j \in lo + 1 .. hi : s[j].name = t[j].name
    BY DEF SameNode
  <2> QED BY <2>1, <2>2
<1> QED BY <1>1, <1>2 DEF ScopeBetween

LEMMA NestedIn ==
  ASSUME NEW points, NEW n \in Nat, NEW m \in Nat, Nested(points, n), n =< m
  PROVE  Nested(points, m)
<1>1. \A k \in 1 .. Len(points) : points[k] \in Nat /\ points[k] =< n
  BY DEF Nested
<1>2. \A k \in 1 .. Len(points) : points[k] =< m
  BY <1>1
<1> QED BY <1>2 DEF Nested

\* Only marks have changed.
LEMMA SameScopes ==
  ASSUME NEW s \in Table, NEW t \in Table, Len(s) = Len(t),
         \A i \in 1 .. Len(t) : SameNode(s[i], t[i]),
         NEW points, Nested(points, Len(t))
  PROVE  ScopesOf(s, points) = ScopesOf(t, points)
<1> DEFINE a == ScopesOf(s, points)
           b == ScopesOf(t, points)
<1>1. /\ a \in Seq(SUBSET Binding) /\ Len(a) = Len(points)
      /\ \A k \in 1 .. Len(points) :
           a[k] = ScopeBetween(s, points[k], EndOf(s, points, k))
  BY ScopesOfIs
<1>2. /\ b \in Seq(SUBSET Binding) /\ Len(b) = Len(points)
      /\ \A k \in 1 .. Len(points) :
           b[k] = ScopeBetween(t, points[k], EndOf(t, points, k))
  BY ScopesOfIs
<1> HIDE DEF a, b
<1>3. ASSUME NEW k \in 1 .. Len(points)
      PROVE  a[k] = b[k]
  <2>1. EndOf(s, points, k) = EndOf(t, points, k)
    BY DEF EndOf
  <2>2. /\ points[k] \in Nat /\ EndOf(t, points, k) \in Nat
        /\ EndOf(t, points, k) =< Len(t)
    BY EndOfIs
  <2>3. \A i \in points[k] + 1 .. EndOf(t, points, k) : SameNode(s[i], t[i])
    <3>1. Len(t) \in Nat
      BY DEF Table
    <3>2. \A i \in points[k] + 1 .. EndOf(t, points, k) : i \in 1 .. Len(t)
      BY <2>2, <3>1
    <3> QED BY <3>2
  <2>4. ScopeBetween(s, points[k], EndOf(t, points, k))
          = ScopeBetween(t, points[k], EndOf(t, points, k))
    BY <2>2, <2>3, SameBetween
  <2> QED BY <1>1, <1>2, <2>1, <2>4
<1>4. a = b
  BY <1>1, <1>2, <1>3, SeqEqual
<1> QED BY <1>4 DEF a, b

\* Without nodes there are no bindings.
LEMMA EmptyScope ==
  ASSUME NEW t, NEW lo \in Nat
  PROVE  ScopeBetween(t, lo, lo) = {}
<1>1. lo + 1 .. lo = {}
  OBVIOUS
<1> QED BY <1>1 DEF ScopeBetween

\* A mark on the head opens a scope, empty so far.
LEMMA PushIs ==
  ASSUME NEW t \in Table, NEW points, Nested(points, Len(t))
  PROVE  /\ Nested(Append(points, Len(t)), Len(t))
         /\ ScopesOf(t, Append(points, Len(t))) = Append(ScopesOf(t, points), {})
<1> DEFINE q == Append(points, Len(t))
           m == Len(points)
           a == ScopesOf(t, q)
           b == ScopesOf(t, points)
           c == Append(b, {})
<1>1. Len(t) \in Nat /\ points \in Seq(Nat) /\ m \in Nat \ {0}
  BY DEF Table, Nested
<1>2. /\ q \in Seq(Nat) /\ Len(q) = m + 1
      /\ \A k \in 1 .. m : q[k] = points[k]
      /\ q[m + 1] = Len(t)
  BY <1>1, AppendProperties
<1>3. Nested(q, Len(t))
  <2>1. points[m] \in Nat /\ points[m] =< Len(t) /\ Len(t) =< Len(t)
    BY <1>1 DEF Nested
  <2> QED BY <1>1, <2>1, NestedAppend
<1> HIDE DEF q
<1>4. /\ a \in Seq(SUBSET Binding) /\ Len(a) = m + 1
      /\ \A k \in 1 .. m + 1 : a[k] = ScopeBetween(t, q[k], EndOf(t, q, k))
  BY <1>2, <1>3, ScopesOfIs
<1>5. /\ b \in Seq(SUBSET Binding) /\ Len(b) = m
      /\ \A k \in 1 .. m : b[k] = ScopeBetween(t, points[k], EndOf(t, points, k))
  BY ScopesOfIs
<1> HIDE DEF a, b
<1>6. /\ c \in Seq(SUBSET Binding) /\ Len(c) = m + 1
      /\ \A k \in 1 .. m : c[k] = b[k]
      /\ c[m + 1] = {}
  <2>1. {} \in SUBSET Binding
    OBVIOUS
  <2> QED BY <1>5, <2>1, AppendProperties
<1> HIDE DEF c
<1>7. ASSUME NEW k \in 1 .. m + 1
      PROVE  a[k] = c[k]
  <2>1. CASE k = m + 1
    <3>1. EndOf(t, q, k) = Len(t)
      BY <1>2, <2>1 DEF EndOf
    <3>2. a[k] = ScopeBetween(t, Len(t), Len(t))
      BY <1>2, <1>4, <2>1, <3>1
    <3> QED BY <1>1, <1>6, <2>1, <3>2, EmptyScope
  <2>2. CASE k \in 1 .. m
    <3>1. EndOf(t, q, k) = EndOf(t, points, k)
      <4>1. CASE k = m
        BY <1>1, <1>2, <4>1 DEF EndOf
      <4>2. CASE k # m
        <5>1. k + 1 \in 1 .. m /\ k # m + 1
          BY <1>1, <2>2, <4>2
        <5> QED BY <1>2, <4>2, <5>1 DEF EndOf
      <4> QED BY <4>1, <4>2
    <3> QED BY <1>2, <1>4, <1>5, <1>6, <2>2, <3>1
  <2> QED BY <1>1, <2>1, <2>2
<1>8. a = c
  BY <1>4, <1>6, <1>7, SeqEqual
<1> QED BY <1>3, <1>8 DEF a, b, c, q

\* Back to the head where the innermost scope began: that scope is gone.
LEMMA PopIs ==
  ASSUME NEW s \in Table, NEW t \in Table, Len(s) =< Len(t),
         \A i \in 1 .. Len(s) : SameNode(s[i], t[i]),
         NEW points, Nested(points, Len(t)), points[Len(points)] =< Len(s)
  PROVE  /\ Nested(points, Len(s))
         /\ ScopesOf(s, points) =
              SubSeq(ScopesOf(t, Append(points, Len(s))), 1, Len(points))
<1> DEFINE q == Append(points, Len(s))
           m == Len(points)
           a == ScopesOf(s, points)
           b == ScopesOf(t, q)
           c == SubSeq(b, 1, m)
<1>1. Len(s) \in Nat /\ Len(t) \in Nat /\ points \in Seq(Nat) /\ m \in Nat \ {0}
  BY DEF Table, Nested
<1>2. /\ q \in Seq(Nat) /\ Len(q) = m + 1
      /\ \A k \in 1 .. m : q[k] = points[k]
      /\ q[m + 1] = Len(s)
  BY <1>1, AppendProperties
<1>3. Nested(q, Len(t))
  BY <1>1, NestedAppend
<1>4. Nested(points, Len(s))
  <2>1. \A k \in 1 .. m : points[k] =< Len(s)
    <3>1. \A k \in 1 .. m : /\ points[k] \in Nat /\ points[m] \in Nat
                            /\ points[k] =< points[m]
      BY <1>1 DEF Nested
    <3> QED BY <1>1, <3>1
  <2> QED BY <2>1 DEF Nested
<1> HIDE DEF q
<1>5. /\ a \in Seq(SUBSET Binding) /\ Len(a) = m
      /\ \A k \in 1 .. m : a[k] = ScopeBetween(s, points[k], EndOf(s, points, k))
  BY <1>4, ScopesOfIs
<1>6. /\ b \in Seq(SUBSET Binding) /\ Len(b) = m + 1
      /\ \A k \in 1 .. m + 1 : b[k] = ScopeBetween(t, q[k], EndOf(t, q, k))
  BY <1>2, <1>3, ScopesOfIs
<1> HIDE DEF a, b
<1>7. /\ c \in Seq(SUBSET Binding) /\ Len(c) = m
      /\ \A k \in 1 .. m : c[k] = b[k]
  <2>1. \A k \in 1 .. m : b[k] \in SUBSET Binding
    BY <1>1, <1>6
  <2>2. 1 \in Int /\ m \in Int /\ 1 =< m
    BY <1>1
  <2>3. /\ c \in Seq(SUBSET Binding)
        /\ Len(c) = IF 1 =< m THEN m - 1 + 1 ELSE 0
        /\ \A k \in 1 .. m - 1 + 1 : c[k] = b[1 + k - 1]
    BY <2>1, <2>2, SubSeqProperties
  <2> HIDE DEF c
  <2>4. m - 1 + 1 = m /\ \A k \in 1 .. m : 1 + k - 1 = k
    BY <1>1
  <2> QED BY <2>2, <2>3, <2>4
<1> HIDE DEF c
<1>8. ASSUME NEW k \in 1 .. m
      PROVE  a[k] = c[k]
  <2>1. EndOf(t, q, k) = EndOf(s, points, k)
    <3>1. CASE k = m
      BY <1>1, <1>2, <3>1 DEF EndOf
    <3>2. CASE k # m
      <4>1. k + 1 \in 1 .. m /\ k # m + 1
        BY <1>1, <3>2
      <4> QED BY <1>2, <3>2, <4>1 DEF EndOf
    <3> QED BY <3>1, <3>2
  <2>2. /\ points[k] \in Nat /\ EndOf(s, points, k) \in Nat
        /\ EndOf(s, points, k) =< Len(s)
    BY <1>4, EndOfIs
  <2>3. \A i \in points[k] + 1 .. EndOf(s, points, k) : i \in 1 .. Len(s)
    BY <1>1, <2>2
  <2>4. ScopeBetween(s, points[k], EndOf(s, points, k))
          = ScopeBetween(t, points[k], EndOf(s, points, k))
    BY <2>2, <2>3, SameBetween
  <2>5. k \in 1 .. m + 1
    BY <1>1
  <2> QED BY <1>2, <1>5, <1>6, <1>7, <2>1, <2>4, <2>5
<1>9. a = c
  BY <1>5, <1>7, <1>8, SeqEqual
<1> QED BY <1>4, <1>9 DEF a, b, c, q

\* A new head binds its name in the scope it is in.
LEMMA ExtendBetween ==
  ASSUME NEW s, NEW t, NEW lo \in Nat, NEW hi \in Nat, lo =< hi,
         \A i \in lo + 1 .. hi : SameNode(s[i], t[i])
  PROVE  ScopeBetween(s, lo, hi + 1) =
           Abstract!WithBinding(ScopeBetween(t, lo, hi), BindingAt(s, hi + 1))
<1> DEFINE n == s[hi + 1].name
           old == ScopeBetween(s, lo, hi)
<1>1. ScopeBetween(t, lo, hi) = old
  BY SameBetween
<1>2. BindingAt(s, hi + 1).name = n
  BY DEF BindingAt
<1>3. Abstract!WithBinding(old, BindingAt(s, hi + 1)) =
        {c \in old : c.name # n} \cup {BindingAt(s, hi + 1)}
  BY <1>2 DEF Abstract!WithBinding
<1>4. ASSUME NEW b \in ScopeBetween(s, lo, hi + 1)
      PROVE  b \in {c \in old : c.name # n} \cup {BindingAt(s, hi + 1)}
  <2>1. PICK i \in lo + 1 .. hi + 1 :
             /\ b = BindingAt(s, i)
             /\ \A j \in i + 1 .. hi + 1 : s[j].name # s[i].name
    BY DEF ScopeBetween
  <2>2. CASE i = hi + 1
    BY <2>1, <2>2
  <2>3. CASE i # hi + 1
    <3>1. i \in lo + 1 .. hi /\ hi + 1 \in i + 1 .. hi + 1
      BY <2>3
    <3>2. \A j \in i + 1 .. hi : j \in i + 1 .. hi + 1
      OBVIOUS
    <3>3. b \in old
      BY <2>1, <3>1, <3>2 DEF ScopeBetween
    <3>4. b.name # n
      BY <2>1, <3>1 DEF BindingAt
    <3> QED BY <3>3, <3>4
  <2> QED BY <2>2, <2>3
<1>5. ASSUME NEW b \in old, b.name # n
      PROVE  b \in ScopeBetween(s, lo, hi + 1)
  <2>1. PICK i \in lo + 1 .. hi :
             /\ b = BindingAt(s, i)
             /\ \A j \in i + 1 .. hi : s[j].name # s[i].name
    BY DEF ScopeBetween
  <2>2. s[i].name # n
    BY <1>5, <2>1 DEF BindingAt
  <2>3. ASSUME NEW j \in i + 1 .. hi + 1
        PROVE  s[j].name # s[i].name
    <3>1. CASE j = hi + 1
      BY <2>2, <3>1
    <3>2. CASE j # hi + 1
      <4>1. j \in i + 1 .. hi
        BY <3>2
      <4> QED BY <2>1, <4>1
    <3> QED BY <3>1, <3>2
  <2>4. i \in lo + 1 .. hi + 1
    OBVIOUS
  <2> QED BY <2>1, <2>3, <2>4 DEF ScopeBetween
<1>6. BindingAt(s, hi + 1) \in ScopeBetween(s, lo, hi + 1)
  <2>1. hi + 1 \in lo + 1 .. hi + 1 /\ hi + 1 + 1 .. hi + 1 = {}
    OBVIOUS
  <2> QED BY <2>1 DEF ScopeBetween
<1> HIDE DEF old, n
<1> QED BY <1>1, <1>3, <1>4, <1>5, <1>6

LEMMA ExtendIs ==
  ASSUME NEW s \in Table, NEW t \in Table, Len(s) = Len(t) + 1,
         \A i \in 1 .. Len(t) : SameNode(s[i], t[i]),
         NEW points, Nested(points, Len(t))
  PROVE  /\ Nested(points, Len(s))
         /\ ScopesOf(s, points) =
              [ScopesOf(t, points) EXCEPT ![Len(points)] =
                 Abstract!WithBinding(@, BindingAt(s, Len(s)))]
<1> DEFINE m == Len(points)
           a == ScopesOf(s, points)
           b == ScopesOf(t, points)
           e == Abstract!WithBinding(b[m], BindingAt(s, Len(s)))
           c == [b EXCEPT ![m] = e]
<1>1. /\ Len(s) \in Nat /\ Len(t) \in Nat /\ points \in Seq(Nat) /\ m \in Nat \ {0}
      /\ m \in 1 .. m
  BY DEF Table, Nested
<1>2. Nested(points, Len(s))
  BY <1>1, NestedIn
<1>3. /\ a \in Seq(SUBSET Binding) /\ Len(a) = m
      /\ \A k \in 1 .. m : a[k] = ScopeBetween(s, points[k], EndOf(s, points, k))
  BY <1>2, ScopesOfIs
<1>4. /\ b \in Seq(SUBSET Binding) /\ Len(b) = m
      /\ \A k \in 1 .. m : b[k] = ScopeBetween(t, points[k], EndOf(t, points, k))
  BY ScopesOfIs
<1> HIDE DEF a, b
<1>5. a[m] = e
  <2>1. points[m] \in Nat /\ points[m] =< Len(t)
    BY <1>1 DEF Nested
  <2>2. EndOf(s, points, m) = Len(t) + 1 /\ EndOf(t, points, m) = Len(t)
    BY DEF EndOf
  <2>3. a[m] = ScopeBetween(s, points[m], Len(t) + 1)
        /\ b[m] = ScopeBetween(t, points[m], Len(t))
    BY <1>1, <1>3, <1>4, <2>2
  <2>4. \A i \in points[m] + 1 .. Len(t) : SameNode(s[i], t[i])
    BY <1>1, <2>1
  <2>5. ScopeBetween(s, points[m], Len(t) + 1) =
          Abstract!WithBinding(ScopeBetween(t, points[m], Len(t)),
                               BindingAt(s, Len(t) + 1))
    BY <1>1, <2>1, <2>4, ExtendBetween
  <2> QED BY <2>3, <2>5
<1>6. e \in SUBSET Binding
  BY <1>1, <1>3, <1>5
<1> HIDE DEF e
<1>7. /\ c \in Seq(SUBSET Binding) /\ Len(c) = m
      /\ \A k \in 1 .. m : c[k] = IF k = m THEN e ELSE b[k]
  BY <1>1, <1>4, <1>6, ExceptSeq
<1> HIDE DEF c
<1>8. ASSUME NEW k \in 1 .. m
      PROVE  a[k] = c[k]
  <2>1. CASE k = m
    BY <1>5, <1>7, <2>1
  <2>2. CASE k # m
    <3>1. EndOf(s, points, k) = EndOf(t, points, k)
      BY <2>2 DEF EndOf
    <3>2. /\ points[k] \in Nat /\ EndOf(t, points, k) \in Nat
          /\ EndOf(t, points, k) =< Len(t)
      BY EndOfIs
    <3>3. \A i \in points[k] + 1 .. EndOf(t, points, k) : i \in 1 .. Len(t)
      BY <1>1, <3>2
    <3>4. ScopeBetween(s, points[k], EndOf(t, points, k))
            = ScopeBetween(t, points[k], EndOf(t, points, k))
      BY <3>2, <3>3, SameBetween
    <3> QED BY <1>3, <1>4, <1>7, <2>2, <3>1, <3>4
  <2> QED BY <2>1, <2>2
<1>9. a = c
  BY <1>3, <1>7, <1>8, SeqEqual
<1> QED BY <1>2, <1>9 DEF a, b, c, e


(***************************************************************************)
(* The activations keep to their marks.                                    *)
(***************************************************************************)
LEMMA NestAppend ==
  ASSUME NEW fr \in Seq(Frame), NestOK(fr), NEW f \in Frame,
         f.kind # "body" => f.point = f.reset,
         f.kind = "body" => fr # <<>> /\ f.point = fr[Len(fr)].point
  PROVE  NestOK(Append(fr, f))
<1> DEFINE g == Append(fr, f)
           m == Len(fr)
<1>1. /\ g \in Seq(Frame) /\ Len(g) = m + 1 /\ m \in Nat
      /\ \A k \in 1 .. m : g[k] = fr[k]
      /\ g[m + 1] = f
  BY AppendProperties
<1> HIDE DEF g
<1>2. ASSUME NEW k \in 1 .. m + 1
      PROVE  /\ g[k].kind # "body" => g[k].point = g[k].reset
             /\ g[k].kind = "body" => k > 1 /\ g[k].point = g[k - 1].point
  <2>1. CASE k = m + 1
    <3>1. fr # <<>> => m \in 1 .. m /\ k > 1 /\ k - 1 = m
      BY <1>1, <2>1
    <3> QED BY <1>1, <2>1, <3>1
  <2>2. CASE k \in 1 .. m
    <3>1. k > 1 => k - 1 \in 1 .. m
      BY <1>1, <2>2
    <3> QED BY <1>1, <2>2, <3>1 DEF NestOK
  <2> QED BY <1>1, <2>1, <2>2
<1>3. NestOK(g)
  BY <1>1, <1>2 DEF NestOK
<1> QED BY <1>3 DEF g

LEMMA NestPop ==
  ASSUME NEW fr \in Seq(Frame), NestOK(fr), fr # <<>>
  PROVE  NestOK(SubSeq(fr, 1, Len(fr) - 1))
<1> DEFINE g == SubSeq(fr, 1, Len(fr) - 1)
<1>1. /\ g \in Seq(Frame) /\ Len(g) = Len(fr) - 1 /\ Len(fr) \in Nat \ {0}
      /\ \A k \in 1 .. Len(fr) - 1 : g[k] = fr[k]
  BY AllButLast
<1> HIDE DEF g
<1>2. ASSUME NEW k \in 1 .. Len(g)
      PROVE  /\ g[k].kind # "body" => g[k].point = g[k].reset
             /\ g[k].kind = "body" => k > 1 /\ g[k].point = g[k - 1].point
  <2>1. k \in 1 .. Len(fr) /\ g[k] = fr[k] /\ (k > 1 => g[k - 1] = fr[k - 1])
    BY <1>1
  <2> QED BY <2>1 DEF NestOK
<1>3. NestOK(g)
  BY <1>2 DEF NestOK
<1> QED BY <1>3 DEF g

RInv == IInv /\ NestOK(frames)

\* An activation as the actions write it.
LEMMA ActivationIs ==
  ASSUME NEW t \in Table, NEW p \in 1 .. Len(t),
         NEW kind \in {"header", "body", "block"}
  PROVE  /\ Activation(t, kind, p) \in Frame
         /\ Activation(t, kind, p).kind = kind
         /\ Activation(t, kind, p).point = p
         /\ Activation(t, kind, p).reset = Len(t)
<1>1. Len(t) \in Nat \ {0} /\ p \in Nat \ {0}
  BY DEF Table
<1>2. Prepares(t, p) \in BOOLEAN
  BY DEF Prepares
<1> QED BY <1>1, <1>2 DEF Activation, Frame

\* What every state of the walk has.
LEMMA StateView ==
  ASSUME RInv
  PROVE  /\ symbols \in Table /\ Len(symbols) \in Nat
         /\ frames \in Seq(Frame) /\ Len(frames) \in Nat
         /\ ScopesOK(symbols, frames) /\ NestOK(frames)
         /\ \A k \in 1 .. Len(frames) :
              /\ frames[k] \in Frame
              /\ frames[k].point \in 1 .. Len(symbols)
              /\ frames[k].reset \in 1 .. Len(symbols)
<1>1. /\ symbols \in Table /\ Len(symbols) \in Nat
      /\ frames \in Seq(Frame) /\ Len(frames) \in Nat
      /\ ScopesOK(symbols, frames) /\ NestOK(frames)
  BY DEF RInv, IInv, TypeOK, Table
<1>2. ASSUME NEW k \in 1 .. Len(frames)
      PROVE  /\ frames[k] \in Frame
             /\ frames[k].point \in 1 .. Len(symbols)
             /\ frames[k].reset \in 1 .. Len(symbols)
  <2>1. frames[k] \in Frame
    BY <1>1
  <2>2. frames[k].point \in Nat \ {0} /\ frames[k].reset \in Nat \ {0}
    BY <2>1 DEF Frame
  <2>3. frames[k].point =< frames[k].reset /\ frames[k].reset =< Len(symbols)
    BY <1>1 DEF ScopesOK, FramesOK
  <2> QED BY <1>1, <2>1, <2>2, <2>3
<1> QED BY <1>1, <1>2

LEMMA NextNest ==
  ASSUME RInv, [Next]_vars
  PROVE  NestOK(frames')
<1>1. /\ symbols \in Table /\ Len(symbols) \in Nat
      /\ frames \in Seq(Frame) /\ Len(frames) \in Nat
      /\ NestOK(frames)
      /\ \A k \in 1 .. Len(frames) : frames[k] \in Frame
      /\ \A k \in 1 .. Len(frames) : frames[k].point \in 1 .. Len(symbols)
  BY StateView
<1>2. CASE frames' = frames
  BY <1>1, <1>2
<1>3. frames # <<>> => Len(frames) \in 1 .. Len(frames) /\ Len(symbols) \in 1 .. Len(symbols)
  <2>1. frames # <<>> => Len(frames) \in 1 .. Len(frames)
    BY <1>1
  <2> QED BY <1>1, <2>1
<1>4. CASE OpenBlock
  <2>1. frames' = Append(frames, Activation(symbols, "block", Len(symbols)))
        /\ frames # <<>>
    BY <1>4 DEF OpenBlock, Activation, InBlock, FileScope
  <2> QED BY <1>1, <1>3, <2>1, ActivationIs, NestAppend
<1>5. ASSUME NEW n \in Name, OpenFunction(n)
      PROVE  NestOK(frames')
  <2> DEFINE t == Prepend(symbols, n)
  <2>1. frames' = Append(frames, Activation(t, "header", Len(t)))
    BY <1>5 DEF OpenFunction, Activation
  <2>2. t \in Table /\ Len(t) = Len(symbols) + 1
    BY <1>1, PrependNode
  <2> HIDE DEF t
  <2>3. Len(t) \in 1 .. Len(t)
    BY <1>1, <2>2
  <2> QED BY <1>1, <2>1, <2>2, <2>3, ActivationIs, NestAppend
<1>6. CASE OpenBody
  <2>1. /\ frames # <<>>
        /\ frames' = Append(frames,
                       Activation(symbols, "body", frames[Len(frames)].point))
    BY <1>6 DEF OpenBody, Activation, InHeader, FileScope, TopFrame, Depth
  <2>2. frames[Len(frames)].point \in 1 .. Len(symbols)
    BY <1>1, <1>3, <2>1
  <2> QED BY <1>1, <2>1, <2>2, ActivationIs, NestAppend
<1>7. CASE frames # <<>> /\ frames' = Popped(1)
  BY <1>1, <1>7, NestPop DEF Popped, Depth
<1>8. CASE CloseFunction
  <2> DEFINE m == Len(frames)
             g == SubSeq(frames, 1, m - 1)
  <2>1. frames # <<>> /\ frames[m].kind = "body" /\ frames' = SubSeq(frames, 1, m - 2)
    BY <1>8 DEF CloseFunction, InBlock, FileScope, TopFrame, Popped, Depth
  <2>2. m > 1
    BY <1>1, <1>3, <2>1 DEF NestOK
  <2>3. g \in Seq(Frame) /\ Len(g) = m - 1
    BY <1>1, <2>1, AllButLast
  <2>4. NestOK(g)
    BY <1>1, <2>1, NestPop
  <2>5. SubSeq(g, 1, Len(g) - 1) = frames'
    BY <1>1, <2>1, <2>2, <2>3
  <2> HIDE DEF g
  <2>6. g # <<>>
    BY <1>1, <2>2, <2>3
  <2> QED BY <2>3, <2>4, <2>5, <2>6, NestPop
<1>9. CASE UNCHANGED vars
  BY <1>2, <1>9 DEF vars
<1>10. CASE Next
  <2>1. ASSUME NEW n \in Name, Use(n) \/ Parameter(n)
        PROVE  NestOK(frames')
    BY <1>2, <2>1 DEF Use, Parameter
  <2>2. ASSUME NEW n \in Name, NEW ext \in BOOLEAN, NEW init \in Name \cup {NoName},
               Declare(n, ext, init)
        PROVE  NestOK(frames')
    BY <1>2, <2>2 DEF Declare
  <2>3. CASE CloseBlock \/ CloseDeclaration
    BY <1>7, <2>3 DEF CloseBlock, CloseDeclaration, InBlock, InHeader, FileScope
  <2>4. CASE Finish
    BY <1>2, <2>4 DEF Finish
  <2> QED BY <1>4, <1>5, <1>6, <1>8, <1>10, <2>1, <2>2, <2>3, <2>4 DEF Next
<1> QED BY <1>9, <1>10

LEMMA RInvariance == Spec => []RInv
<1>1. Init => NestOK(frames)
  BY DEF Init, NestOK
<1>2. Init => RInv
  BY <1>1, InitIInv DEF RInv
<1>3. RInv /\ [Next]_vars => RInv'
  BY NextIInv, NextNest DEF RInv, NestOK
<1> QED BY <1>2, <1>3, PTL DEF Spec


(***************************************************************************)
(* Every step of the walk is a step of the scopes.                         *)
(***************************************************************************)
Points == ScopePoints(frames)

Used == {issued[k].id : k \in 1 .. Len(issued)}

\* The scopes of a state, and the marks that limit a lookup.
LEMMA ScopesView ==
  ASSUME RInv
  PROVE  /\ AbstractScopes = ScopesOf(symbols, Points)
         /\ Nested(Points, Len(symbols))
         /\ Len(Points) \in Nat \ {0}
         /\ AbstractScopes \in Seq(SUBSET Binding)
         /\ Len(AbstractScopes) = Len(Points)
         /\ Points[Len(Points)] \in Nat
         /\ Points[Len(Points)] = IF frames = <<>> THEN 0 ELSE frames[Len(frames)].point
         /\ frames = <<>> => Len(Points) = 1
         /\ frames # <<>> => Len(Points) > 1
         /\ \A i \in 1 .. Len(symbols) : symbols[i].delim => i =< Points[Len(Points)]
         /\ Points[Len(Points)] # 0 => symbols[Points[Len(Points)]].delim
<1>1. /\ symbols \in Table /\ frames \in Seq(Frame)
      /\ ScopesOK(symbols, frames) /\ NestOK(frames)
  BY StateView
<1>2. /\ Nested(Points, Len(symbols))
      /\ Points[Len(Points)] \in Nat
      /\ Points[Len(Points)] = IF frames = <<>> THEN 0 ELSE frames[Len(frames)].point
      /\ frames = <<>> => Len(Points) = 1
      /\ frames # <<>> => Len(Points) > 1
      /\ \A i \in 1 .. Len(symbols) : symbols[i].delim => i =< Points[Len(Points)]
      /\ Points[Len(Points)] # 0 => symbols[Points[Len(Points)]].delim
  BY <1>1, ScopePointsNested DEF Points
<1>3. AbstractScopes = ScopesOf(symbols, Points)
  BY DEF AbstractScopes, Points
<1>4. AbstractScopes \in Seq(SUBSET Binding) /\ Len(AbstractScopes) = Len(Points)
  BY <1>1, <1>2, <1>3, ScopesOfIs
<1>5. Len(Points) \in Nat \ {0}
  BY <1>2 DEF Nested
<1> QED BY <1>2, <1>3, <1>4, <1>5

\* An usage sees what the innermost scope with the name binds it to.
LEMMA SeenIs ==
  ASSUME RInv, NEW n
  PROVE  /\ GetAnywhere(symbols, n) = 0 <=> Abstract!Depths(n) = {}
         /\ GetAnywhere(symbols, n) # 0 =>
              /\ GetAnywhere(symbols, n) \in 1 .. Len(symbols)
              /\ Abstract!Visible(n) = BindingAt(symbols, GetAnywhere(symbols, n))
<1>1. symbols \in Table
  BY StateView
<1>2. AbstractScopes = ScopesOf(symbols, Points) /\ Nested(Points, Len(symbols))
  BY ScopesView
<1>3. Abstract!Depths(n) = DepthsIn(AbstractScopes, n)
  BY DEF Abstract!Depths, DepthsIn
<1>4. Abstract!Visible(n) = VisibleIn(AbstractScopes, n)
  BY <1>3 DEF Abstract!Visible, VisibleIn, Innermost
<1>5. /\ GetAnywhere(symbols, n) = 0 <=> DepthsIn(ScopesOf(symbols, Points), n) = {}
      /\ GetAnywhere(symbols, n) # 0 =>
           /\ GetAnywhere(symbols, n) \in 1 .. Len(symbols)
           /\ VisibleIn(ScopesOf(symbols, Points), n)
                = BindingAt(symbols, GetAnywhere(symbols, n))
  BY <1>1, <1>2, LookupIs
<1> QED BY <1>2, <1>3, <1>4, <1>5

\* The same after the step, for the initializer of a declaration.
LEMMA SeenNext ==
  ASSUME RInv', NEW n
  PROVE  /\ GetAnywhere(symbols', n) = 0 <=> Abstract!Depths(n)' = {}
         /\ GetAnywhere(symbols', n) # 0 =>
              /\ GetAnywhere(symbols', n) \in 1 .. Len(symbols')
              /\ Abstract!Visible(n)' = BindingAt(symbols', GetAnywhere(symbols', n))
<1>1. symbols' \in Table /\ frames' \in Seq(Frame)
      /\ ScopesOK(symbols', frames') /\ NestOK(frames')
  BY DEF RInv, IInv, TypeOK, Table, ScopesOK, FramesOK, CleanupOK, MarksOK, NestOK
<1> DEFINE points == ScopePoints(frames')
<1>2. Nested(points, Len(symbols'))
  BY <1>1, ScopePointsNested
<1> HIDE DEF points
<1>3. AbstractScopes' = ScopesOf(symbols', points)
  BY DEF AbstractScopes, points
<1>4. Abstract!Depths(n)' = DepthsIn(AbstractScopes', n)
  BY DEF Abstract!Depths, DepthsIn
<1>5. Abstract!Visible(n)' = VisibleIn(AbstractScopes', n)
  BY <1>4 DEF Abstract!Visible, VisibleIn, Innermost
<1>6. /\ GetAnywhere(symbols', n) = 0 <=> DepthsIn(ScopesOf(symbols', points), n) = {}
      /\ GetAnywhere(symbols', n) # 0 =>
           /\ GetAnywhere(symbols', n) \in 1 .. Len(symbols')
           /\ VisibleIn(ScopesOf(symbols', points), n)
                = BindingAt(symbols', GetAnywhere(symbols', n))
  BY <1>1, <1>2, LookupIs
<1> QED BY <1>3, <1>4, <1>5, <1>6

\* What the innermost scope binds.
LEMMA TopView ==
  ASSUME RInv, NEW n
  PROVE  /\ GetLimited(symbols, n) = 0 <=> n \notin Abstract!Names(Abstract!Top)
         /\ GetLimited(symbols, n) # 0 =>
              /\ GetLimited(symbols, n) \in 1 .. Len(symbols)
              /\ Abstract!BindingOf(Abstract!Top, n)
                   = BindingAt(symbols, GetLimited(symbols, n))
<1>1. symbols \in Table
  BY StateView
<1>2. /\ AbstractScopes = ScopesOf(symbols, Points) /\ Nested(Points, Len(symbols))
      /\ Len(AbstractScopes) = Len(Points)
      /\ \A i \in 1 .. Len(symbols) : symbols[i].delim => i =< Points[Len(Points)]
      /\ Points[Len(Points)] # 0 => symbols[Points[Len(Points)]].delim
  BY ScopesView
<1> DEFINE top == ScopesOf(symbols, Points)[Len(Points)]
<1>3. Abstract!Top = top
  BY <1>2 DEF Abstract!Top
<1>4. /\ GetLimited(symbols, n) = 0 <=> n \notin Abstract!Names(top)
      /\ GetLimited(symbols, n) # 0 =>
           /\ GetLimited(symbols, n) \in 1 .. Len(symbols)
           /\ Abstract!BindingOf(top, n) = BindingAt(symbols, GetLimited(symbols, n))
  BY <1>1, <1>2, TopIs
<1> HIDE DEF top
<1> QED BY <1>3, <1>4

LEMMA UseImplements ==
  ASSUME RInv, NEW n \in Name, Use(n)
  PROVE  Abstract!Use(n) \/ Abstract!Undeclared(n)
<1> DEFINE g == GetAnywhere(symbols, n)
<1>1. /\ status = "ok" /\ ResolveIn(symbols, n)
      /\ UNCHANGED <<symbols, frames, issued, generator>>
  BY DEF Use
<1>2. UNCHANGED <<AbstractScopes, Used>>
  BY <1>1 DEF AbstractScopes, Used
<1>3. CASE g = 0
  <2>1. Abstract!Depths(n) = {}
    BY <1>3, SeenIs
  <2>2. status' = "undeclared" /\ seen' = seen
    BY <1>1, <1>3 DEF ResolveIn
  <2> QED BY <1>1, <1>2, <2>1, <2>2 DEF Abstract!Undeclared, Used
<1>4. CASE g # 0
  <2>1. /\ Abstract!Depths(n) # {} /\ g \in 1 .. Len(symbols)
        /\ Abstract!Visible(n) = BindingAt(symbols, g)
    BY <1>4, SeenIs
  <2>2. seen' = <<n, symbols[g].unique>> /\ status' = status
    BY <1>1, <1>4 DEF ResolveIn
  <2>3. BindingAt(symbols, g).id = symbols[g].unique
    BY DEF BindingAt
  <2> QED BY <1>1, <1>2, <2>1, <2>2, <2>3 DEF Abstract!Use, Used
<1> QED BY <1>3, <1>4

LEMMA InitializeImplements ==
  ASSUME RInv', NEW init \in Name \cup {NoName}, ResolveInit(symbols', init)
  PROVE  Abstract!Initialize(init)
<1> DEFINE g == GetAnywhere(symbols', init)
<1>1. CASE init = NoName
  BY <1>1 DEF ResolveInit, Abstract!Initialize
<1>2. CASE init # NoName /\ g = 0
  <2>1. Abstract!Depths(init)' = {}
    BY <1>2, SeenNext
  <2>2. status' = "undeclared" /\ seen' = seen
    BY <1>2 DEF ResolveInit, ResolveIn
  <2> QED BY <1>2, <2>1, <2>2 DEF Abstract!Initialize
<1>3. CASE init # NoName /\ g # 0
  <2>1. /\ Abstract!Depths(init)' # {}
        /\ Abstract!Visible(init)' = BindingAt(symbols', g)
    BY <1>3, SeenNext
  <2>2. seen' = <<init, symbols'[g].unique>> /\ status' = status
    BY <1>3 DEF ResolveInit, ResolveIn
  <2>3. BindingAt(symbols', g).id = symbols'[g].unique
    BY DEF BindingAt
  <2> QED BY <2>1, <2>2, <2>3 DEF Abstract!Initialize
<1> QED BY <1>1, <1>2, <1>3

\* The ID of a new object is one that no object has had.
LEMMA IssueIsFresh ==
  ASSUME RInv, NEW n \in Name, Issue(n), NextUnique(symbols) =< MaxId
  PROVE  /\ NextUnique(symbols) \in (0 .. MaxId) \ Used
         /\ Used' = Used \cup {NextUnique(symbols)}
<1>1. symbols \in Table /\ TypeOK /\ IdsOK
  BY StateView DEF RInv, IInv
<1>2. NextUnique(symbols) \in Nat
  BY <1>1, PrependNode
<1>3. \A k \in 1 .. Len(issued) : issued[k].id < NextUnique(symbols)
  BY <1>1, NextIsFresh
<1>4. issued \in Seq([id: Nat, name: Name])
  BY <1>1 DEF TypeOK
<1> DEFINE o == [id |-> NextUnique(symbols), name |-> n]
<1>5. \A k \in 1 .. Len(issued) : issued[k].id \in Nat
  <2>1. \A k \in 1 .. Len(issued) : issued[k] \in [id: Nat, name: Name]
    BY <1>4, ElementOfSeq
  <2> QED BY <2>1
<1>6. NextUnique(symbols) \notin Used
  BY <1>2, <1>3, <1>5 DEF Used
<1>7. o \in [id: Nat, name: Name] /\ o.id = NextUnique(symbols)
  BY <1>2
<1>8. issued' = Append(issued, o)
  BY DEF Issue
<1> HIDE DEF o
<1>9. /\ Len(issued') = Len(issued) + 1 /\ Len(issued) \in Nat
      /\ \A k \in 1 .. Len(issued) : issued'[k] = issued[k]
      /\ issued'[Len(issued) + 1] = o
  BY <1>4, <1>7, <1>8, AppendProperties
<1>10. Used' = {issued'[k].id : k \in 1 .. Len(issued')}
  BY DEF Used
<1>11. Used' = Used \cup {NextUnique(symbols)}
  <2>1. ASSUME NEW x \in Used'
        PROVE  x \in Used \cup {NextUnique(symbols)}
    <3>1. PICK k \in 1 .. Len(issued') : x = issued'[k].id
      BY <1>10
    <3>2. CASE k = Len(issued) + 1
      BY <1>7, <1>9, <3>1, <3>2
    <3>3. CASE k # Len(issued) + 1
      <4>1. k \in 1 .. Len(issued)
        BY <1>9, <3>3
      <4> QED BY <1>9, <3>1, <4>1 DEF Used
    <3> QED BY <3>2, <3>3
  <2>2. ASSUME NEW k \in 1 .. Len(issued)
        PROVE  issued[k].id \in Used'
    <3>1. k \in 1 .. Len(issued') /\ issued'[k] = issued[k]
      BY <1>9
    <3> QED BY <1>10, <3>1
  <2>3. NextUnique(symbols) \in Used'
    <3>1. Len(issued) + 1 \in 1 .. Len(issued')
      BY <1>9
    <3> QED BY <1>7, <1>9, <1>10, <3>1
  <2> QED BY <2>1, <2>2, <2>3 DEF Used
<1> QED BY <1>2, <1>6, <1>11

\* A new head in the innermost scope.
LEMMA BindImplements ==
  ASSUME RInv, symbols' \in Table, Len(symbols') = Len(symbols) + 1,
         \A i \in 1 .. Len(symbols) : SameNode(symbols'[i], symbols[i]),
         frames' = frames
  PROVE  Abstract!Bind(BindingAt(symbols', Len(symbols')))
<1>1. symbols \in Table
  BY StateView
<1>2. /\ AbstractScopes = ScopesOf(symbols, Points) /\ Nested(Points, Len(symbols))
      /\ Len(AbstractScopes) = Len(Points)
  BY ScopesView
<1>3. AbstractScopes' = ScopesOf(symbols', Points)
  BY DEF AbstractScopes, Points
<1>4. ScopesOf(symbols', Points) =
        [ScopesOf(symbols, Points) EXCEPT ![Len(Points)] =
           Abstract!WithBinding(@, BindingAt(symbols', Len(symbols')))]
  BY <1>1, <1>2, ExtendIs
<1> QED BY <1>2, <1>3, <1>4 DEF Abstract!Bind


\* The table after a declaration: a new head with the ID and the linkage u, l.
WithHead(t, n, u, l) ==
  [Prepend(t, n) EXCEPT ![Len(t) + 1] = Relinked(Prepend(t, n)[Len(t) + 1], u, l)]

LEMMA NewHead ==
  ASSUME NEW t \in Table, NEW n \in Name, NEW u \in Nat, NEW l \in Linkage
  PROVE  /\ WithHead(t, n, u, l) \in Table
         /\ Len(WithHead(t, n, u, l)) = Len(t) + 1
         /\ \A i \in 1 .. Len(t) : SameNode(WithHead(t, n, u, l)[i], t[i])
         /\ WithHead(t, n, u, l)[Len(t) + 1].name = n
         /\ WithHead(t, n, u, l)[Len(t) + 1].unique = u
         /\ WithHead(t, n, u, l)[Len(t) + 1].linkage = l
<1> DEFINE s == WithHead(t, n, u, l)
           p == Prepend(t, n)
           m == Len(t)
           node == Relinked(p[m + 1], u, l)
<1>1. m \in Nat
  BY DEF Table
<1>2. /\ p \in Table /\ Len(p) = m + 1
      /\ \A k \in 1 .. m : p[k] = t[k]
      /\ HeadOf(p).name = n
  <2>1. HeadOf(p) = [name |-> n, unique |-> NextUnique(t),
                     cookie |-> NextCookie(t), delim |-> FALSE,
                     linkage |-> NoLinkage]
    BY PrependNode
  <2>2. HeadOf(p).name = n
    BY <2>1
  <2> QED BY <2>2, PrependNode
<1> HIDE DEF p
<1>3. m + 1 \in 1 .. Len(p) /\ p[m + 1] \in Symbol(Name) /\ p[m + 1].name = n
  <2>1. m + 1 \in 1 .. Len(p)
    BY <1>1, <1>2
  <2>2. p[m + 1] \in Symbol(Name)
    BY <1>2, <2>1 DEF Table
  <2> QED BY <1>2, <2>1, <2>2 DEF HeadOf
<1>4. /\ node \in Symbol(Name) /\ node.name = n /\ node.unique = u
      /\ node.linkage = l
  BY <1>3, RelinkedNode
<1>5. s = [p EXCEPT ![m + 1] = node]
  BY DEF p, WithHead
<1> HIDE DEF node, s
<1>6. /\ s \in Table /\ Len(s) = m + 1
      /\ \A k \in 1 .. m + 1 : s[k] = IF k = m + 1 THEN node ELSE p[k]
  <2>1. /\ [p EXCEPT ![m + 1] = node] \in Seq(Symbol(Name))
        /\ Len([p EXCEPT ![m + 1] = node]) = Len(p)
        /\ \A k \in 1 .. Len(p) :
             [p EXCEPT ![m + 1] = node][k] = IF k = m + 1 THEN node ELSE p[k]
    <3> HIDE DEF m
    <3> QED BY <1>2, <1>3, <1>4, ExceptSeq DEF Table
  <2> QED BY <1>2, <1>5, <2>1 DEF Table
<1>7. \A k \in 1 .. m : s[k] = t[k]
  BY <1>1, <1>2, <1>6
<1>8. s[m + 1] = node
  BY <1>1, <1>6
<1> QED BY <1>4, <1>6, <1>7, <1>8 DEF SameNode, s

LEMMA StubTableIs ==
  ASSUME NEW n \in Name, symbols \in Table, GetAnywhere(symbols, n) \in 1 .. Len(symbols)
  PROVE  LET old == symbols[GetAnywhere(symbols, n)]
             s   == StubTable(n)
         IN  /\ s \in Table /\ Len(s) = Len(symbols) + 1
             /\ \A i \in 1 .. Len(symbols) : SameNode(s[i], symbols[i])
             /\ s[Len(symbols) + 1].name = n
             /\ s[Len(symbols) + 1].unique = old.unique
             /\ s[Len(symbols) + 1].linkage = old.linkage
<1> DEFINE t == Prepend(symbols, n)
           m == Len(symbols)
           old == symbols[GetAnywhere(symbols, n)]
           s == StubTable(n)
<1>1. old.unique \in Nat /\ old.linkage \in Linkage
  <2>1. old \in Symbol(Name)
    BY DEF Table
  <2> HIDE DEF old
  <2> QED BY <2>1 DEF Symbol
<1>2. t \in Table /\ Len(t) = m + 1 /\ m \in Nat
  BY PrependNode DEF Table
<1>3. t[m + 1] \in Symbol(Name)
  BY <1>2 DEF Table
<1>4. s = WithHead(symbols, n, old.unique, old.linkage)
  BY <1>2, <1>3 DEF StubTable, Relinked, WithHead
<1> HIDE DEF old, s
<1>5. /\ s \in Table /\ Len(s) = Len(symbols) + 1
      /\ \A i \in 1 .. Len(symbols) : SameNode(s[i], symbols[i])
      /\ s[Len(symbols) + 1].name = n
      /\ s[Len(symbols) + 1].unique = old.unique
      /\ s[Len(symbols) + 1].linkage = old.linkage
  BY <1>1, <1>4, NewHead
<1> QED BY <1>5 DEF old, s

LEMMA NewTableIs ==
  ASSUME NEW n \in Name, symbols \in Table, NEW l \in Linkage
  PROVE  LET s == NewTable(n, l)
         IN  /\ s \in Table /\ Len(s) = Len(symbols) + 1
             /\ \A i \in 1 .. Len(symbols) : SameNode(s[i], symbols[i])
             /\ s[Len(symbols) + 1].name = n
             /\ s[Len(symbols) + 1].unique = NextUnique(symbols)
             /\ s[Len(symbols) + 1].linkage = l
<1> DEFINE t == Prepend(symbols, n)
           m == Len(symbols)
           s == NewTable(n, l)
<1>1. /\ t \in Table /\ Len(t) = m + 1 /\ m \in Nat
      /\ NextUnique(symbols) \in Nat
      /\ t[m + 1].unique = NextUnique(symbols)
  <2>1. /\ t \in Table /\ Len(t) = m + 1 /\ m \in Nat
        /\ NextUnique(symbols) \in Nat
    BY PrependNode DEF Table
  <2>2. HeadOf(t) = [name |-> n, unique |-> NextUnique(symbols),
                     cookie |-> NextCookie(symbols), delim |-> FALSE,
                     linkage |-> NoLinkage]
    BY PrependNode
  <2>3. HeadOf(t).unique = NextUnique(symbols)
    BY <2>2
  <2> QED BY <2>1, <2>3 DEF HeadOf
<1>2. t[m + 1] \in Symbol(Name)
  BY <1>1 DEF Table
<1>3. Relinked(t[m + 1], NextUnique(symbols), l) = [t[m + 1] EXCEPT !.linkage = l]
  <2> HIDE DEF t
  <2> QED BY <1>1, <1>2 DEF Symbol, Relinked
<1>4. s = WithHead(symbols, n, NextUnique(symbols), l)
  BY <1>1, <1>2, <1>3 DEF NewTable, WithHead
<1> HIDE DEF s
<1>5. /\ s \in Table /\ Len(s) = Len(symbols) + 1
      /\ \A i \in 1 .. Len(symbols) : SameNode(s[i], symbols[i])
      /\ s[Len(symbols) + 1].name = n
      /\ s[Len(symbols) + 1].unique = NextUnique(symbols)
      /\ s[Len(symbols) + 1].linkage = l
  BY <1>1, <1>4, NewHead
<1> QED BY <1>5 DEF s

\* An object the scopes know with linkage is one the list has as external.
LEMMA LinkedIs ==
  ASSUME RInv, NEW i \in 1 .. Len(symbols)
  PROVE  /\ BindingAt(symbols, i).linked <=> symbols[i].linkage = External
         /\ some_linkage(symbols[i].linkage) <=> symbols[i].linkage = External
<1>1. symbols \in Table
  BY StateView
<1>2. symbols[i].linkage # Internal
  BY DEF RInv, IInv, IdsOK, NoInternalLinkage
<1> QED BY <1>1, <1>2, BindingAtType DEF some_linkage

LEMMA AdoptsIs ==
  ASSUME RInv, NEW n \in Name, NEW l
  PROVE  Adopts(n, l) <=> /\ l = External
                          /\ Abstract!Depths(n) # {}
                          /\ Abstract!Visible(n).linked
<1> DEFINE g == GetAnywhere(symbols, n)
<1>1. /\ g = 0 <=> Abstract!Depths(n) = {}
      /\ g # 0 => /\ g \in 1 .. Len(symbols)
                  /\ Abstract!Visible(n) = BindingAt(symbols, g)
  BY SeenIs
<1>2. g # 0 => (Abstract!Visible(n).linked <=> some_linkage(symbols[g].linkage))
  BY <1>1, LinkedIs
<1> QED BY <1>1, <1>2 DEF Adopts

\* A declaration of a variable.
LEMMA DeclareImplements ==
  ASSUME RInv, RInv', NEW n \in Name, NEW ext \in BOOLEAN,
         NEW init \in Name \cup {NoName}, Declare(n, ext, init)
  PROVE  \E linked \in BOOLEAN : \/ Abstract!DeclareVariable(n, linked, init)
                                 \/ Abstract!Conflict(n, linked)
<1> DEFINE l == DeclaredLinkage(ext)
           i == GetLimited(symbols, n)
           g == GetAnywhere(symbols, n)
           m == Len(symbols)
<1>1. /\ symbols \in Table /\ m \in Nat /\ symbols' \in Table
  BY StateView DEF RInv, IInv, TypeOK, Table
<1>2. /\ status = "ok" /\ UNCHANGED <<frames, generator>>
      /\ NextUnique(symbols) =< MaxId
  BY DEF Declare, CanDeclare
<1>3. l \in {NoLinkage, External} /\ l \in Linkage
  BY DEF DeclaredLinkage, Larger, NoLinkage, External, Linkage
<1>4. PICK linked \in BOOLEAN : linked <=> l = External
  OBVIOUS
<1>5. /\ i = 0 <=> n \notin Abstract!Names(Abstract!Top)
      /\ i # 0 => /\ i \in 1 .. m
                  /\ Abstract!BindingOf(Abstract!Top, n) = BindingAt(symbols, i)
  BY TopView
<1>6. i # 0 => (BothExternal(i, l)
                  <=> linked /\ Abstract!BindingOf(Abstract!Top, n).linked)
  BY <1>4, <1>5, LinkedIs DEF BothExternal
<1>7. Adopts(n, l) <=> linked /\ Abstract!Depths(n) # {} /\ Abstract!Visible(n).linked
  BY <1>4, AdoptsIs
<1>8. SUFFICES \/ Abstract!DeclareVariable(n, linked, init)
               \/ Abstract!Conflict(n, linked)
  OBVIOUS
<1> HIDE DEF l, i
<1>9. CASE DeclareConflict(n, l, i)
  <2>1. /\ i # 0 /\ ~ BothExternal(i, l) /\ status' = "duplicate"
        /\ UNCHANGED <<symbols, issued, seen>>
    BY <1>9 DEF DeclareConflict
  <2>2. UNCHANGED <<AbstractScopes, Used>>
    BY <1>2, <2>1 DEF AbstractScopes, Used
  <2>3. Abstract!Conflict(n, linked)
    BY <1>2, <1>5, <1>6, <2>1, <2>2 DEF Abstract!Conflict, Used
  <2> QED BY <2>3
<1>10. CASE DeclareAgain(n, l, i, init)
  <2>1. /\ i # 0 /\ BothExternal(i, l) /\ ResolveInit(symbols, init)
        /\ UNCHANGED <<symbols, issued>>
    BY <1>10 DEF DeclareAgain
  <2>2. UNCHANGED <<AbstractScopes, Used>>
    BY <1>2, <2>1 DEF AbstractScopes, Used
  <2>3. Abstract!Initialize(init)
    <3>1. ResolveInit(symbols', init)
      BY <2>1
    <3> QED BY <3>1, InitializeImplements
  <2>4. Abstract!Declare(n, linked)
    BY <1>5, <1>6, <2>1, <2>2 DEF Abstract!Declare, Used
  <2> QED BY <1>2, <2>3, <2>4 DEF Abstract!DeclareVariable
<1>11. CASE DeclareStub(n, l, i, init)
  <2>1. /\ i = 0 /\ Adopts(n, l) /\ symbols' = StubTable(n)
        /\ ResolveInit(StubTable(n), init) /\ UNCHANGED issued
    BY <1>11 DEF DeclareStub
  <2>2. g # 0 /\ some_linkage(symbols[g].linkage)
    BY <2>1 DEF Adopts
  <2>3. g \in 1 .. m /\ Abstract!Visible(n) = BindingAt(symbols, g)
    BY <2>2, SeenIs
  <2>4. symbols[g].name = n
    BY <1>1, <2>2, GetAnywhereIs DEF IsLast
  <2>5. /\ Len(symbols') = m + 1
        /\ \A k \in 1 .. m : SameNode(symbols'[k], symbols[k])
        /\ symbols'[m + 1].name = n
        /\ symbols'[m + 1].unique = symbols[g].unique
        /\ symbols'[m + 1].linkage = symbols[g].linkage
    BY <1>1, <2>1, <2>3, StubTableIs
  <2>6. BindingAt(symbols', m + 1) = BindingAt(symbols, g)
    BY <2>4, <2>5 DEF BindingAt
  <2>7. Abstract!Bind(Abstract!Visible(n))
    <3>1. Abstract!Bind(BindingAt(symbols', Len(symbols')))
      BY <1>1, <1>2, <2>5, BindImplements
    <3>2. BindingAt(symbols', Len(symbols')) = Abstract!Visible(n)
      BY <2>3, <2>5, <2>6
    <3> QED BY <3>1, <3>2
  <2>8. UNCHANGED Used
    BY <2>1 DEF Used
  <2>9. Abstract!Declare(n, linked)
    BY <1>5, <1>7, <2>1, <2>7, <2>8 DEF Abstract!Declare, Used
  <2>10. Abstract!Initialize(init)
    <3>1. ResolveInit(symbols', init)
      BY <2>1
    <3> QED BY <3>1, InitializeImplements
  <2> QED BY <1>2, <2>9, <2>10 DEF Abstract!DeclareVariable
<1>12. CASE DeclareNew(n, l, i, init)
  <2>1. /\ i = 0 /\ ~ Adopts(n, l) /\ symbols' = NewTable(n, l) /\ Issue(n)
        /\ ResolveInit(NewTable(n, l), init)
    BY <1>12 DEF DeclareNew
  <2>2. /\ Len(symbols') = m + 1
        /\ \A k \in 1 .. m : SameNode(symbols'[k], symbols[k])
        /\ symbols'[m + 1].name = n
        /\ symbols'[m + 1].unique = NextUnique(symbols)
        /\ symbols'[m + 1].linkage = l
    BY <1>1, <1>3, <2>1, NewTableIs
  <2>3. BindingAt(symbols', m + 1) =
          [name |-> n, id |-> NextUnique(symbols), linked |-> linked]
    BY <1>4, <2>2 DEF BindingAt
  <2>4. Abstract!Bind([name |-> n, id |-> NextUnique(symbols), linked |-> linked])
    <3>1. Abstract!Bind(BindingAt(symbols', Len(symbols')))
      BY <1>1, <1>2, <2>2, BindImplements
    <3>2. BindingAt(symbols', Len(symbols')) =
            [name |-> n, id |-> NextUnique(symbols), linked |-> linked]
      BY <2>2, <2>3
    <3> QED BY <3>1, <3>2
  <2>5. /\ NextUnique(symbols) \in (0 .. MaxId) \ Used
        /\ Used' = Used \cup {NextUnique(symbols)}
    BY <1>2, <2>1, IssueIsFresh
  <2>6. Abstract!Fresh(n, linked)
    BY <2>4, <2>5 DEF Abstract!Fresh, Used
  <2>7. Abstract!Declare(n, linked)
    BY <1>5, <1>7, <2>1, <2>6 DEF Abstract!Declare
  <2>8. Abstract!Initialize(init)
    <3>1. ResolveInit(symbols', init)
      BY <2>1
    <3> QED BY <3>1, InitializeImplements
  <2> QED BY <1>2, <2>7, <2>8 DEF Abstract!DeclareVariable
<1> QED BY <1>9, <1>10, <1>11, <1>12 DEF Declare, l, i


\* A mark changes no binding.
LEMMA MarkedTable ==
  ASSUME NEW t \in Table, NEW p \in 1 .. Len(t)
  PROVE  /\ SetDelim(t, p, TRUE) \in Table
         /\ Len(SetDelim(t, p, TRUE)) = Len(t)
         /\ \A i \in 1 .. Len(t) : SameNode(SetDelim(t, p, TRUE)[i], t[i])
<1>1. PICK b \in BOOLEAN : b = TRUE
  OBVIOUS
<1> DEFINE s == SetDelim(t, p, b)
<1>2. /\ s \in Table /\ Len(s) = Len(t)
      /\ \A i \in 1 .. Len(t) :
           /\ s[i].name = t[i].name /\ s[i].unique = t[i].unique
           /\ s[i].linkage = t[i].linkage
  BY SetDelimNode
<1> HIDE DEF s
<1>3. /\ s \in Table /\ Len(s) = Len(t)
      /\ \A i \in 1 .. Len(t) : SameNode(s[i], t[i])
  BY <1>2 DEF SameNode
<1>4. s = SetDelim(t, p, TRUE)
  BY <1>1 DEF s
<1> QED BY <1>3, <1>4

LEMMA OpenBlockImplements ==
  ASSUME RInv, OpenBlock
  PROVE  Abstract!Open
<1> DEFINE m == Len(symbols)
           f == Activation(symbols, "block", m)
<1>1. /\ status = "ok" /\ frames # <<>>
      /\ frames' = Append(frames, f)
      /\ symbols' = SetDelim(symbols, m, TRUE)
      /\ UNCHANGED <<issued, seen, status>>
  BY DEF OpenBlock, Activation, InBlock, FileScope
<1>2. /\ symbols \in Table /\ frames \in Seq(Frame)
      /\ \A k \in 1 .. Len(frames) : frames[k].point \in 1 .. m
      /\ m \in Nat /\ Len(frames) \in Nat
  BY StateView
<1>3. m \in 1 .. m
  <2>1. Len(frames) \in 1 .. Len(frames)
    BY <1>1, <1>2
  <2> QED BY <1>2, <2>1
<1>4. AbstractScopes = ScopesOf(symbols, Points) /\ Nested(Points, m)
  BY ScopesView
<1>5. f \in Frame /\ f.kind = "block" /\ f.point = m
  BY <1>2, <1>3, ActivationIs
<1> HIDE DEF f
<1>6. ScopePoints(frames') = Append(Points, m)
  BY <1>1, <1>2, <1>5, PointsAppend DEF AddPoint, Points
<1>7. /\ symbols' \in Table /\ Len(symbols') = m
      /\ \A i \in 1 .. m : SameNode(symbols'[i], symbols[i])
  BY <1>1, <1>2, <1>3, MarkedTable
<1>8. /\ Nested(Append(Points, m), m)
      /\ ScopesOf(symbols, Append(Points, m)) = Append(ScopesOf(symbols, Points), {})
  BY <1>2, <1>4, PushIs
<1>9. ScopesOf(symbols', Append(Points, m)) = ScopesOf(symbols, Append(Points, m))
  BY <1>2, <1>7, <1>8, SameScopes
<1>10. AbstractScopes' = Append(AbstractScopes, {})
  BY <1>4, <1>6, <1>8, <1>9 DEF AbstractScopes
<1> QED BY <1>1, <1>10 DEF Abstract!Open

\* The innermost activation of g, the one that holds a scope, ends: u is the
\* table at that moment, t the same table with more nodes in that scope.
LEMMA LeaveIs ==
  ASSUME NEW t \in Table, NEW u \in Table, Len(u) =< Len(t),
         \A i \in 1 .. Len(u) : SameNode(u[i], t[i]),
         NEW g \in Seq(Frame), g # <<>>, ScopesOK(u, g), NestOK(g),
         g[Len(g)].kind # "body"
  PROVE  ScopesOf(Leave(u, g[Len(g)]), ScopePoints(SubSeq(g, 1, Len(g) - 1)))
           = SubSeq(ScopesOf(t, ScopePoints(g)), 1, Len(ScopePoints(g)) - 1)
<1> DEFINE f == g[Len(g)]
           h == SubSeq(g, 1, Len(g) - 1)
           s == Leave(u, f)
           points == ScopePoints(h)
<1>1. /\ s \in Table /\ Len(s) \in 1 .. Len(u)
      /\ \A i \in 1 .. Len(s) : SameNode(s[i], u[i])
      /\ h \in Seq(Frame) /\ ScopesOK(s, h)
  BY PopNode
<1>2. /\ f \in Frame /\ f.point =< f.reset /\ f.reset \in 1 .. Len(u)
  BY PopScopes
<1>3. Len(s) = f.reset
  <2>1. f.reset =< Len(u)
    BY <1>2 DEF Table
  <2> HIDE DEF f
  <2> QED BY <1>2, <2>1, LeaveNode
<1>4. f.point = f.reset
  <2>1. Len(g) \in 1 .. Len(g)
    OBVIOUS
  <2> QED BY <2>1 DEF NestOK
<1>5. NestOK(h)
  BY NestPop
<1>6. ScopePoints(g) = Append(points, Len(s))
  BY <1>3, <1>4, PointsPop DEF AddPoint
<1> HIDE DEF h, s, f
<1>7. Nested(points, Len(s))
  BY <1>1, <1>5, ScopePointsNested
<1> HIDE DEF points
<1>8. /\ Len(s) \in Nat /\ Len(u) \in Nat /\ Len(t) \in Nat /\ Len(s) =< Len(t)
  BY <1>1 DEF Table
<1>9. \A i \in 1 .. Len(s) : SameNode(s[i], t[i])
  <2>1. \A i \in 1 .. Len(s) : i \in 1 .. Len(u)
    BY <1>1, <1>8
  <2> QED BY <1>1, <2>1 DEF SameNode
<1>10. Nested(points, Len(t))
  BY <1>7, <1>8, NestedIn
<1>11. /\ points \in Seq(Nat) /\ Len(points) \in Nat \ {0}
       /\ points[Len(points)] =< Len(s)
  BY <1>7 DEF Nested
<1>12. ScopesOf(s, points) =
         SubSeq(ScopesOf(t, Append(points, Len(s))), 1, Len(points))
  BY <1>1, <1>8, <1>9, <1>10, <1>11, PopIs
<1>13. Len(Append(points, Len(s))) - 1 = Len(points)
  BY <1>8, <1>11, AppendProperties
<1> QED BY <1>6, <1>12, <1>13 DEF h, s, f, points

LEMMA CloseImplements ==
  ASSUME RInv, status = "ok", frames # <<>>, TopFrame.kind # "body",
         symbols' = Leave(symbols, TopFrame), frames' = Popped(1),
         UNCHANGED <<issued, seen, status>>
  PROVE  Abstract!Close
<1>1. /\ symbols \in Table /\ frames \in Seq(Frame)
      /\ ScopesOK(symbols, frames) /\ NestOK(frames)
      /\ Len(symbols) \in Nat
  BY StateView
<1>2. /\ AbstractScopes = ScopesOf(symbols, Points)
      /\ Len(AbstractScopes) = Len(Points) /\ Len(Points) > 1
  BY ScopesView
<1>3. \A i \in 1 .. Len(symbols) : SameNode(symbols[i], symbols[i])
  BY DEF SameNode
<1>4. frames[Len(frames)].kind # "body" /\ Len(symbols) =< Len(symbols)
  BY <1>1 DEF TopFrame, Depth
<1>5. ScopesOf(Leave(symbols, frames[Len(frames)]),
               ScopePoints(SubSeq(frames, 1, Len(frames) - 1)))
        = SubSeq(ScopesOf(symbols, Points), 1, Len(Points) - 1)
  BY <1>1, <1>3, <1>4, LeaveIs DEF Points
<1>6. AbstractScopes' = SubSeq(AbstractScopes, 1, Len(AbstractScopes) - 1)
  BY <1>2, <1>5 DEF AbstractScopes, TopFrame, Popped, Depth
<1> QED BY <1>2, <1>6 DEF Abstract!Close

LEMMA CloseFunctionImplements ==
  ASSUME RInv, CloseFunction
  PROVE  Abstract!Close
<1> DEFINE m == Len(frames)
           u == Leave(symbols, frames[m])
           g == SubSeq(frames, 1, m - 1)
<1>1. /\ symbols \in Table /\ frames \in Seq(Frame)
      /\ ScopesOK(symbols, frames) /\ NestOK(frames)
      /\ Len(symbols) \in Nat /\ m \in Nat
  BY StateView
<1>2. status = "ok" /\ frames # <<>> /\ frames[m].kind = "body"
  BY DEF CloseFunction, InBlock, FileScope, TopFrame, Depth
<1>3. m > 1 /\ frames[m - 1].kind = "header"
  <2>1. m \in 1 .. m
    BY <1>1, <1>2
  <2> QED BY <1>1, <1>2, <2>1 DEF ScopesOK, FramesOK
<1>4. /\ symbols' = Leave(u, frames[m - 1])
      /\ frames' = SubSeq(frames, 1, m - 2)
      /\ UNCHANGED <<issued, seen, status>>
  BY DEF CloseFunction, TopFrame, Popped, Depth
<1>5. /\ u \in Table /\ Len(u) \in 1 .. Len(symbols)
      /\ \A i \in 1 .. Len(u) : SameNode(u[i], symbols[i])
      /\ g \in Seq(Frame) /\ ScopesOK(u, g)
  BY <1>1, <1>2, PopNode
<1>6. NestOK(g)
  BY <1>1, <1>2, NestPop
<1>7. Len(g) = m - 1 /\ g[m - 1] = frames[m - 1] /\ g # <<>>
  <2>1. Len(g) = m - 1 /\ \A k \in 1 .. m - 1 : g[k] = frames[k]
    BY <1>1, <1>2, AllButLast
  <2> HIDE DEF g
  <2> QED BY <1>1, <1>3, <2>1
<1>8. SubSeq(g, 1, Len(g) - 1) = frames'
  BY <1>1, <1>3, <1>4, <1>5, <1>7
<1>9. ScopePoints(g) = Points
  BY <1>1, <1>2, PointsPop DEF AddPoint, Points
<1>10. /\ AbstractScopes = ScopesOf(symbols, Points)
       /\ Len(AbstractScopes) = Len(Points) /\ Len(Points) > 1
  BY <1>2, ScopesView
<1> HIDE DEF g, u
<1>11. Len(u) =< Len(symbols) /\ g[Len(g)].kind # "body"
  BY <1>1, <1>3, <1>5, <1>7
<1>12. ScopesOf(Leave(u, g[Len(g)]), ScopePoints(SubSeq(g, 1, Len(g) - 1)))
         = SubSeq(ScopesOf(symbols, ScopePoints(g)), 1, Len(ScopePoints(g)) - 1)
  BY <1>1, <1>5, <1>6, <1>7, <1>11, LeaveIs
<1>13. AbstractScopes' = SubSeq(AbstractScopes, 1, Len(AbstractScopes) - 1)
  <2>1. Leave(u, g[Len(g)]) = symbols'
    BY <1>4, <1>7
  <2>2. ScopesOf(symbols', ScopePoints(frames'))
          = SubSeq(ScopesOf(symbols, Points), 1, Len(Points) - 1)
    BY <1>8, <1>9, <1>12, <2>1
  <2> QED BY <1>10, <2>2 DEF AbstractScopes
<1> QED BY <1>2, <1>4, <1>10, <1>13 DEF Abstract!Close

\* A node of symbols_prepend binds its name to a new object without linkage.
LEMMA PrependIs ==
  ASSUME NEW t \in Table, NEW n \in Name
  PROVE  /\ Prepend(t, n) \in Table /\ Len(Prepend(t, n)) = Len(t) + 1
         /\ \A i \in 1 .. Len(t) : SameNode(Prepend(t, n)[i], t[i])
         /\ BindingAt(Prepend(t, n), Len(Prepend(t, n)))
              = [name |-> n, id |-> NextUnique(t), linked |-> FALSE]
<1> DEFINE s == Prepend(t, n)
<1>1. /\ s \in Table /\ Len(s) = Len(t) + 1
      /\ \A i \in 1 .. Len(t) : s[i] = t[i]
      /\ HeadOf(s) = [name |-> n, unique |-> NextUnique(t),
                      cookie |-> NextCookie(t), delim |-> FALSE,
                      linkage |-> NoLinkage]
  BY PrependNode
<1>2. /\ HeadOf(s).name = n /\ HeadOf(s).unique = NextUnique(t)
      /\ HeadOf(s).linkage = NoLinkage
  BY <1>1
<1> HIDE DEF s
<1>3. (NoLinkage = External) = FALSE
  BY DEF NoLinkage, External
<1>4. BindingAt(s, Len(s)) = [name |-> n, id |-> NextUnique(t), linked |-> FALSE]
  BY <1>2, <1>3 DEF BindingAt, HeadOf
<1> QED BY <1>1, <1>4 DEF SameNode, s

LEMMA OpenFunctionImplements ==
  ASSUME RInv, NEW n \in Name, OpenFunction(n)
  PROVE  Abstract!OpenFunction(n)
<1> DEFINE t == Prepend(symbols, n)
           p == Len(t)
           f == Activation(t, "header", p)
           b == [name |-> n, id |-> NextUnique(symbols), linked |-> FALSE]
<1>1. /\ status = "ok" /\ NextUnique(symbols) =< MaxId
      /\ frames' = Append(frames, f)
      /\ symbols' = SetDelim(t, p, TRUE)
      /\ Issue(n)
      /\ UNCHANGED <<seen, status>>
  BY DEF OpenFunction, CanDeclare, Activation
<1>2. symbols \in Table /\ frames \in Seq(Frame) /\ Len(symbols) \in Nat
  BY StateView
<1>3. /\ t \in Table /\ Len(t) = Len(symbols) + 1
      /\ \A i \in 1 .. Len(symbols) : SameNode(t[i], symbols[i])
      /\ BindingAt(t, Len(t)) = b
  BY <1>2, PrependIs
<1> HIDE DEF t, b
<1>4. p \in 1 .. p
  BY <1>2, <1>3
<1>5. /\ AbstractScopes = ScopesOf(symbols, Points) /\ Nested(Points, Len(symbols))
      /\ Len(AbstractScopes) = Len(Points)
  BY ScopesView
<1>6. f \in Frame /\ f.kind = "header" /\ f.point = p
  BY <1>3, <1>4, ActivationIs
<1> HIDE DEF f
<1>7. ScopePoints(frames') = Append(Points, p)
  BY <1>1, <1>2, <1>6, PointsAppend DEF AddPoint, Points
<1>8. /\ symbols' \in Table /\ Len(symbols') = p
      /\ \A i \in 1 .. p : SameNode(symbols'[i], t[i])
  BY <1>1, <1>3, <1>4, MarkedTable
<1>9. /\ Nested(Points, p)
      /\ ScopesOf(t, Points) =
           [ScopesOf(symbols, Points) EXCEPT ![Len(Points)] =
              Abstract!WithBinding(@, BindingAt(t, Len(t)))]
  BY <1>2, <1>3, <1>5, ExtendIs
<1>10. /\ Nested(Append(Points, p), p)
       /\ ScopesOf(t, Append(Points, p)) = Append(ScopesOf(t, Points), {})
  BY <1>3, <1>9, PushIs
<1>11. ScopesOf(symbols', Append(Points, p)) = ScopesOf(t, Append(Points, p))
  BY <1>3, <1>8, <1>10, SameScopes
<1>12. AbstractScopes' =
         Append([AbstractScopes EXCEPT ![Len(AbstractScopes)] =
                   Abstract!WithBinding(@, b)], {})
  BY <1>3, <1>5, <1>7, <1>9, <1>10, <1>11 DEF AbstractScopes
<1>13. /\ NextUnique(symbols) \in (0 .. MaxId) \ Used
       /\ Used' = Used \cup {NextUnique(symbols)}
  BY <1>1, IssueIsFresh
<1> QED BY <1>1, <1>12, <1>13 DEF Abstract!OpenFunction, Used, b

LEMMA ParameterImplements ==
  ASSUME RInv, RInv', NEW n \in Name, Parameter(n)
  PROVE  Abstract!Parameter(n)
<1>1. /\ status = "ok" /\ frames # <<>> /\ NextUnique(symbols) =< MaxId
      /\ symbols' = Prepend(symbols, n) /\ Issue(n)
      /\ UNCHANGED <<frames, seen, status>>
  BY DEF Parameter, InHeader, FileScope
<1>2. symbols \in Table
  BY StateView
<1>3. /\ symbols' \in Table /\ Len(symbols') = Len(symbols) + 1
      /\ \A i \in 1 .. Len(symbols) : SameNode(symbols'[i], symbols[i])
      /\ BindingAt(symbols', Len(symbols'))
           = [name |-> n, id |-> NextUnique(symbols), linked |-> FALSE]
  BY <1>1, <1>2, PrependIs
<1>4. Abstract!Bind([name |-> n, id |-> NextUnique(symbols), linked |-> FALSE])
  <2>1. Abstract!Bind(BindingAt(symbols', Len(symbols')))
    BY <1>1, <1>3, BindImplements
  <2> QED BY <1>3, <2>1
<1>5. /\ NextUnique(symbols) \in (0 .. MaxId) \ Used
      /\ Used' = Used \cup {NextUnique(symbols)}
  BY <1>1, IssueIsFresh
<1>6. Abstract!Fresh(n, FALSE)
  BY <1>4, <1>5 DEF Abstract!Fresh, Used
<1>7. Len(AbstractScopes) > 1
  BY <1>1, ScopesView
<1> QED BY <1>1, <1>6, <1>7 DEF Abstract!Parameter

\* The body of a function shares the scope of its parameters.
LEMMA OpenBodyImplements ==
  ASSUME RInv, OpenBody
  PROVE  UNCHANGED Abstract!vars
<1> DEFINE m == Len(frames)
           p == frames[m].point
           f == Activation(symbols, "body", p)
<1>1. /\ frames # <<>>
      /\ frames' = Append(frames, f)
      /\ symbols' = SetDelim(symbols, p, TRUE)
      /\ UNCHANGED <<issued, seen, status>>
  BY DEF OpenBody, Activation, InHeader, FileScope, TopFrame, Depth
<1>2. /\ symbols \in Table /\ frames \in Seq(Frame) /\ m \in Nat
      /\ \A k \in 1 .. m : frames[k].point \in 1 .. Len(symbols)
  BY StateView
<1>3. p \in 1 .. Len(symbols)
  <2>1. m \in 1 .. m
    BY <1>1, <1>2
  <2> QED BY <1>2, <2>1
<1> HIDE DEF p
<1>4. f \in Frame /\ f.kind = "body"
  BY <1>2, <1>3, ActivationIs
<1> HIDE DEF f
<1>5. ScopePoints(frames') = Points
  BY <1>1, <1>2, <1>4, PointsAppend DEF AddPoint, Points
<1>6. AbstractScopes = ScopesOf(symbols, Points) /\ Nested(Points, Len(symbols))
  BY ScopesView
<1>7. /\ symbols' \in Table /\ Len(symbols') = Len(symbols)
      /\ \A i \in 1 .. Len(symbols) : SameNode(symbols'[i], symbols[i])
  BY <1>1, <1>2, <1>3, MarkedTable
<1>8. ScopesOf(symbols', Points) = ScopesOf(symbols, Points)
  BY <1>2, <1>6, <1>7, SameScopes
<1>9. UNCHANGED AbstractScopes
  BY <1>5, <1>6, <1>8 DEF AbstractScopes
<1> QED BY <1>1, <1>9 DEF Abstract!vars

LEMMA FinishImplements ==
  ASSUME RInv, Finish
  PROVE  Abstract!Finish
<1>1. /\ status = "ok" /\ frames = <<>> /\ status' = "done"
      /\ UNCHANGED <<symbols, frames, issued, seen>>
  BY DEF Finish, FileScope
<1>2. Len(AbstractScopes) = 1
  BY <1>1, ScopesView
<1>3. UNCHANGED <<AbstractScopes, Used>>
  BY <1>1 DEF AbstractScopes, Used
<1> QED BY <1>1, <1>2, <1>3 DEF Abstract!Finish, Used

LEMMA InitImplements == Init => Abstract!Init
<1> SUFFICES ASSUME Init
             PROVE  Abstract!Init
  OBVIOUS
<1>1. symbols = <<>> /\ frames = <<>> /\ issued = <<>> /\ seen = <<>> /\ status = "ok"
  BY DEF Init
<1>2. RInv
  <2>1. NestOK(frames)
    BY <1>1 DEF NestOK
  <2> QED BY <2>1, InitIInv DEF RInv
<1>3. /\ AbstractScopes = ScopesOf(symbols, Points) /\ Nested(Points, Len(symbols))
      /\ Len(AbstractScopes) = Len(Points) /\ Len(Points) = 1
      /\ AbstractScopes \in Seq(SUBSET Binding)
      /\ Points[Len(Points)] = 0
  BY <1>1, <1>2, ScopesView
<1>4. AbstractScopes[1] = {}
  <2>1. symbols \in Table
    BY <1>2, StateView
  <2>2. AbstractScopes[1] = ScopeBetween(symbols, Points[1], EndOf(symbols, Points, 1))
    BY <1>3, <2>1, ScopesOfIs
  <2>3. EndOf(symbols, Points, 1) = 0 /\ Points[1] = 0
    BY <1>1, <1>3 DEF EndOf
  <2> QED BY <2>2, <2>3, EmptyScope
<1>5. AbstractScopes = << {} >>
  BY <1>3, <1>4
<1>6. Used = {}
  BY <1>1 DEF Used
<1> QED BY <1>1, <1>5, <1>6 DEF Abstract!Init, Used

\* Whatever the walk does, the scopes take a step of LexicalScope or none.
LEMMA StepImplements ==
  ASSUME RInv, RInv', [Next]_vars
  PROVE  [Abstract!Next]_(Abstract!vars)
<1>1. CASE UNCHANGED vars
  <2>1. UNCHANGED <<AbstractScopes, Used, seen, status>>
    BY <1>1 DEF vars, AbstractScopes, Used
  <2> QED BY <2>1 DEF Abstract!vars, Used
<1>2. ASSUME NEW n \in Name, Use(n)
      PROVE  Abstract!Next
  BY <1>2, UseImplements DEF Abstract!Next
<1>3. ASSUME NEW n \in Name, OpenFunction(n)
      PROVE  Abstract!Next
  BY <1>3, OpenFunctionImplements DEF Abstract!Next
<1>4. ASSUME NEW n \in Name, Parameter(n)
      PROVE  Abstract!Next
  BY <1>4, ParameterImplements DEF Abstract!Next
<1>5. ASSUME NEW n \in Name, NEW ext \in BOOLEAN, NEW init \in Name \cup {NoName},
             Declare(n, ext, init)
      PROVE  Abstract!Next
  BY <1>5, DeclareImplements DEF Abstract!Next
<1>6. CASE OpenBlock
  BY <1>6, OpenBlockImplements DEF Abstract!Next
<1>7. CASE CloseBlock
  <2>1. /\ status = "ok" /\ frames # <<>> /\ TopFrame.kind # "body"
        /\ symbols' = Leave(symbols, TopFrame) /\ frames' = Popped(1)
        /\ UNCHANGED <<issued, seen, status>>
    BY <1>7 DEF CloseBlock, InBlock, FileScope
  <2> QED BY <2>1, CloseImplements DEF Abstract!Next
<1>8. CASE OpenBody
  BY <1>8, OpenBodyImplements
<1>9. CASE CloseDeclaration
  <2>1. /\ status = "ok" /\ frames # <<>> /\ TopFrame.kind # "body"
        /\ symbols' = Leave(symbols, TopFrame) /\ frames' = Popped(1)
        /\ UNCHANGED <<issued, seen, status>>
    BY <1>9 DEF CloseDeclaration, InHeader, FileScope
  <2> QED BY <2>1, CloseImplements DEF Abstract!Next
<1>10. CASE CloseFunction
  BY <1>10, CloseFunctionImplements DEF Abstract!Next
<1>11. CASE Finish
  BY <1>11, FinishImplements DEF Abstract!Next
<1> QED BY <1>1, <1>2, <1>3, <1>4, <1>5, <1>6, <1>7, <1>8, <1>9, <1>10, <1>11 DEF Next

\* The walk of resolve.c over one list implements block-structured scopes:
\* every lookup is lexical, a closed block restores what it hid, a second
\* declaration is refused exactly when it has to be, and a new object gets an
\* ID that none had before.
THEOREM ResolveImplementsLexicalScope == Spec => ImplementsLexicalScope
<1>1. RInv /\ RInv' /\ [Next]_vars => [Abstract!Next]_(Abstract!vars)
  BY StepImplements
<1> QED BY <1>1, InitImplements, RInvariance, PTL
        DEF Spec, ImplementsLexicalScope, Abstract!Spec
=============================================================================
