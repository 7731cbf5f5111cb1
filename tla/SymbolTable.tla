----------------------------- MODULE SymbolTable -----------------------------
(***************************************************************************)
(* The linked list of src/lang/symbol.c, as the passes of the compiler use *)
(* it.  A table is a sequence whose LAST element is the head of the C      *)
(* list; symbols_prepend appends.  Nodes are only ever added at the head   *)
(* and dropped from it, so a C pointer into the list is the index of its   *)
(* node, and NULL is 0.                                                    *)
(***************************************************************************)
EXTENDS Integers, Sequences

\* enum symbol_linkage: the numbers matter, resolve_declaration takes a MAX.
NoLinkage == 0
Internal  == 1000
External  == 2000
Linkage   == {NoLinkage, Internal, External}

some_linkage(l) == l \in {Internal, External}

Larger(a, b) == IF a >= b THEN a ELSE b

(***************************************************************************)
(* One node: its name, its unique ID, the largest ID seen so far (cookie), *)
(* whether it ends the scope above it, and its linkage.                    *)
(***************************************************************************)
Symbol(Name) ==
  [name: Name, unique: Nat, cookie: Nat, delim: BOOLEAN, linkage: Linkage]

HeadOf(t) == t[Len(t)]

\* symbols_prepend: the first node of a table is 0, the next ones count up
\* from the larger of the head's unique and cookie.
NextUnique(t) ==
  IF t = <<>> THEN 0 ELSE Larger(HeadOf(t).unique, HeadOf(t).cookie) + 1

NextCookie(t) ==
  IF t = <<>> THEN 0 ELSE Larger(NextUnique(t), HeadOf(t).cookie)

Prepend(t, n) ==
  Append(t, [name |-> n, unique |-> NextUnique(t), cookie |-> NextCookie(t),
             delim |-> FALSE, linkage |-> NoLinkage])

\* Mutation: the name is compared before the delimiter is looked at.
Reaches_CompareFirst(t, i, limited) ==
  limited => \A j \in i + 1 .. Len(t) : ~ t[j].delim

\* symbols_get_impl stops AT a delimiter, before it compares the name.
Reaches(t, i, limited) ==
  limited => \A j \in i .. Len(t) : ~ t[j].delim

Hits(t, n, limited) ==
  {i \in 1 .. Len(t) : t[i].name = n /\ Reaches(t, i, limited)}

Get(t, n, limited) ==
  LET hits == Hits(t, n, limited)
  IN  IF hits = {} THEN 0
      ELSE CHOOSE i \in hits : \A j \in hits : j =< i

GetLimited(t, n)  == Get(t, n, TRUE)
GetAnywhere(t, n) == Get(t, n, FALSE)

\* Mutation: the largest ID seen is forgotten with the nodes dropped.
ResetScope_NoCookie(t, p) ==
  IF p = 0 THEN <<>> ELSE SubSeq(t, 1, p)

\* symbols_reset_scope: drop every node above p, keep the largest ID seen.
ResetScope(t, p) ==
  IF p = 0 THEN <<>>
  ELSE [SubSeq(t, 1, p) EXCEPT ![p].cookie = HeadOf(t).cookie]

SetDelim(t, p, b) == [t EXCEPT ![p].delim = b]
=============================================================================
