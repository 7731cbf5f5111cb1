----------------------------- MODULE Declarators -----------------------------
(***************************************************************************)
(* Types and declarators of src/passes/parse/declaration.c.  A declarator  *)
(* is not parsed by recursive descent: its tokens are split into groups,   *)
(* one per pair of parentheses, and every group adds its stars, subscripts *)
(* and parameters to what the groups around it gave.                       *)
(*                                                                         *)
(* A token is a string, as it is spelled.  Every tree is a sequence: what  *)
(* it is, then the trees below it.  A parser answers with the position     *)
(* after what it read; position 0 stands for a diagnostic.                 *)
(***************************************************************************)
EXTENDS Naturals, Sequences, FiniteSets

Identifiers == {"a", "f", "x", "y"}
Integers_   == {"0", "2", "3"}
Doubles_    == {"1.5"}
TypeWords   == {"void", "char", "int", "long", "signed", "unsigned", "double"}
Specifiers  == {"static", "extern"}
Keywords    == TypeWords \cup Specifiers \cup
               {"return", "sizeof", "if", "else", "do", "while", "for", "break",
                "continue", "goto", "switch", "case", "default"}
\* The tokens made of two characters, without <<= and >>=.
TwoCharacters == {"--", "++", "&&", "||", "==", "<<", ">>", "-=", "+=", "*=", "/=",
                  "%=", "!=", "&=", "|=", "<=", ">=", "^="}

At(s, p)     == IF p \in DOMAIN s THEN s[p] ELSE "end"
From(s, p)   == {i \in DOMAIN s : i >= p}
Least(S)     == CHOOSE i \in S : \A j \in S : i <= j
First(s, p, T) == LET found == {i \in From(s, p) : s[i] \in T}
                  IN  IF found = {} THEN Len(s) + 1 ELSE Least(found)
Count(s, p, q, t) == Cardinality({i \in p .. q : s[i] = t})

Read(p, tree) == [pos |-> p, tree |-> tree]
Failed        == Read(0, <<"error">>)
IsFailure(r)  == r.pos = 0
\* What comes after reading r, unless that was a diagnostic.
Then(r, F(_)) == IF IsFailure(r) THEN Failed ELSE F(r)

(***************************************************************************)
(* Basic types.                                                            *)
(***************************************************************************)

\* parse_basic_type_accumulate counts, parse_basic_type_finalize decides.
basic_type(words) ==
  LET Has(w)   == \E i \in DOMAIN words : words[i] = w
      Only(W)  == \A i \in DOMAIN words : words[i] \in W
      repeated == Cardinality({words[i] : i \in DOMAIN words}) # Len(words)
  IN  CASE repeated \/ (Has("signed") /\ Has("unsigned")) \/ words = <<>> -> "error"
        [] ~ repeated /\ Has("void")   -> IF Len(words) = 1 THEN "void" ELSE "error"
        [] ~ repeated /\ Has("double") -> IF Len(words) = 1 THEN "double" ELSE "error"
        [] ~ repeated /\ Has("char") /\ ~ Has("void") /\ ~ Has("double") ->
             CASE Has("int") \/ Has("long") -> "error"
               [] Only({"char"}) -> "char"
               [] Only({"char", "signed"}) /\ Has("signed") -> "signed char"
               [] OTHER -> "unsigned char"
        [] OTHER ->
             CASE Has("long") -> IF Has("unsigned") THEN "unsigned long" ELSE "long"
               [] OTHER -> IF Has("unsigned") THEN "unsigned int" ELSE "int"

\* The words of kinds W that start at p, and where they end.
EndOfWords(s, p, W) == First(s, p, {At(s, i) : i \in From(s, p)} \ W)
Words(s, p, W, T)   == SelectSeq(SubSeq(s, p, EndOfWords(s, p, W) - 1), LAMBDA t : t \in T)

(***************************************************************************)
(* Groups of tokens.                                                       *)
(***************************************************************************)

\* A star after a closing parenthesis, before the name or the end.
group_precheck(s, p) ==
  LET Stops(i) == s[i] \in Identifiers
                  \/ (s[i] = ")" /\ Count(s, p, i - 1, "(") = Count(s, p, i - 1, ")"))
      stops == {i \in From(s, p) : Stops(i)}
      stop  == IF stops = {} THEN Len(s) + 1 ELSE Least(stops)
  IN  ~ \E i, j \in p .. (stop - 1) : i < j /\ s[i] = ")" /\ s[j] = "*"

\* parse_needs_weird_hack_for_paren_lonely_symbol: the number of parentheses
\* around a name that stands alone.
lonely_symbol(s, p) ==
  LET name  == First(s, p, {At(s, i) : i \in From(s, p)} \ {"("})
      n     == name - p
  IN  IF At(s, name) \in Identifiers /\ \A i \in 1 .. n : At(s, name + i) = ")" THEN n ELSE 0

Ends(t, flags, depth) ==
  \/ t = ")" /\ depth = 0
  \/ t \in {";", "=", "{", "end"} \cup TwoCharacters
  \/ t = "," /\ "params" \notin flags
  \/ t \in Keywords /\ "abstract" \in flags

\* parse_declarator_group_split: the group's own tokens and, in "below", the
\* groups within it, outermost first.
RECURSIVE SplitOn(_, _, _, _)
group_split(s, p, flags) == SplitOn(s, p, flags, [own |-> <<>>, below |-> <<>>, depth |-> 0])
SplitOn(s, p, flags, g) ==
  LET n     == lonely_symbol(s, p)
      t     == At(s, p + n)
      named == \E i \in DOMAIN g.own : g.own[i] \in Identifiers
      child == group_split(s, p + 1, flags)
      own   == Append(g.own, t)
      depth == CASE t = "(" -> g.depth + 1 [] t = ")" -> g.depth - 1 [] OTHER -> g.depth
  IN  IF t = "(" /\ ~ named
      THEN IF g.below # <<>> \/ IsFailure(child) \/ At(s, child.pos) # ")" THEN Failed
           ELSE SplitOn(s, child.pos + 1, flags, [g EXCEPT !.below = child.tree])
      ELSE IF Ends(t, flags, g.depth) THEN Read(p, <<g.own>> \o g.below)
      ELSE SplitOn(s, p + 2 * n + 1, flags, [g EXCEPT !.own = own, !.depth = depth])

\* parse_declarator_group_scan over one group g; is_leaf when no group is in it.
Stars(g)      == Count(g, 1, First(g, 1, {"("}) - 1, "*")
NameAt(g)     == First(g, 1, Identifiers)
ParamsAt(g)   == First(g, 1, {"("})
AtTop(g, i)   == Count(g, 1, i - 1, "(") = Count(g, 1, i - 1, ")")
SubscriptAt(g) == LET tops == {i \in DOMAIN g : g[i] = "[" /\ AtTop(g, i)}
                  IN  IF tops = {} THEN Len(g) + 1 ELSE Least(tops)
Has(g, i)     == i \in DOMAIN g
ScanRefuses(g, is_leaf, flags) ==
  \/ Has(g, NameAt(g)) /\ ~ is_leaf
  \/ is_leaf /\ "abstract" \notin flags /\ First(g, 1, {"["}) < NameAt(g) /\ Has(g, First(g, 1, {"["}))
  \/ \E i \in From(g, ParamsAt(g) + 1) : g[i] = "(" /\ AtTop(g, i)

\* parse_declarator_group_postfix: the sizes in the brackets from q on.
SubscriptCount(g, q) == Least({n \in 0 .. Len(g) : At(g, q + 3 * n) # "["})
Subscripts(g, q)     == [i \in 1 .. SubscriptCount(g, q) |-> At(g, q + 3 * i - 2)]
SubscriptsRefused(g, q) ==
  \E i \in 1 .. SubscriptCount(g, q) :
     At(g, q + 3 * i - 2) \notin (Integers_ \ {"0"}) \/ At(g, q + 3 * i - 1) # "]"

\* The stars counted so far go below the subscripts of a group.
group_postfix(g, d) ==
  IF SubscriptAt(g) > Len(g) THEN d
  ELSE [d EXCEPT !.fragment = Subscripts(g, SubscriptAt(g)) \o [i \in 1 .. d.prefix |-> "*"] \o @,
                 !.prefix = 0]

(***************************************************************************)
(* Declarators.  top counts the stars before the name, fragment is what a  *)
(* type is made of from the outside in, fn and params say that the name    *)
(* is a function.                                                          *)
(***************************************************************************)
NoParams == <<"params">>

\* A type from what it is made of: <<"*", "3">> over int is a pointer to an
\* array of three ints.
RECURSIVE TypeTree(_, _)
TypeTree(made, basic) == IF made = <<>> THEN <<basic>>
                         ELSE <<Head(made), TypeTree(Tail(made), basic)>>

\* ctype_has_fragment_array_of_incomplete: void is the only incomplete type.
ArrayOfIncomplete(made, basic) == basic = "void" /\ made # <<>> /\ made[Len(made)] # "*"

RECURSIVE function_params(_, _), by_group(_, _, _, _)

\* The parameters of a group, or those known so far if it has none.
group_params(g, d) ==
  CASE ~ Has(g, ParamsAt(g)) -> Read(1, d.params)
    [] Has(g, ParamsAt(g)) /\ d.fn -> Failed
    [] OTHER -> Then(function_params(g, ParamsAt(g) + 1),
                     LAMBDA r : IF At(g, r.pos) = ")" THEN r ELSE Failed)

by_group(groups, k, flags, d) ==
  LET g       == groups[k]
      is_leaf == k = Len(groups)
      starred == [d EXCEPT !.prefix = @ + Stars(g), !.name = IF Has(g, NameAt(g)) THEN g[NameAt(g)] ELSE @]
      topped  == IF is_leaf /\ ~ Has(g, SubscriptAt(g)) THEN [starred EXCEPT !.top = starred.prefix]
                 ELSE starred
      Go(params) == [group_postfix(g, topped) EXCEPT !.fn = @ \/ Has(g, ParamsAt(g)), !.params = params.tree]
  IN  IF \/ ScanRefuses(g, is_leaf, flags)
         \/ Has(g, SubscriptAt(g)) /\ SubscriptsRefused(g, SubscriptAt(g))
      THEN Failed
      ELSE Then(group_params(g, d), LAMBDA params :
             IF is_leaf THEN Read(1, Go(params)) ELSE by_group(groups, k + 1, flags, Go(params)))

\* It has a name exactly when it must.
parse_declarator(s, p, flags) ==
  LET start == [top |-> 0, prefix |-> 0, fragment |-> <<>>, name |-> "", fn |-> FALSE, params |-> NoParams]
      Whole(d) == [d EXCEPT !.fragment = [i \in 1 .. d.top |-> "*"] \o @]
  IN  IF ~ group_precheck(s, p) THEN Failed
      ELSE Then(group_split(s, p, flags), LAMBDA groups :
             Then(by_group(groups.tree, 1, flags, start), LAMBDA r :
               IF (r.tree.name = "") # ("abstract" \in flags) THEN Failed
               ELSE Read(groups.pos, Whole(r.tree))))

\* map_declarator_to_ctype, and the test both callers make of its result.
Declared(d, basic) == IF ArrayOfIncomplete(d.fragment, basic) THEN <<"error">>
                      ELSE TypeTree(d.fragment, basic)

\* parse_type: the type, and the name it is given unless flags say abstract.
parse_type(s, p, flags) ==
  LET end   == EndOfWords(s, p, TypeWords)
      basic == basic_type(Words(s, p, TypeWords, TypeWords))
  IN  Then(parse_declarator(s, end, flags), LAMBDA d :
        IF basic = "error" \/ d.tree.fn \/ Declared(d.tree, basic) = <<"error">> THEN Failed
        ELSE Read(d.pos, <<"param", Declared(d.tree, basic), <<d.tree.name>>>>))

\* parse_function_params: the parameters after the parenthesis.
RECURSIVE Parameters(_, _)
Parameters(s, p) ==
  Then(parse_type(s, p, {}), LAMBDA one :
    IF At(s, one.pos) # "," THEN Read(one.pos, <<one.tree>>)
    ELSE Then(Parameters(s, one.pos + 1), LAMBDA rest : Read(rest.pos, <<one.tree>> \o rest.tree)))
function_params(s, p) ==
  IF At(s, p) = "void" /\ At(s, p + 1) = ")" THEN Read(p + 1, NoParams)
  ELSE Then(Parameters(s, p), LAMBDA all : Read(all.pos, NoParams \o all.tree))

\* parse_specifiers and parse_specifiers_and_type: what the declarations of
\* functions and variables start with.
specifiers_and_type(s, p) ==
  LET end   == EndOfWords(s, p, TypeWords \cup Specifiers)
      spec  == Words(s, p, TypeWords \cup Specifiers, Specifiers)
      basic == basic_type(Words(s, p, TypeWords \cup Specifiers, TypeWords))
  IN  Then(parse_declarator(s, end, {"params"}), LAMBDA d :
        IF Len(spec) > 1 \/ basic = "error" \/ Declared(d.tree, basic) = <<"error">> THEN Failed
        ELSE Read(d.pos, [spec |-> IF spec = <<>> THEN <<"none">> ELSE spec,
                          type |-> Declared(d.tree, basic), name |-> <<d.tree.name>>,
                          fn |-> d.tree.fn, params |-> d.tree.params]))
=============================================================================
