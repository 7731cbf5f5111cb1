------------------------------ MODULE CGrammar ------------------------------
(***************************************************************************)
(* The grammar of C for the part of the language enqcc reads, as sets: of  *)
(* all the trees a sequence of tokens has.  It is written from C89 (with   *)
(* declarations anywhere in a block and in the head of a for loop) and     *)
(* shares with the parser only the names of tokens and of trees.           *)
(***************************************************************************)
EXTENDS Statements

Front(T)    == SubSeq(T, 1, Len(T) - 1)
Upto(T, k)  == SubSeq(T, 1, k)
After(T, k) == SubSeq(T, k + 1, Len(T))
Last(T)     == T[Len(T)]
Nonempty(T) == T # <<>>
\* What stands between the first and the last token, if they are t and u.
Within(T, t, u) == Len(T) >= 2 /\ T[1] = t /\ Last(T) = u
Inside(T)   == SubSeq(T, 2, Len(T) - 1)
\* Everything that has a tree has as many opening as closing brackets.
Balanced(T) == \A b \in {<<"(", ")">>, <<"[", "]">>, <<"{", "}">>} :
                  Count(T, 1, Len(T), b[1]) = Count(T, 1, Len(T), b[2])
\* The ways to cut T in two after one of the tokens C.
CutsAfter(T, C) == {k \in 1 .. Len(T) - 1 : T[k] \in C /\ Balanced(Upto(T, k))}
\* What follows the last of a sequence of items: nothing.
NothingLeft(T, L) == IF T = <<>> THEN {<<>>} ELSE L

(***************************************************************************)
(* Types and declarators.                                                  *)
(***************************************************************************)
BasicTypes ==
  { <<{"void"}, "void">>, <<{"double"}, "double">>, <<{"char"}, "char">>,
    <<{"signed", "char"}, "signed char">>, <<{"unsigned", "char"}, "unsigned char">> }
  \cup {<<W, "int">> : W \in {{"int"}, {"signed"}, {"signed", "int"}}}
  \cup {<<W, "unsigned int">> : W \in {{"unsigned"}, {"unsigned", "int"}}}
  \cup {<<{"long"} \cup W, "long">> : W \in SUBSET {"signed", "int"}}
  \cup {<<{"long", "unsigned"} \cup W, "unsigned long">> : W \in SUBSET {"int"}}
\* Specifiers come in any order, each once.
BasicType(words) == {b[2] : b \in {c \in BasicTypes : Len(words) = Cardinality(c[1])
                                        /\ {words[i] : i \in DOMAIN words} = c[1]}}

\* The number of tokens of kinds W that T starts with.
Prefix(T, W) == CHOOSE n \in 0 .. Len(T) : (\A i \in 1 .. n : T[i] \in W) /\ At(T, n + 1) \notin W

\* Every way to read T as a declarator: its name, what its type is made of
\* from the name outwards, and its parameters if it is a function.
Plain(name) == [name |-> name, made |-> <<>>, fn |-> FALSE, params |-> NoParams]
RECURSIVE Declarator(_, _), ParameterLists(_)
Direct(T, abstract) == IF At(T, 1) = "*" THEN {} ELSE Declarator(T, abstract)
Declarator(T, abstract) ==
  LET n        == Len(T)
      Made(D, m) == {[d EXCEPT !.made = Append(@, m)] : d \in D}
      opening  == {k \in 2 .. n - 1 : T[k] = "("}
      Functions(k) == {[d EXCEPT !.fn = TRUE, !.params = l] :
                          d \in {e \in Direct(Upto(T, k - 1), FALSE) : ~ e.fn /\ e.made = <<>>},
                          l \in ParameterLists(SubSeq(T, k + 1, n - 1))}
  IN  CASE n = 0 -> IF abstract THEN {Plain("")} ELSE {}
        [] n = 1 /\ T[1] \in Identifiers -> IF abstract THEN {} ELSE {Plain(T[1])}
        [] n > 0 /\ T[1] = "*" -> Made(Declarator(Tail(T), abstract), "*")
        [] n > 2 /\ T[n] = "]" ->
             IF T[n - 2] = "[" /\ T[n - 1] \in Integers_ \ {"0"}
             THEN Made({d \in Direct(Upto(T, n - 3), abstract) : ~ (d.fn /\ d.made = <<>>)}, T[n - 1]) ELSE {}
        [] n > 2 /\ T[n] = ")" ->
             (IF T[1] = "(" THEN Declarator(Inside(T), abstract) ELSE {})
             \cup (IF abstract THEN {} ELSE UNION {Functions(k) : k \in opening})
        [] OTHER -> {}

\* The types, with the names, that words W and a declarator give.
TypeNames(T, abstract) ==
  LET n == Prefix(T, TypeWords)
  IN  {<<"param", TypeTree(d.made, b), <<d.name>>>> :
         d \in {e \in Declarator(After(T, n), abstract) : ~ e.fn},
         b \in BasicType(Upto(T, n))}
Complete(type) == type # <<"void">>
RECURSIVE HasElements(_)   \* no array of void in it
HasElements(type) == Len(type) = 2 => HasElements(type[2]) /\ (type[1] # "*" => Complete(type[2]))

ParameterLists(T) ==
  LET one(U) == {p \in TypeNames(U, FALSE) : Complete(p[2]) /\ HasElements(p[2])}
      commas == {k \in DOMAIN T : T[k] = ","}
  IN  (IF T = <<"void">> THEN {NoParams} ELSE {})
      \cup {<<"params", p>> : p \in one(T)}
      \cup UNION {{Append(l, p) : l \in ParameterLists(Upto(T, k - 1)), p \in one(After(T, k))} :
                  k \in {c \in commas : c # 2 \/ T[1] # "void"}}

(***************************************************************************)
(* Expressions.                                                            *)
(***************************************************************************)
RECURSIVE Binary(_, _), CastExpr(_), Unary(_), Postfix(_), Lists(_)
Expression(T) == Binary(T, 1)   \* an assignment: enqcc has no comma operator
\* The binary operators of C in the order its grammar nests them.
Levels == <<Assignments, {"?"}, {"||"}, {"&&"}, {"|"}, {"^"}, {"&"}, {"==", "!="},
            {"<", ">", "<=", ">="}, {"<<", ">>"}, {"+", "-"}, {"*", "/", "%"}>>

\* The binary operators of level n >= 3 associate to the left.
LeftAssociative(T, n) ==
  UNION {{<<T[k], l, r>> : l \in Binary(Upto(T, k - 1), n), r \in Binary(After(T, k), n + 1)} :
            k \in {i \in 2 .. Len(T) - 1 : T[i] \in Levels[n] /\ Balanced(After(T, i))}}
Assignment(T) ==
  UNION {{<<T[k], l, r>> : l \in Unary(Upto(T, k - 1)), r \in Binary(After(T, k), 1)} :
            k \in {i \in 2 .. Len(T) - 1 : T[i] \in Assignments}}
Conditional(T) ==
  UNION {UNION {{<<"?", c, m, r>> : c \in Binary(Upto(T, k - 1), 3), m \in Expression(SubSeq(T, k + 1, j - 1)),
                                    r \in Binary(After(T, j), 2)} : j \in {i \in k + 2 .. Len(T) - 1 : T[i] = ":"}} :
            k \in {i \in 2 .. Len(T) - 3 : T[i] = "?"}}
Binary(T, n) ==
  IF T = <<>> THEN {}
  ELSE IF n > Len(Levels) \/ \A i \in 2 .. Len(T) - 1 : T[i] \notin InfixOps THEN CastExpr(T)
  ELSE Binary(T, n + 1) \cup CASE n = 1 -> Assignment(T)
                              [] n = 2 -> Conditional(T)
                              [] OTHER -> LeftAssociative(T, n)

\* The parenthesised types that T starts with, and how long each is.
TypeAhead(T) == {k \in 3 .. Len(T) : T[1] = "(" /\ T[k] = ")" /\ T[2] \in TypeWords}
TypesAhead(T, k) == {t[2] : t \in {u \in TypeNames(SubSeq(T, 2, k - 1), TRUE) : HasElements(u[2])}}
CastExpr(T) ==
  Unary(T) \cup UNION {{<<"cast", t, e>> : t \in TypesAhead(T, k), e \in CastExpr(After(T, k))} : k \in TypeAhead(T)}
Unary(T) ==
  LET operand == CASE T[1] \in {"++", "--", "sizeof"} -> Unary(Tail(T))
                   [] OTHER -> CastExpr(Tail(T))
  IN  CASE T = <<>> -> {}
        [] T # <<>> /\ T[1] \in PrefixOps ->
             {<<T[1], IF T[1] = "sizeof" /\ e[1] = "()" THEN e[2] ELSE e>> : e \in operand}
             \cup (IF T[1] # "sizeof" THEN {} ELSE
                   {<<"sizeof", <<"typed", t>>>> : t \in UNION {TypesAhead(Tail(T), k) :
                                                       k \in TypeAhead(Tail(T)) \cap {Len(T) - 1}}})
        [] OTHER -> Postfix(T)
\* What may stand between the parentheses of a call.
Lists(T) == {<<e>> : e \in Expression(T)}
            \cup UNION {{<<e>> \o l : e \in Expression(Upto(T, k - 1)), l \in Lists(After(T, k))} :
                          k \in {i \in DOMAIN T : T[i] = ","}}
Postfix(T) ==
  LET n == Len(T) IN
  CASE n = 0 -> {}
    [] n = 1 -> IF T[1] \in Identifiers \cup Integers_ \cup Doubles_ THEN {T} ELSE {}
    [] n > 1 /\ T[n] \in {"++", "--"} -> {<<"post" \o T[n], e>> : e \in Postfix(Front(T))}
    [] n > 1 /\ T[n] = "]" ->
         UNION {{<<"[]", e, i>> : e \in Postfix(Upto(T, k - 1)), i \in Expression(SubSeq(T, k + 1, n - 1))} :
                   k \in {i \in 2 .. n - 2 : T[i] = "["}}
    [] n > 1 /\ T[n] = ")" ->
         {<<"()", e>> : e \in IF T[1] = "(" THEN Expression(Inside(T)) ELSE {}}
         \cup (IF T[1] \notin Identifiers \/ T[2] # "(" THEN {}
               ELSE {<<"call", <<T[1]>>>> \o l :
                       l \in Lists(SubSeq(T, 3, n - 1)) \cup (IF n = 3 THEN {<<>>} ELSE {})})
    [] OTHER -> {}

(***************************************************************************)
(* Declarations.                                                           *)
(***************************************************************************)
RECURSIVE Initializer(_), InitializerList(_), Statement(_), BlockItems(_)
\* After a list of initializers a comma may stand.
InitializerList(T) ==
  {<<i>> : i \in Initializer(T)}
  \cup UNION {{<<i>> \o l : i \in Initializer(Upto(T, k - 1)), l \in InitializerList(After(T, k)) \cup
                                 (IF k = Len(T) THEN {<<>>} ELSE {})} : k \in {j \in DOMAIN T : T[j] = ","}}
Initializer(T) ==
  IF T = <<"{", "}">> THEN {<<"inits">>}   \* as of C23
  ELSE IF Within(T, "{", "}") THEN {<<"inits">> \o l : l \in InitializerList(Inside(T))}
  ELSE {<<"init", e>> : e \in Expression(T)}

Block(T) ==
  IF ~ Within(T, "{", "}") THEN {}
  ELSE IF Len(T) = 2 THEN {<<"block", Null>>} ELSE {<<"block">> \o l : l \in BlockItems(Inside(T))}

\* T is a declaration, or the definition of a function.
Declaration(T) ==
  LET n       == Prefix(T, TypeWords \cup Specifiers)
      words   == Upto(T, n)
      specs   == SelectSeq(words, LAMBDA w : w \in Specifiers)
      basic   == BasicType(SelectSeq(words, LAMBDA w : w \in TypeWords))
      Spec    == IF specs = <<>> THEN <<"none">> ELSE specs
      brace   == First(T, 1, {"{"})
      equals  == First(T, 1, {"="})
      Declared_(U) == {d \in {[d |-> d, type |-> TypeTree(d.made, b)] : d \in Declarator(U, FALSE), b \in basic} :
                         HasElements(d.type)}
      Variable(D, I) == {<<"declare", Spec, d.type, <<d.d.name>>, i>> :
                            d \in {e \in D : ~ e.d.fn /\ Complete(e.type)}, i \in I}
      Function(D, B) == {<<"function", Spec, d.type, <<d.d.name>>, d.d.params, b>> :
                            d \in {e \in D : e.d.fn}, b \in B}
  IN  IF T = <<>> \/ Len(specs) > 1 THEN {}
      ELSE IF Last(T) = ";"
      THEN Variable(Declared_(SubSeq(T, n + 1, Len(T) - 1)), {Null})
           \cup Function(Declared_(SubSeq(T, n + 1, Len(T) - 1)), {Null})
           \cup Variable(Declared_(SubSeq(T, n + 1, equals - 1)), Initializer(SubSeq(T, equals + 1, Len(T) - 1)))
      ELSE Function(Declared_(SubSeq(T, n + 1, brace - 1)), Block(After(T, brace - 1)))

(***************************************************************************)
(* Statements: each is the sequence of its labels and itself.              *)
(***************************************************************************)
\* Could an else that follows belong to the statement l?
RECURSIVE TakesElse(_)
TakesElse(l) ==
  LET a == Last(l)
  IN  CASE a[1] = "if" -> a[4] = Null \/ TakesElse(a[4])
        [] a[1] = "loop" -> a[4] = Null /\ TakesElse(a[5])
        [] a[1] = "block" -> Len(a) = 3 /\ a[3][1] = "loop" /\ TakesElse(<<a[3]>>)
        [] a[1] = "switch" -> TakesElse(a[3])
        [] OTHER -> FALSE
List(l) == <<"list">> \o l
Optional(T) == IF T = <<>> THEN {Null} ELSE Expression(T)
\* Every way to read what follows T[1] as a condition and the rest.
Closers(T) == {k \in 4 .. Len(T) : T[2] = "(" /\ T[k] = ")" /\ Balanced(Upto(T, k))}
Condition(T, k) == Expression(SubSeq(T, 3, k - 1))

IfStatement(T) ==
  UNION {{<<"if", c, List(t), Null>> : c \in Condition(T, k), t \in Statement(After(T, k))} : k \in Closers(T)}
  \cup UNION {UNION {{<<"if", c, List(t), List(e)>> : c \in Condition(T, k),
                         t \in {s \in Statement(SubSeq(T, k + 1, j - 1)) : ~ TakesElse(s)},
                         e \in Statement(After(T, j))} :
                   j \in {i \in DOMAIN T : i > k /\ T[i] = "else"}} : k \in Closers(T)}
DoStatement(T) ==
  UNION {{<<"loop", Null, Null, c, List(b)>> : b \in Statement(SubSeq(T, 2, k - 1)),
              c \in IF T[k + 1] = "(" /\ T[Len(T) - 1] = ")" THEN Expression(SubSeq(T, k + 2, Len(T) - 2)) ELSE {}} :
            k \in {i \in 3 .. Len(T) - 3 : T[i] = "while" /\ Balanced(Upto(T, i))}}
ForHead(T) == \* the three parts of a head, T without its parentheses
  LET semis == {k \in DOMAIN T : T[k] = ";"}
  IN  UNION {{<<i, c, r>> : i \in Optional(Upto(T, s[1] - 1)) \cup
                                  {d \in IF At(T, 1) \in TypeWords THEN Declaration(Upto(T, s[1])) ELSE {} : d[1] = "declare"},
                           c \in Optional(SubSeq(T, s[1] + 1, s[2] - 1)), r \in Optional(After(T, s[2]))} :
             s \in {u \in semis \X semis : u[1] < u[2]}}
ForStatement(T) ==
  UNION {{<<"block", h[1], <<"loop", h[2], h[3], Null, List(b)>>>> :
             h \in ForHead(SubSeq(T, 3, k - 1)), b \in Statement(After(T, k))} : k \in Closers(T)}
Label(T) ==
  LET k == Len(T)
  IN  CASE k = 3 /\ T[1] = "case" /\ T[2] \in Integers_ /\ T[3] = ":" -> {<<"case", <<T[2]>>>>}
        [] k = 2 /\ T[1] = "default" /\ T[2] = ":" -> {<<"default">>}
        [] k = 2 /\ T[1] \in Identifiers /\ T[2] = ":" -> {<<"label", <<T[1]>>>>}
        [] OTHER -> {}
Labelled(T) == UNION {{<<l>> \o s : l \in Label(Upto(T, k)), s \in Statement(After(T, k))} :
                        k \in {2, 3} \cap (1 .. Len(T) - 1)}

Statement(T) ==
  LET t == At(T, 1)
      One(S) == {<<s>> : s \in S}
  IN  Labelled(T) \cup One(
        CASE T = <<>> -> {}
          [] t = "{" -> Block(T)
          [] t = "if" -> IfStatement(T)
          [] t = "while" -> UNION {{<<"loop", c, Null, Null, List(b)>> : c \in Condition(T, k),
                                       b \in Statement(After(T, k))} : k \in Closers(T)}
          [] t = "switch" -> UNION {{<<"switch", c, List(b)>> : c \in Condition(T, k),
                                        b \in Statement(After(T, k))} : k \in Closers(T)}
          [] t = "for" -> ForStatement(T)
          [] t = "do" /\ Last(T) = ";" -> DoStatement(T)
          [] T = <<";">> -> {Null}
          [] t = "return" /\ Last(T) = ";" -> {<<"return", e>> : e \in Optional(Inside(T))}
          [] t \in {"break", "continue"} -> IF T = <<t, ";">> THEN {<<t>>} ELSE {}
          [] t = "goto" -> IF Len(T) = 3 /\ T[2] \in Identifiers /\ T[3] = ";" THEN {<<t, <<T[2]>>>>} ELSE {}
          [] t \notin Keywords \cup {"{"} /\ Len(T) > 1 /\ Last(T) = ";" -> Expression(Front(T))
          [] OTHER -> IF t = "sizeof" /\ Last(T) = ";" THEN Expression(Front(T)) ELSE {})

\* As of C23 a label needs no statement in a block.
BlockItems(T) ==
  LET Item(U) == Statement(U) \cup {<<d>> : d \in Declaration(U) \cup Label(U)}
  IN  UNION {{i \o l : i \in Item(Upto(T, k)), l \in NothingLeft(After(T, k), BlockItems(After(T, k)))} :
               k \in CutsAfter(T, {";", "}", ":"}) \cup {Len(T)}}

RECURSIVE Globals_(_)
Globals_(T) ==
  UNION {{<<d>> \o l : d \in Declaration(Upto(T, k)), l \in NothingLeft(After(T, k), Globals_(After(T, k)))} :
           k \in CutsAfter(T, {";", "}"}) \cup {Len(T)}}
Program(T) == {<<"program">> \o l : l \in Globals_(T)}
=============================================================================
