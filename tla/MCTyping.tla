------------------------------ MODULE MCTyping ------------------------------
(***************************************************************************)
(* The expressions that Typing is checked on.                              *)
(***************************************************************************)
EXTENDS Typing

CONSTANTS PlusZero, MinusZero, One, IntMaxAsDouble, Scales
I == INSTANCE Instructions WITH ir <- src, code <- tree, stage <- pass

MCShapes == {OperationShape(o) : o \in I!Operations}

IntPtr  == PointerTo(INT)
CharPtr == PointerTo(Type("char"))
VoidPtr == PointerTo(Type("void"))
ArithmeticTypes == {Type(t) : t \in {"char", "schar", "uchar", "int", "uint", "long", "ulong", "double"}}
PointerTypes    == {IntPtr, CharPtr, VoidPtr, PointerTo(IntPtr), PointerTo(ArrayOf(INT, 3))}
ArrayTypes      == {ArrayOf(INT, 2), ArrayOf(INT, 3), ArrayOf(Type("char"), 2)}
ScalarTypes     == ArithmeticTypes \cup PointerTypes

NullConstants == {Constant(0, NullPointerIsh(INT))}
Constants == NullConstants \cup {Constant(3, INT), Constant(One, Type("double"))}
Leaves(p) == {Variable(p, c) : c \in ScalarTypes \cup ArrayTypes} \cup Constants
Few(p)    == {Variable(p, c) : c \in {Type("char"), Type("uint"), Type("double"), IntPtr, ArrayOf(INT, 3)}}
             \cup NullConstants

UnaryOps  == {"neg", "~", "!", "deref", "addr", "sizeof", "paren"} \cup Steps
BinaryOps == Arithmetics \cup Shifts \cup Compares \cup Logicals \cup Compounds \cup {"=", "subscript"}

Unaries(A)  == {Unary(op, a) : op \in UnaryOps, a \in A}
Castings(A) == {CastTo(c, a) : c \in ScalarTypes \cup ArrayTypes \cup {Type("void")}, a \in A}
Binaries(ops, A, B) == {Binary(op, a, b) : op \in ops, a \in A, b \in B}
Ternaries(A, B, C) == {Node("?:", <<a, b, c>>) : a \in A, b \in B, c \in C}

Returns(A) == {Return(c, a) : c \in ScalarTypes \cup {Type("void")}, a \in A \cup {NullExpr(Type("void"))}}
Controls(A) == {Unary(op, a) : op \in {"if", "switch"}, a \in A}

SomeOps == {"+", "-", "*", "<<", "==", "&&", "=", "+=", "subscript"}

\* Objects that are assigned to, and what is assigned to them.
Objects ==
  {Unary("paren", Variable(1, INT)), Unary("deref", Variable(1, IntPtr)), Unary("deref", Variable(1, CharPtr)),
   Unary("deref", Unary("addr", Variable(1, INT))), Unary("deref", Unary("paren", Unary("addr", Unary("paren", Variable(1, INT))))),
   Binary("subscript", Variable(1, IntPtr), Variable(2, INT)),
   Binary("subscript", Variable(1, ArrayOf(INT, 3)), Variable(2, Type("char"))),
   Binary("subscript", Variable(2, Type("long")), Variable(1, CharPtr)),
   Unary("deref", Unary("x++", Variable(1, IntPtr))), CastTo(INT, Variable(1, INT))}
Effects(p) == {Unary("x++", Variable(p, INT)), Binary("=", Variable(p, Type("uint")), Constant(3, INT)),
               Binary("+=", Variable(p, Type("char")), Variable(p + 1, Type("uint")))}

\* One operator over operands of every type; operators over operators; and
\* assignments to objects of every kind.
MCSources == <<
  Leaves(1), Unaries(Leaves(1)), Castings(Leaves(1)), Returns(Leaves(1)), Controls(Leaves(1)),
  Binaries(BinaryOps, Leaves(1), Leaves(2)),
  Ternaries({Variable(3, INT)}, Leaves(1), Leaves(2)),

  Unaries(Unaries(Leaves(1))), Unaries(Castings(Few(1))),
  Castings(Unaries(Few(1))), Castings(Castings(Few(1))),
  Unaries(Binaries(SomeOps, Few(1), Few(2))),
  Binaries({"=", "==", "+"}, Few(1),
           Unaries(NullConstants) \cup Castings(NullConstants) \cup Castings(Castings(NullConstants))),
  Binaries({"+", "-", "<", "&&", "="}, Few(1),
           Binaries({"+", "-", "*", "<", "||"}, Few(2), Few(3))),

  Unaries(Objects), Castings(Objects),
  Binaries(Compounds \cup {"="}, Objects, Few(3) \cup Effects(3)),
  Binaries({"+", "&&", "||"}, Objects \cup Few(1), Effects(3)),
  Ternaries(Few(1) \cup Objects, Effects(3), Effects(5)) >>
=============================================================================
