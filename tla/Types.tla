-------------------------------- MODULE Types --------------------------------
(***************************************************************************)
(* struct ctype of src/lang/types.h and the functions on it: kinds, sizes, *)
(* the common type of two types, and equality with and without the decay   *)
(* of arrays into pointers.                                                *)
(***************************************************************************)
EXTENDS Naturals, Sequences

\* t is the kind; null is maybe_null_pointer_constant; of holds the referent
\* of a pointer or an array; sz is the length of an array.
Type(t)           == [t |-> t, null |-> FALSE, of |-> <<>>, sz |-> 0]
PointerTo(c)      == [t |-> "ptr", null |-> FALSE, of |-> <<c>>, sz |-> 0]
ArrayOf(c, sz)    == [t |-> "array", null |-> FALSE, of |-> <<c>>, sz |-> sz]
NullPointerIsh(c) == [c EXCEPT !.null = TRUE]

\* The order of FOREACH_CTYPE, which is the rank of a conversion.  The two
\* last ones stand for a type that could not be found.
Ranks == [char |-> 1, schar |-> 2, uchar |-> 3, int |-> 4, uint |-> 5, long |-> 6,
          ulong |-> 7, double |-> 8, array |-> 9, ptr |-> 10, void |-> 11,
          error |-> 12, assert |-> 13]
Rank(c) == Ranks[c.t]

LONG         == Type("long")
INT          == Type("int")
LIKE_PTRDIFF_T == LONG
LIKE_SIZE_T == Type("ulong")
Zeroed       == Type("char")   \* a struct ctype of zalloc

Referent(c)         == c.of[1]
is_charlike(c)      == c.t \in {"char", "schar", "uchar"}
is_integer(c)       == is_charlike(c) \/ c.t \in {"int", "uint", "long", "ulong"}
is_signed(c)        == c.t \in {"char", "schar", "int", "long", "double"}
is_floating_point(c) == c.t = "double"
is_array(c)         == c.t = "array"
is_pointer(c)       == c.t = "ptr" \/ is_array(c)
is_void(c)          == c.t = "void"
is_void_ptr(c)      == c.t = "ptr" /\ is_void(Referent(c))
is_strlike_array(c) == is_array(c) /\ is_charlike(Referent(c))
nullptr_ish(c)      == c.null
decay(c)            == IF is_array(c) THEN PointerTo(Referent(c)) ELSE c

RECURSIVE size_bytes(_)
size_bytes(c) ==
  CASE c.t = "void" -> 0
    [] is_charlike(c) -> 1
    [] c.t \in {"int", "uint"} -> 4
    [] c.t \in {"long", "ulong", "double", "ptr"} -> 8
    [] is_array(c) -> c.sz * size_bytes(Referent(c))

\* get_common_ctype of two pointers answers with one of the two, by the
\* common type of what they point to.
RECURSIVE common_ctype(_, _)
common_ctype(lhs, rhs) ==
  IF lhs.t = "ptr" /\ rhs.t = "ptr"
  THEN IF common_ctype(Referent(lhs), Referent(rhs)) = Referent(lhs) THEN lhs ELSE rhs
  ELSE IF Rank(lhs) >= Rank(rhs) THEN lhs ELSE rhs

\* ctype_is_equal_impl.  The referents of an array and a pointer are compared
\* with decay again.
RECURSIVE is_equal_impl(_, _, _)
is_equal_impl(lhs, rhs, decays) ==
  IF is_array(lhs) /\ is_array(rhs) /\ lhs.sz # rhs.sz THEN FALSE
  ELSE IF decays /\ is_pointer(lhs) /\ is_pointer(rhs) /\ (is_array(lhs) \/ is_array(rhs))
  THEN is_equal_impl(Referent(lhs), Referent(rhs), TRUE)
  ELSE /\ lhs.t = rhs.t
       /\ lhs.of = <<>> <=> rhs.of = <<>>
       /\ lhs.of # <<>> => is_equal_impl(Referent(lhs), Referent(rhs), FALSE)

is_equal(lhs, rhs) == is_equal_impl(lhs, rhs, TRUE)
=============================================================================
