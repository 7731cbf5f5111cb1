----------------------------- MODULE LexicalScope -----------------------------
(***************************************************************************)
(* What identifier resolution promises: block-structured scopes, each a    *)
(* set of bindings of names to objects, where every new object gets an ID  *)
(* that no object of the translation unit ever had.  Module Resolve        *)
(* implements this with one list of symbols, markers in it and a           *)
(* high-water mark.                                                        *)
(***************************************************************************)
EXTENDS Integers, Sequences, FiniteSets

CONSTANTS
  Name,     \* identifiers of the source program
  NoName,   \* stands for "no initializer"
  Id        \* IDs an object may be given

VARIABLES
  scopes,   \* stack of scopes, the innermost last: sets of [name, id, linked]
  used,     \* IDs given to an object so far, dead or alive
  seen,     \* what the last usage of an identifier was resolved to
  status    \* "ok" | "done" | "duplicate" | "undeclared"

vars == <<scopes, used, seen, status>>

Names(s) == {b.name : b \in s}
BindingOf(s, n) == CHOOSE b \in s : b.name = n

\* Scope s with b, whatever its name was bound to before.
WithBinding(s, b) == {c \in s : c.name # b.name} \cup {b}

Top == scopes[Len(scopes)]

\* Depths at which n is bound; the innermost one is visible.
Depths(n) == {k \in 1 .. Len(scopes) : n \in Names(scopes[k])}

Visible(n) ==
  BindingOf(scopes[CHOOSE k \in Depths(n) : \A j \in Depths(n) : j =< k], n)

Init ==
  /\ scopes = << {} >>
  /\ used = {}
  /\ seen = <<>>
  /\ status = "ok"

Bind(b) == scopes' = [scopes EXCEPT ![Len(scopes)] = WithBinding(@, b)]

\* A name gets a new object, in the innermost scope.
Fresh(n, linked) ==
  \E id \in Id \ used :
    /\ Bind([name |-> n, id |-> id, linked |-> linked])
    /\ used' = used \cup {id}

\* A variable: a second declaration in one scope needs linkage on both
\* sides; a linked one denotes the linked object already visible.
Declare(n, linked) ==
  \/ /\ n \in Names(Top)
     /\ linked /\ BindingOf(Top, n).linked
     /\ UNCHANGED <<scopes, used>>
  \/ /\ n \notin Names(Top)
     /\ linked /\ Depths(n) # {} /\ Visible(n).linked
     /\ Bind(Visible(n))
     /\ UNCHANGED used
  \/ /\ n \notin Names(Top)
     /\ ~ (linked /\ Depths(n) # {} /\ Visible(n).linked)
     /\ Fresh(n, linked)

\* The initializer of a declaration sees the name being declared.
Initialize(n) ==
  \/ /\ n = NoName
     /\ UNCHANGED <<seen, status>>
  \/ /\ Depths(n)' # {}
     /\ seen' = <<n, Visible(n)'.id>>
     /\ UNCHANGED status
  \/ /\ n # NoName /\ Depths(n)' = {}
     /\ status' = "undeclared"
     /\ UNCHANGED seen

DeclareVariable(n, linked, init) ==
  /\ status = "ok"
  /\ Declare(n, linked)
  /\ Initialize(init)

Conflict(n, linked) ==
  /\ status = "ok"
  /\ n \in Names(Top) /\ ~ (linked /\ BindingOf(Top, n).linked)
  /\ status' = "duplicate"
  /\ UNCHANGED <<scopes, used, seen>>

Use(n) ==
  /\ status = "ok"
  /\ Depths(n) # {}
  /\ seen' = <<n, Visible(n).id>>
  /\ UNCHANGED <<scopes, used, status>>

Undeclared(n) ==
  /\ status = "ok"
  /\ Depths(n) = {}
  /\ status' = "undeclared"
  /\ UNCHANGED <<scopes, used, seen>>

Open ==
  /\ status = "ok"
  /\ scopes' = Append(scopes, {})
  /\ UNCHANGED <<used, seen, status>>

Close ==
  /\ status = "ok"
  /\ Len(scopes) > 1
  /\ scopes' = SubSeq(scopes, 1, Len(scopes) - 1)
  /\ UNCHANGED <<used, seen, status>>

\* A function's name is bound outside the scope that holds its parameters.
OpenFunction(n) ==
  /\ status = "ok"
  /\ \E id \in Id \ used :
       /\ LET b == [name |-> n, id |-> id, linked |-> FALSE]
          IN  scopes' = Append([scopes EXCEPT ![Len(scopes)] = WithBinding(@, b)],
                               {})
       /\ used' = used \cup {id}
  /\ UNCHANGED <<seen, status>>

\* A parameter hides an earlier one of the same name.
Parameter(n) ==
  /\ status = "ok"
  /\ Len(scopes) > 1
  /\ Fresh(n, FALSE)
  /\ UNCHANGED <<seen, status>>

Finish ==
  /\ status = "ok"
  /\ Len(scopes) = 1
  /\ status' = "done"
  /\ UNCHANGED <<scopes, used, seen>>

Next ==
  \/ \E n \in Name, linked \in BOOLEAN, init \in Name \cup {NoName} :
       DeclareVariable(n, linked, init)
  \/ \E n \in Name, linked \in BOOLEAN : Conflict(n, linked)
  \/ \E n \in Name : \/ Use(n) \/ Undeclared(n)
                     \/ OpenFunction(n) \/ Parameter(n)
  \/ Open
  \/ Close
  \/ Finish

Spec == Init /\ [][Next]_vars
=============================================================================
