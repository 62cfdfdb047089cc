--------------------------------- MODULE Json ---------------------------------
(***************************************************************************)
(* JSON values: pairs of a kind and a content, <<"string", s>>,            *)
(* <<"integer", n>>, <<"object", f>> with a function f from names to       *)
(* values, <<"array", seq>>, ...  What json.loads returns is a finite      *)
(* tree: whatever the parts of a value are, they are lower than the value. *)
(***************************************************************************)
EXTENDS Integers

CONSTANTS
  Values,          \* the values there may be
  Height           \* how deep each of them is nested

Kinds == {"string", "integer", "number", "boolean", "null", "object", "array"}

\* An object or a list, which hold other values.
Compound(v) == v[1] \in {"object", "array"}

ASSUME ValuesAreTrees ==
  /\ Height \in [Values -> Nat]
  /\ \A v \in Values :
       /\ v[1] \in Kinds
       /\ Compound(v) =>
            \A k \in DOMAIN v[2] : v[2][k] \in Values /\ Height[v[2][k]] < Height[v]
=============================================================================
