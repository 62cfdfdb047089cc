------------------------------ MODULE MockOutput ------------------------------
(***************************************************************************)
(* sealedx/providers/mock.py: the output the mock provider synthesises     *)
(* from the package's output schema, and the verdict of the schema         *)
(* validator (the jsonschema library) on it.                               *)
(*                                                                         *)
(* A schema is a record of the keywords it has: const, enum (a sequence),  *)
(* default, type (one name), types (the array form), properties, required, *)
(* items; `narrow` stands for any keyword that refuses the type's zero     *)
(* value (minLength, minimum, minItems, pattern, ...), and [always |->     *)
(* TRUE] is the schema true, which is not a dict.                          *)
(***************************************************************************)
EXTENDS Json, Sequences, Functions

CONSTANTS
  Schemas,         \* output schemas of packages, and what they are made of
  Depth            \* how deep each of them is nested

Has(s, keyword) == keyword \in DOMAIN s

Properties(s) == IF Has(s, "properties") THEN s.properties ELSE <<>>

Required(s) == IF Has(s, "required") THEN s.required ELSE {}

\* The zero value of each simple type; 0 is a number too.
Zero == [string |-> <<"string", "">>, integer |-> <<"integer", 0>>,
         number |-> <<"integer", 0>>, boolean |-> <<"boolean", FALSE>>,
         null |-> <<"null", "">>]

EmptyObject == <<"object", <<>> >>

\* `type`, or the first of the array form that is not null; a list that has no
\* other stays a list, which is none of the types.
TypeFor(s) ==
  LET named == IF Has(s, "types") THEN {i \in DOMAIN s.types : s.types[i] # "null"} ELSE {}
  IN  CASE Has(s, "type") -> s.type
        [] ~Has(s, "type") /\ named # {} -> s.types[CHOOSE i \in named : \A j \in named : i <= j]
        [] OTHER -> "none"

\* The first of const, a non-empty enum and default that s has.
Given(s) ==
  CASE Has(s, "const") -> {s.const}
    [] ~Has(s, "const") /\ Has(s, "enum") /\ s.enum # <<>> -> {s.enum[1]}
    [] ~Has(s, "const") /\ (Has(s, "enum") => s.enum = <<>>) /\ Has(s, "default") -> {s.default}
    [] OTHER -> {}

\* items, when it is a dict.
HasItems(s) == Has(s, "items") /\ ~Has(s.items, "always")
-----------------------------------------------------------------------------
(* Mutated forms, used by the mutation runs only. *)

ListOfUnlisted(v) == v                   \* the item itself for a list of one item
-----------------------------------------------------------------------------
GivenTo(s) == CHOOSE v \in Given(s) : TRUE

ListOf(v) == <<"array", <<v>> >>

\* _default_for_schema.
Default[s \in Schemas] ==
  IF Given(s) # {} THEN GivenTo(s)
  ELSE IF TypeFor(s) = "object"
    THEN <<"object", [k \in DOMAIN Properties(s) |-> Default[Properties(s)[k]]]>>
  ELSE IF TypeFor(s) = "array"
    THEN IF HasItems(s) THEN ListOf(Default[s.items]) ELSE <<"array", <<>> >>
  ELSE IF TypeFor(s) \in DOMAIN Zero THEN Zero[TypeFor(s)] ELSE EmptyObject

\* Where it raises TypeError instead: it looks for keywords in the schema true.
Raises[s \in Schemas] ==
  \/ Has(s, "always")
  \/ /\ Given(s) = {} /\ TypeFor(s) = "object"
     /\ \E k \in DOMAIN Properties(s) : Raises[Properties(s)[k]]
  \/ Given(s) = {} /\ TypeFor(s) = "array" /\ HasItems(s) /\ Raises[s.items]

\* What check_schema of packaging ensures, on top of schemas being JSON values
\* themselves; and Values has what they speak of.
ASSUME SchemasAreTrees ==
  /\ Depth \in [Schemas -> Nat]
  /\ \A s \in Schemas :
       /\ \A k \in DOMAIN Properties(s) :
            Properties(s)[k] \in Schemas /\ Depth[Properties(s)[k]] < Depth[s]
       /\ Has(s, "items") => s.items \in Schemas /\ Depth[s.items] < Depth[s]
       /\ Has(s, "type") => s.type \in Kinds
       /\ Has(s, "types") => s.types \in Seq(Kinds)
       /\ Has(s, "enum") => s.enum \in Seq(Values)
       /\ Default[s] \in Values

\* The cosmetic touch of complete: an empty title becomes the input's topic.
Touched(v, topic) ==
  IF v[1] = "object" /\ "title" \in DOMAIN v[2] /\ v[2].title = Zero.string /\ topic # ""
    THEN <<"object", [v[2] EXCEPT !.title = <<"string", topic>>]>>
    ELSE v

\* s once complete has put the topic into what it took from s itself: the
\* output is no copy, and the schema is the one execute validates it against.
Seen(s, topic) ==
  IF topic = "" THEN s
  ELSE IF Has(s, "const") THEN [s EXCEPT !.const = Touched(@, topic)]
  ELSE IF Has(s, "enum") /\ s.enum # <<>> THEN [s EXCEPT !.enum[1] = Touched(@, topic)]
  ELSE s

\* The types s allows.
Types(s) ==
  CASE Has(s, "type") -> {s.type}
    [] ~Has(s, "type") /\ Has(s, "types") -> Range(s.types)
    [] OTHER -> Kinds

\* The validator: s accepts v.
Accepts[s \in Schemas] ==
  [v \in Values |->
    /\ v[1] \in Types(s) \/ (v[1] = "integer" /\ "number" \in Types(s))
    /\ Has(s, "const") => v = s.const
    /\ Has(s, "enum") => v \in Range(s.enum)
    /\ Has(s, "narrow") => v \notin {Zero[t] : t \in DOMAIN Zero}
    /\ v[1] = "object" =>
         /\ Required(s) \subseteq DOMAIN v[2]
         /\ \A k \in DOMAIN v[2] \cap DOMAIN Properties(s) : Accepts[Properties(s)[k]][v[2][k]]
    /\ v[1] = "array" /\ Has(s, "items") => \A i \in DOMAIN v[2] : Accepts[s.items][v[2][i]]]

\* The schemas the mock is meant for: what const, enum or default give is
\* accepted, every other part has a type whose zero value is accepted, and what
\* is required is described.
Plain[s \in Schemas] ==
  /\ ~Has(s, "always")
  /\ IF Given(s) # {} THEN \A v \in Given(s) : Accepts[s][v]
     ELSE /\ TypeFor(s) # "none" /\ ~Has(s, "narrow") /\ ~Has(s, "enum")
          /\ TypeFor(s) = "object" =>
               /\ Required(s) \subseteq DOMAIN Properties(s)
               /\ \A k \in DOMAIN Properties(s) : Plain[Properties(s)[k]]
          /\ TypeFor(s) = "array" /\ HasItems(s) => Plain[s.items]

Listed(s) == Has(s, "const") \/ Has(s, "enum")

\* The title can only be the empty string, or one of a list: the schema lists
\* the titles, or the whole values.
TitlePinned(s) ==
  Listed(s) \/ ("title" \in DOMAIN Properties(s) /\ Listed(Properties(s).title))
=============================================================================
