------------------------------ MODULE MCAdapters ------------------------------
(* An instance of Adapters for TLC. *)
EXTENDS Adapters, TLC, FiniteSetsExt

Model(provider, prefix, name) == [provider |-> provider, prefix |-> prefix, name |-> name]

\* A priced model, one that is supported and not in the table, one that is not
\* supported, a model without logs, the mock.
MCModels == {Model("openai", "gpt-", "4o"), Model("openai", "gpt-", "5"),
             Model("openai", "claude-", "x"), Model("anthropic", "claude-", "x"),
             Model("mock", "mock-", "any")}

\* A model with dearer output tokens.
MCCostTable == (Model("openai", "gpt-", "4o") :> <<1, 4>>) @@ (Model("anthropic", "claude-", "x") :> <<1, 4>>)

MCMockRate == <<5, 5>>
MCRates == {<<1, 4>>, <<5, 5>>}

MCOptions == {{}, {"quiet"}, {"verbose", "unsafe_debug_prompt"}}

Str(s) == <<"string", s>>

\* One of each kind of schema: types in both forms, the three ways to give a
\* value (an instance or not), no type, a narrowed one, the schema true.
Leaves1 == {[type |-> "string"], [type |-> "number"], [types |-> <<"null", "boolean">>],
            [types |-> <<"null">>], [type |-> "null"], <<>>, [always |-> TRUE],
            [type |-> "string", narrow |-> TRUE],
            [const |-> Str(KeyText)], [const |-> Str(""), type |-> "string"],
            [type |-> "string", enum |-> <<Str(""), Str("b")>>],
            [type |-> "integer", default |-> Str("d")], [enum |-> <<>>]}

\* An object with an empty title, given whole, for a title that may be another.
Titled(title) == <<"object", [title |-> Str(title)]>>
Untitled == Titled("")
Given1 == {[const |-> Titled(title)] : title \in Topics}
  \cup {[enum |-> <<Titled(title), Str("b")>>] : title \in Topics}
  \cup {
     [default |-> Untitled, properties |-> [title |-> [type |-> "string"]]]}

Lists(items) == {[type |-> "array", items |-> s] : s \in items} \cup {[type |-> "array"]}

Objects(subs) ==
  {[type |-> "object", properties |-> [title |-> s, token |-> [type |-> "string"]],
    required |-> {"title"}] : s \in subs}

\* What is required is not all described.
Incomplete(subs) ==
  {[type |-> "object", properties |-> [list |-> s], required |-> {"list", "other"}] : s \in subs}

\* What the deeper schemas hold.
Leaves2 == {[type |-> "string"], [const |-> Str(KeyText)], [always |-> TRUE],
            [type |-> "integer", default |-> Str("d")]}

MCSchemas == Leaves1 \cup Given1 \cup Lists(Leaves1) \cup Objects(Leaves1)
               \cup Objects(Lists(Leaves2)) \cup Lists(Objects(Leaves2))
               \cup Incomplete(Lists(Leaves2))

MCOutputs == {<<"object", [title |-> Str("a"), token |-> Str("t")]>>,
              <<"array", <<Str(KeyText), <<"object", [prompt |-> <<"array", <<Str("p")>> >>]>> >> >>,
              Zero.null}

\* Both are finite trees: their heights, with the parts found by their place.
RECURSIVE HeightOf(_)
HeightOf(v) ==
  IF Compound(v) THEN 1 + Max({0} \cup {HeightOf(v[2][k]) : k \in DOMAIN v[2]}) ELSE 0

RECURSIVE DepthOf(_)
DepthOf(s) ==
  1 + Max({0} \cup {DepthOf(Properties(s)[k]) : k \in DOMAIN Properties(s)}
            \cup (IF Has(s, "items") THEN {DepthOf(s.items)} ELSE {}))

MCDepth == [s \in MCSchemas |-> DepthOf(s)]

\* A value with any of its parts marked, and the parts of a value.
RECURSIVE Marked(_)
Marked(v) ==
  {Redacted} \cup
  (IF Compound(v)
     THEN {<<v[1], f>> : f \in {g \in [DOMAIN v[2] -> UNION {Marked(v[2][k]) : k \in DOMAIN v[2]}] :
                                 \A k \in DOMAIN v[2] : g[k] \in Marked(v[2][k])}}
     ELSE {v})

RECURSIVE PartsOf(_)
PartsOf(v) ==
  {v} \cup (IF Compound(v) THEN UNION {PartsOf(v[2][k]) : k \in DOMAIN v[2]} ELSE {})

MCValues ==
  UNION {PartsOf(v) : v \in UNION {Marked(w) : w \in
    MCOutputs \cup {Touched(Default[s], t) : s \in MCSchemas, t \in Topics}}}
    \cup {Str("b")}

MCHeight == [v \in MCValues |-> HeightOf(v)]
=============================================================================
