------------------------------- MODULE Redaction -------------------------------
(***************************************************************************)
(* redact of sealedx/security/redaction.py, over JSON values.  The program *)
(* exports it and tests it; no module calls it yet.                        *)
(***************************************************************************)
EXTENDS Json

CONSTANT KeyText      \* a string that holds something shaped like an API key

KeyString == <<"string", KeyText>>

Redacted == <<"string", "<redacted>">>
-----------------------------------------------------------------------------
(* Mutated forms, used by the mutation runs only. *)

WalkedObjects(v) == v[1] = "object"      \* leaves lists as they are
-----------------------------------------------------------------------------
\* _REDACTION_KEYS: two names stand for them.
SensitiveKeys == {"token", "prompt"}

\* An item of a list has no name.
Sensitive(v, k) == v[1] = "object" /\ k \in SensitiveKeys

\* _scrub_str: a key-shaped part is replaced; a content with one is KeyText.
Scrub(v) == IF v = KeyString THEN Redacted ELSE v

\* What redact goes into.
Walked(v) == Compound(v)

\* redact: what is filed under a sensitive name is replaced whatever it is, the
\* rest by its kind.
Redact[v \in Values] ==
  IF Walked(v)
    THEN <<v[1], [k \in DOMAIN v[2] |->
                    IF Sensitive(v, k) THEN Redacted ELSE Redact[v[2][k]]]>>
    ELSE Scrub(v)

\* Values has, with every value, what is logged of it; the two marks differ.
ASSUME RedactionConstants ==
  /\ KeyText # "<redacted>"
  /\ \A v \in Values : Redact[v] \in Values
-----------------------------------------------------------------------------
\* The leaves of v, each with whether some name on the way to it is sensitive.
Leaves[v \in Values] ==
  IF Compound(v)
    THEN UNION {{<<Sensitive(v, k) \/ leaf[1], leaf[2]>> : leaf \in Leaves[v[2][k]]} :
                 k \in DOMAIN v[2]}
    ELSE {<<FALSE, v>>}

\* What redact makes of v shows no leaf below a sensitive name and no key, shows
\* all the other leaves of v, and is left alone by another redaction.
CleanlyRedacted(v) ==
  LET shown == Leaves[Redact[v]] IN
  /\ \A leaf \in shown : leaf[2] # KeyString /\ (leaf[1] => leaf[2] = Redacted)
  /\ \A leaf \in Leaves[v] : leaf[1] \/ leaf[2] = KeyString \/ leaf \in shown
  /\ Redact[Redact[v]] = Redact[v]
=============================================================================
