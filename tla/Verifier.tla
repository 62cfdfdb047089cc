------------------------------- MODULE Verifier -------------------------------
(***************************************************************************)
(* sealedx/receipts: issue_receipt, which signs the dumped receipt, and    *)
(* verify_receipt, which checks the signature and re-derives the hashes of *)
(* whatever the receipt speaks of that is still in SEALEDX_HOME.  Between  *)
(* the two, files may get lost (a cut-off execution, a clean-up, another   *)
(* machine) or differ from what was executed (restored from elsewhere,     *)
(* edited).                                                                *)
(*                                                                         *)
(* Hashes and signatures are symbolic: equal exactly when what they were   *)
(* made from is equal.                                                     *)
(***************************************************************************)
EXTENDS Naturals, FiniteSets

CONSTANTS
  Contents,      \* contents of a prompt, a schema, an output
  Keys,          \* signing keys; the public key has the name of its seed
  MaxChanges,    \* bound on the losses and edits
  None

\* A file of home that is not there, or cannot be read.
Lost == "lost"

HashOf(content) == IF content = None THEN None ELSE <<"sha256", content>>

Artifacts == {"prompt", "input_schema", "output_schema"}

\* home.output: the result file's output, which is null (None) in most failures.
Homes == [prompt: Contents \cup {Lost}, input_schema: Contents \cup {Lost},
          output_schema: Contents \cup {Lost},
          output: Contents \cup {None, Lost}, key: Keys \cup {Lost}]

\* The fields the signature covers that verification looks at, and one that
\* stands for all the others (ids, provider, cost, status, times).
BodyOf(h) == [prompt |-> HashOf(h.prompt), input_schema |-> HashOf(h.input_schema),
              output_schema |-> HashOf(h.output_schema), output |-> HashOf(h.output),
              rest |-> "as issued"]

\* _signing_payload and sign: the signature names its key and the body it covers.
Signature(key, body) == <<"ed25519", key, body>>

Hashes == {HashOf(content) : content \in Contents \cup {None}}

Bodies == [prompt: Hashes, input_schema: Hashes, output_schema: Hashes, output: Hashes,
           rest: {"as issued", "altered"}]

Receipts == [body: Bodies, signature: {"ed25519"} \X Keys \X Bodies]

ASSUME VerifierConstants ==
  /\ None \notin Contents \cup Keys
  /\ Lost \notin Contents \cup Keys \cup {None}
  /\ None \notin {HashOf(content) : content \in Contents}
  /\ None \notin Receipts
  /\ MaxChanges \in Nat

VARIABLES
  home,          \* the package's artifacts, the result's output, the public key
  receipt,       \* the receipt file: [body, signature], None before it is issued
  executed,      \* auxiliary: the contents home had when the receipt was issued
  changed        \* auxiliary: the parts of home and of the receipt changed since

verifyVars == <<home, receipt, executed, changed>>

VerifyTypeOK ==
  /\ home \in Homes
  /\ receipt \in Receipts \cup {None}
  /\ executed \in Homes
  /\ Cardinality(changed) <= MaxChanges

VerifyInit ==
  /\ home \in {h \in Homes : Lost \notin {h.prompt, h.input_schema, h.output_schema,
                                          h.output, h.key}}
  /\ receipt = None
  /\ executed = home
  /\ changed = {}
-----------------------------------------------------------------------------
(* Mutated forms, used by the mutation runs only. *)

HashChecksAll(h, r) ==                 \* a missing file is a mismatch
  [a \in Artifacts \cup {"output"} |-> HashOf(h[a]) = r.body[a]]

HashChecksNoOutput(h, r) ==
  [a \in {x \in Artifacts : h[x] # Lost} |-> HashOf(h[a]) = r.body[a]]

IssueUnsigned ==                       \* files the unsigned receipt
  /\ receipt = None
  /\ receipt' = [body |-> BodyOf(home)]
  /\ UNCHANGED <<home, executed, changed>>
-----------------------------------------------------------------------------
\* issue_receipt and _persist_receipt, at the end of an execution.
Issue ==
  /\ receipt = None
  /\ receipt' = [body |-> BodyOf(home), signature |-> Signature(home.key, BodyOf(home))]
  /\ UNCHANGED <<home, executed, changed>>

\* A file is lost, or has another content.
Change(part, value) ==
  /\ receipt # None
  /\ Cardinality(changed \cup {part}) <= MaxChanges
  /\ home[part] # value
  /\ home' = [home EXCEPT ![part] = value]
  /\ home' \in Homes
  /\ changed' = changed \cup {part}
  /\ UNCHANGED <<receipt, executed>>

\* A field of the receipt file differs from what was issued.
Alter(field, value) ==
  /\ receipt # None
  /\ Cardinality(changed \cup {"receipt"}) <= MaxChanges
  /\ receipt.body[field] # value
  /\ receipt' = [receipt EXCEPT !.body[field] = value]
  /\ changed' = changed \cup {"receipt"}
  /\ UNCHANGED <<home, executed>>

VerifyNext ==
  \/ Issue
  \/ \E part \in Artifacts \cup {"output", "key"},
        value \in Contents \cup Keys \cup {None, Lost} : Change(part, value)
  \/ \E field \in Artifacts \cup {"output"}, content \in Contents \cup {None} :
       Alter(field, HashOf(content))
  \/ Alter("rest", "altered")

VerifySpec == VerifyInit /\ [][VerifyNext]_verifyVars
-----------------------------------------------------------------------------
\* _verify_signature.
SignatureValid(r, key) == r.signature = Signature(key, r.body)

\* hash_checks of verify_receipt: one entry per artifact that is there, and one
\* for the output when the result is there, unless its output is null and the
\* receipt has a hash for it.
HashChecks(h, r) ==
  LET there == {a \in Artifacts : h[a] # Lost}
               \cup (IF h.output = Lost \/ (h.output = None /\ r.body.output # None)
                       THEN {} ELSE {"output"})
  IN  [a \in there |-> HashOf(h[a]) = r.body[a]]

\* VerificationResult.ok.  Without a public key nothing is verified.
Ok(h, r) ==
  /\ h.key # Lost
  /\ SignatureValid(r, h.key)
  /\ \A a \in DOMAIN HashChecks(h, r) : HashChecks(h, r)[a]

\* A part that has another content than at execution time, and is not just lost.
Differs(part) == home[part] \notin {executed[part], Lost}

\* A receipt as issued verifies on every machine that has the broker's public
\* key, however many of the files it speaks of are gone.
GenuineVerifies ==
  receipt # None /\ "receipt" \notin changed /\ home.key = executed.key
    /\ (\A part \in Artifacts \cup {"output"} : ~Differs(part))
  => Ok(home, receipt)

\* A receipt verifies only as it was issued, under the key of its signer, and
\* next to no artifact or output that differs from the executed one (an output
\* replaced by null apart).
OkMeansAsExecuted ==
  receipt # None /\ Ok(home, receipt) =>
    /\ receipt.body = BodyOf(executed)
    /\ home.key = executed.key
    /\ \A part \in Artifacts : ~Differs(part)
    /\ home.output # None => ~Differs("output")
=============================================================================
