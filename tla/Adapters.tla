------------------------------- MODULE Adapters -------------------------------
(***************************************************************************)
(* The provider adapters as `broker execute` uses them, one process after  *)
(* another under one grant: sealedx/providers/registry.py picks the        *)
(* adapter, the adapter says whether it supports the model, answers (the   *)
(* SDK of a real provider, a fixture or a synthesised output of the mock), *)
(* and prices the answer from the cost table; execute charges the price    *)
(* and validates the output.  Money is counted as in Pricing, log records  *)
(* as in Logging, JSON values as in Json.                                  *)
(***************************************************************************)
EXTENDS Logging, Pricing, MockOutput, Redaction

CONSTANTS
  Models,          \* what a grant may name: [provider, prefix, name]
  CostTable,       \* the rates of cost_table.py: a function from some of the Models
  MockRate,        \* MOCK_COST_PER_TOKEN, for input and output
  Budget,          \* the grant's budget, in units
  Outputs,         \* what a fixture, or a provider's text, decodes to
  Topics           \* topics an input may have, "" for none

VARIABLES
  model,           \* what the grant names
  call,            \* where the process is with its call
  output,          \* the parsed output of its call, NoOutput before and when there is none
  madeFrom,        \* auxiliary: [schema, topic, valid] of a synthesised output
  metered          \* auxiliary: paid calls whose exact price is over half a unit

adapterVars == <<model, call, output, madeFrom, metered>>
allVars == <<logVars, priceVars, adapterVars>>

NoOutput == <<"none", "">>
Nothing == <<>>

AdapterInit ==
  /\ LogInit /\ PriceInit
  /\ model \in Models
  /\ call = "none"
  /\ output = NoOutput /\ madeFrom = Nothing
  /\ metered = 0

\* supports: by the prefix of the model's name.
Prefixes == [openai |-> {"gpt-", "o3", "o4"}, anthropic |-> {"claude-"}, mock |-> {"mock-"}]

Supports(m) == m.prefix \in Prefixes[m.provider]

\* lookup: by the whole name.
Lookup(m) ==
  CASE m.provider = "mock" -> MockRate
    [] m.provider # "mock" /\ m \in DOMAIN CostTable -> CostTable[m]
    [] OTHER -> <<>>

\* Every rate is one of Pricing's, every output that can come up one of Json's.
ASSUME AdapterConstants ==
  /\ MockRate \in Rates /\ \A m \in DOMAIN CostTable : CostTable[m] \in Rates
  /\ Budget \in Int
  /\ Outputs \subseteq Values
  /\ \A schema \in Schemas, topic \in Topics :
       Touched(Default[schema], topic) \in Values /\ Seen(schema, topic) \in Schemas
-----------------------------------------------------------------------------
(* Mutated forms, used by the mutation runs only. *)

SendLogsAlways ==                   \* the request is logged in every mode
  IF model.provider = "openai" THEN Emit("DEBUG", "request") ELSE UNCHANGED logVars
-----------------------------------------------------------------------------
\* estimate_cost_usd: a model that is not in the table costs nothing.  Without
\* both token counts the runtime does not ask.
Cost(m, tokens) ==
  IF tokens # <<>> /\ Lookup(m) # <<>> THEN Estimate(Lookup(m), tokens[1], tokens[2]) ELSE 0

\* Only the openai adapter logs its request.
SendLogs == IF model.provider = "openai" THEN LogRequest ELSE UNCHANGED logVars

Goto(stage) == call' = stage /\ UNCHANGED model

Unpaid == UNCHANGED <<priceVars, metered>>

NoAnswer == UNCHANGED <<output, madeFrom>>

\* The grant is used up, get_adapter raises (an unknown provider, no SDK, no API
\* key in the environment), or the model is not supported: denied, with a warning.
Refuse ==
  /\ call = "none" /\ options # Unparsed
  /\ recorded >= Budget \/ ~Supports(model) \/ model.provider # "mock"
  /\ Warn /\ Goto("over") /\ Unpaid /\ NoAnswer

\* complete, up to the request.  assert_usable has passed.  MaxCalls bounds the
\* priced calls.
Send ==
  /\ call = "none" /\ options # Unparsed
  /\ recorded < Budget /\ calls < MaxCalls
  /\ Supports(model)
  /\ SendLogs /\ Goto("sent") /\ Unpaid /\ NoAnswer

\* The SDK raises, whatever it is: ProviderError.
SdkFails ==
  /\ call = "sent" /\ model.provider # "mock"
  /\ Warn /\ Goto("over") /\ Unpaid /\ NoAnswer

\* What comes after the request is not guarded: a response of another shape, a
\* fixture that is not JSON, a schema the mock cannot read.  It leaves execute.
Escapes ==
  /\ call = "sent"
  /\ Goto("over") /\ Unpaid /\ NoAnswer /\ UNCHANGED logVars

\* execute goes on with the answer: the price is charged if it fits, and if so
\* the output is validated, with the verdict `accepted`.  Every outcome but an
\* accepted output is a warning.
Settle(tokens, accepted) ==
  LET cost == Cost(model, tokens)
      fits == recorded + cost <= Budget
      price == Price(Lookup(model), tokens[1], tokens[2])
  IN
  /\ IF fits /\ Lookup(model) # <<>> /\ tokens # <<>>
       THEN /\ Bill(Lookup(model), tokens[1], tokens[2])
            /\ metered' = IF 2 * price > Parts THEN metered + 1 ELSE metered
       ELSE Unpaid
  /\ IF fits /\ output' \notin {NoOutput, Zero.null} /\ accepted
       THEN UNCHANGED logVars ELSE Warn
  /\ Goto("over")

\* Both real adapters: the text is a JSON object, or there is no output; the
\* response may come without usage.
SdkAnswers(text, tokens, accepted) ==
  /\ call = "sent" /\ model.provider # "mock"
  /\ output' = IF text[1] = "object" THEN text ELSE NoOutput
  /\ madeFrom' = Nothing
  /\ Settle(tokens, accepted)

\* A fixture for the input, or default.json, is returned as it is, whatever it
\* holds.  At least one token is counted for the output.
MockReplays(fixture, tokens, accepted) ==
  /\ call = "sent" /\ model.provider = "mock"
  /\ tokens # <<>> /\ tokens[2] > 0
  /\ fixture # Zero.null
  /\ output' = fixture
  /\ madeFrom' = Nothing
  /\ Settle(tokens, accepted)

\* Without a fixture, or with one that is null, the output is synthesised.
MockSynthesises(topic, tokens, schema) ==
  /\ call = "sent" /\ model.provider = "mock"
  /\ tokens # <<>> /\ tokens[2] > 0
  /\ ~Raises[schema]
  /\ output' = Touched(Default[schema], topic)
  /\ madeFrom' = [schema |-> schema, topic |-> topic,
                  valid |-> Accepts[Seen(schema, topic)][output']]
  /\ Settle(tokens, madeFrom'.valid)

\* The process ends; the next one runs under the same grant.
EndProcess ==
  /\ options # Unparsed /\ call \in {"none", "over"}
  /\ Exit /\ Goto("none") /\ Unpaid
  /\ output' = NoOutput /\ madeFrom' = Nothing

Usage == (Tokens \X Tokens) \cup {<<>>}

AdapterNext ==
  \/ Configure /\ UNCHANGED <<priceVars, adapterVars>>
  \/ \E opts \in Options : GlobalOpts(opts) /\ UNCHANGED <<priceVars, adapterVars>>
  \/ Refuse \/ Send \/ SdkFails \/ Escapes \/ EndProcess
  \/ \E tokens \in Usage, value \in Outputs, accepted \in BOOLEAN :
       SdkAnswers(value, tokens, accepted) \/ MockReplays(value, tokens, accepted)
  \/ \E tokens \in Usage, schema \in Schemas, topic \in Topics :
       MockSynthesises(topic, tokens, schema)

AdapterSpec == AdapterInit /\ [][AdapterNext]_allVars
-----------------------------------------------------------------------------
AdapterTypeOK ==
  /\ PriceTypeOK
  /\ call \in {"none", "sent", "over"}
  /\ env.unsafe \in BOOLEAN /\ level \in {""} \cup DOMAIN Rank
  /\ stderr \subseteq {"banner", "request", "outcome"}
  /\ metered \in Nat

\* However many calls are made under a grant, at most as many as its budget has
\* units are paid calls of a model in the cost table, with usage, that cost more
\* than half a unit: no such call slips through uncharged.  Calls of a model that
\* is supported and not in the table are outside of it: they are free.
MeteredCallsBounded == metered # 0 => metered <= Budget

\* Of a plain schema the mock synthesises an instance, which execute takes for
\* one; the topic that replaces an empty title keeps it one, unless the schema
\* lists the titles.
MockServesPlainSchemas ==
  LET schema == madeFrom.schema IN
  madeFrom # Nothing /\ Plain[schema] /\ (TitlePinned(schema) => madeFrom.topic = "")
    => Accepts[schema][output] /\ madeFrom.valid

\* redact, of any JSON value such as an answer, shows nothing that it has to hide,
\* and all the rest.  The values of this model stand in for its callers: in the
\* program nothing calls redact yet, only its tests do.
RedactionComplete == output # NoOutput => CleanlyRedacted(output)
=============================================================================
