# Formal verification of sealedx

`sealedx` lets an enterprise customer issue a bounded *execution grant* (provider, model, budget,
expiry) and a *broker* run a vendor's *workflow package* under it, leaving a signed *execution
receipt*. Everything is a Python library over JSON files in `$SEALEDX_HOME`; there is no daemon and
no lock. This directory models that code in TLA+, checks it with TLC and proves most of what it
checks with TLAPS. Source paths below are relative to `src/sealedx/`, those of `docs/` and of the
repository's `README.md` to `src/`.

## 1. Inventory

| component | code | state | operations | what is hard | what must hold |
|---|---|---|---|---|---|
| grant manager | `grants/manager.py`, `grants/models.py` | one JSON document per grant | create, load, assert_usable, charge, revoke | documents are read, then rewritten whole from the copy, with a provider call in between; nothing is locked; expiry | totals within the budget, terms fixed, status and total agree, expired and revoked are final |
| broker runtime | `broker/runtime.py`, `broker/errors.py`, `cli.py` | receipts, results, local `base_fields` | `execute` | ten outcomes, three files written one after the other, errors that are converted and errors that are not, crashes | charge before receipt before result; receipts tell the truth; books reconcile |
| keystore | `security/keys.py` | seed file, public key file | load or create, load for verification | two non-atomic writes on first use, by any number of first runs | one key for all time; receipts stay verifiable |
| packaging | `packaging/*`, `schemas/validate.py` | artifacts, package document | package, load, read, list | five writes, a commit in the middle, vendor's files read twice | packages appear at once, whole, immutable |
| receipts | `receipts/*`, `security/hashing.py` | (stateless) | issue, verify | anything may be missing or differ at verification; runs and packaging go on meanwhile | genuine receipts verify; ok means as executed |
| storage | `storage/paths.py` | files, temporary files | atomic write | errors, kills, power loss | never a torn document |
| providers, prices | `providers/*` | (stateless) | choose an adapter, supports, complete, estimate | answers without usage, without JSON, of another shape; schemas the mock cannot serve; rounding per call; models without a price | bounded drift, budgets that bound what is paid for, instances of plain schemas |
| logging, redaction | `security/redaction.py`, global options of `cli.py` | level, configured flag, environment | get_logger, redact | configuration is read at import, options are parsed later | options take effect; prompts and keys stay out of the logs |
| credentials | `grants/credentials.py` | (none) | resolve_credential | nothing calls it | – |

Interactions: the CLI calls `execute`, `package`, `create_grant`, `revoke`, `verify_receipt`.
`execute` calls the keystore, reads package and grant, calls the adapter, charges through the grant
manager, issues and stores the receipt, then the result. `verify_receipt` reads what packaging,
keystore and `execute` wrote. All of them write documents through `atomic_write_bytes`, except the
keystore (`write_bytes`) and the copy of the vendor's prompt (`shutil.copy2`). Every module asks
`security/redaction.py` for its logger when it is imported.

## 2. Modules

| module | models | extends / instantiates |
|---|---|---|
| `Grant` | the grant document and the rules that look at one document | |
| `GrantLedger` | abstract: what a grant promises (`docs/protocol.md`, section 2) | `Grant` |
| `GrantManager` | files, callers and their copies | `Grant`; `Ledger == INSTANCE GrantLedger` |
| `AuditedExecution` | abstract: what an execution leaves for its auditor | |
| `BrokerRuntime` | `execute` on top of the manager | `GrantManager`; `Audit == INSTANCE AuditedExecution` |
| `Keystore` | first use and reuse of the key pair | |
| `PackageStore` | abstract: packages appear at once and whole | |
| `Packaging` | `package()` | `Store == INSTANCE PackageStore` |
| `Verifier` | `issue_receipt`, `verify_receipt` | |
| `Home` | runs of `execute`, packaging runs and verification over one `$SEALEDX_HOME` | `Keystore`; instances of `Packaging` and `Verifier` |
| `AtomicFile` | `atomic_write_bytes` | |
| `Pricing` | `estimate`, rounding, recorded and exact sums | |
| `Logging` | the logger's level, the global options | |
| `Json` | JSON values | |
| `Redaction` | `redact` and its reference, `CleanlyRedacted` | `Json` |
| `MockOutput` | `_default_for_schema`, the topic `complete` adds, and the validator's verdict | `Json` |
| `Adapters` | provider calls under one grant, one process after another | `Logging`, `Pricing`, `Redaction`, `MockOutput` |
| `MCGrantManager`, `MCBrokerRuntime`, `MCHome`, `MCAdapters` | instances for TLC; the other runs check the module itself | |
| `GrantManagerProofs`, `BrokerRuntimeProofs`, `HomeProofs`, `AtomicFileProofs`, `VerifierProofs`, `AdaptersProofs` | theorems about the module of that name and those it extends | that module, `TLAPS` |
| `BooksProofs` | theorems about the sums of `BrokerRuntime` | `BrokerRuntimeProofs` |

**Grants.** Money is an integer number of 0.0001 USD, the precision `_ser_decimal` stores; a budget
may be zero or negative because neither the model nor the CLI refuses it. `grants[g]` is the file of
`g`; `held[p]` is a caller's copy and what it is doing with it: `"charge"` (loaded by `execute`),
`"admitted"` (`assert_usable` returned), `"revoke"`. `Charge` and `RevokePersist` write a document
made from the copy, as the code does; `Abandon` is every way to stop without writing. `now` only
grows. `Serial` restricts the callers to one at a time, which is how one user of the CLI runs them.

**Runtime.** An execution is one of the manager's callers: `held[e]` is `execute`'s variable `grant`,
and a step of the pipeline is conjoined with the manager's operation it calls (`Load` with
`LoadGrant`, `Admit` with `AssertUsable`, `ChargeGrant` with `Charge`) or leaves the manager alone.
`base[e]` is `base_fields` together with the output that `fail()` gets, `pc[e]` the place in
`execute`. A step is as long as the code between two points where others can see or be seen: files,
clock, provider. The provider is external here: it answers with or without usage, with an output that
is missing, rejected by the schema or accepted, or the adapter raises `ProviderError`. `Raise` is an
exception that is not a `SealedxError`, at the places where one can come up (`RaisesAt`, switched on
by `Faults`); it leaves `execute` without a receipt. `Crash` is the death of the process.
Four pieces of state are auxiliary, written beside the code's and read by properties only: `called`
(whose request the provider saw), `paid` (what the grant was charged), `shared` (the executions that
had their grant in hand while another caller had it too) and `base[e].at` (when `assert_usable` let
`e` pass).

`AuditedExecution` is the order an auditor finds things in: one call, the bill its usage amounts to,
at most one charge of just that, a receipt that tells the truth about call, bill, charge and output,
a refused charge included, and then the result with the output the receipt names. It is read off
`execute`, and it is weaker than the documents where `execute` is (section 3): a rejected output is
kept and hashed, and the result follows the receipt. It does not say that there must be a receipt:
an execution that raises just stops; `EveryFailureAudited` and `EveryExecutionEnds` are about that.

**Keystore.** Both key files are written by `write_bytes`, modelled as truncation and filling.
Any number of runs may find no seed at the same time; nothing serialises them. `Sign` stands for an
execution that persists its receipt with the key it was given. `cutOff` and `overlapped` are
auxiliary: some run died while it made the key, two runs made it at once. They say under which
histories a property is meant to hold; which ones hold under all histories says so.

**Packaging.** Each package id is one run of `package()`. `Edit` is the vendor working on his prompt
meanwhile; `Fail` is an exception or a crash at any step. A reader sees a package when its document
is there, hence the refinement mapping from `doc` and `artifacts` to `visible`.

**Storage.** An error removes the temporary file, or does not, when `os.unlink` fails in its turn and
that is swallowed; a call that raised may therefore leave one behind. `mayName` holds the files the path may name on the disk itself, because the directory
is not synced. The other modules rely on `NeverTorn`: replacing a document is one step there.

**Verifier.** Hashes and signatures are symbolic. `home` holds the files verification reads, any of
which may be lost or differ; `HashChecks` is the dictionary `hash_checks`.

**Home.** The composition. A run takes the broker's key (`Keypair`, the keystore's own actions),
loads a package document, reads the artifacts one by one and later than the document, signs a receipt
with or without an output, and writes the result; a packaging run takes the steps of `Packaging`
beside it. The grant has no part in a receipt's verdict, so the grant is left to `BrokerRuntime` and
the outcome of the pipeline is a choice. `Verifies(e)` is the verdict of `Verifier` on `receipts[e]`
over `Found(e)`, what is on disk at that moment; verification changes nothing, so it is an operator
and not an action.

**Pricing.** Prices are whole numbers of parts of a unit, so that rounding is integer arithmetic.

**Logging.** One process after another: `Configure` takes the level from the environment when the
first module is imported, `GlobalOpts` changes `os.environ` afterwards, `Exit` starts the next
process from the user's shell.

**Json, Redaction, MockOutput.** A value is a pair of a kind and a content; `Values` is any set of
finite trees, closed under taking parts (`ValuesAreTrees`, `Height`). `redact` is the function
`Redact` on it; two names stand for the sensitive ones and one string for everything shaped like a
key. `Leaves` is the reference: the leaves of a value, each with whether a sensitive name is above it.
A schema is a record of the keywords it has, `narrow` standing for all that refuse a type's zero
value; schemas are trees too (`SchemasAreTrees`, `Depth`). `Accepts` is the reference of the mock:
what the validator says of a value. `Plain` names the schemas `_default_for_schema` serves. The
assumptions also close `Values` under the operations of the code (`Redact`, `Default`, `Touched`),
which only says that it is large enough.

**Adapters.** One grant, any adapter, command line and answer; a process makes one call and exits.
The steps are the choice of the adapter and `supports` (`Refuse`, `Send`), the errors inside
(`SdkFails`) and outside (`Escapes`) of the adapter's `try`, and the answers of an SDK, a fixture or
the synthesis, each followed by what `execute` does with it (`Settle`). `_default_for_schema` returns
a `const`, or the first of an `enum`, and no copy of it: the topic that `complete` writes into it
changes the schema that `execute` validates against afterwards (`Seen`).

## 3. Runs

Passing runs:

| run | what it checks |
|---|---|
| `runtime_races` | two executions and a revoker interleaved, packages and grants that fit and do not, all faults: `DocumentsSound` (total within budget, status agrees), `TermsImmutable`, `ClosedForGood` (a late charge does not bring an expired grant back), `CallsCovered` (a request is sent only under a grant that covers it and had not expired), `NothingMadeUp` (a grant never records more than was charged to it), `NothingLostAlone` (nor less than was charged by executions that shared it with nobody), `RefinesAudit` |
| `runtime_books` | two executions and a revoker one at a time on two grants, each of which may die anywhere: `RefinesLedger` (spending only grows, within the budget; revoked is final), `ReceiptsWithinSpending`, `Reconciled` (receipts against recorded spending), `EveryExecutionEnds` (liveness) |
| `home` | two runs of `execute`, first ones or not, and a packaging run, all dying anywhere, over a prompt being edited: `OneBrokerKey`, `FilesWhole`, `KeySettles`, `WholePackages` (`Packaging` implements `PackageStore`), `EveryReceiptVerifies`, `VerdictStands`, `OkMeansWhatRan` |
| `files` | three writers of one path, errors, kills, two power losses: `NeverTorn` |
| `verify` | a receipt and a home with up to two parts lost or different: `GenuineVerifies`, `OkMeansAsExecuted` |
| `providers` | one process after another under one grant, every adapter: `DriftBounded`, `QuantizeIsHalfEven`, `MeteredCallsBounded`, `PromptGated`, `MockServesPlainSchemas`, `RedactionComplete` |

Each also checks its type invariants (`home` those of the key files and of packaging), except
`runtime_books`, whose specification has its types checked by `runtime_races`.

Runs that show a disagreement between the code and what is written about it:

| run | disagreement |
|---|---|
| `grant_unrevoked` | a charge from a copy read before the revocation undoes it (`docs/protocol.md:65`) |
| `runtime_unaudited` | an error of another type, out of an adapter or after the charge, leaves no receipt (`docs/prd.md:83`, `README.md:99`) |
| `rejected_hashed` | the receipt of an execution whose output the schema rejects names a hash, and the result has the output (`docs/protocol.md:93` and `:131`, `README.md:189`) |
| `keys_uninitialized` | the public key is never written after a run that died between the two files (`security/keys.py:62`) |
| `quiet_ignored` | a warning is printed under `--quiet`, because the level was taken when `cli.py` was imported (`docs/prd.md:217`, `cli.py:45`) |
| `prompt_ungated` | the environment alone renders the prompt, with neither the flag nor its warning (`docs/threat-model.md:48`, `docs/prd.md:93` and `:217`) |

What the key properties say together: two first runs at once may publish a public key of the other
one's seed (which is why `OneBrokerKey` and `EveryReceiptVerifies` exclude `overlapped`), but even
then the files end up whole unless a run dies (`FilesWhole`), and whatever the first uses have left,
short or mixed, no later run repairs or changes it (`KeySettles`).

Read in the code while modelling, but stated by no run:

* `expired` is only ever derived; no handler persists it (`docs/protocol.md:67`);
* a call over the budget is made, not charged and may be made again, because the cost is compared
  after the answer (`docs/prd.md:91`), so the number of calls, and what they cost at the provider,
  has no bound (`docs/prd.md:70`); `MeteredCallsBounded` says which calls do have one;
* a model that `supports()` accepts and the cost table lacks is free;
* the result is written after the receipt, where `docs/prd.md:83` names it first;
* a receipt's provider and model are those of the grant, not of the adapter's response
  (`docs/protocol.md:132`);
* outside of plain schemas the mock's output need not satisfy the schema (`docs/prd.md:237` and the
  docstring of `_default_for_schema`): a root that allows only null, a narrowed type, an undescribed
  required property; and a subschema `true` makes it raise;
* a schema whose `const`, or first `enum` value, is an object with an empty title is changed by the
  mock before `execute` validates against it, so that an output the package's schema does not list
  passes, with a receipt that says `succeeded` (`providers/mock.py:125`, `broker/runtime.py:218`;
  `docs/prd.md:89` says mismatches fail closed); `TitlePinned` leaves these schemas out of
  `MockServesPlainSchemas` unless there is no topic;
* a fixture may be any JSON value, where the real adapters accept objects only;
* nothing calls `redact`; only error messages are scrubbed. `RedactionComplete` is about the function,
  not about what the program prints;
* the copy of the vendor's prompt keeps the mode of his file (`packaging/builder.py:69`);
* a null output is not compared with a hash (`docs/protocol.md:154`).

**Bounds.** One grant is enough for races, because callers of different grants touch no common file;
two executions and a revoker give a writer, a victim and an observer: two read the same copy, the
third writes in between. The budgets and costs of `runtime_races`
meet every side of both comparisons (`>` and `>=`), a budget of zero and a negative one included.
`MaxTime = 1` with lifetimes 0 and 1 lets a grant be expired at birth, expire between two steps, or
not at all. In `runtime_books` the clock stands still, because expiry changes no
total; two grants make sure that the books of one are not mixed with the other's, and a budget of 2
with costs 0 to 2 gives paid, refused, exhausted and free calls. In `home` a run may start again
until it has a receipt, so three keys let both runs make one, at once or one after the other, and a
third follow after a death before the seed file; one packaging run is enough for a package that is
being written, or was abandoned, while runs load it (packaging runs share nothing but the vendor's
prompt, and `HomeShowsWholePackages` is proved for any number of them). `MaxLosses = 2` loses power before and after a
rename. In `providers`, `MaxCalls = 3` priced calls exceed the budget of 2, so that the bound on
metered calls is met and could be passed; ten parts to a unit with the token counts 0, 1 and 3
give prices below, at and above the middle of a unit for both rates, ties to even in both
directions among them. The schemas have every keyword the code looks at, one level below an object
and below a list. Permutations of callers (executions, keys) are symmetric: they run the same code
and no property names one; packages and grants are never permuted, and the liveness run uses no symmetry. `CHECK_DEADLOCK FALSE` stands where executions, packaging runs or writers
are finite in number and the system may stop.

**Fairness.** `runtime_books` runs under `FairRuntimeSpec`: weak fairness of each execution's own
steps, the provider's answer among them. `execute` is straight-line code in its own process, and the
SDKs' clients bound a request with a timeout. Nothing makes a user start an execution, and a crash is
possible throughout: `EveryExecutionEnds` therefore says that an execution that started leaves a
receipt and a result unless it is cut off.

## 4. Proofs

For all values of the constants (any number of grants, callers, executions, runs, packages, writers
and losses, any budgets, costs and lifetimes), from the named assumptions on constants only.

`GrantManagerProofs`, from `GrantConstants`:

* `TypeCorrect`: `Spec => []TypeOK`.
* `SpendingSound`: `Spec => []DocumentsSound`. Not inductive by itself, since a write puts a
  document made from a copy on disk. The invariant `IInv` adds `CopiesAgree`: however old a copy is,
  it is sound and agrees with its file on budget, expiry and terms. Three lemmas carry the step:
  `ChargedDoc` and `RevokedDoc` (what the rules make of a sound document) and `PersistKeepsCopies`
  (a write by one caller leaves the other copies in agreement).
* `TermsNeverChange`: `Spec => TermsImmutable`, from the same invariant.
* `NothingReopens`: `Spec => ClosedForGood`. A document of an expired grant is unusable whatever
  status an old copy puts back, because no copy disagrees on the expiry (`CopiesAgree` again) and
  the clock does not go back.
* `SerialRevocationFinal`: with `Serial`, `Spec => RevokedIsTerminal`. What `grant_unrevoked` shows
  needs callers that overlap, and nothing else.
* `SerialIsLedger`: with `Serial`, `Spec => RefinesLedger`. `OneCaller` says that the only copy
  equals its file and, once admitted, is not revoked; each action is then `Open`, `Post`, `Close` or
  a stutter of the ledger.

`BrokerRuntimeProofs`, from `GrantConstants`, `RuntimeConstants` and `NoneIsNoDocument`:

* `RuntimeTypeCorrect`: `RuntimeSpec => []RuntimeTypeOK`.
* `RuntimeUsesManager`: `RuntimeSpec => Spec`. Every step of the pipeline, failures and crashes
  included, is a step of the manager or leaves the grants alone (`ManagerStep`); the type invariant
  is needed because `ChargeGrant` charges an amount that lies in `base`.
* `RuntimeSpendingSound`: hence `RuntimeSpec => []DocumentsSound`.
* `RuntimeKeepsTerms` (`TermsImmutable` and `ClosedForGood`) and, with `Serial`,
  `RuntimeSerialLedger` (`RefinesLedger`): from the same refinement and the manager's theorems.
* `RequestsCovered`: `RuntimeSpec => []CallsCovered`: the package fits, and the grant was neither
  revoked nor used up when it was read nor expired when `assert_usable` let it pass. The invariant `CoverInv` adds what holds
  before the call: the copy in a caller's hands is the one `base_fields` was made from until
  `assert_usable` has looked at it, and an execution that was admitted stays covered because nothing
  touches `base_fields.grant` any more.
* `RuntimeIsAudited`: `RuntimeSpec => RefinesAudit`. `AuditInv` adds `OnTheBooks`: at each place of
  the pipeline, what has been called, billed, paid and written so far, and that `base_fields` is `Truthful`
  about it from the moment the outcome is decided. Each action is shown to be `Booked`: it keeps its
  own execution on the books, leaves the others alone, and is a step or a stutter of the abstract
  specification.

`HomeProofs`, from `KeyConstants`, about the keystore: `KeyTypeCorrect`, `OneKey` (`OneBrokerKey`), `WholeFiles`
(`FilesWhole`), `SettlesForGood` (`KeySettles`). The invariant `KeyInv` says that a run past the
first step has a key (`HasKey`); for histories without overlap, that one run at a time makes the key
and which file has got how far (`MakerAlone`, `OneSeed`); for histories with overlap and without
death, that a short file is one some run is about to fill (`BeingMade`).

`HomeProofs`, from `KeyConstants` and `HomeConstants`, about the composition:

* `HomeUsesKeystore`: `HomeSpec => KeySpec`, so what is proved of the keystore holds here; and
  `HomeUsesPackaging`: `HomeSpec => PkgSpec`, with `step` for Packaging's `pc`.
* `PackagesAreTyped` (`PackagesTyped`) and `HomeShowsWholePackages` (`WholePackages`, from
  `NoneIsNoPackage` too): packages appear at once and whole beside runs of `execute`. A package
  without a document is not there (`OthersHidden`); the write of the document publishes whole
  artifacts, and nothing else changes what readers see (`PublishedWhole`, from `PackagesKept`).
* `ReceiptsVerify` (`EveryReceiptVerifies`), `VerdictsStand` (`VerdictStands`), `OkIsWhatRan`
  (`OkMeansWhatRan`). `HomeInv` adds what a packaging run knows and that a package with a document
  has the artifacts of that document (`PackagesKept`), and that each run's job, receipt and result
  agree with them (`RunsAgree`). The lemma `Verdict` reduces the verdict on a receipt that some run
  wrote to the comparison of two keys, from which the three theorems follow.

`AtomicFileProofs`, from `FileConstants`: `WholeOrNothing` (`NeverTorn`) and `FilesTyped`. `FileInv` says that a file the path may name, in memory or on the disk, was filled and
synced before it was renamed, and that a power loss does not touch a synced file.

`VerifierProofs`, from `VerifierConstants`: `GenuineReceiptsVerify` (`GenuineVerifies`),
`OkIsAsExecuted` (`OkMeansAsExecuted`) and `VerificationTyped`. Hashes are injective and signatures unforgeable by
construction of the model; given that, the invariant `Issued` remembers what the receipt was made
from while parts of it and of the home change.

`BooksProofs`, from the assumptions of `BrokerRuntimeProofs`:

* `NothingIsMadeUp`: `RuntimeSpec => []NothingMadeUp`, in any interleaving. The invariant `BooksInv`
  adds that no copy in a caller's hands records more than was charged to its grant
  (`CopiesCharged`), because an old copy is written back with one charge more.
* `ChargesAloneLast`: `RuntimeSpec => []NothingLostAlone`, in any interleaving. `AloneInv` says that
  every total there is of a grant, on disk or in the hands of a caller, is at least what was charged
  to it by executions that shared it with nobody. When an execution that shares its grant charges,
  the sum stays and the old copy's total was enough; when one that does not charges, no other caller
  holds a copy that lacks the charge, because `SharedNoted` has all who hold one beside another in
  `shared`.
* `ReceiptsCovered` (`ReceiptsWithinSpending`) and `BooksBalance` (`Reconciled`), with `Serial`.
  Callers one at a time, the recorded total is the sum of what was charged (`NothingLost`);
  `Accounted`, with `Truthful` of `AuditInv`, relates what an execution paid with its receipt.

The totals are sums over a set of executions nobody knows the size of. The library's induction
theorems take an operator as a parameter, which the provers cannot instantiate, so the lemmas about
sums argue with sets: if a fact about all parts of a finite set fails, it fails of a part with no
smaller part it fails of (`SmallestPart`, from the library's proof that strict inclusion is well
founded on finite sets), and that part less one element contradicts it.

`AdaptersProofs`, from the assumptions of `Json`, `Redaction`, `MockOutput`, `Logging`, `Pricing` and
`Adapters`:

* `DriftIsBounded` (`PriceSpec => []DriftBounded`) for any rates, tokens and number of calls, from
  `QuantizeIsNear` (half-even rounding is off by half a unit at most), and `RoundingIsHalfEven`
  (`PriceSpec => []QuantizeIsHalfEven`), from three lemmas that hold of every price, reached or not.
* `PromptIsGated` (`LogSpec => []PromptGated`), for any environment and options. `LogInv` relates the
  environment, the level and what was printed to the user's shell: the level was taken from the
  environment before any option changed it, and an unsafe mode the shell does not export was asked
  for by the flag and announced by this process. An unsafe mode the shell does export is what
  `prompt_ungated` shows.
* `AdaptersLogAndPrice` (`AdapterSpec => LogSpec /\ PriceSpec`): each step of the adapters is a step
  of either module or leaves it alone. `AdaptersKeepPrices` and `AdaptersGatePrompts` follow.
* `AdapterTypes` (`AdapterTypeOK`) and `NoPaidCallIsFree` (`MeteredCallsBounded`). `Paid` says that
  metered calls are at most the recorded units, and these within the budget, as soon as there are
  any: a price over half a unit is never rounded to nothing.
* `RedactionIsComplete` (`RedactionComplete`), from `RedactIsClean`, which holds of every value.
* `MockServes` (`MockServesPlainSchemas`), from `DefaultIsAccepted` (every plain schema accepts its
  default) and `TouchedIsAccepted` (the topic keeps an accepted output accepted).

`Redact`, `Leaves`, `Default`, `Accepts` and `Plain` are recursive functions over trees. That such a
function satisfies the equation it is defined by has to be proved, because a recursive definition is
only a choice of something that does: `SomeSolution` (functions into a given set) and `SomeTree`
(functions that build values, whose range is no set known beforehand) show that there is a
solution, level by level. A property of all trees is then proved of a lowest tree that has it not
(`Lowest`); that a set of heights has a least element (`Least`) is again the well-foundedness of
inclusion on finite sets. `MockOutput` writes `_default_for_schema` with IF, and finds the first type
of a list with CHOOSE, so that the provers can evaluate both.

In the attempt to prove `MockServesPlainSchemas` its premise turned out too weak: a schema whose
`const` is an object with an empty title is plain, and the topic in the output differs from it. The
run's schemas had none; they have now, and the model has what the code does with them (`Seen`).

Only model-checked: `EveryExecutionEnds`. Liveness is out of the prover's reach, as is anything about
ENABLED.

## 5. Not modelled

* The encoding of canonical JSON: taken as injective. Hashes and signatures are symbolic.
* JSON Schema validation in the runtime: the verdict of an external library, a choice there.
  `MockOutput` has the part of it that the mock's schemas use.
* Directories: `package_dir` and its like create theirs on demand, even when only verifying; no
  property is about an empty directory.
* The SDKs, the network, the contents of fixtures and the lookup of their directory: choices.
* `list_*`, `show` and the printing of every command: they only read.
* `resolve_credential`: nothing calls it.
* The patterns of `redact`: which strings are shaped like keys is not a question for a model of
  states.

## 6. Plan

Done: every component of section 1 but the credentials helper; the proofs of section 4.

Left: `FairRuntimeSpec` under real expiry, with the clock running; the verdict of `Verifier` under
losses for all receipts of `Home`; a property of what an error of `package()` after its document
is written means to the vendor, once a document says it.
