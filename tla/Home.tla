--------------------------------- MODULE Home ---------------------------------
(***************************************************************************)
(* $SEALEDX_HOME as its writers fill it: runs of `broker execute` that     *)
(* share the key files (Keystore), `vendor package` (Packaging) beside     *)
(* them, and the receipts and results the runs leave.  `receipt verify`    *)
(* only reads: its verdict on a receipt (Verifier) is a function of what   *)
(* is there at the time.  Any run may die anywhere.                        *)
(***************************************************************************)
EXTENDS Keystore

CONSTANTS PkgIds, Contents, Schemas      \* as in Packaging

ASSUME HomeConstants ==
  /\ Schemas \subseteq Contents
  /\ None \notin Contents \cup PkgIds
  /\ "lost" \notin Contents \cup Keys \cup {None}

VARIABLES
  source, step, read, artifacts, doc, original,   \* Packaging, with its pc
  job,         \* job[p]: the package p executes, as it has read it, and its output
  receipts,    \* receipts[p]: p's receipt [body, signature], None before
  results      \* results[p]: the output in p's result file, Lost before

packageVars == <<source, step, read, artifacts, doc, original>>
homeVars == <<keyVars, packageVars, job, receipts, results>>

Pkg == INSTANCE Packaging WITH pc <- step

ASSUME NoneIsNoPackage ==                \* no document, and no package
  /\ None \notin [Pkg!Artifacts -> {Pkg!HashOf(c) : c \in Contents}]
  /\ None \notin [hashes: [Pkg!Artifacts -> {Pkg!HashOf(c) : c \in Contents}],
                   files: [Pkg!Artifacts -> Contents]]

NoJob == [pkg |-> None, hashes |-> None, seen |-> Pkg!NoFiles, output |-> None]

\* What verify_receipt finds of the things execution e speaks of.  Without a
\* whole public key it raises, or says that there is none.
Found(e) ==
  LET files == IF job[e].pkg = None THEN Pkg!NoFiles ELSE artifacts[job[e].pkg]
      There(a) == IF files[a] = None THEN "lost" ELSE files[a]
  IN  [prompt |-> There("prompt"), input_schema |-> There("input_schema"),
       output_schema |-> There("output_schema"), output |-> results[e],
       key |-> IF pub \in Keys THEN pub ELSE "lost"]

Verification(e) == INSTANCE Verifier WITH
  MaxChanges <- 0, home <- Found(e), receipt <- receipts[e], executed <- Found(e), changed <- {}

Verifies(e) == receipts[e] # None /\ Verification(e)!Ok(Found(e), receipts[e])

HomeInit ==
  /\ KeyInit /\ Pkg!PkgInit
  /\ job = [p \in Procs |-> NoJob]
  /\ receipts = [p \in Procs |-> None]
  /\ results = [p \in Procs |-> "lost"]
-----------------------------------------------------------------------------
(* Mutated forms, used by the mutation runs only. *)

BodyUnhashed(p, output) ==              \* fail() forgets the output's hash
  [prompt |-> job[p].hashes.prompt, input_schema |-> job[p].hashes.input_schema,
   output_schema |-> job[p].hashes.output_schema,
   output |-> None, rest |-> "as issued"]

ReadArtifactOriginal(p, a) ==           \* the copy that is kept for traceability
  /\ pc[p] = "ready" /\ job[p].pkg # None
  /\ job[p].seen[a] = None
  /\ job' = [job EXCEPT ![p].seen[a] = IF a = "prompt" /\ original[job[p].pkg] # None
                                         THEN original[job[p].pkg]
                                         ELSE artifacts[job[p].pkg][a]]
  /\ UNCHANGED <<keyVars, packageVars, receipts, results>>
-----------------------------------------------------------------------------
\* The first thing a run does: load_or_create_broker_keypair.  A run that left a
\* receipt is over.
Keypair(p) ==
  /\ receipts[p] = None
  /\ \/ LoadSeed(p) \/ Generate(p)
     \/ OpenSeed(p) \/ WriteSeed(p) \/ OpenPub(p) \/ WritePub(p)
  /\ UNCHANGED <<packageVars, job, receipts, results>>

\* load_package: the hashes that go into base_fields.
LoadPackage(p, k) ==
  /\ pc[p] = "ready" /\ job[p].pkg = None
  /\ doc[k] # None
  /\ job' = [job EXCEPT ![p].pkg = k, ![p].hashes = doc[k]]
  /\ UNCHANGED <<keyVars, packageVars, receipts, results>>

\* read_input_schema, read_prompt, read_output_schema, each when it is needed.
ReadArtifact(p, a) ==
  /\ pc[p] = "ready" /\ job[p].pkg # None
  /\ job[p].seen[a] = None
  /\ a # "input_schema" => job[p].seen["input_schema"] # None
  /\ job' = [job EXCEPT ![p].seen[a] = artifacts[job[p].pkg][a]]
  /\ UNCHANGED <<keyVars, packageVars, receipts, results>>

\* The signed fields: those of base_fields that verification re-derives, and one
\* for the rest.
Body(p, output) ==
  [prompt |-> job[p].hashes.prompt, input_schema |-> job[p].hashes.input_schema,
   output_schema |-> job[p].hashes.output_schema,
   output |-> Verification(p)!HashOf(output), rest |-> "as issued"]

\* The receipt: of a denial or a failure, without an output, at any time; with
\* one, accepted or not, when the provider was called with everything read.
IssueReceipt(p, output) ==
  /\ job[p].pkg # None
  /\ output # None => \A a \in Pkg!Artifacts : job[p].seen[a] # None
  /\ Sign(p)
  /\ receipts' = [receipts EXCEPT ![p] =
       [body |-> Body(p, output),
        signature |-> Verification(p)!Signature(mine[p], Body(p, output))]]
  /\ job' = [job EXCEPT ![p].output = output]
  /\ UNCHANGED <<packageVars, results>>

\* The result file follows; a run that dies never writes it.
WriteResult(p) ==
  /\ receipts[p] # None /\ results[p] = "lost"
  /\ results' = [results EXCEPT ![p] = job[p].output]
  /\ UNCHANGED <<keyVars, packageVars, job, receipts>>

\* The run dies, or raises (no such package or grant, an unreadable file)
\* before it has a receipt; another run may follow.
GiveUp(p) ==
  /\ Die(p)
  /\ job' = [job EXCEPT ![p] = NoJob]
  /\ UNCHANGED <<packageVars, receipts, results>>

HomeNext ==
  \/ \E p \in Procs : Keypair(p) \/ WriteResult(p) \/ GiveUp(p)
  \/ \E p \in Procs, k \in PkgIds : LoadPackage(p, k)
  \/ \E p \in Procs, a \in Pkg!Artifacts : ReadArtifact(p, a)
  \/ \E p \in Procs, output \in Contents \cup {None} : IssueReceipt(p, output)
  \/ Pkg!PkgNext /\ UNCHANGED <<keyVars, job, receipts, results>>

HomeSpec == HomeInit /\ [][HomeNext]_homeVars
-----------------------------------------------------------------------------
\* As long as no run was cut off while it made the key and no two made one at
\* once: once the key files are there, every receipt ever persisted verifies,
\* the receipts of denied and failed executions and of runs that died before
\* the result among them, whatever is packaged and edited meanwhile.
EveryReceiptVerifies ==
  ~cutOff /\ ~overlapped /\ (\A p \in Procs : ~Making(p)) =>
    \A e \in Procs : receipts[e] # None => Verifies(e)

\* A verdict of ok stands: the result that is written after the receipt, later
\* runs of execute, packaging runs and crashes do not turn it (unless two runs
\* made a key at once and the second one publishes another).
VerdictStands ==
  [][\A e \in Procs : Verifies(e) /\ ~overlapped => Verifies(e)']_homeVars

\* A verdict of ok speaks of what ran: whatever the execution had read of the
\* package (and sent to the provider) is what the receipt names, and the result
\* is its output.
OkMeansWhatRan ==
  \A e \in Procs : Verifies(e) =>
    /\ \A a \in Pkg!Artifacts : job[e].seen[a] # None =>
         receipts[e].body[a] = Pkg!HashOf(job[e].seen[a])
    /\ results[e] \in {"lost", job[e].output}

\* The packaging runs' files keep their shape beside the runs of execute.
PackagesTyped == Pkg!PkgTypeOK

\* For whoever reads packages here, they are the store of PackageStore: one
\* appears at once and whole, hashed by its document, and never changes, wherever
\* packaging runs die and whatever the vendor does to his files meanwhile.
WholePackages == Pkg!RefinesStore
=============================================================================
