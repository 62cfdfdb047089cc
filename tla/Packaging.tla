------------------------------ MODULE Packaging ------------------------------
(***************************************************************************)
(* sealedx/packaging/builder.py: `vendor package` reads three files of the *)
(* vendor, checks the schemas, and writes a directory of artifacts and     *)
(* then the package document, which is what load_package and list_packages *)
(* look for.  Several vendors' runs go on side by side, each under a fresh *)
(* package id; any step may fail or be the last one before a crash; the    *)
(* vendor may edit his prompt meanwhile.                                   *)
(***************************************************************************)
EXTENDS Naturals

CONSTANTS
  PkgIds,      \* package ids; each is one run of package()
  Contents,    \* contents of a file
  Schemas,     \* the contents that are valid JSON Schemas
  None

Artifacts == {"prompt", "input_schema", "output_schema"}

\* hash_text, hash_canonical_json: a name for the content.
HashOf(content) == <<"sha256", content>>

VARIABLES
  source,      \* the vendor's prompt file
  pc,          \* pc[k]: the next step of run k
  read,        \* read[k]: what run k has read, by artifact
  artifacts,   \* artifacts[k]: the files of the directory of k
  doc,         \* doc[k]: the hashes in <packages>/<k>.json, None if there is no file
  original     \* original[k]: prompt.original.md, None if there is none

pkgVars == <<source, pc, read, artifacts, doc, original>>

NoFiles == [a \in Artifacts |-> None]

PkgTypeOK ==
  /\ source \in Contents
  /\ pc \in [PkgIds -> {"read", "prompt", "input_schema", "output_schema", "doc",
                        "original", "done", "failed"}]
  /\ read \in [PkgIds -> [Artifacts -> Contents \cup {None}]]
  /\ artifacts \in [PkgIds -> [Artifacts -> Contents \cup {None}]]
  /\ \A k \in PkgIds : doc[k] = None \/ DOMAIN doc[k] = Artifacts
  /\ original \in [PkgIds -> Contents \cup {None}]

PkgInit ==
  /\ source \in Contents
  /\ pc = [k \in PkgIds |-> "read"]
  /\ read = [k \in PkgIds |-> NoFiles]
  /\ artifacts = [k \in PkgIds |-> NoFiles]
  /\ doc = [k \in PkgIds |-> None]
  /\ original = [k \in PkgIds |-> None]

Then(k, from, to) == pc[k] = from /\ pc' = [pc EXCEPT ![k] = to]

\* The artifact written after artifact a, and what follows the last one.
After == [a \in Artifacts |-> CASE a = "prompt" -> "input_schema"
                                [] a = "input_schema" -> "output_schema"
                                [] OTHER -> "doc"]
-----------------------------------------------------------------------------
(* Mutated forms, used by the mutation runs only. *)

WriteDocRereads(k) ==                 \* hashes what the vendor's file holds by now
  /\ Then(k, "doc", "original")
  /\ doc' = [doc EXCEPT ![k] = [a \in Artifacts |->
       HashOf(IF a = "prompt" THEN source ELSE read[k][a])]]
  /\ UNCHANGED <<source, read, artifacts, original>>

WriteDocPromptOnly(k) ==              \* leaves the schemas out
  /\ Then(k, "doc", "original")
  /\ doc' = [doc EXCEPT ![k] = [a \in {"prompt"} |-> HashOf(read[k][a])]]
  /\ UNCHANGED <<source, read, artifacts, original>>
-----------------------------------------------------------------------------
\* The three files are read; a schema that is not one raises ValueError before
\* anything is written.
Read(k, input, output) ==
  /\ pc[k] = "read"
  /\ IF input \in Schemas /\ output \in Schemas
       THEN /\ pc' = [pc EXCEPT ![k] = "prompt"]
            /\ read' = [read EXCEPT ![k] =
                 [a \in Artifacts |-> CASE a = "prompt" -> source
                                        [] a = "input_schema" -> input
                                        [] OTHER -> output]]
       ELSE pc' = [pc EXCEPT ![k] = "failed"] /\ UNCHANGED read
  /\ UNCHANGED <<source, artifacts, doc, original>>

\* atomic_write_text, atomic_write_json: one artifact is in place.
WriteArtifact(k, a) ==
  /\ Then(k, a, After[a])
  /\ artifacts' = [artifacts EXCEPT ![k][a] = read[k][a]]
  /\ UNCHANGED <<source, read, doc, original>>

\* The package document: from here on the package is visible.
WriteDoc(k) ==
  /\ Then(k, "doc", "original")
  /\ doc' = [doc EXCEPT ![k] = [a \in Artifacts |-> HashOf(read[k][a])]]
  /\ UNCHANGED <<source, read, artifacts, original>>

\* shutil.copy2: the vendor's file as it is by now.
CopyOriginal(k) ==
  /\ Then(k, "original", "done")
  /\ original' = [original EXCEPT ![k] = source]
  /\ UNCHANGED <<source, read, artifacts, doc>>

\* A step raises, or the run dies; what was written stays.
Fail(k) ==
  /\ pc[k] \notin {"done", "failed"}
  /\ pc' = [pc EXCEPT ![k] = "failed"]
  /\ UNCHANGED <<source, read, artifacts, doc, original>>

\* The vendor edits his prompt.
Edit ==
  /\ source' \in Contents
  /\ source' # source
  /\ UNCHANGED <<pc, read, artifacts, doc, original>>

PkgNext ==
  \/ \E k \in PkgIds, input, output \in Contents : Read(k, input, output)
  \/ \E k \in PkgIds, a \in Artifacts : WriteArtifact(k, a)
  \/ \E k \in PkgIds : WriteDoc(k) \/ CopyOriginal(k) \/ Fail(k)
  \/ Edit

PkgSpec == PkgInit /\ [][PkgNext]_pkgVars
-----------------------------------------------------------------------------
\* Wherever a run stops, and whatever the vendor does to his files, a package
\* that can be loaded is whole, hashed by its document, and immutable.
Store == INSTANCE PackageStore WITH visible <-
  [k \in PkgIds |-> IF doc[k] = None THEN None
                    ELSE [hashes |-> doc[k], files |-> artifacts[k]]]
RefinesStore == Store!StoreSpec
=============================================================================
