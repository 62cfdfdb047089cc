------------------------------ MODULE HomeProofs ------------------------------
(***************************************************************************)
(* What holds of the files of $SEALEDX_HOME for any number of runs of      *)
(* execute and of package, whatever overlaps and dies.                     *)
(*                                                                         *)
(* First the two key files.  The type invariant needs that a run that is   *)
(* under way has a key (HasKey).  That the key settles follows from the    *)
(* guards: once there is a seed nobody starts to make a key, and only a    *)
(* run that makes one touches the files.  That there is one key needs      *)
(* more: as long as no two runs were making it at once, the one that makes *)
(* it knows what the seed file holds (MakerAlone), so that the file is     *)
(* only written while nobody else has a key and nothing is signed, and     *)
(* whoever has a key after that has the seed's (OneSeed).  That files are  *)
(* whole holds under overlaps too: whatever is short or missing has        *)
(* someone at work on it (BeingMade).                                      *)
(*                                                                         *)
(* Then the home around them.  Every step is a step of the keystore or     *)
(* leaves its files alone (KeystoreStep).  A package with a document has   *)
(* all its artifacts, and no run touches them again (PackagesKept); a run  *)
(* and its receipt agree with the package they speak of (RunsAgree).       *)
(* Verification then finds what was signed, exactly when the public key is *)
(* the signer's (Verdict).  Last, for the readers of packages the home is  *)
(* a PackageStore: only the write of a document changes what is Shown.     *)
(***************************************************************************)
EXTENDS Home, TLAPS

HasKey == \A p \in Procs : pc[p] # "idle" => mine[p] \in Keys

\* A run that found no seed is the only one, the seed file is as it left it, and
\* nothing is published yet.
MakerAlone ==
  \A p \in Procs : Making(p) =>
    /\ \A q \in Procs : Making(q) => q = p
    /\ pub \notin Keys
    /\ pc[p] = "generated" => seed = None
    /\ pc[p] = "truncated" => seed = Partial
    /\ pc[p] \in {"seeded", "publishing"} => seed = mine[p]

\* Whoever has loaded or made a key, has signed or was published had the seed.
OneSeed ==
  /\ \A p \in Procs : pc[p] = "ready" => mine[p] = seed
  /\ \A k \in signed : seed = k
  /\ pub \in Keys => pub = seed

\* Until some run is cut off, a short or missing file is being made.
BeingMade ==
  /\ seed = None => pub = None /\ \A p \in Procs : pc[p] \in {"idle", "generated"}
  /\ seed = Partial => \E p \in Procs : pc[p] = "truncated"
  /\ pub = Partial => \E p \in Procs : pc[p] = "publishing"
  /\ pub = None /\ seed # None => \E p \in Procs : pc[p] \in {"truncated", "seeded"}

KeyInv ==
  /\ KeyTypeOK /\ HasKey
  /\ ~overlapped => MakerAlone /\ OneSeed
  /\ ~cutOff => BeingMade
-----------------------------------------------------------------------------
\* Every step keeps the shape of the files and the runs.
LEMMA KeyTypeStep == KeyTypeOK /\ HasKey /\ [KeyNext]_keyVars => KeyTypeOK' /\ HasKey'
<1> SUFFICES ASSUME KeyTypeOK, HasKey, [KeyNext]_keyVars PROVE KeyTypeOK' /\ HasKey'
  OBVIOUS
<1> USE DEF KeyTypeOK, HasKey, File, Move
<1>1. ASSUME NEW p \in Procs, LoadSeed(p) PROVE KeyTypeOK' /\ HasKey'
  BY <1>1 DEF LoadSeed
<1>2. ASSUME NEW p \in Procs, Generate(p) PROVE KeyTypeOK' /\ HasKey'
  BY <1>2 DEF Generate
<1>3. ASSUME NEW p \in Procs, OpenSeed(p) PROVE KeyTypeOK' /\ HasKey'
  BY <1>3 DEF OpenSeed
<1>4. ASSUME NEW p \in Procs, WriteSeed(p) PROVE KeyTypeOK' /\ HasKey'
  BY <1>4 DEF WriteSeed
<1>5. ASSUME NEW p \in Procs, OpenPub(p) PROVE KeyTypeOK' /\ HasKey'
  BY <1>5 DEF OpenPub
<1>6. ASSUME NEW p \in Procs, WritePub(p) PROVE KeyTypeOK' /\ HasKey'
  BY <1>6 DEF WritePub
<1>7. ASSUME NEW p \in Procs, Sign(p) PROVE KeyTypeOK' /\ HasKey'
  BY <1>7 DEF Sign
<1>8. ASSUME NEW p \in Procs, Die(p) PROVE KeyTypeOK' /\ HasKey'
  BY <1>8 DEF Die
<1>9. CASE UNCHANGED keyVars
  BY <1>9 DEF keyVars
<1> QED BY <1>1, <1>2, <1>3, <1>4, <1>5, <1>6, <1>7, <1>8, <1>9 DEF KeyNext

LEMMA KeyInitInv == KeyInit => KeyInv
BY KeyConstants DEF KeyInit, KeyInv, KeyTypeOK, File, HasKey, MakerAlone, OneSeed, BeingMade, Making

\* The inductive step for runs that do not overlap, one case per action.
LEMMA AloneStep ==
  ASSUME KeyInv, [KeyNext]_keyVars, ~overlapped'
  PROVE  MakerAlone' /\ OneSeed'
<1>1. KeyTypeOK /\ HasKey
  BY DEF KeyInv
<1> USE KeyConstants DEF Making, MakerAlone, OneSeed, Move
<1>2. overlapped => overlapped'
  BY DEF KeyNext, keyVars, LoadSeed, Generate, OpenSeed, WriteSeed, OpenPub, WritePub, Sign, Die
<1>3. MakerAlone /\ OneSeed
  BY <1>2 DEF KeyInv
<1>4. ASSUME NEW p \in Procs, LoadSeed(p) PROVE MakerAlone' /\ OneSeed'
  BY <1>1, <1>3, <1>4 DEF LoadSeed, KeyTypeOK
<1>5. ASSUME NEW p \in Procs, Generate(p) PROVE MakerAlone' /\ OneSeed'
  <2>1. \A q \in Procs : ~Making(q) /\ (q # p => pc'[q] = pc[q])
    BY <1>1, <1>5 DEF Generate, KeyTypeOK
  <2>2. pc'[p] = "generated" /\ seed' = None
    BY <1>1, <1>5 DEF Generate, KeyTypeOK
  <2>3. \A q \in Procs : q # p => mine'[q] = mine[q]
    BY <1>1, <1>5 DEF Generate, KeyTypeOK
  <2> QED BY <1>1, <1>3, <1>5, <2>1, <2>2, <2>3 DEF Generate
<1>6. ASSUME NEW p \in Procs, OpenSeed(p) PROVE MakerAlone' /\ OneSeed'
  <2>1. signed = {} /\ pub \notin Keys /\ \A q \in Procs : pc[q] # "ready"
    BY <1>1, <1>3, <1>6 DEF OpenSeed, KeyTypeOK, HasKey
  <2> QED BY <1>1, <1>3, <1>6, <2>1 DEF OpenSeed, KeyTypeOK
<1>7. ASSUME NEW p \in Procs, WriteSeed(p) PROVE MakerAlone' /\ OneSeed'
  <2>1. signed = {} /\ pub \notin Keys /\ \A q \in Procs : pc[q] # "ready"
    BY <1>1, <1>3, <1>7 DEF WriteSeed, KeyTypeOK, HasKey
  <2> QED BY <1>1, <1>3, <1>7, <2>1 DEF WriteSeed, KeyTypeOK
<1>8. ASSUME NEW p \in Procs, OpenPub(p) PROVE MakerAlone' /\ OneSeed'
  BY <1>1, <1>3, <1>8 DEF OpenPub, KeyTypeOK
<1>9. ASSUME NEW p \in Procs, WritePub(p) PROVE MakerAlone' /\ OneSeed'
  BY <1>1, <1>3, <1>9 DEF WritePub, KeyTypeOK
<1>10. ASSUME NEW p \in Procs, Sign(p) PROVE MakerAlone' /\ OneSeed'
  BY <1>1, <1>3, <1>10 DEF Sign, KeyTypeOK
<1>11. ASSUME NEW p \in Procs, Die(p) PROVE MakerAlone' /\ OneSeed'
  BY <1>1, <1>3, <1>11 DEF Die, KeyTypeOK
<1>12. CASE UNCHANGED keyVars
  BY <1>3, <1>12 DEF keyVars
<1> QED
  BY <1>4, <1>5, <1>6, <1>7, <1>8, <1>9, <1>10, <1>11, <1>12 DEF KeyNext

\* The inductive step for runs that overlap and are not cut off.
LEMMA BeingMadeStep ==
  ASSUME KeyInv, [KeyNext]_keyVars, ~cutOff'
  PROVE  BeingMade'
<1>1. KeyTypeOK /\ HasKey
  BY DEF KeyInv
<1> USE KeyConstants DEF Making, BeingMade, Move
<1>2. cutOff => cutOff'
  BY DEF KeyNext, keyVars, LoadSeed, Generate, OpenSeed, WriteSeed, OpenPub, WritePub, Sign, Die
<1>3. BeingMade
  BY <1>2 DEF KeyInv
<1>4. ASSUME NEW p \in Procs, LoadSeed(p) PROVE BeingMade'
  BY <1>1, <1>3, <1>4 DEF LoadSeed, KeyTypeOK
<1>5. ASSUME NEW p \in Procs, Generate(p) PROVE BeingMade'
  BY <1>1, <1>3, <1>5 DEF Generate, KeyTypeOK
<1>6. ASSUME NEW p \in Procs, OpenSeed(p) PROVE BeingMade'
  BY <1>1, <1>3, <1>6 DEF OpenSeed, KeyTypeOK
<1>7. ASSUME NEW p \in Procs, WriteSeed(p) PROVE BeingMade'
  BY <1>1, <1>3, <1>7 DEF WriteSeed, KeyTypeOK, HasKey
<1>8. ASSUME NEW p \in Procs, OpenPub(p) PROVE BeingMade'
  BY <1>1, <1>3, <1>8 DEF OpenPub, KeyTypeOK
<1>9. ASSUME NEW p \in Procs, WritePub(p) PROVE BeingMade'
  BY <1>1, <1>3, <1>9 DEF WritePub, KeyTypeOK, HasKey
<1>10. ASSUME NEW p \in Procs, Sign(p) PROVE BeingMade'
  BY <1>1, <1>3, <1>10 DEF Sign, KeyTypeOK
<1>11. ASSUME NEW p \in Procs, Die(p) PROVE BeingMade'
  BY <1>1, <1>3, <1>11 DEF Die, KeyTypeOK
<1>12. CASE UNCHANGED keyVars
  BY <1>3, <1>12 DEF keyVars
<1> QED
  BY <1>4, <1>5, <1>6, <1>7, <1>8, <1>9, <1>10, <1>11, <1>12 DEF KeyNext

LEMMA KeyInvStep == KeyInv /\ [KeyNext]_keyVars => KeyInv'
BY KeyTypeStep, AloneStep, BeingMadeStep DEF KeyInv

LEMMA KeyInvHolds == KeySpec => []KeyInv
BY KeyInitInv, KeyInvStep, PTL DEF KeySpec
-----------------------------------------------------------------------------
\* load_or_create_broker_keypair, security/keys.py:29-50: files and runs keep
\* their types, and nothing is signed without a key.
THEOREM KeyTypeCorrect == KeySpec => []KeyTypeOK
BY KeyInvHolds, PTL DEF KeyInv

\* For any number of runs that die anywhere: as long as no two of them were
\* making the key at once, all receipts were signed with the one in the seed
\* file, and no other one is ever published.
THEOREM OneKey == KeySpec => []OneBrokerKey
<1>1. KeyInv => OneBrokerKey
  BY DEF KeyInv, OneSeed, OneBrokerKey
<1> QED BY <1>1, KeyInvHolds, PTL

\* However runs overlap: as long as none is cut off, files are left whole.
THEOREM WholeFiles == KeySpec => []FilesWhole
<1>1. KeyInv => FilesWhole
  BY DEF KeyInv, KeyTypeOK, File, BeingMade, FilesWhole, Making
<1> QED BY <1>1, KeyInvHolds, PTL

\* However runs overlap and die: once there is a seed file and nobody is making
\* the key, neither file is ever touched again.
THEOREM SettlesForGood == KeySpec => KeySettles
<1>1. KeyTypeOK /\ [KeyNext]_keyVars => [Settled => Settled' /\ UNCHANGED <<seed, pub>>]_keyVars
  <2> SUFFICES ASSUME KeyTypeOK, KeyNext, Settled
               PROVE  Settled' /\ UNCHANGED <<seed, pub>>
    OBVIOUS
  <2> USE DEF Settled, Making, Move, KeyTypeOK
  <2>1. ASSUME NEW p \in Procs,
               LoadSeed(p) \/ Generate(p) \/ OpenSeed(p) \/ WriteSeed(p)
                 \/ OpenPub(p) \/ WritePub(p)
        PROVE  Settled' /\ UNCHANGED <<seed, pub>>
    BY <2>1 DEF LoadSeed, Generate, OpenSeed, WriteSeed, OpenPub, WritePub
  <2>2. ASSUME NEW p \in Procs, Sign(p) \/ Die(p)
        PROVE  Settled' /\ UNCHANGED <<seed, pub>>
    BY <2>2 DEF Sign, Die
  <2> QED BY <2>1, <2>2 DEF KeyNext
<1> QED BY <1>1, KeyTypeCorrect, PTL DEF KeySpec, KeySettles
-----------------------------------------------------------------------------
Files == [Pkg!Artifacts -> Contents \cup {None}]

Hashes == [Pkg!Artifacts -> {Pkg!HashOf(c) : c \in Contents}] \cup {None}

HomeTypeOK ==
  /\ source \in Contents
  /\ step \in [PkgIds -> {"read", "prompt", "input_schema", "output_schema", "doc",
                          "original", "done", "failed"}]
  /\ read \in [PkgIds -> Files] /\ artifacts \in [PkgIds -> Files]
  /\ doc \in [PkgIds -> Hashes]
  /\ original \in [PkgIds -> Contents \cup {None}]
  /\ job \in [Procs -> [pkg: PkgIds \cup {None}, hashes: Hashes, seen: Files,
                        output: Contents \cup {None}]]
  /\ DOMAIN receipts = Procs /\ receipts = [p \in Procs |-> receipts[p]]
  /\ results \in [Procs -> Contents \cup {None, "lost"}]

\* A packaging run knows what it has read and written; the document comes last.
PackagesKept ==
  \A k \in PkgIds :
    /\ step[k] = "read" => doc[k] = None
    /\ step[k] \in Pkg!Artifacts \cup {"doc"} =>
         /\ doc[k] = None
         /\ read[k] \in [Pkg!Artifacts -> Contents]
    /\ step[k] \in {"input_schema", "output_schema", "doc"} =>
         artifacts[k]["prompt"] = read[k]["prompt"]
    /\ step[k] \in {"output_schema", "doc"} =>
         artifacts[k]["input_schema"] = read[k]["input_schema"]
    /\ step[k] = "doc" => artifacts[k]["output_schema"] = read[k]["output_schema"]
    /\ doc[k] # None =>
         /\ artifacts[k] \in [Pkg!Artifacts -> Contents]
         /\ \A a \in Pkg!Artifacts : doc[k][a] = Pkg!HashOf(artifacts[k][a])

\* The key that signed the receipt of run p.
Signer(p) == receipts[p].signature[2]

\* What run p knows of its package is in the package; its receipt is made of it.
RunAgrees(p) ==
  /\ job[p].pkg # None => doc[job[p].pkg] # None /\ job[p].hashes = doc[job[p].pkg]
  /\ \A a \in Pkg!Artifacts : job[p].seen[a] # None =>
       job[p].pkg # None /\ job[p].seen[a] = artifacts[job[p].pkg][a]
  /\ receipts[p] = None => results[p] = "lost"
  /\ receipts[p] # None =>
       /\ pc[p] = "idle" /\ job[p].pkg # None
       /\ receipts[p].body = Body(p, job[p].output)
       /\ receipts[p].signature = <<"ed25519", Signer(p), receipts[p].body>>
       /\ Signer(p) \in signed
       /\ results[p] \in {"lost", job[p].output}

RunsAgree == \A p \in Procs : RunAgrees(p)

HomeInv == KeyInv /\ HomeTypeOK /\ PackagesKept /\ RunsAgree
-----------------------------------------------------------------------------
\* Runs of execute are, for the key files, callers of the keystore.
LEMMA KeystoreStep == [HomeNext]_homeVars => [KeyNext]_keyVars
<1> SUFFICES ASSUME [HomeNext]_homeVars PROVE [KeyNext]_keyVars
  OBVIOUS
<1>1. ASSUME NEW p \in Procs, Keypair(p) PROVE KeyNext
  BY <1>1 DEF Keypair, KeyNext
<1>2. ASSUME NEW p \in Procs, GiveUp(p) PROVE KeyNext
  BY <1>2 DEF GiveUp, KeyNext
<1>3. ASSUME NEW p \in Procs, NEW output \in Contents \cup {None}, IssueReceipt(p, output)
      PROVE  KeyNext
  BY <1>3 DEF IssueReceipt, KeyNext
<1>4. ASSUME NEW p \in Procs, WriteResult(p) PROVE UNCHANGED keyVars
  BY <1>4 DEF WriteResult
<1>5. ASSUME NEW p \in Procs, NEW k \in PkgIds, LoadPackage(p, k) PROVE UNCHANGED keyVars
  BY <1>5 DEF LoadPackage
<1>6. ASSUME NEW p \in Procs, NEW a \in Pkg!Artifacts, ReadArtifact(p, a) PROVE UNCHANGED keyVars
  BY <1>6 DEF ReadArtifact
<1> QED BY <1>1, <1>2, <1>3, <1>4, <1>5, <1>6 DEF HomeNext, homeVars

\* security/keys.py as runs of execute use it: Home implements Keystore.
THEOREM HomeUsesKeystore == HomeSpec => KeySpec
<1>1. HomeInit => KeyInit
  BY DEF HomeInit
<1> QED BY <1>1, KeystoreStep, PTL DEF HomeSpec, KeySpec

\* packaging/builder.py beside them: packages come about as in Packaging.
LEMMA PackagingStep ==
  ASSUME [HomeNext]_homeVars
  PROVE  Pkg!PkgNext \/ UNCHANGED packageVars
BY DEF HomeNext, homeVars, Keypair, GiveUp, IssueReceipt, WriteResult, LoadPackage, ReadArtifact
-----------------------------------------------------------------------------
\* The steps of a packaging run keep what it knows, and what has a document.
LEMMA PackagesStep ==
  ASSUME HomeTypeOK, PackagesKept, Pkg!PkgNext
  PROVE  /\ source' \in Contents
         /\ step' \in [PkgIds -> {"read", "prompt", "input_schema", "output_schema", "doc",
                                  "original", "done", "failed"}]
         /\ read' \in [PkgIds -> Files] /\ artifacts' \in [PkgIds -> Files]
         /\ doc' \in [PkgIds -> Hashes]
         /\ original' \in [PkgIds -> Contents \cup {None}]
         /\ PackagesKept'
         /\ \A k \in PkgIds : doc[k] # None => doc'[k] = doc[k] /\ artifacts'[k] = artifacts[k]
<1> DEFINE Goal ==
         /\ source' \in Contents
         /\ step' \in [PkgIds -> {"read", "prompt", "input_schema", "output_schema", "doc",
                                  "original", "done", "failed"}]
         /\ read' \in [PkgIds -> Files] /\ artifacts' \in [PkgIds -> Files]
         /\ doc' \in [PkgIds -> Hashes]
         /\ original' \in [PkgIds -> Contents \cup {None}]
         /\ PackagesKept'
         /\ \A k \in PkgIds : doc[k] # None => doc'[k] = doc[k] /\ artifacts'[k] = artifacts[k]
<1> USE HomeConstants DEF HomeTypeOK, PackagesKept, Pkg!Artifacts, Pkg!Then, Files
<1>1. ASSUME NEW k \in PkgIds, NEW input \in Contents, NEW output \in Contents,
             Pkg!Read(k, input, output)
      PROVE  Goal
  <2>1. CASE input \in Schemas /\ output \in Schemas
    <3> DEFINE files == [a \in Pkg!Artifacts |-> CASE a = "prompt" -> source
                                                [] a = "input_schema" -> input
                                                [] OTHER -> output]
    <3>1. files \in [Pkg!Artifacts -> Contents] /\ files \in Files
      OBVIOUS
    <3>2. /\ step' = [step EXCEPT ![k] = "prompt"] /\ read' = [read EXCEPT ![k] = files]
          /\ UNCHANGED <<source, artifacts, doc, original>> /\ step[k] = "read"
      BY <1>1, <2>1 DEF Pkg!Read
    <3> HIDE DEF files
    <3> QED BY <3>1, <3>2
  <2>2. CASE ~(input \in Schemas /\ output \in Schemas)
    BY <1>1, <2>2 DEF Pkg!Read
  <2> QED BY <2>1, <2>2
<1>2. ASSUME NEW k \in PkgIds, NEW a \in Pkg!Artifacts, Pkg!WriteArtifact(k, a)
      PROVE  Goal
  BY <1>2 DEF Pkg!WriteArtifact, Pkg!After
<1>3. ASSUME NEW k \in PkgIds, Pkg!WriteDoc(k) PROVE Goal
  <2>1. /\ read[k] \in [Pkg!Artifacts -> Contents] /\ artifacts[k] = read[k]
        /\ step' = [step EXCEPT ![k] = "original"]
        /\ UNCHANGED <<source, read, artifacts, original>>
        /\ doc[k] = None
    BY <1>3 DEF Pkg!WriteDoc
  <2> DEFINE hashes == [a \in Pkg!Artifacts |-> Pkg!HashOf(read[k][a])]
  <2>2. hashes \in Hashes /\ \A a \in Pkg!Artifacts : hashes[a] = Pkg!HashOf(artifacts[k][a])
    BY <2>1 DEF Hashes
  <2>3. doc' = [doc EXCEPT ![k] = hashes]
    BY <1>3 DEF Pkg!WriteDoc
  <2> HIDE DEF hashes
  <2> QED BY <2>1, <2>2, <2>3
<1>4. ASSUME NEW k \in PkgIds, Pkg!CopyOriginal(k) \/ Pkg!Fail(k) PROVE Goal
  <2>1. original' \in [PkgIds -> Contents \cup {None}]
    BY <1>4 DEF Pkg!CopyOriginal, Pkg!Fail
  <2>2. /\ step' \in [PkgIds -> {"read", "prompt", "input_schema", "output_schema", "doc",
                                   "original", "done", "failed"}]
        /\ step[k] # "read"  => step'[k] # "read"
        /\ \A j \in PkgIds : j # k => step'[j] = step[j]
    BY <1>4 DEF Pkg!CopyOriginal, Pkg!Fail
  <2>3. UNCHANGED <<source, read, artifacts, doc>>
    BY <1>4 DEF Pkg!CopyOriginal, Pkg!Fail
  <2>4. step'[k] \in {"done", "failed"}
    BY <1>4 DEF Pkg!CopyOriginal, Pkg!Fail
  <2> QED BY <2>1, <2>2, <2>3, <2>4
<1>5. CASE Pkg!Edit
  BY <1>5 DEF Pkg!Edit
<1> HIDE DEF Pkg!Artifacts, HomeTypeOK, PackagesKept, Pkg!Then, Files
<1>6. Goal
  BY <1>1, <1>2, <1>3, <1>4, <1>5 DEF Pkg!PkgNext
<1> QED BY <1>6 DEF Goal
-----------------------------------------------------------------------------
LEMMA HomeInitInv == HomeInit => HomeInv
<1> SUFFICES ASSUME HomeInit PROVE HomeInv
  OBVIOUS
<1>1. KeyInv
  BY KeyInitInv DEF HomeInit
<1>2. HomeTypeOK
  BY HomeConstants DEF HomeInit, HomeTypeOK, Pkg!PkgInit, Pkg!NoFiles, Pkg!Artifacts, NoJob, Files,
                       Hashes
<1>3. PackagesKept
  BY DEF HomeInit, Pkg!PkgInit, PackagesKept, Pkg!Artifacts
<1>4. RunsAgree
  BY DEF HomeInit, RunsAgree, RunAgrees, NoJob, Pkg!NoFiles
<1> QED BY <1>1, <1>2, <1>3, <1>4 DEF HomeInv

\* While nobody writes packages, what is known of them stays.
LEMMA PackagesStay ==
  ASSUME PackagesKept, UNCHANGED packageVars
  PROVE  PackagesKept'
BY DEF PackagesKept, packageVars

\* A run stays in agreement while its package, its job and its receipt stay.
LEMMA RunStays ==
  ASSUME NEW p \in Procs, RunAgrees(p),
         job'[p] = job[p], receipts'[p] = receipts[p], results'[p] = results[p],
         receipts[p] # None => pc'[p] = "idle",
         signed \subseteq signed',
         job[p].pkg # None =>
           doc'[job[p].pkg] = doc[job[p].pkg] /\ artifacts'[job[p].pkg] = artifacts[job[p].pkg]
  PROVE  RunAgrees(p)'
<1>1. Body(p, job[p].output)' = Body(p, job[p].output)
  BY DEF Body, Verification!HashOf
<1>2. Signer(p)' = Signer(p)
  BY DEF Signer
<1> QED BY <1>1, <1>2 DEF RunAgrees

Jobs == [pkg: PkgIds \cup {None}, hashes: Hashes, seen: Files, output: Contents \cup {None}]

\* The steps on the key pair change no run's job.
LEMMA KeypairStep ==
  ASSUME HomeInv, NEW p \in Procs, Keypair(p)
  PROVE  HomeTypeOK' /\ PackagesKept' /\ RunsAgree'
<1>1. /\ receipts[p] = None
      /\ \A q \in Procs : q # p => pc'[q] = pc[q]
      /\ UNCHANGED <<packageVars, job, receipts, results, signed>>
  BY DEF Keypair, LoadSeed, Generate, OpenSeed, WriteSeed, OpenPub, WritePub, Move, HomeInv, KeyInv,
         KeyTypeOK
<1>2. HomeTypeOK' /\ PackagesKept'
  BY <1>1, PackagesStay DEF HomeInv, HomeTypeOK, packageVars
<1>3. ASSUME NEW q \in Procs PROVE RunAgrees(q)'
  <2>1. RunAgrees(q) /\ (receipts[q] # None => pc'[q] = "idle")
    BY <1>1 DEF HomeInv, RunsAgree, RunAgrees
  <2> QED BY <1>1, <2>1, RunStays DEF packageVars
<1> QED BY <1>2, <1>3 DEF RunsAgree

\* load_package gives the hashes of a document that is there.
LEMMA LoadPackageStep ==
  ASSUME HomeInv, NEW p \in Procs, NEW k \in PkgIds, LoadPackage(p, k)
  PROVE  HomeTypeOK' /\ PackagesKept' /\ RunsAgree'
<1>1. HomeTypeOK /\ RunsAgree /\ job \in [Procs -> Jobs]
  BY DEF HomeInv, HomeTypeOK, Jobs
<1>2. /\ pc[p] = "ready" /\ job[p].pkg = None /\ doc[k] # None /\ doc[k] \in Hashes
      /\ job' = [job EXCEPT ![p].pkg = k, ![p].hashes = doc[k]]
      /\ UNCHANGED <<keyVars, packageVars, receipts, results>>
  BY <1>1 DEF LoadPackage, HomeTypeOK
<1>3. /\ job' \in [Procs -> Jobs]
      /\ job'[p].pkg = k /\ job'[p].hashes = doc[k]
      /\ job'[p].seen = job[p].seen /\ job'[p].output = job[p].output
      /\ \A q \in Procs : q # p => job'[q] = job[q]
  BY <1>1, <1>2 DEF Jobs
<1>4. HomeTypeOK' /\ PackagesKept'
  BY <1>1, <1>2, <1>3, PackagesStay DEF HomeInv, HomeTypeOK, packageVars, Jobs
<1>5. RunAgrees(p)'
  BY <1>1, <1>2, <1>3 DEF RunsAgree, RunAgrees, packageVars, keyVars
<1>6. ASSUME NEW q \in Procs, q # p PROVE RunAgrees(q)'
  BY <1>1, <1>2, <1>3, <1>6, RunStays DEF RunsAgree, RunAgrees, packageVars, keyVars
<1> QED BY <1>4, <1>5, <1>6 DEF RunsAgree

\* read_prompt and its like see the artifact.
LEMMA ReadArtifactStep ==
  ASSUME HomeInv, NEW p \in Procs, NEW a \in Pkg!Artifacts, ReadArtifact(p, a)
  PROVE  HomeTypeOK' /\ PackagesKept' /\ RunsAgree'
<1>1. HomeTypeOK /\ RunsAgree /\ job \in [Procs -> Jobs]
  BY DEF HomeInv, HomeTypeOK, Jobs
<1>2. /\ pc[p] = "ready" /\ job[p].pkg # None
      /\ job' = [job EXCEPT ![p].seen[a] = artifacts[job[p].pkg][a]]
      /\ UNCHANGED <<keyVars, packageVars, receipts, results>>
  BY DEF ReadArtifact
<1>3. artifacts[job[p].pkg][a] \in Contents \cup {None} /\ job[p].seen \in Files
  BY <1>1, <1>2 DEF HomeTypeOK, Files, Jobs
<1>4. /\ job' \in [Procs -> Jobs]
      /\ job'[p].pkg = job[p].pkg /\ job'[p].hashes = job[p].hashes
      /\ job'[p].seen = [job[p].seen EXCEPT ![a] = artifacts[job[p].pkg][a]]
      /\ \A q \in Procs : q # p => job'[q] = job[q]
  BY <1>1, <1>2, <1>3 DEF Jobs, Files
<1>5. HomeTypeOK' /\ PackagesKept'
  BY <1>1, <1>2, <1>4, PackagesStay DEF HomeInv, HomeTypeOK, packageVars, Jobs
<1>6. \A b \in Pkg!Artifacts :
        job'[p].seen[b] = IF b = a THEN artifacts[job[p].pkg][a] ELSE job[p].seen[b]
  BY <1>3, <1>4 DEF Files
<1>7. RunAgrees(p)'
  BY <1>1, <1>2, <1>4, <1>6 DEF RunsAgree, RunAgrees, packageVars, keyVars
<1>8. ASSUME NEW q \in Procs, q # p PROVE RunAgrees(q)'
  BY <1>1, <1>2, <1>4, <1>8, RunStays DEF RunsAgree, RunAgrees, packageVars, keyVars
<1> QED BY <1>5, <1>7, <1>8 DEF RunsAgree

\* issue_receipt signs what the run knows, with the run's key.
LEMMA IssueReceiptStep ==
  ASSUME HomeInv, NEW p \in Procs, NEW output \in Contents \cup {None}, IssueReceipt(p, output)
  PROVE  HomeTypeOK' /\ PackagesKept' /\ RunsAgree'
<1>1. HomeTypeOK /\ RunsAgree /\ job \in [Procs -> Jobs] /\ KeyTypeOK
  BY DEF HomeInv, KeyInv, HomeTypeOK, Jobs
<1>2. /\ pc[p] = "ready" /\ job[p].pkg # None
      /\ job' = [job EXCEPT ![p].output = output]
      /\ receipts' = [receipts EXCEPT ![p] =
           [body |-> Body(p, output),
            signature |-> Verification(p)!Signature(mine[p], Body(p, output))]]
      /\ pc' = [pc EXCEPT ![p] = "idle"]
      /\ signed' = signed \cup {mine[p]}
      /\ UNCHANGED <<packageVars, results>>
  BY DEF IssueReceipt, Sign, Move
<1>3. /\ job' \in [Procs -> Jobs]
      /\ job'[p].pkg = job[p].pkg /\ job'[p].hashes = job[p].hashes
      /\ job'[p].seen = job[p].seen /\ job'[p].output = output
      /\ \A q \in Procs : q # p => job'[q] = job[q]
  BY <1>1, <1>2 DEF Jobs
<1>4. /\ DOMAIN receipts' = Procs /\ receipts' = [q \in Procs |-> receipts'[q]]
      /\ receipts'[p].body = Body(p, output)
      /\ receipts'[p].signature = <<"ed25519", mine[p], Body(p, output)>>
      /\ \A q \in Procs : q # p => receipts'[q] = receipts[q]
  BY <1>1, <1>2 DEF HomeTypeOK, Verification!Signature
<1>5. HomeTypeOK' /\ PackagesKept'
  BY <1>1, <1>2, <1>3, <1>4, PackagesStay DEF HomeInv, HomeTypeOK, packageVars, Jobs
<1>6. RunAgrees(p)'
  <2>1. Body(p, job[p].output)' = Body(p, output)
    BY <1>3 DEF Body, Verification!HashOf
  <2>2. Signer(p)' = mine[p] /\ mine[p] \in signed'
    BY <1>2, <1>4 DEF Signer
  <2>3. pc'[p] = "idle"
    BY <1>1, <1>2 DEF KeyTypeOK
  <2>4. results'[p] = "lost"
    <3>1. receipts[p] # None => pc[p] = "idle"
      BY <1>1 DEF RunsAgree, RunAgrees
    <3> QED BY <1>1, <1>2, <3>1 DEF RunsAgree, RunAgrees
  <2>5. /\ job'[p].pkg # None /\ UNCHANGED <<doc, artifacts>>
        /\ doc[job[p].pkg] # None /\ job[p].hashes = doc[job[p].pkg]
    BY <1>1, <1>2, <1>3 DEF RunsAgree, RunAgrees, packageVars
  <2>6. \A a \in Pkg!Artifacts : job'[p].seen[a] # None =>
          job'[p].seen[a] = artifacts'[job'[p].pkg][a]
    BY <1>1, <1>3, <2>5 DEF RunsAgree, RunAgrees
  <2> QED BY <1>3, <1>4, <2>1, <2>2, <2>3, <2>4, <2>5, <2>6 DEF RunAgrees
<1>7. ASSUME NEW q \in Procs, q # p PROVE RunAgrees(q)'
  <2>1. pc'[q] = pc[q] /\ signed \subseteq signed'
    BY <1>1, <1>2, <1>7 DEF KeyTypeOK
  <2> QED
    BY <1>1, <1>2, <1>3, <1>4, <1>7, <2>1, RunStays DEF RunsAgree, RunAgrees, packageVars
<1> QED BY <1>5, <1>6, <1>7 DEF RunsAgree

\* The result file has the output of the receipt.
LEMMA WriteResultStep ==
  ASSUME HomeInv, NEW p \in Procs, WriteResult(p)
  PROVE  HomeTypeOK' /\ PackagesKept' /\ RunsAgree'
<1>1. HomeTypeOK /\ RunsAgree
  BY DEF HomeInv
<1>2. /\ receipts[p] # None
      /\ results' = [results EXCEPT ![p] = job[p].output]
      /\ UNCHANGED <<keyVars, packageVars, job, receipts>>
  BY DEF WriteResult
<1>3. job[p].output \in Contents \cup {None}
  BY <1>1 DEF HomeTypeOK
<1>4. HomeTypeOK' /\ PackagesKept'
  BY <1>1, <1>2, <1>3, PackagesStay DEF HomeInv, HomeTypeOK, packageVars
<1>5. RunAgrees(p)'
  <2>1. Body(p, job[p].output)' = Body(p, job[p].output) /\ Signer(p)' = Signer(p)
    BY <1>2 DEF Body, Signer, Verification!HashOf
  <2> QED
    BY <1>1, <1>2, <2>1 DEF HomeTypeOK, RunsAgree, RunAgrees, packageVars, keyVars
<1>6. ASSUME NEW q \in Procs, q # p PROVE RunAgrees(q)'
  BY <1>1, <1>2, <1>6, RunStays DEF HomeTypeOK, RunsAgree, RunAgrees, packageVars, keyVars
<1> QED BY <1>4, <1>5, <1>6 DEF RunsAgree

\* A run that gives up has no receipt, and forgets its package.
LEMMA GiveUpStep ==
  ASSUME HomeInv, NEW p \in Procs, GiveUp(p)
  PROVE  HomeTypeOK' /\ PackagesKept' /\ RunsAgree'
<1>1. HomeTypeOK /\ RunsAgree /\ KeyTypeOK /\ job \in [Procs -> Jobs]
  BY DEF HomeInv, KeyInv, HomeTypeOK, Jobs
<1>2. /\ pc[p] # "idle" /\ pc' = [pc EXCEPT ![p] = "idle"]
      /\ job' = [job EXCEPT ![p] = NoJob]
      /\ UNCHANGED <<packageVars, receipts, results, signed>>
  BY DEF GiveUp, Die
<1>3. NoJob \in Jobs
  BY DEF NoJob, Jobs, Pkg!NoFiles, Files, Hashes
<1>4. HomeTypeOK' /\ PackagesKept'
  BY <1>1, <1>2, <1>3, PackagesStay DEF HomeInv, HomeTypeOK, packageVars, Jobs
<1>5. RunAgrees(p)'
  <2>1. receipts[p] = None /\ job'[p] = NoJob
    BY <1>1, <1>2 DEF RunsAgree, RunAgrees
  <2> QED BY <1>1, <1>2, <2>1 DEF RunsAgree, RunAgrees, NoJob, Pkg!NoFiles
<1>6. ASSUME NEW q \in Procs, q # p PROVE RunAgrees(q)'
  <2>1. pc'[q] = pc[q] /\ job'[q] = job[q]
    BY <1>1, <1>2, <1>6 DEF KeyTypeOK
  <2> QED BY <1>1, <1>2, <2>1, RunStays DEF RunsAgree, RunAgrees, packageVars
<1> QED BY <1>4, <1>5, <1>6 DEF RunsAgree

\* A packaging run touches nothing an execution has loaded.
LEMMA PackagingRunStep ==
  ASSUME HomeInv, Pkg!PkgNext, UNCHANGED <<keyVars, job, receipts, results>>
  PROVE  HomeTypeOK' /\ PackagesKept' /\ RunsAgree'
<1>1. HomeTypeOK /\ PackagesKept /\ RunsAgree
  BY DEF HomeInv
<1>2. /\ HomeTypeOK' /\ PackagesKept'
      /\ \A k \in PkgIds : doc[k] # None => doc'[k] = doc[k] /\ artifacts'[k] = artifacts[k]
  BY <1>1, PackagesStep DEF HomeTypeOK
<1>3. ASSUME NEW q \in Procs PROVE RunAgrees(q)'
  <2>1. job[q].pkg # None => job[q].pkg \in PkgIds /\ doc[job[q].pkg] # None
    BY <1>1 DEF HomeTypeOK, RunsAgree, RunAgrees
  <2>2. RunAgrees(q) /\ (receipts[q] # None => pc'[q] = "idle")
    BY <1>1 DEF RunsAgree, RunAgrees, keyVars
  <2>3. job'[q] = job[q] /\ receipts'[q] = receipts[q] /\ results'[q] = results[q]
        /\ signed \subseteq signed'
    BY DEF keyVars
  <2> QED BY <1>2, <2>1, <2>2, <2>3, RunStays
<1> QED BY <1>2, <1>3 DEF RunsAgree

LEMMA HomeInvStep == HomeInv /\ [HomeNext]_homeVars => HomeInv'
<1> SUFFICES ASSUME HomeInv, [HomeNext]_homeVars PROVE HomeInv'
  OBVIOUS
<1> DEFINE Kept == HomeTypeOK' /\ PackagesKept' /\ RunsAgree'
<1>1. KeyInv'
  BY KeystoreStep, KeyInvStep DEF HomeInv
<1>2. CASE HomeNext
  <2>1. ASSUME NEW p \in Procs, Keypair(p) \/ WriteResult(p) \/ GiveUp(p) PROVE Kept
    BY <2>1, KeypairStep, WriteResultStep, GiveUpStep
  <2>2. ASSUME NEW p \in Procs, NEW k \in PkgIds, LoadPackage(p, k) PROVE Kept
    BY <2>2, LoadPackageStep
  <2>3. ASSUME NEW p \in Procs, NEW a \in Pkg!Artifacts, ReadArtifact(p, a) PROVE Kept
    BY <2>3, ReadArtifactStep
  <2>4. ASSUME NEW p \in Procs, NEW output \in Contents \cup {None}, IssueReceipt(p, output)
        PROVE  Kept
    BY <2>4, IssueReceiptStep
  <2>5. ASSUME Pkg!PkgNext, UNCHANGED <<keyVars, job, receipts, results>> PROVE Kept
    BY <2>5, PackagingRunStep
  <2> HIDE DEF Kept
  <2>6. Kept
    BY <1>2, <2>1, <2>2, <2>3, <2>4, <2>5 DEF HomeNext
  <2> QED BY <1>1, <2>6 DEF Kept, HomeInv
<1>3. CASE UNCHANGED homeVars
  <2>1. HomeTypeOK' /\ PackagesKept'
    BY <1>3, PackagesStay DEF HomeInv, HomeTypeOK, homeVars, packageVars
  <2>2. ASSUME NEW q \in Procs PROVE RunAgrees(q)'
    <3>1. RunAgrees(q) /\ (receipts[q] # None => pc'[q] = "idle")
      BY <1>3 DEF HomeInv, RunsAgree, RunAgrees, homeVars, keyVars
    <3> QED BY <1>3, <3>1, RunStays DEF homeVars, keyVars, packageVars
  <2> QED BY <1>1, <2>1, <2>2 DEF RunsAgree, HomeInv
<1> QED BY <1>2, <1>3

LEMMA HomeInvHolds == HomeSpec => []HomeInv
BY HomeInitInv, HomeInvStep, PTL DEF HomeSpec
-----------------------------------------------------------------------------
\* What verification says of a receipt once there is a public key.
VerdictRule ==
  \A e \in Procs : receipts[e] # None /\ pub \in Keys => (Verifies(e) <=> pub = Signer(e))

\* The hashes in a receipt are those of its package and of its output.
LEMMA ReceiptBody ==
  ASSUME HomeInv, NEW e \in Procs, receipts[e] # None
  PROVE  /\ job[e].pkg \in PkgIds
         /\ \A a \in Pkg!Artifacts :
              /\ artifacts[job[e].pkg][a] \in Contents
              /\ receipts[e].body[a] = <<"sha256", artifacts[job[e].pkg][a]>>
         /\ receipts[e].body.output =
              IF job[e].output = None THEN None ELSE <<"sha256", job[e].output>>
<1>1. HomeTypeOK /\ PackagesKept /\ RunAgrees(e)
  BY DEF HomeInv, RunsAgree
<1>2. job[e].pkg \in PkgIds /\ doc[job[e].pkg] # None /\ job[e].hashes = doc[job[e].pkg]
  BY <1>1 DEF HomeTypeOK, RunAgrees
<1>3. receipts[e].body = Body(e, job[e].output)
  BY <1>1 DEF RunAgrees
<1>4. ASSUME NEW output
      PROVE  /\ Body(e, output).prompt = job[e].hashes.prompt
             /\ Body(e, output).input_schema = job[e].hashes.input_schema
             /\ Body(e, output).output_schema = job[e].hashes.output_schema
             /\ Body(e, output).output = Verification(e)!HashOf(output)
  BY DEF Body
<1>5. Verification(e)!HashOf(job[e].output) =
        IF job[e].output = None THEN None ELSE <<"sha256", job[e].output>>
  BY DEF Verification!HashOf
<1> QED BY <1>1, <1>2, <1>3, <1>4, <1>5 DEF PackagesKept, Pkg!Artifacts, Pkg!HashOf

LEMMA Verdict == HomeInv => VerdictRule
<1> SUFFICES ASSUME HomeInv, NEW e \in Procs, receipts[e] # None, pub \in Keys
             PROVE  Verifies(e) <=> pub = Signer(e)
  BY DEF VerdictRule
<1> DEFINE h == Found(e)
           r == receipts[e]
           k == job[e].pkg
<1>1. HomeTypeOK /\ PackagesKept /\ RunAgrees(e)
  BY DEF HomeInv, RunsAgree
<1>2. /\ k \in PkgIds
      /\ \A a \in Pkg!Artifacts :
           artifacts[k][a] \in Contents /\ r.body[a] = <<"sha256", artifacts[k][a]>>
      /\ r.body.output = IF job[e].output = None THEN None ELSE <<"sha256", job[e].output>>
  BY ReceiptBody
<1>3. /\ h.key = pub
      /\ h.output = results[e]
      /\ \A a \in Pkg!Artifacts : h[a] = artifacts[k][a]
  BY <1>2, HomeConstants DEF Found, Pkg!Artifacts
<1>4. \A a \in Pkg!Artifacts : Verification(e)!HashOf(h[a]) = r.body[a]
  BY <1>2, <1>3, HomeConstants DEF Verification!HashOf
<1>5. h.output # "lost" => Verification(e)!HashOf(h.output) = r.body.output
  BY <1>1, <1>2, <1>3 DEF RunAgrees, Verification!HashOf
<1>6. \A a \in DOMAIN Verification(e)!HashChecks(h, r) : Verification(e)!HashChecks(h, r)[a]
  BY <1>4, <1>5
     DEF Verification!HashChecks, Verification!Lost, Verification!Artifacts, Pkg!Artifacts
<1>7. h.key # "lost"
  BY <1>3, HomeConstants
<1>8. Verification(e)!SignatureValid(r, h.key) <=> pub = Signer(e)
  BY <1>1, <1>3 DEF Verification!SignatureValid, Verification!Signature, RunAgrees
<1> QED BY <1>6, <1>7, <1>8 DEF Verifies, Verification!Ok, Verification!Lost

\* runtime.py:90-242 and receipts/verifier.py:61-131: for any number of
\* runs and packages, every receipt a run has persisted verifies, if no run was
\* cut off while it made the key and no two made it at once.
THEOREM ReceiptsVerify == HomeSpec => []EveryReceiptVerifies
<1>1. HomeInv => EveryReceiptVerifies
  <2> SUFFICES ASSUME HomeInv, ~cutOff, ~overlapped, \A p \in Procs : ~Making(p),
                      NEW e \in Procs, receipts[e] # None
               PROVE  Verifies(e)
    BY DEF EveryReceiptVerifies
  <2>1. KeyTypeOK /\ OneSeed /\ BeingMade
    BY DEF HomeInv, KeyInv
  <2>2. Signer(e) \in signed
    BY DEF HomeInv, RunsAgree, RunAgrees
  <2>3. seed = Signer(e) /\ seed \in Keys
    BY <2>1, <2>2 DEF OneSeed, KeyTypeOK
  <2>4. FilesWhole
    BY <2>1 DEF KeyTypeOK, File, BeingMade, FilesWhole, Making
  <2>5. pub \in Keys
    BY <2>3, <2>4, KeyConstants DEF FilesWhole
  <2> QED BY <2>1, <2>3, <2>5, Verdict DEF VerdictRule, OneSeed
<1> QED BY <1>1, HomeInvHolds, PTL

\* A verdict of ok is for good: nothing that execute or package does, or leaves
\* undone, turns it, unless two runs made a key at once.
THEOREM VerdictsStand == HomeSpec => VerdictStands
<1> DEFINE Stands == \A e \in Procs : Verifies(e) /\ ~overlapped => Verifies(e)'
<1>1. HomeInv /\ VerdictRule' /\ [HomeNext]_homeVars => [Stands]_homeVars
  <2> SUFFICES ASSUME HomeInv, VerdictRule', HomeNext,
                      NEW e \in Procs, Verifies(e), ~overlapped
               PROVE  Verifies(e)'
    BY DEF Stands
  <2>1. /\ KeyTypeOK /\ MakerAlone /\ VerdictRule /\ RunAgrees(e)
        /\ DOMAIN receipts = Procs
    BY Verdict DEF HomeInv, KeyInv, HomeTypeOK, RunsAgree
  <2>2. receipts[e] # None /\ pub \in Keys
    <3>1. Found(e).key # "lost" /\ receipts[e] # None
      BY DEF Verifies, Verification!Ok, Verification!Lost
    <3> QED BY <3>1 DEF Found
  <2>3. pub = Signer(e)
    BY <2>1, <2>2 DEF VerdictRule
  <2>4. pub' = pub
    <3>1. \A p \in Procs : ~Making(p)
      BY <2>1, <2>2 DEF MakerAlone
    <3>2. [KeyNext]_keyVars
      BY KeystoreStep
    <3> QED
      BY <3>1, <3>2 DEF KeyNext, keyVars, LoadSeed, Generate, OpenSeed, WriteSeed, OpenPub, WritePub,
                        Sign, Die, Move, Making
  <2>5. receipts'[e] = receipts[e]
    <3>1. pc[e] = "idle"
      BY <2>1, <2>2 DEF RunAgrees
    <3>2. ASSUME NEW p \in Procs, NEW output \in Contents \cup {None}, IssueReceipt(p, output)
          PROVE  receipts'[e] = receipts[e]
      BY <2>1, <3>1, <3>2 DEF IssueReceipt, Sign, Move
    <3> QED
      BY <3>2 DEF HomeNext, Keypair, WriteResult, GiveUp, LoadPackage, ReadArtifact
  <2> QED BY <2>2, <2>3, <2>4, <2>5 DEF VerdictRule, Signer
<1> HIDE DEF Stands
<1>2. HomeSpec => [][Stands]_homeVars
  BY <1>1, Verdict, HomeInvHolds, PTL DEF HomeSpec
<1> QED BY <1>2 DEF Stands, VerdictStands

\* What verification finds unchanged is what the run had read and sent.
THEOREM OkIsWhatRan == HomeSpec => []OkMeansWhatRan
<1>1. HomeInv => OkMeansWhatRan
  <2> SUFFICES ASSUME HomeInv, NEW e \in Procs, Verifies(e)
               PROVE  /\ \A a \in Pkg!Artifacts : job[e].seen[a] # None =>
                           receipts[e].body[a] = Pkg!HashOf(job[e].seen[a])
                      /\ results[e] \in {"lost", job[e].output}
    BY DEF OkMeansWhatRan
  <2>1. HomeTypeOK /\ PackagesKept /\ RunAgrees(e) /\ receipts[e] # None
    BY DEF HomeInv, RunsAgree, Verifies
  <2>2. ASSUME NEW a \in Pkg!Artifacts, job[e].seen[a] # None
        PROVE  receipts[e].body[a] = Pkg!HashOf(job[e].seen[a])
    BY <2>1, <2>2, ReceiptBody DEF RunAgrees, Pkg!HashOf
  <2> QED BY <2>1, <2>2 DEF RunAgrees
<1> QED BY <1>1, HomeInvHolds, PTL
-----------------------------------------------------------------------------
\* packaging/builder.py:21-71: beside runs of execute, packages come about as in
\* Packaging: Home implements it.
THEOREM HomeUsesPackaging == HomeSpec => Pkg!PkgSpec
<1>1. HomeInit => Pkg!PkgInit
  BY DEF HomeInit
<1>2. [HomeNext]_homeVars => [Pkg!PkgNext]_Pkg!pkgVars
  BY PackagingStep DEF packageVars, Pkg!pkgVars
<1> QED BY <1>1, <1>2, PTL DEF HomeSpec, Pkg!PkgSpec

\* packaging/builder.py:21-71: what packaging runs read and write keeps its shape,
\* for any number of them and of contents.
THEOREM PackagesAreTyped == HomeSpec => []PackagesTyped
<1>1. HomeInv => PackagesTyped
  <2> SUFFICES ASSUME HomeInv PROVE Pkg!PkgTypeOK
    BY DEF PackagesTyped
  <2>1. \A k \in PkgIds : doc[k] = None \/ DOMAIN doc[k] = Pkg!Artifacts
    BY DEF HomeInv, HomeTypeOK, Hashes
  <2>2. original \in [PkgIds -> Contents \cup {None}]
    BY DEF HomeInv, HomeTypeOK
  <2> QED BY <2>1, <2>2 DEF HomeInv, HomeTypeOK, Files, Pkg!PkgTypeOK
<1> QED BY <1>1, HomeInvHolds, PTL

\* What readers see of the packages.
Shown == [k \in PkgIds |-> IF doc[k] = None THEN None
                           ELSE [hashes |-> doc[k], files |-> artifacts[k]]]

\* The document shows a package, whole and hashed.
LEMMA PublishedWhole ==
  ASSUME HomeTypeOK, PackagesKept, NEW k \in PkgIds, Pkg!WriteDoc(k)
  PROVE  Pkg!Store!Publish(k)
<1> DEFINE hashes == [a \in Pkg!Artifacts |-> Pkg!HashOf(read[k][a])]
           pkg == [hashes |-> hashes, files |-> artifacts[k]]
<1>1. /\ step[k] = "doc" /\ doc[k] = None /\ DOMAIN doc = PkgIds
      /\ read[k] \in [Pkg!Artifacts -> Contents] /\ artifacts[k] = read[k]
      /\ UNCHANGED artifacts
  BY DEF HomeTypeOK, PackagesKept, Files, Pkg!WriteDoc, Pkg!Then, Pkg!Artifacts
<1>2. doc' = [doc EXCEPT ![k] = hashes]
  BY DEF Pkg!WriteDoc
<1>3. /\ hashes \in [Pkg!Artifacts -> {Pkg!HashOf(c) : c \in Contents}]
      /\ pkg \in [hashes: [Pkg!Artifacts -> {Pkg!HashOf(c) : c \in Contents}],
                 files: [Pkg!Artifacts -> Contents]]
  BY <1>1
<1>4. hashes # None /\ pkg # None
  BY <1>3, NoneIsNoPackage
<1>5. /\ \A a \in DOMAIN pkg.hashes : pkg.hashes[a] = <<"sha256", pkg.files[a]>>
      /\ \A a \in DOMAIN pkg.files : pkg.files[a] # None
  BY <1>1, HomeConstants DEF Pkg!HashOf
<1> HIDE DEF hashes
<1>6. pkg = [hashes |-> hashes, files |-> artifacts[k]]
  OBVIOUS
<1> HIDE DEF pkg
<1>7. Shown[k] = None /\ Shown'[k] = pkg
  BY <1>1, <1>2, <1>4, <1>6 DEF Shown
<1>8. Shown' = [Shown EXCEPT ![k] = Shown'[k]]
  BY <1>1, <1>2, <1>7 DEF Shown
<1> QED BY <1>4, <1>5, <1>7, <1>8 DEF Pkg!Store!Publish, Shown

\* The other steps leave every package that is shown alone, and show no other.
LEMMA OthersHidden ==
  ASSUME HomeTypeOK, PackagesKept, [HomeNext]_homeVars, \A k \in PkgIds : ~Pkg!WriteDoc(k)
  PROVE  UNCHANGED Shown
<1>1. CASE Pkg!PkgNext
  <2>1. UNCHANGED doc
    BY <1>1 DEF Pkg!PkgNext, Pkg!Read, Pkg!WriteArtifact, Pkg!CopyOriginal, Pkg!Fail, Pkg!Edit
  <2>2. \A k \in PkgIds : doc[k] # None => artifacts'[k] = artifacts[k]
    BY <1>1, PackagesStep
  <2> QED BY <2>1, <2>2 DEF Shown
<1>2. CASE UNCHANGED packageVars
  BY <1>2 DEF packageVars, Shown
<1> QED BY <1>1, <1>2, PackagingStep

\* packaging/registry.py:12-36, as read by execute and receipt verify: what runs of
\* execute and of package leave, wherever they stop, is a store in which packages
\* appear at once and whole and never change.
THEOREM HomeShowsWholePackages == HomeSpec => WholePackages
<1>1. HomeInit => Pkg!Store!StoreInit
  BY DEF HomeInit, Pkg!PkgInit, Pkg!Store!StoreInit
<1>2. HomeInv /\ [HomeNext]_homeVars => [\E k \in PkgIds : Pkg!Store!Publish(k)]_Shown
  BY PublishedWhole, OthersHidden DEF HomeInv
<1> QED BY <1>1, <1>2, HomeInvHolds, PTL DEF HomeSpec, WholePackages, Pkg!RefinesStore, Pkg!Store!StoreSpec, Shown
=============================================================================
