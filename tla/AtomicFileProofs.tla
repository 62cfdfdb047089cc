--------------------------- MODULE AtomicFileProofs ---------------------------
(***************************************************************************)
(* What holds of a path that any number of writers replace, however often  *)
(* the power goes.  A reader sees whole data because nothing is named that *)
(* was not filled and synced (Named), not even on the disk itself, where   *)
(* the path may still name what it named before: a power loss then takes   *)
(* it to another whole file.  Filled says how far each temporary file is.  *)
(***************************************************************************)
EXTENDS AtomicFile, TLAPS

\* The temporary file of a writer that is on its way.
Filled ==
  \A w \in Writers : pc[w] \in Live =>
    /\ tmp[w] \in File
    /\ pc[w] \in {"written", "synced"} => tmp[w].data = w
    /\ pc[w] = "synced" => tmp[w].synced

\* A file that may be found under the path: synced, and of a call that returned.
Sealed(file) ==
  file # None => /\ file \in File /\ file.synced
                 /\ \E w \in Writers : pc[w] = "returned" /\ file.data = w

Named == Sealed(path) /\ \A file \in mayName : Sealed(file)

FileInv == FileTypeOK /\ Filled /\ Named

\* A file that was synced survives as it is.
LEMMA SealedSurvives ==
  ASSUME NEW file, Sealed(file)
  PROVE  Survivors(file) = {file}
BY DEF Sealed, Survivors

\* Calls that have returned stay so.
LEMMA SealedStays ==
  ASSUME NEW file, Sealed(file),
         \A w \in Writers : pc[w] = "returned" => pc'[w] = "returned"
  PROVE  Sealed(file)'
BY DEF Sealed

LEMMA FileInvInit == FileInit => FileInv
BY FileConstants DEF FileInit, FileInv, FileTypeOK, Filled, Named, Sealed, Live

LEMMA FileInvStep == FileInv /\ [FileNext]_fileVars => FileInv'
<1> SUFFICES ASSUME FileInv, [FileNext]_fileVars PROVE FileInv'
  OBVIOUS
<1>1. FileTypeOK /\ Filled /\ Named
  BY DEF FileInv
<1>2. ASSUME NEW w \in Writers, Make(w) \/ Write(w) \/ Sync(w) PROVE FileInv'
  <2>1. /\ UNCHANGED <<path, mayName, losses>>
        /\ \A v \in Writers : v # w => pc'[v] = pc[v] /\ tmp'[v] = tmp[v]
        /\ \A v \in Writers : pc[v] = "returned" => pc'[v] = "returned"
        /\ pc'[w] \in Live
        /\ pc' \in [Writers -> {"idle", "made", "written", "synced", "returned", "raised",
                                "killed"}]
    BY <1>1, <1>2 DEF FileTypeOK, Make, Write, Sync, Go, Live
  <2>2. /\ tmp'[w] \in File /\ tmp' \in [Writers -> File \cup {None}]
        /\ pc'[w] \in {"written", "synced"} => tmp'[w].data = w
        /\ pc'[w] = "synced" => tmp'[w].synced
    <3>1. CASE Make(w)
      BY <1>1, <3>1 DEF FileTypeOK, Make, Go, File
    <3>2. CASE Write(w)
      <4>1. tmp' = [tmp EXCEPT ![w] = [tmp[w] EXCEPT !.data = w]] /\ pc[w] = "made"
            /\ pc'[w] = "written"
        BY <1>1, <3>2 DEF Write, Go, FileTypeOK
      <4>2. tmp[w] \in File
        BY <1>1, <4>1 DEF Filled, Live
      <4> QED BY <1>1, <4>1, <4>2 DEF FileTypeOK, File, Whole
    <3>3. CASE Sync(w)
      <4>1. tmp' = [tmp EXCEPT ![w] = [tmp[w] EXCEPT !.synced = TRUE]] /\ pc[w] = "written"
        BY <1>1, <3>3 DEF Sync, Go, FileTypeOK
      <4>2. tmp[w] \in File /\ tmp[w].data = w
        BY <1>1, <4>1 DEF Filled, Live
      <4> QED BY <1>1, <4>1, <4>2 DEF FileTypeOK, File
    <3> QED BY <1>2, <3>1, <3>2, <3>3
  <2>3. Filled'
    BY <1>1, <2>1, <2>2 DEF Filled
  <2>4. Named'
    BY <1>1, <2>1, SealedStays DEF Named
  <2> QED BY <1>1, <2>1, <2>2, <2>3, <2>4 DEF FileInv, FileTypeOK
<1>3. ASSUME NEW w \in Writers, Replace(w) PROVE FileInv'
  <2>1. /\ pc[w] = "synced" /\ pc' = [pc EXCEPT ![w] = "returned"]
        /\ path' = tmp[w] /\ mayName' = mayName \cup {tmp[w]}
        /\ tmp' = [tmp EXCEPT ![w] = None] /\ UNCHANGED losses
    BY <1>3 DEF Replace, Go
  <2>2. tmp[w] \in File /\ tmp[w].data = w /\ tmp[w].synced
    BY <1>1, <2>1 DEF Filled, Live
  <2>3. Named'
    <3>1. pc'[w] = "returned" /\ \A v \in Writers : pc[v] = "returned" => pc'[v] = "returned"
      BY <1>1, <2>1 DEF FileTypeOK
    <3>2. ASSUME NEW file, file = tmp[w] PROVE Sealed(file)'
      BY <2>2, <3>1, <3>2 DEF Sealed
    <3> QED BY <1>1, <2>1, <3>1, <3>2, SealedStays DEF Named
  <2>4. FileTypeOK' /\ Filled'
    BY <1>1, <2>1, <2>2 DEF FileTypeOK, Filled, Live
  <2> QED BY <2>3, <2>4 DEF FileInv
<1>4. ASSUME NEW w \in Writers, RaiseError(w) \/ Kill(w) PROVE FileInv'
  <2>1. FileTypeOK' /\ Filled'
    BY <1>1, <1>4 DEF RaiseError, Kill, FileTypeOK, Filled, Live
  <2>2. /\ UNCHANGED <<path, mayName>>
        /\ \A v \in Writers : pc[v] = "returned" => pc'[v] = "returned"
    BY <1>1, <1>4 DEF RaiseError, Kill, FileTypeOK, Live
  <2> QED BY <1>1, <2>1, <2>2, SealedStays DEF FileInv, Named
<1>5. CASE PowerLoss
  <2>1. PICK named \in mayName : \E file \in Survivors(named) : path' = file /\ mayName' = {file}
    BY <1>5 DEF PowerLoss
  <2>2. path' = named /\ mayName' = {named}
    BY <1>1, <2>1, SealedSurvives DEF Named
  <2>3. \A v \in Writers : pc[v] = "returned" => pc'[v] = "returned"
    BY <1>5 DEF PowerLoss, Live
  <2>4. Named'
    BY <1>1, <2>1, <2>2, <2>3, SealedStays DEF Named
  <2>5. FileTypeOK' /\ Filled'
    BY <1>1, <1>5, <2>1, <2>2, FileConstants DEF PowerLoss, FileTypeOK, Filled, Live
  <2> QED BY <2>4, <2>5 DEF FileInv
<1>6. CASE UNCHANGED fileVars
  BY <1>1, <1>6 DEF fileVars, FileInv, FileTypeOK, Filled, Named, Sealed
<1> QED BY <1>2, <1>3, <1>4, <1>5, <1>6 DEF FileNext

LEMMA FileInvHolds == FileSpec => []FileInv
BY FileInvInit, FileInvStep, PTL DEF FileSpec
-----------------------------------------------------------------------------
\* storage/paths.py:56-72: calls, temporary files and the path keep their shape.
THEOREM FilesTyped == FileSpec => []FileTypeOK
BY FileInvHolds, PTL DEF FileInv

\* storage/paths.py:56-72: however many writers race, are cut off or lose power,
\* a path names nothing or the whole data of a call that had come to os.replace.
THEOREM WholeOrNothing == FileSpec => []NeverTorn
<1>1. FileInv => NeverTorn
  BY DEF FileInv, Named, Sealed, NeverTorn
<1> QED BY <1>1, FileInvHolds, PTL
=============================================================================
