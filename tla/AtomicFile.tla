------------------------------ MODULE AtomicFile ------------------------------
(***************************************************************************)
(* sealedx/storage/paths.py: atomic_write_bytes, which every document goes *)
(* through.  Writers replace one path, each by way of a file of its own:   *)
(* mkstemp, write, fsync, replace.  A step may raise (full disk), a        *)
(* process may be killed at any step (or leave by a BaseException, which   *)
(* the cleanup does not catch), and the machine may lose power.            *)
(*                                                                         *)
(* The directory is not synced, so after a power loss the path may name    *)
(* any file it named since the last one; a file that was not synced may    *)
(* then hold anything.                                                     *)
(***************************************************************************)
EXTENDS Naturals

CONSTANTS
  Writers,     \* calls of atomic_write_bytes on the path
  MaxLosses,   \* bound on power losses
  None         \* no file

ASSUME FileConstants == None \notin Writers /\ MaxLosses \in Nat

VARIABLES
  pc,          \* pc[w]: where writer w is
  tmp,         \* tmp[w]: the temporary file of w, None if there is none
  path,        \* the file the path names; its data is the name of its writer
  mayName,     \* auxiliary: the files the path may name on the disk itself
  losses       \* auxiliary: how often the power went

fileVars == <<pc, tmp, path, mayName, losses>>

Whole == Writers                     \* writer w writes the data w
File == [data: Whole \cup {"partial"}, synced: BOOLEAN]

FileTypeOK ==
  /\ pc \in [Writers -> {"idle", "made", "written", "synced", "returned", "raised", "killed"}]
  /\ tmp \in [Writers -> File \cup {None}]
  /\ path \in File \cup {None}
  /\ mayName \subseteq File \cup {None}
  /\ losses \in 0 .. MaxLosses

FileInit ==
  /\ pc = [w \in Writers |-> "idle"]
  /\ tmp = [w \in Writers |-> None]
  /\ path = None /\ mayName = {None} /\ losses = 0

Go(w, from, to) == pc[w] = from /\ pc' = [pc EXCEPT ![w] = to]
Live == {"made", "written", "synced"}
-----------------------------------------------------------------------------
(* Mutated forms, used by the mutation runs only. *)

SyncSkipped(w) ==                     \* flush without fsync
  /\ Go(w, "written", "synced")
  /\ UNCHANGED <<tmp, path, mayName, losses>>

WriteShort(w) ==                      \* the buffer is never flushed
  /\ Go(w, "made", "written")
  /\ tmp' = [tmp EXCEPT ![w].data = None]
  /\ UNCHANGED <<path, mayName, losses>>
-----------------------------------------------------------------------------
\* mkstemp: a name of its own, so writers never share a temporary file.
Make(w) ==
  /\ Go(w, "idle", "made")
  /\ tmp' = [tmp EXCEPT ![w] = [data |-> "partial", synced |-> FALSE]]
  /\ UNCHANGED <<path, mayName, losses>>

\* write and flush.
Write(w) ==
  /\ Go(w, "made", "written")
  /\ tmp' = [tmp EXCEPT ![w].data = w]
  /\ UNCHANGED <<path, mayName, losses>>

Sync(w) ==
  /\ Go(w, "written", "synced")
  /\ tmp' = [tmp EXCEPT ![w].synced = TRUE]
  /\ UNCHANGED <<path, mayName, losses>>

\* os.replace, and the return.
Replace(w) ==
  /\ Go(w, "synced", "returned")
  /\ path' = tmp[w]
  /\ mayName' = mayName \cup {tmp[w]}
  /\ tmp' = [tmp EXCEPT ![w] = None]
  /\ UNCHANGED losses

\* A step raises: the temporary file is unlinked, unless that fails too, which is
\* swallowed; the error is passed on.
RaiseError(w) ==
  /\ pc[w] \in Live
  /\ pc' = [pc EXCEPT ![w] = "raised"]
  /\ tmp' \in {tmp, [tmp EXCEPT ![w] = None]}
  /\ UNCHANGED <<path, mayName, losses>>

Kill(w) ==
  /\ pc[w] \in Live
  /\ pc' = [pc EXCEPT ![w] = "killed"]
  /\ UNCHANGED <<tmp, path, mayName, losses>>

\* What is left of a file: all of it when it was synced.
Survivors(file) ==
  IF file = None \/ (file # None /\ file.synced) THEN {file}
  ELSE {file, [data |-> "partial", synced |-> TRUE]}

PowerLoss ==
  /\ losses < MaxLosses
  /\ losses' = losses + 1
  /\ \E named \in mayName : \E file \in Survivors(named) : path' = file /\ mayName' = {file}
  /\ pc' = [w \in Writers |-> IF pc[w] \in Live THEN "killed" ELSE pc[w]]
  /\ UNCHANGED tmp

FileNext ==
  \/ \E w \in Writers : \/ Make(w) \/ Write(w) \/ Sync(w) \/ Replace(w)
                        \/ RaiseError(w) \/ Kill(w)
  \/ PowerLoss

FileSpec == FileInit /\ [][FileNext]_fileVars
-----------------------------------------------------------------------------
\* Whoever else writes, whatever is cut off, and after a power loss too: the
\* path has no file, or the whole data of a call that had come to os.replace.
NeverTorn == path = None \/ (path # None /\ path.data \in {w \in Writers : pc[w] = "returned"})
=============================================================================
