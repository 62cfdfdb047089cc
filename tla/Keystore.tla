------------------------------- MODULE Keystore -------------------------------
(***************************************************************************)
(* sealedx/security/keys.py: the broker's key pair, made on first use.     *)
(* The seed and the public key are two files, written one after the other  *)
(* with write_bytes (open and truncate, then write), not atomically, and   *)
(* without a lock; the public key is written only by a run that found no   *)
(* seed.  A caller is one run of `broker execute`; any number of them may  *)
(* be first.                                                               *)
(***************************************************************************)
EXTENDS Naturals

CONSTANTS
  Procs,      \* the runs of execute; each may be started again
  Keys,       \* what SigningKey.generate may return; a public key has its seed's name
  None, Partial    \* no file; a file of the wrong length

ASSUME KeyConstants == None \notin Keys /\ Partial \notin Keys /\ None # Partial

VARIABLES
  seed, pub,  \* broker_ed25519.seed and broker_ed25519.pub
  pc, mine,   \* where run p is, and its signing key
  generated,  \* auxiliary: keys handed out by generate
  signed,     \* auxiliary: keys that signed a persisted receipt
  cutOff,     \* auxiliary: some run died while it was making the key
  overlapped  \* auxiliary: two runs were making the key at once

keyVars == <<seed, pub, pc, mine, generated, signed, cutOff, overlapped>>

File == Keys \cup {None, Partial}

KeyTypeOK ==
  /\ seed \in File /\ pub \in File
  /\ pc \in [Procs -> {"idle", "generated", "truncated", "seeded", "publishing", "ready"}]
  /\ mine \in [Procs -> Keys \cup {None}]
  /\ generated \subseteq Keys /\ signed \subseteq Keys
  /\ cutOff \in BOOLEAN /\ overlapped \in BOOLEAN

KeyInit ==
  /\ seed = None /\ pub = None
  /\ pc = [p \in Procs |-> "idle"]
  /\ mine = [p \in Procs |-> None]
  /\ generated = {} /\ signed = {}
  /\ cutOff = FALSE /\ overlapped = FALSE

Move(p, from, to) == pc[p] = from /\ pc' = [pc EXCEPT ![p] = to]

\* Run p has found no seed and is not done with the two files.
Making(p) == pc[p] \in {"generated", "truncated", "seeded", "publishing"}
-----------------------------------------------------------------------------
(* Mutated forms, used by the mutation runs only. *)

GenerateAlways(p) ==              \* a new key on every run
  /\ Move(p, "idle", "generated")
  /\ \E k \in Keys \ generated :
       mine' = [mine EXCEPT ![p] = k] /\ generated' = generated \cup {k}
  /\ overlapped' = (overlapped \/ \E q \in Procs : Making(q))
  /\ UNCHANGED <<seed, pub, signed, cutOff>>

WritePubOther(p) ==               \* publishes some other key
  /\ Move(p, "publishing", "ready")
  /\ \E k \in Keys : pub' = k
  /\ UNCHANGED <<seed, mine, generated, signed, cutOff, overlapped>>

OpenPubSeed(p) ==                 \* the wrong one of the two paths
  /\ Move(p, "seeded", "publishing")
  /\ seed' = Partial
  /\ UNCHANGED <<pub, mine, generated, signed, cutOff, overlapped>>

SignForgets(p) ==                 \* the run signs with no key at all
  /\ Move(p, "ready", "idle")
  /\ signed' = signed \cup {mine[p], None}
  /\ UNCHANGED <<seed, pub, mine, generated, cutOff, overlapped>>
-----------------------------------------------------------------------------
\* A whole seed file: its key is the broker's.
LoadSeed(p) ==
  /\ Move(p, "idle", "ready")
  /\ seed \in Keys
  /\ mine' = [mine EXCEPT ![p] = seed]
  /\ UNCHANGED <<seed, pub, generated, signed, cutOff, overlapped>>

\* No seed file: a fresh key.  (A seed of the wrong length raises ValueError,
\* and the run has changed nothing.)
Generate(p) ==
  /\ Move(p, "idle", "generated")
  /\ seed = None
  /\ \E k \in Keys \ generated :
       mine' = [mine EXCEPT ![p] = k] /\ generated' = generated \cup {k}
  /\ overlapped' = (overlapped \/ \E q \in Procs : Making(q))
  /\ UNCHANGED <<seed, pub, signed, cutOff>>

\* write_bytes: open truncates, write fills.
OpenSeed(p) ==
  /\ Move(p, "generated", "truncated")
  /\ seed' = Partial
  /\ UNCHANGED <<pub, mine, generated, signed, cutOff, overlapped>>

WriteSeed(p) ==
  /\ Move(p, "truncated", "seeded")
  /\ seed' = mine[p]
  /\ UNCHANGED <<pub, mine, generated, signed, cutOff, overlapped>>

OpenPub(p) ==
  /\ Move(p, "seeded", "publishing")
  /\ pub' = Partial
  /\ UNCHANGED <<seed, mine, generated, signed, cutOff, overlapped>>

WritePub(p) ==
  /\ Move(p, "publishing", "ready")
  /\ pub' = mine[p]
  /\ UNCHANGED <<seed, mine, generated, signed, cutOff, overlapped>>

\* The run persists a receipt signed with its key, and ends.
Sign(p) ==
  /\ Move(p, "ready", "idle")
  /\ signed' = signed \cup {mine[p]}
  /\ UNCHANGED <<seed, pub, mine, generated, cutOff, overlapped>>

\* The run dies, or ends for another reason, before it signs.
Die(p) ==
  /\ pc[p] # "idle"
  /\ pc' = [pc EXCEPT ![p] = "idle"]
  /\ cutOff' = (cutOff \/ Making(p))
  /\ UNCHANGED <<seed, pub, mine, generated, signed, overlapped>>

KeyNext ==
  \E p \in Procs :
    \/ LoadSeed(p) \/ Generate(p) \/ OpenSeed(p) \/ WriteSeed(p)
    \/ OpenPub(p) \/ WritePub(p) \/ Sign(p) \/ Die(p)

KeySpec == KeyInit /\ [][KeyNext]_keyVars
-----------------------------------------------------------------------------
\* As long as no two runs were making the key at once, dying anywhere: every
\* receipt was signed with the key the seed file holds, so there is one broker
\* key for all time; and a public key on disk is that key or unreadable, never
\* another one.
OneBrokerKey ==
  ~overlapped =>
    /\ \A k \in signed : seed = k
    /\ pub \in Keys => pub = seed

\* Whatever overlaps: only a run that dies leaves a file short or missing.
FilesWhole ==
  ~cutOff /\ (\A p \in Procs : ~Making(p)) =>
    {seed, pub} \subseteq Keys \/ (seed = None /\ pub = None)

\* There is a seed file and nobody is making the key.
Settled == seed # None /\ \A p \in Procs : ~Making(p)

\* Whatever overlaps and dies: once the key is settled no run ever makes another
\* or touches either file, so that the first uses decide for good which key
\* signs and which one verifies, and a short seed is never replaced.
KeySettles == [][Settled => Settled' /\ UNCHANGED <<seed, pub>>]_keyVars

\* keys.py:62: running `sealedx broker execute` once initializes the public key.
ExecuteInitializes == signed # {} => pub # None
=============================================================================
