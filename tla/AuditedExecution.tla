--------------------------- MODULE AuditedExecution ---------------------------
(***************************************************************************)
(* What an execution leaves for its auditor, whoever else is at work and   *)
(* wherever it is cut off, with nothing of how it is done: the provider is *)
(* called at most once, what the call is billed is settled once, it is     *)
(* paid at most once and in full, before the receipt is signed; the        *)
(* receipt is written once and says how far the execution went, what was   *)
(* billed (paid or not) and which output there is; the result comes after  *)
(* it and holds that output.                                               *)
(*                                                                         *)
(* This is the promise of execute and not, word for word, of the           *)
(* documents: docs/prd.md:83 names the result before the receipt, and      *)
(* docs/protocol.md:93 and :131 want failures without an output and its    *)
(* hash, where execute keeps one the schema rejects.  That a receipt must  *)
(* come at all is not said here.                                           *)
(***************************************************************************)
EXTENDS Integers

CONSTANTS Execs, None

VARIABLES
  called,     \* the executions whose request was sent to the provider
  billed,     \* billed[e]: what the usage e's provider reports costs, None if none
  paid,       \* paid[e]: what e charged its grant, None if it charged nothing
  receipts,   \* receipts[e]: the signed receipt of e, None before
  results     \* results[e]: the result document of e, None before

auditVars == <<called, billed, paid, receipts, results>>

Denials == {"policy_denied", "grant_expired", "grant_exhausted", "grant_revoked",
            "invalid_input"}

\* hash_canonical_json: a name for the content, None when there is none.
HashOf(output) == IF output = None THEN None ELSE <<"sha256", output>>

\* A call without usage is charged nothing.
Due(e) == IF billed[e] = None THEN 0 ELSE billed[e]

\* A receipt that tells the truth about an execution.
Honest(e, receipt) ==
  /\ receipt.cost = billed[e]
  /\ \/ /\ receipt.status \in Denials
        /\ e \notin called /\ paid[e] = None /\ receipt.output_hash = None
     \/ /\ receipt.status = "provider_error"
        /\ e \in called /\ paid[e] = None /\ billed[e] = None
        /\ receipt.output_hash = None
     \/ /\ receipt.status = "budget_exceeded"
        /\ e \in called /\ paid[e] = None /\ Due(e) > 0
        /\ receipt.output_hash = None
     \/ /\ receipt.status \in {"succeeded", "invalid_output"}
        /\ e \in called /\ paid[e] = Due(e)
        /\ receipt.status = "succeeded" => receipt.output_hash # None

AuditInit ==
  /\ called = {}
  /\ billed = [e \in Execs |-> None]
  /\ paid = [e \in Execs |-> None]
  /\ receipts = [e \in Execs |-> None]
  /\ results = [e \in Execs |-> None]

Call(e) ==
  /\ e \notin called /\ receipts[e] = None
  /\ called' = called \cup {e}
  /\ UNCHANGED <<billed, paid, receipts, results>>

Bill(e) ==
  /\ e \in called /\ billed[e] = None /\ paid[e] = None /\ receipts[e] = None
  /\ billed'[e] \in Nat
  /\ billed' = [billed EXCEPT ![e] = billed'[e]]
  /\ UNCHANGED <<called, paid, receipts, results>>

Pay(e) ==
  /\ e \in called /\ paid[e] = None /\ receipts[e] = None
  /\ paid' = [paid EXCEPT ![e] = Due(e)]
  /\ UNCHANGED <<called, billed, receipts, results>>

Sign(e) ==
  /\ receipts[e] = None
  /\ receipts'[e] # None
  /\ Honest(e, receipts'[e])
  /\ receipts' = [receipts EXCEPT ![e] = receipts'[e]]
  /\ UNCHANGED <<called, billed, paid, results>>

Deliver(e) ==
  /\ receipts[e] # None /\ results[e] = None
  /\ results'[e] # None
  /\ results'[e].status = receipts[e].status
  /\ HashOf(results'[e].output) = receipts[e].output_hash
  /\ results' = [results EXCEPT ![e] = results'[e]]
  /\ UNCHANGED <<called, billed, paid, receipts>>

AuditNext == \E e \in Execs : Call(e) \/ Bill(e) \/ Pay(e) \/ Sign(e) \/ Deliver(e)

AuditSpec == AuditInit /\ [][AuditNext]_auditVars
=============================================================================
