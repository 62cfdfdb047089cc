----------------------------- MODULE GrantLedger -----------------------------
(***************************************************************************)
(* What a grant promises its customer (docs/protocol.md, section 2), with  *)
(* no processes and no files: an account is opened with terms that never   *)
(* change, spending only grows and never past the budget, and a revoked    *)
(* account is closed for good.                                             *)
(***************************************************************************)
EXTENDS Grant

CONSTANTS GrantIds, None

VARIABLE ledger    \* ledger[g]: the grant document of g, None before it is opened

LedgerInit == ledger = [g \in GrantIds |-> None]

Open(g) ==
  /\ ledger[g] = None
  /\ ledger'[g] \in GrantDoc
  /\ ledger'[g] = NewGrant(ledger'[g].budget, ledger'[g].expires, ledger'[g].terms)
  /\ ledger' = [ledger EXCEPT ![g] = ledger'[g]]

\* A call is paid for: the total grows by its cost and stays within the budget.
Post(g) ==
  LET amount == ledger'[g].spent - ledger[g].spent IN
  /\ ledger[g] # None
  /\ ledger[g].status # "revoked"
  /\ ledger'[g] \in GrantDoc
  /\ amount \in Nat
  /\ CanPay(ledger[g], amount)
  /\ ledger' = [ledger EXCEPT ![g] = Charged(@, amount)]

Close(g) ==
  /\ ledger[g] # None
  /\ ledger' = [ledger EXCEPT ![g] = Revoked(@)]

LedgerNext == \E g \in GrantIds : Open(g) \/ Post(g) \/ Close(g)

LedgerSpec == LedgerInit /\ [][LedgerNext]_ledger
=============================================================================
