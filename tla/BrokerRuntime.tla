---------------------------- MODULE BrokerRuntime ----------------------------
(***************************************************************************)
(* sealedx/broker/runtime.py: execute, the pipeline from a package and a   *)
(* grant to a signed receipt and a result.  It runs on top of the grant    *)
(* manager: an execution is one of its callers, held[e] is execute's local *)
(* variable `grant`, and every step of the pipeline either is one of the   *)
(* manager's operations too or leaves the grants alone.                    *)
(*                                                                         *)
(* A step of the model reads or writes what others can see (a file, the    *)
(* clock, the provider); the pure code up to the next such point goes with *)
(* it.  Faults names the errors that may happen: `except SealedxError` is  *)
(* the only handler, so anything else leaves execute through Raise.        *)
(***************************************************************************)
EXTENDS GrantManager, FiniteSets, Functions

CONSTANTS
  Execs,         \* calls of execute; each is run once, under a fresh execution id
  Admins,        \* callers of revoke
  Packages,      \* the published packages: [provider, models]
  Faults         \* subset of {"artifact", "provider", "output", "disk", "crash"}

ASSUME RuntimeConstants ==
  /\ Procs = Execs \cup Admins
  /\ Execs \cap Admins = {}
  /\ IsFiniteSet(Execs)            \* what is added up over them
  /\ 0 \in Amounts                 \* a short call rounds to 0, no usage charges 0
  /\ Faults \subseteq {"artifact", "provider", "output", "disk", "crash"}

VARIABLES
  pc,            \* pc[e]: where execution e is
  base,          \* base[e]: execute's base_fields, and the output fail() is given
  called,        \* auxiliary: the executions that sent their request
  paid,          \* auxiliary: paid[e] is the amount e charged, None before
  shared,        \* auxiliary: the executions that had a grant in hand while
                 \* another caller had it in hand too
  receipts,      \* receipts[e]: the file in receipts_dir(), None before
  results        \* results[e]: the file in results_dir(), None before

managerVars == <<now, grants, held>>
auditFiles == <<receipts, results>>
runtimeVars == <<now, grants, held, pc, base, called, paid, shared, receipts, results>>

Statuses == {"succeeded", "invalid_input", "invalid_output", "budget_exceeded",
             "grant_expired", "grant_exhausted", "grant_revoked",
             "provider_error", "policy_denied", "internal_error"}

\* parsed_output: none at all, one the output schema rejects, one it accepts.
Outputs == {None, "rejected", "accepted"}

Ended == {"done", "raised", "crashed"}
Stages == {"idle", "loaded", "admitted", "prepared", "calling", "answered",
           "charged", "decided", "receipted"} \cup Ended

NoBase == [grant |-> None, id |-> None, pkg |-> None, at |-> None, cost |-> None,
           output |-> None, status |-> "internal_error"]

BaseFields ==
  [grant: GrantDoc \cup {None}, id: GrantIds \cup {None}, pkg: Packages \cup {None},
   at: Nat \cup {None},             \* auxiliary: when assert_usable let it pass
   cost: Amounts \cup {None}, output: Outputs, status: Statuses]

\* The receipt and the result document, as far as auditors compare them.
ReceiptDoc ==
  [status: Statuses, pkg: Packages, terms: Terms, budget: Int, cost: Amounts \cup {None},
   output_hash: {None} \cup ({"sha256"} \X (Outputs \ {None}))]

ResultDoc == [status: Statuses, output: Outputs]

ASSUME NoneIsNoDocument ==
  /\ None \notin ReceiptDoc /\ None \notin ResultDoc
  /\ None \notin Amounts
  /\ None \notin {"rejected", "accepted"}
  /\ None \notin {"sha256"} \X {"rejected", "accepted"}

RuntimeTypeOK ==
  /\ TypeOK
  /\ pc \in [Execs -> Stages]
  /\ base \in [Execs -> BaseFields]
  /\ called \subseteq Execs
  /\ paid \in [Execs -> Amounts \cup {None}]
  /\ shared \subseteq Execs

RuntimeInit ==
  /\ Init
  /\ pc = [e \in Execs |-> "idle"]
  /\ base = [e \in Execs |-> NoBase]
  /\ called = {}
  /\ paid = [e \in Execs |-> None]
  /\ shared = {}
  /\ receipts = [e \in Execs |-> None]
  /\ results = [e \in Execs |-> None]

\* _check_grant_package_compat does not raise.  An absent or empty list allows
\* every model.
Compatible(terms, pkg) ==
  /\ pkg.provider \in {None, terms.provider}
  /\ pkg.models # {} => terms.model \in pkg.models
  /\ terms.allowed # {} => terms.model \in terms.allowed

\* hash_canonical_json: a name for the content, None when there is none.
HashOf(output) == IF output = None THEN None ELSE <<"sha256", output>>

\* The cost that is charged when the provider reports no usage.
Amount(cost) == IF cost = None THEN 0 ELSE cost

\* The copy of the grant, if execution e still has one, goes out of scope.
Forget(e) == IF held[e] = Idle THEN UNCHANGED managerVars ELSE Abandon(e)

Goto(e, stage) == pc' = [pc EXCEPT ![e] = stage]

\* Caller p takes grant g in hand, beside those who have it already.
Take(p, g) ==
  LET others == {q \in Procs : held[q].id = g}
  IN  shared' = shared \cup (IF others = {} THEN {} ELSE (others \cup {p}) \cap Execs)

\* The status and the output of base_fields are settled; what is left is to
\* sign and store them (the head of fail(), and of the success path).
Decide(e, status, output) ==
  /\ Goto(e, "decided")
  /\ base' = [base EXCEPT ![e].status = status, ![e].output = output]

Calling(e) == pc[e] = "calling" /\ UNCHANGED <<called, paid, shared, auditFiles>>
-----------------------------------------------------------------------------
(* Mutated forms, used by the mutation runs only. *)

ChargeGrantUnlogged(e) ==              \* a refused charge is taken for a paid one
  /\ pc[e] = "answered"
  /\ Forget(e)
  /\ Goto(e, "charged")
  /\ UNCHANGED <<base, called, paid, shared, auditFiles>>

ChargeGrantWaits(e) ==                 \* waits for money instead of refusing
  /\ pc[e] = "answered"
  /\ Charge(e, Amount(base[e].cost))
  /\ Goto(e, "charged")
  /\ paid' = [paid EXCEPT ![e] = Amount(base[e].cost)]
  /\ UNCHANGED <<base, called, shared, auditFiles>>
-----------------------------------------------------------------------------
\* The head of execute: the package and the grant are read, base_fields filled.
Load(e, k, g) ==
  /\ pc[e] = "idle"
  /\ Serial => \A x \in Execs : pc[x] \in {"idle"} \cup Ended
  /\ LoadGrant(e, g, "charge") /\ Take(e, g)
  /\ Goto(e, "loaded")
  /\ base' = [base EXCEPT ![e] = [NoBase EXCEPT !.grant = grants[g], !.id = g, !.pkg = k]]
  /\ UNCHANGED <<called, paid, auditFiles>>

\* PackageNotFoundError or GrantNotFoundError, outside the try.
LoadFails(e) ==
  /\ pc[e] = "idle"
  /\ Goto(e, "raised")
  /\ UNCHANGED <<managerVars, base, called, paid, shared, auditFiles>>

\* Compatibility first, then assert_usable; each refusal has its status.
Admit(e) ==
  LET status == DerivedStatus(held[e].grant, now) IN
  /\ pc[e] = "loaded"
  /\ IF ~Compatible(held[e].grant.terms, base[e].pkg)
       THEN Abandon(e) /\ Decide(e, "policy_denied", None)
       ELSE /\ AssertUsable(e)
            /\ IF status = "active"
                 THEN Goto(e, "admitted") /\ base' = [base EXCEPT ![e].at = now]
                 ELSE Decide(e, [expired |-> "grant_expired",
                                 exhausted |-> "grant_exhausted",
                                 revoked |-> "grant_revoked"][status], None)
  /\ UNCHANGED <<called, paid, shared, auditFiles>>

\* The input is validated against the package's schema.
CheckInput(e) ==
  /\ pc[e] = "admitted"
  /\ \/ Goto(e, "prepared") /\ UNCHANGED <<managerVars, base>>
     \/ Abandon(e) /\ Decide(e, "invalid_input", None)
  /\ UNCHANGED <<called, paid, shared, auditFiles>>

\* get_adapter and supports: no such provider, no key, a model it does not know.
AdapterRefuses(e) ==
  /\ pc[e] = "prepared"
  /\ Abandon(e)
  /\ Decide(e, "policy_denied", None)
  /\ UNCHANGED <<called, paid, shared, auditFiles>>

\* adapter.complete sends the request.
CallProvider(e) ==
  /\ pc[e] = "prepared"
  /\ Goto(e, "calling")
  /\ called' = called \cup {e}
  /\ UNCHANGED <<managerVars, base, paid, shared, auditFiles>>

\* The provider answers: a cost when it reports usage, an output when its text
\* is a JSON object.
ProviderAnswers(e, cost, output) ==
  /\ Calling(e)
  /\ Goto(e, "answered")
  /\ base' = [base EXCEPT ![e].cost = cost, ![e].output = output]
  /\ UNCHANGED managerVars

ProviderFails(e) ==
  /\ Calling(e)
  /\ Abandon(e)
  /\ Decide(e, "provider_error", None)

\* charge(grant, cost), with the copy read before the call.
ChargeGrant(e) ==
  LET amount == Amount(base[e].cost) IN
  /\ pc[e] = "answered"
  /\ \/ /\ Charge(e, amount)
        /\ Goto(e, "charged")
        /\ paid' = [paid EXCEPT ![e] = amount]
        /\ UNCHANGED base
     \/ /\ ~CanPay(held[e].grant, amount)
        /\ Abandon(e)
        /\ Decide(e, "budget_exceeded", None)
        /\ UNCHANGED paid
  /\ UNCHANGED <<called, shared, auditFiles>>

\* No output, an output the schema rejects (kept, and hashed), a good one.
CheckOutput(e) ==
  /\ pc[e] = "charged"
  /\ Decide(e, IF base[e].output = "accepted" THEN "succeeded" ELSE "invalid_output",
            base[e].output)
  /\ UNCHANGED <<managerVars, called, paid, shared, auditFiles>>

\* issue_receipt and _persist_receipt.
PersistReceipt(e) ==
  /\ pc[e] = "decided"
  /\ receipts' = [receipts EXCEPT ![e] =
       [status |-> base[e].status, pkg |-> base[e].pkg, terms |-> base[e].grant.terms,
        budget |-> base[e].grant.budget, cost |-> base[e].cost,
        output_hash |-> HashOf(base[e].output)]]
  /\ Goto(e, "receipted")
  /\ UNCHANGED <<managerVars, base, called, paid, shared, results>>

PersistResult(e) ==
  /\ pc[e] = "receipted"
  /\ results' = [results EXCEPT ![e] = [status |-> base[e].status, output |-> base[e].output]]
  /\ Goto(e, "done")
  /\ UNCHANGED <<managerVars, base, called, paid, shared, receipts>>

\* Where an exception that is not a SealedxError can come up: a schema or prompt
\* file that is gone or unreadable; an answer of an unexpected shape; an output
\* schema that does not resolve or an output that cannot be encoded; a write.
RaisesAt == [artifact |-> {"admitted", "prepared"},
             provider |-> {"calling"},
             output   |-> {"charged"},
             disk     |-> {"answered", "decided", "receipted"}]

Raise(e) ==
  /\ \E fault \in Faults \ {"crash"} : pc[e] \in RaisesAt[fault]
  /\ Forget(e)
  /\ Goto(e, "raised")
  /\ UNCHANGED <<base, called, paid, shared, auditFiles>>

\* The process dies; what it has written stays.
Crash(e) ==
  /\ "crash" \in Faults
  /\ pc[e] \notin {"idle"} \cup Ended
  /\ Forget(e)
  /\ Goto(e, "crashed")
  /\ UNCHANGED <<base, called, paid, shared, auditFiles>>

\* `customer grant`, `grant revoke` and the clock, beside the executions.
Outside ==
  /\ \/ /\ \/ \E g \in GrantIds, budget \in Budgets, life \in Lifetimes, terms \in Terms :
                CreateGrant(g, budget, life, terms)
           \/ \E a \in Admins : RevokePersist(a) \/ Abandon(a)
           \/ Tick
        /\ UNCHANGED shared
     \/ \E a \in Admins, g \in GrantIds :
          /\ LoadGrant(a, g, "revoke") /\ Take(a, g)
          /\ Serial => \A e \in Execs : pc[e] \in {"idle"} \cup Ended
  /\ UNCHANGED <<pc, base, called, paid, auditFiles>>

\* The steps execute takes by itself, the provider's answer included.
Step(e) ==
  \/ Admit(e) \/ CheckInput(e) \/ AdapterRefuses(e) \/ CallProvider(e)
  \/ \E cost \in Amounts \cup {None}, output \in Outputs : ProviderAnswers(e, cost, output)
  \/ ProviderFails(e) \/ ChargeGrant(e) \/ CheckOutput(e)
  \/ PersistReceipt(e) \/ PersistResult(e)

RuntimeNext ==
  \/ \E e \in Execs, k \in Packages, g \in GrantIds : Load(e, k, g)
  \/ \E e \in Execs : LoadFails(e) \/ Step(e) \/ Raise(e) \/ Crash(e)
  \/ Outside

RuntimeSpec == RuntimeInit /\ [][RuntimeNext]_runtimeVars

\* execute has no loop, and both SDKs bound a request with a timeout.
FairRuntimeSpec == RuntimeSpec /\ \A e \in Execs : WF_runtimeVars(Step(e))
-----------------------------------------------------------------------------
\* Whatever the other callers do and wherever the execution is cut off, files
\* and charges follow the auditor's order: one call and its bill, then at most one
\* charge of just that, then one receipt that tells the truth about all of them,
\* a refused charge included, then the result with the output it names.
Audit == INSTANCE AuditedExecution WITH billed <- [e \in Execs |-> base[e].cost]
RefinesAudit == Audit!AuditSpec

\* A request is sent only for a package the grant covers, under a grant that was
\* not revoked and had money left when it was read, and was not expired at a time
\* after that (docs/prd.md:72, US-5).
CallsCovered ==
  \A e \in called :
    /\ Compatible(base[e].grant.terms, base[e].pkg)
    /\ base[e].grant.status # "revoked"
    /\ base[e].grant.spent < base[e].grant.budget
    /\ base[e].at < base[e].grant.expires

\* What receipts say was paid for grant g.
Audited(g) ==
  SumFunction([e \in Execs |->
    IF /\ receipts[e] # None /\ base[e].id = g
       /\ receipts[e].status \in {"succeeded", "invalid_output"}
      THEN Amount(receipts[e].cost) ELSE 0])

\* What executions charged to grant g.
Paid(g) ==
  SumFunction([e \in Execs |-> IF paid[e] # None /\ base[e].id = g THEN paid[e] ELSE 0])

Recorded(g) == IF grants[g] = None THEN 0 ELSE grants[g].spent

\* Whatever overlaps, a charge is computed from a copy that is too old at worst,
\* so charges get lost but none is made up: no grant file ever records more than
\* the executions charged to it.
NothingMadeUp == \A g \in GrantIds : Recorded(g) <= Paid(g)

\* What was charged to grant g by executions that shared it with nobody.
PaidAlone(g) ==
  SumFunction([e \in Execs |->
    IF paid[e] # None /\ base[e].id = g /\ e \notin shared THEN paid[e] ELSE 0])

\* A charge can be lost only by an execution that shared the grant with another
\* caller while it had it in hand.  However others race for the grant before that
\* and after, and revoke it from old copies, all other charges stay in its total
\* (docs/limitations.md:39 concedes the races, and no more).
NothingLostAlone == \A g \in GrantIds : PaidAlone(g) <= Recorded(g)

\* Executions one at a time: even when they are cut off anywhere, the receipts
\* never account for more than the grant has recorded, because the charge is
\* committed before the receipt is signed (docs/threat-model.md:51, T7).
ReceiptsWithinSpending == \A g \in GrantIds : Audited(g) <= Recorded(g)

\* Executions one at a time: whenever all that started have come to their end,
\* none of them cut off, the receipts account for exactly what was spent.
Reconciled ==
  (\A e \in Execs : base[e] = NoBase \/ pc[e] = "done")
    => \A g \in GrantIds : Audited(g) = Recorded(g)

\* An execution that started leaves a receipt and a result, unless it is cut off.
EveryExecutionEnds ==
  \A e \in Execs : pc[e] = "loaded" ~>
    (receipts[e] # None /\ results[e] # None) \/ pc[e] \in {"raised", "crashed"}

\* docs/prd.md:83 (FR-3): any error path emits a receipt, at least once the
\* package and the grant were found.
EveryFailureAudited ==
  \A e \in Execs : pc[e] = "raised" /\ base[e].grant # None => receipts[e] # None

\* docs/protocol.md:131: for statuses other than succeeded, output_hash is null.
FailuresHashNothing ==
  \A e \in Execs : receipts[e] # None /\ receipts[e].status # "succeeded"
    => receipts[e].output_hash = None
=============================================================================
