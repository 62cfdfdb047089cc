---------------------------- MODULE GrantManager ----------------------------
(***************************************************************************)
(* sealedx/grants/manager.py: the grant documents on disk and the callers  *)
(* that read one, look at their copy and write a new document from it.     *)
(* Nothing is locked: between load_grant and _persist any other caller may *)
(* write the same file, and the writer does not read it again.             *)
(*                                                                         *)
(* One file is replaced in one step (atomic_write_json).  A caller is a    *)
(* call of runtime.execute (op "charge", then "admitted" once              *)
(* assert_usable returned) or of revoke (op "revoke").                     *)
(***************************************************************************)
EXTENDS Grant

CONSTANTS
  GrantIds,      \* the grants that may be created
  Procs,         \* the callers
  Budgets,       \* values of --budget-usd
  Amounts,       \* costs of one call
  Lifetimes,     \* values of --expires-in
  MaxTime,       \* bound of the clock
  Serial,        \* TRUE: callers run one at a time, as one CLI user does
  None           \* no document, no id

ASSUME GrantConstants ==
  /\ Budgets \subseteq Int
  /\ Amounts \subseteq Nat
  /\ Lifetimes \subseteq Nat
  /\ MaxTime \in Nat
  /\ Serial \in BOOLEAN
  /\ None \notin GrantDoc
  /\ None \notin GrantIds

VARIABLES
  now,           \* datetime.now(UTC)
  grants,        \* grants[g]: the document in grants_dir(), None if there is no file
  held           \* held[p]: what caller p is doing, on which grant, and its copy of it

vars == <<now, grants, held>>

Idle == [op |-> "idle", id |-> None, grant |-> None]

Holding(op, g, doc) == [op |-> op, id |-> g, grant |-> doc]

Held == [op: {"charge", "admitted", "revoke"}, id: GrantIds, grant: GrantDoc]
          \cup {Idle}

TypeOK ==
  /\ now \in Nat
  /\ grants \in [GrantIds -> GrantDoc \cup {None}]
  /\ held \in [Procs -> Held]

Init ==
  /\ now = 0
  /\ grants = [g \in GrantIds |-> None]
  /\ held = [p \in Procs |-> Idle]

Persist(g, doc) == grants' = [grants EXCEPT ![g] = doc]

\* With Serial, a caller starts only when every other one has returned.
MayStart(p) ==
  /\ held[p] = Idle
  /\ Serial => \A q \in Procs : held[q] = Idle
-----------------------------------------------------------------------------
\* create_grant: the id is fresh (uuid4), the document is written in one step.
CreateGrant(g, budget, life, terms) ==
  /\ grants[g] = None
  /\ Persist(g, NewGrant(budget, now + life, terms))
  /\ UNCHANGED <<now, held>>

\* load_grant, called by runtime.execute (op "charge") and by revoke.  A grant
\* without a file raises GrantNotFoundError and the caller has done nothing.
LoadGrant(p, g, op) ==
  /\ MayStart(p)
  /\ grants[g] # None
  /\ held' = [held EXCEPT ![p] = Holding(op, g, grants[g])]
  /\ UNCHANGED <<now, grants>>

\* assert_usable on the copy: the caller goes on to the provider, or its
\* execution is denied and ends without touching the grant.
AssertUsable(p) ==
  /\ held[p].op = "charge"
  /\ held' = [held EXCEPT ![p] = IF Usable(held[p].grant, now)
                                   THEN [@ EXCEPT !.op = "admitted"]
                                   ELSE Idle]
  /\ UNCHANGED <<now, grants>>

\* charge: the new total is computed from the copy, and the whole document,
\* made from the copy, replaces the file.
Charge(p, amount) ==
  /\ held[p].op = "admitted"
  /\ CanPay(held[p].grant, amount)
  /\ Persist(held[p].id, Charged(held[p].grant, amount))
  /\ held' = [held EXCEPT ![p] = Idle]
  /\ UNCHANGED now

\* The second half of revoke: the copy, with status revoked, replaces the file.
RevokePersist(p) ==
  /\ held[p].op = "revoke"
  /\ Persist(held[p].id, Revoked(held[p].grant))
  /\ held' = [held EXCEPT ![p] = Idle]
  /\ UNCHANGED now

\* The caller returns, raises (BudgetExceededError, an error of the pipeline
\* around it) or dies, and has written nothing.
Abandon(p) ==
  /\ held[p] # Idle
  /\ held' = [held EXCEPT ![p] = Idle]
  /\ UNCHANGED <<now, grants>>

Tick ==
  /\ now < MaxTime
  /\ now' = now + 1
  /\ UNCHANGED <<grants, held>>

Next ==
  \/ \E g \in GrantIds, budget \in Budgets, life \in Lifetimes, terms \in Terms :
       CreateGrant(g, budget, life, terms)
  \/ \E p \in Procs, g \in GrantIds, op \in {"charge", "revoke"} : LoadGrant(p, g, op)
  \/ \E p \in Procs : AssertUsable(p) \/ RevokePersist(p) \/ Abandon(p)
  \/ \E p \in Procs, amount \in Amounts : Charge(p, amount)
  \/ Tick

Spec == Init /\ [][Next]_vars
-----------------------------------------------------------------------------
\* A document is sound when its total is within its budget, and its status says
\* exhausted exactly when the money is gone -- except that a grant created with
\* no money at all is persisted active.
Sound(doc) ==
  /\ doc.spent = 0 \/ doc.spent <= doc.budget
  /\ doc.status = "exhausted" => doc.spent >= doc.budget
  /\ doc.status = "active" => doc.spent < doc.budget \/ doc.spent = 0

\* However callers interleave, no document on disk records more spending than
\* its budget, and its persisted status agrees with its total.  Stale copies
\* make totals wrong, never unsound.
DocumentsSound ==
  \A g \in GrantIds : grants[g] # None => Sound(grants[g])

\* A grant's budget, expiry, provider and models never change once it exists,
\* and a grant never disappears, though every write replaces the whole file.
TermsImmutable ==
  [][\A g \in GrantIds : grants[g] # None =>
       /\ grants'[g] # None
       /\ grants'[g].budget = grants[g].budget
       /\ grants'[g].expires = grants[g].expires
       /\ grants'[g].terms = grants[g].terms]_vars

\* Grant g is closed: revoked, expired or exhausted by now, and so is every copy
\* that an execution under way may still charge.
Closed(g) ==
  /\ grants[g] # None /\ ~Usable(grants[g], now)
  /\ \A p \in Procs : held[p].id = g /\ held[p].op # "revoke" => ~Usable(held[p].grant, now)

\* A closed grant stays closed, whatever callers start, finish or give up after
\* that: a call that was admitted before the expiry and is charged after it
\* renews nothing, and only a copy that was still open when it was read can
\* reopen a grant.
ClosedForGood == [][\A g \in GrantIds : Closed(g) => Closed(g)']_vars

\* docs/protocol.md:65 and `grant revoke`: revocation is an explicit decision of
\* the user and nothing in the protocol leads out of it.
RevokedIsTerminal ==
  [][\A g \in GrantIds :
       grants[g] # None /\ grants[g].status = "revoked"
         => grants'[g].status = "revoked"]_vars

\* One caller at a time, the manager is the ledger the protocol describes:
\* spending only grows and revocation is final.
Ledger == INSTANCE GrantLedger WITH ledger <- grants
RefinesLedger == Ledger!LedgerSpec
=============================================================================
