-------------------------- MODULE GrantManagerProofs --------------------------
(***************************************************************************)
(* What holds of the grant documents for any number of grants and callers, *)
(* any budgets, amounts and lifetimes, and any interleaving.               *)
(*                                                                         *)
(* The invariant is about the copies as much as about the files: a write   *)
(* puts a document made from a copy on disk, so a copy must be as sound as *)
(* a file and must agree with its file on what may never change, however   *)
(* old it is (CopiesAgree).  When callers run one at a time there is one   *)
(* copy at most, it equals its file, and a copy that passed assert_usable  *)
(* is not revoked (OneCaller): each write is then a step of the ledger.    *)
(***************************************************************************)
EXTENDS GrantManager, TLAPS

\* A copy in a caller's hands is sound, and agrees with the file it was read
\* from on budget, expiry and terms.
CopiesAgree ==
  \A p \in Procs : held[p] # Idle =>
    LET file == grants[held[p].id]
        copy == held[p].grant IN
    /\ Sound(copy)
    /\ file # None
    /\ copy.budget = file.budget
    /\ copy.expires = file.expires
    /\ copy.terms = file.terms

\* With one caller at a time, its copy is the file.
OneCaller ==
  \A p \in Procs : held[p] # Idle =>
    /\ \A q \in Procs : held[q] # Idle => q = p
    /\ held[p].grant = grants[held[p].id]
    /\ held[p].op = "admitted" => held[p].grant.status # "revoked"

IInv == TypeOK /\ DocumentsSound /\ CopiesAgree

-----------------------------------------------------------------------------
\* The documents the rules produce are documents, and a charge keeps the terms.
LEMMA NewGrantDoc ==
  ASSUME NEW budget \in Int, NEW expires \in Nat, NEW terms \in Terms
  PROVE  /\ NewGrant(budget, expires, terms) \in GrantDoc
         /\ Sound(NewGrant(budget, expires, terms))
BY DEF NewGrant, GrantDoc, GrantStatus, Sound

\* charge turns a sound copy into a sound document with the same terms.
LEMMA ChargedDoc ==
  ASSUME NEW doc \in GrantDoc, NEW amount \in Nat, CanPay(doc, amount)
  PROVE  /\ Charged(doc, amount) \in GrantDoc
         /\ Charged(doc, amount).budget = doc.budget
         /\ Charged(doc, amount).expires = doc.expires
         /\ Charged(doc, amount).terms = doc.terms
         /\ Charged(doc, amount).spent = doc.spent + amount
         /\ Sound(doc) => Sound(Charged(doc, amount))
<1> DEFINE spent == doc.spent + amount
           status == ChargedStatus(doc, spent)
<1>1. /\ doc.budget \in Int /\ doc.spent \in Nat /\ doc.status \in GrantStatus
      /\ spent \in Nat /\ spent <= doc.budget
  BY DEF GrantDoc, CanPay
<1>2. status \in GrantStatus
  BY <1>1 DEF ChargedStatus, GrantStatus
<1>3. Charged(doc, amount) = [doc EXCEPT !.spent = spent, !.status = status]
  BY DEF Charged, GrantDoc
<1>4. /\ Charged(doc, amount) \in GrantDoc
      /\ Charged(doc, amount).budget = doc.budget
      /\ Charged(doc, amount).expires = doc.expires
      /\ Charged(doc, amount).terms = doc.terms
      /\ Charged(doc, amount).spent = spent
      /\ Charged(doc, amount).status = status
  <2> HIDE DEF spent, status
  <2> QED BY <1>1, <1>2, <1>3 DEF GrantDoc
<1>5. ASSUME Sound(doc) PROVE Sound(Charged(doc, amount))
  BY <1>1, <1>4, <1>5 DEF Sound, ChargedStatus, GrantStatus
<1> QED BY <1>4, <1>5

\* revoke turns a sound copy into a sound document with the same terms.
LEMMA RevokedDoc ==
  ASSUME NEW doc \in GrantDoc
  PROVE  /\ Revoked(doc) \in GrantDoc
         /\ Revoked(doc).budget = doc.budget
         /\ Revoked(doc).expires = doc.expires
         /\ Revoked(doc).terms = doc.terms
         /\ Revoked(doc).spent = doc.spent
         /\ Revoked(doc).status = "revoked"
         /\ Sound(doc) => Sound(Revoked(doc))
BY DEF Revoked, GrantDoc, GrantStatus, Sound

\* A caller that is not idle holds a document of a grant.
LEMMA HeldCopy ==
  ASSUME TypeOK, NEW p \in Procs, held[p] # Idle
  PROVE  /\ held[p].id \in GrantIds
         /\ held[p].grant \in GrantDoc
         /\ held[p] = Holding(held[p].op, held[p].id, held[p].grant)
         /\ held[p].op \in {"charge", "admitted", "revoke"}
BY DEF TypeOK, Held, Holding

LEMMA IdleOp == Idle.op = "idle"
BY DEF Idle
-----------------------------------------------------------------------------
\* Every step keeps the shape of the state.
LEMMA TypeStep == TypeOK /\ [Next]_vars => TypeOK'
<1> SUFFICES ASSUME TypeOK, [Next]_vars PROVE TypeOK'
  OBVIOUS
<1> USE GrantConstants
<1>1. ASSUME NEW g \in GrantIds, NEW budget \in Budgets, NEW life \in Lifetimes,
             NEW terms \in Terms, CreateGrant(g, budget, life, terms)
      PROVE  TypeOK'
  <2>1. NewGrant(budget, now + life, terms) \in GrantDoc
    BY NewGrantDoc DEF TypeOK
  <2> QED BY <1>1, <2>1 DEF TypeOK, CreateGrant, Persist
<1>2. ASSUME NEW p \in Procs, NEW g \in GrantIds, NEW op \in {"charge", "revoke"},
             LoadGrant(p, g, op)
      PROVE  TypeOK'
  <2>1. Holding(op, g, grants[g]) \in Held
    BY <1>2 DEF TypeOK, LoadGrant, Held, Holding
  <2> QED BY <1>2, <2>1 DEF TypeOK, LoadGrant
<1>3. ASSUME NEW p \in Procs, AssertUsable(p) PROVE TypeOK'
  <2>1. held[p] # Idle
    BY <1>3, IdleOp DEF AssertUsable
  <2>2. [held[p] EXCEPT !.op = "admitted"] \in Held
    <3>1. held[p] \in [op: {"charge", "admitted", "revoke"}, id: GrantIds, grant: GrantDoc]
      BY <2>1 DEF TypeOK, Held
    <3> QED BY <3>1 DEF Held
  <2>3. Idle \in Held
    BY DEF Held
  <2> QED BY <1>3, <2>2, <2>3 DEF TypeOK, AssertUsable
<1>4. ASSUME NEW p \in Procs, NEW amount \in Amounts, Charge(p, amount) PROVE TypeOK'
  <2>1. held[p] # Idle
    BY <1>4, IdleOp DEF Charge
  <2>2. Charged(held[p].grant, amount) \in GrantDoc
    BY <1>4, <2>1, HeldCopy, ChargedDoc DEF Charge
  <2>3. held[p].id \in GrantIds /\ Idle \in Held
    BY <2>1, HeldCopy DEF Held
  <2> QED BY <1>4, <2>2, <2>3 DEF TypeOK, Charge, Persist
<1>5. ASSUME NEW p \in Procs, RevokePersist(p) PROVE TypeOK'
  <2>1. held[p] # Idle
    BY <1>5, IdleOp DEF RevokePersist
  <2>2. Revoked(held[p].grant) \in GrantDoc
    BY <2>1, HeldCopy, RevokedDoc
  <2>3. held[p].id \in GrantIds /\ Idle \in Held
    BY <2>1, HeldCopy DEF Held
  <2> QED BY <1>5, <2>2, <2>3 DEF TypeOK, RevokePersist, Persist
<1>6. ASSUME NEW p \in Procs, Abandon(p) PROVE TypeOK'
  BY <1>6 DEF TypeOK, Abandon, Held
<1>7. CASE Tick
  BY <1>7 DEF TypeOK, Tick
<1>8. CASE UNCHANGED vars
  BY <1>8 DEF TypeOK, vars
<1> QED BY <1>1, <1>2, <1>3, <1>4, <1>5, <1>6, <1>7, <1>8 DEF Next

\* grants/manager.py and grants/models.py: documents and copies have their
\* types in every reachable state.
THEOREM TypeCorrect == Spec => []TypeOK
<1>1. Init => TypeOK
  BY GrantConstants DEF Init, TypeOK, Held
<1> QED BY <1>1, TypeStep, PTL DEF Spec
-----------------------------------------------------------------------------
\* A document that replaces a file leaves what the other copies agree with.
LEMMA PersistKeepsCopies ==
  ASSUME TypeOK, CopiesAgree, NEW p \in Procs, held[p] # Idle,
         NEW doc \in GrantDoc,
         doc.budget = held[p].grant.budget,
         doc.expires = held[p].grant.expires,
         doc.terms = held[p].grant.terms,
         Persist(held[p].id, doc),
         held' = [held EXCEPT ![p] = Idle]
  PROVE  CopiesAgree'
<1> SUFFICES ASSUME NEW q \in Procs, held'[q] # Idle
             PROVE  LET file == grants'[held'[q].id]
                        copy == held'[q].grant IN
                    /\ Sound(copy)
                    /\ file # None
                    /\ copy.budget = file.budget
                    /\ copy.expires = file.expires
                    /\ copy.terms = file.terms
  BY DEF CopiesAgree, Sound
<1>1. q # p /\ held'[q] = held[q] /\ held[q] # Idle
  BY DEF TypeOK
<1>2. held[p].id \in GrantIds /\ held[q].id \in GrantIds
  BY <1>1, HeldCopy
<1>3. doc # None
  BY GrantConstants
<1>4. CASE held[q].id = held[p].id
  <2>1. grants'[held[q].id] = doc
    BY <1>2, <1>4 DEF TypeOK, Persist
  <2> QED BY <1>1, <1>3, <2>1, <1>4 DEF CopiesAgree
<1>5. CASE held[q].id # held[p].id
  <2>1. grants'[held[q].id] = grants[held[q].id]
    BY <1>2, <1>5 DEF TypeOK, Persist
  <2> QED BY <1>1, <2>1 DEF CopiesAgree
<1> QED BY <1>4, <1>5

\* A sound document that replaces a file keeps all files sound.
LEMMA PersistKeepsSound ==
  ASSUME TypeOK, DocumentsSound, NEW g \in GrantIds, NEW doc \in GrantDoc,
         Sound(doc), Persist(g, doc)
  PROVE  DocumentsSound'
<1> SUFFICES ASSUME NEW h \in GrantIds, grants'[h] # None PROVE Sound(grants'[h])
  BY DEF DocumentsSound, Sound
<1>1. grants'[h] = IF h = g THEN doc ELSE grants[h]
  BY DEF TypeOK, Persist
<1> QED BY <1>1 DEF DocumentsSound

\* The inductive step, one case per action.
LEMMA InvStep == IInv /\ [Next]_vars => IInv'
<1> SUFFICES ASSUME IInv, [Next]_vars PROVE DocumentsSound' /\ CopiesAgree'
  BY TypeStep DEF IInv
<1> USE GrantConstants
<1>1. TypeOK /\ DocumentsSound /\ CopiesAgree
  BY DEF IInv
<1>2. ASSUME NEW g \in GrantIds, NEW budget \in Budgets, NEW life \in Lifetimes,
             NEW terms \in Terms, CreateGrant(g, budget, life, terms)
      PROVE  DocumentsSound' /\ CopiesAgree'
  <2>1. /\ NewGrant(budget, now + life, terms) \in GrantDoc
        /\ Sound(NewGrant(budget, now + life, terms))
    BY <1>1, NewGrantDoc DEF TypeOK
  <2>2. DocumentsSound'
    BY <1>1, <1>2, <2>1, PersistKeepsSound DEF CreateGrant
  <2>3. ASSUME NEW q \in Procs, held[q] # Idle
        PROVE  held[q].id # g /\ grants'[held[q].id] = grants[held[q].id]
    BY <1>1, <1>2, <2>3, HeldCopy DEF CreateGrant, Persist, CopiesAgree, TypeOK
  <2>4. CopiesAgree'
    BY <1>1, <1>2, <2>3 DEF CreateGrant, CopiesAgree, Sound
  <2> QED BY <2>2, <2>4
<1>3. ASSUME NEW p \in Procs, NEW g \in GrantIds, NEW op \in {"charge", "revoke"},
             LoadGrant(p, g, op)
      PROVE  DocumentsSound' /\ CopiesAgree'
  <2>1. /\ held' = [held EXCEPT ![p] = Holding(op, g, grants[g])]
        /\ grants' = grants /\ grants[g] # None
    BY <1>3 DEF LoadGrant
  <2>2. DocumentsSound'
    BY <1>1, <2>1 DEF DocumentsSound, Sound
  <2>3. ASSUME NEW q \in Procs, held'[q] # Idle, q # p PROVE held'[q] = held[q]
    BY <1>1, <2>1, <2>3 DEF TypeOK
  <2>4. held'[p].id = g /\ held'[p].grant = grants[g]
    BY <1>1, <2>1 DEF TypeOK, Holding
  <2>5. Sound(grants[g])
    BY <1>1, <2>1 DEF DocumentsSound
  <2>6. CopiesAgree'
    BY <1>1, <2>1, <2>3, <2>4, <2>5 DEF CopiesAgree, Sound
  <2> QED BY <2>2, <2>6
<1>4. ASSUME NEW p \in Procs, AssertUsable(p) PROVE DocumentsSound' /\ CopiesAgree'
  <2>1. grants' = grants /\ held[p] # Idle
    BY <1>4, IdleOp DEF AssertUsable
  <2>2. DocumentsSound'
    BY <1>1, <2>1 DEF DocumentsSound, Sound
  <2>3. ASSUME NEW q \in Procs, held'[q] # Idle
        PROVE  held[q] # Idle /\ held'[q].id = held[q].id /\ held'[q].grant = held[q].grant
    <3>1. CASE q # p
      BY <1>1, <1>4, <2>3, <3>1 DEF AssertUsable, TypeOK
    <3>2. CASE q = p
      <4>1. held'[p] = [held[p] EXCEPT !.op = "admitted"]
        BY <1>1, <1>4, <2>3, <3>2 DEF AssertUsable, TypeOK
      <4>2. held[p] \in [op: {"charge", "admitted", "revoke"}, id: GrantIds, grant: GrantDoc]
        BY <1>1, <2>1 DEF TypeOK, Held
      <4> QED BY <2>1, <3>2, <4>1, <4>2
    <3> QED BY <3>1, <3>2
  <2>4. CopiesAgree'
    BY <1>1, <2>1, <2>3 DEF CopiesAgree, Sound
  <2> QED BY <2>2, <2>4
<1>5. ASSUME NEW p \in Procs, NEW amount \in Amounts, Charge(p, amount)
      PROVE  DocumentsSound' /\ CopiesAgree'
  <2>1. held[p] # Idle
    BY <1>5, IdleOp DEF Charge
  <2>2. held[p].id \in GrantIds /\ held[p].grant \in GrantDoc /\ Sound(held[p].grant)
    BY <1>1, <2>1, HeldCopy DEF CopiesAgree
  <2> DEFINE doc == Charged(held[p].grant, amount)
  <2>3. /\ Persist(held[p].id, doc) /\ held' = [held EXCEPT ![p] = Idle]
        /\ CanPay(held[p].grant, amount) /\ amount \in Nat
    BY <1>5 DEF Charge
  <2>4. /\ doc \in GrantDoc /\ Sound(doc)
        /\ doc.budget = held[p].grant.budget
        /\ doc.expires = held[p].grant.expires
        /\ doc.terms = held[p].grant.terms
    BY <2>2, <2>3, ChargedDoc
  <2> HIDE DEF doc
  <2> QED BY <1>1, <2>1, <2>2, <2>3, <2>4, PersistKeepsSound, PersistKeepsCopies
<1>6. ASSUME NEW p \in Procs, RevokePersist(p) PROVE DocumentsSound' /\ CopiesAgree'
  <2>1. held[p] # Idle
    BY <1>6, IdleOp DEF RevokePersist
  <2>2. held[p].id \in GrantIds /\ held[p].grant \in GrantDoc /\ Sound(held[p].grant)
    BY <1>1, <2>1, HeldCopy DEF CopiesAgree
  <2> DEFINE doc == Revoked(held[p].grant)
  <2>3. Persist(held[p].id, doc) /\ held' = [held EXCEPT ![p] = Idle]
    BY <1>6 DEF RevokePersist
  <2>4. /\ doc \in GrantDoc /\ Sound(doc)
        /\ doc.budget = held[p].grant.budget
        /\ doc.expires = held[p].grant.expires
        /\ doc.terms = held[p].grant.terms
    BY <2>2, RevokedDoc
  <2> HIDE DEF doc
  <2> QED BY <1>1, <2>1, <2>2, <2>3, <2>4, PersistKeepsSound, PersistKeepsCopies
<1>7. ASSUME NEW p \in Procs, Abandon(p) PROVE DocumentsSound' /\ CopiesAgree'
  <2>1. grants' = grants /\ held' = [held EXCEPT ![p] = Idle]
    BY <1>7 DEF Abandon
  <2>2. ASSUME NEW q \in Procs, held'[q] # Idle PROVE held'[q] = held[q]
    BY <1>1, <2>1, <2>2 DEF TypeOK
  <2> QED BY <1>1, <2>1, <2>2 DEF DocumentsSound, CopiesAgree, Sound
<1>8. CASE Tick \/ UNCHANGED vars
  BY <1>1, <1>8 DEF Tick, vars, DocumentsSound, CopiesAgree, Sound
<1> QED BY <1>2, <1>3, <1>4, <1>5, <1>6, <1>7, <1>8 DEF Next

LEMMA InvInit == Init => IInv
BY GrantConstants DEF Init, IInv, TypeOK, Held, DocumentsSound, CopiesAgree

LEMMA InvHolds == Spec => []IInv
BY InvInit, InvStep, PTL DEF Spec

\* charge, grants/manager.py:98-106: whatever callers interleave, no document on
\* disk has spent more than its budget, and its status agrees with its total.
THEOREM SpendingSound == Spec => []DocumentsSound
BY InvHolds, PTL DEF IInv
-----------------------------------------------------------------------------
\* No write changes what the customer signed up to, however stale its copy.
LEMMA TermsStep ==
  ASSUME IInv, [Next]_vars, NEW g \in GrantIds, grants[g] # None
  PROVE  /\ grants'[g] # None
         /\ grants'[g].budget = grants[g].budget
         /\ grants'[g].expires = grants[g].expires
         /\ grants'[g].terms = grants[g].terms
<1>1. TypeOK /\ CopiesAgree
  BY DEF IInv
<1>2. ASSUME NEW p \in Procs, held[p] # Idle, NEW doc \in GrantDoc,
             Persist(held[p].id, doc),
             doc.budget = held[p].grant.budget,
             doc.expires = held[p].grant.expires,
             doc.terms = held[p].grant.terms
      PROVE  /\ grants'[g] # None
             /\ grants'[g].budget = grants[g].budget
             /\ grants'[g].expires = grants[g].expires
             /\ grants'[g].terms = grants[g].terms
  <2>1. grants'[g] = IF g = held[p].id THEN doc ELSE grants[g]
    BY <1>1, <1>2 DEF TypeOK, Persist
  <2>2. doc # None
    BY GrantConstants
  <2> QED BY <1>1, <1>2, <2>1, <2>2 DEF CopiesAgree
<1>3. ASSUME NEW p \in Procs, NEW amount \in Amounts, Charge(p, amount)
      PROVE  \E doc \in GrantDoc :
               /\ held[p] # Idle /\ Persist(held[p].id, doc)
               /\ doc.budget = held[p].grant.budget
               /\ doc.expires = held[p].grant.expires
               /\ doc.terms = held[p].grant.terms
  <2>1. held[p] # Idle /\ amount \in Nat /\ CanPay(held[p].grant, amount)
    BY <1>3, IdleOp, GrantConstants DEF Charge
  <2>2. held[p].grant \in GrantDoc
    BY <1>1, <2>1, HeldCopy
  <2>3. Charged(held[p].grant, amount) \in GrantDoc
    BY <2>1, <2>2, ChargedDoc
  <2> WITNESS Charged(held[p].grant, amount) \in GrantDoc
  <2> QED BY <1>3, <2>1, <2>2, ChargedDoc DEF Charge
<1>4. ASSUME NEW p \in Procs, RevokePersist(p)
      PROVE  \E doc \in GrantDoc :
               /\ held[p] # Idle /\ Persist(held[p].id, doc)
               /\ doc.budget = held[p].grant.budget
               /\ doc.expires = held[p].grant.expires
               /\ doc.terms = held[p].grant.terms
  <2>1. held[p] # Idle
    BY <1>4, IdleOp DEF RevokePersist
  <2>2. held[p].grant \in GrantDoc
    BY <1>1, <2>1, HeldCopy
  <2>3. Revoked(held[p].grant) \in GrantDoc
    BY <2>2, RevokedDoc
  <2> WITNESS Revoked(held[p].grant) \in GrantDoc
  <2> QED BY <1>4, <2>1, <2>2, RevokedDoc DEF RevokePersist
<1>5. ASSUME NEW h \in GrantIds, NEW budget \in Budgets, NEW life \in Lifetimes,
             NEW terms \in Terms, CreateGrant(h, budget, life, terms)
      PROVE  grants'[g] = grants[g]
  BY <1>1, <1>5 DEF CreateGrant, Persist, TypeOK
<1>6. CASE grants' = grants
  BY <1>6
<1> QED
  BY <1>2, <1>3, <1>4, <1>5, <1>6
  DEF Next, LoadGrant, AssertUsable, Abandon, Tick, vars

\* revoke and charge, grants/manager.py:80-106: they write whole documents, yet
\* never change the budget, the expiry or the terms of a grant, nor lose it.
THEOREM TermsNeverChange == Spec => TermsImmutable
<1>1. IInv /\ [Next]_vars =>
        [\A g \in GrantIds : grants[g] # None =>
           /\ grants'[g] # None
           /\ grants'[g].budget = grants[g].budget
           /\ grants'[g].expires = grants[g].expires
           /\ grants'[g].terms = grants[g].terms]_vars
  BY TermsStep
<1> QED BY <1>1, InvHolds, PTL DEF Spec, TermsImmutable
-----------------------------------------------------------------------------
LEMMA UsableMeans ==
  ASSUME NEW doc \in GrantDoc, NEW t \in Nat
  PROVE  Usable(doc, t) <=> doc.status # "revoked" /\ t < doc.expires /\ doc.spent < doc.budget
BY DEF Usable, DerivedStatus, GrantDoc

\* Time does not open a document, nor do a charge of it and a revocation of it.
LEMMA StaysUnusable ==
  ASSUME NEW doc \in GrantDoc, NEW t \in Nat, ~Usable(doc, t), NEW u \in Nat, t <= u
  PROVE  /\ ~Usable(doc, u)
         /\ \A amount \in Nat : CanPay(doc, amount) => ~Usable(Charged(doc, amount), u)
         /\ ~Usable(Revoked(doc), u)
<1>1. doc.status = "revoked" \/ t >= doc.expires \/ doc.spent >= doc.budget
  BY UsableMeans DEF GrantDoc
<1>2. ~Usable(doc, u)
  BY <1>1, UsableMeans DEF GrantDoc
<1>3. ASSUME NEW amount \in Nat, CanPay(doc, amount)
      PROVE  ~Usable(Charged(doc, amount), u)
  <2> DEFINE new == Charged(doc, amount)
  <2>1. /\ new \in GrantDoc /\ new.budget = doc.budget /\ new.expires = doc.expires
        /\ new.spent = doc.spent + amount
    BY <1>3, ChargedDoc
  <2>2. new.status = ChargedStatus(doc, doc.spent + amount)
    BY DEF Charged, GrantDoc
  <2>3. doc.status = "revoked" => new.status = "revoked" \/ new.spent >= new.budget
    BY <2>1, <2>2 DEF ChargedStatus
  <2>4. doc.spent \in Nat /\ doc.budget \in Int /\ doc.expires \in Nat
    BY DEF GrantDoc
  <2>5. ~Usable(new, u)
    <3> HIDE DEF new
    <3> QED BY <1>1, <1>3, <2>1, <2>3, <2>4, UsableMeans
  <2> QED BY <2>5
<1>4. ~Usable(Revoked(doc), u)
  BY RevokedDoc, UsableMeans
<1> QED BY <1>2, <1>3, <1>4

\* A closed grant is read, charged, revoked and left alone, and stays closed.
LEMMA ClosedStep ==
  ASSUME IInv, [Next]_vars, NEW g \in GrantIds, Closed(g)
  PROVE  Closed(g)'
<1>1. TypeOK
  BY DEF IInv
<1>2. grants'[g] # None
  BY TermsStep DEF Closed
<1>3. grants[g] \in GrantDoc /\ now \in Nat
  BY <1>1 DEF TypeOK, Closed
<1>4. now' \in Nat /\ now <= now'
  BY <1>1 DEF TypeOK, Next, CreateGrant, LoadGrant, AssertUsable, Charge, RevokePersist, Abandon,
              Tick, vars
<1>5. ASSUME NEW p \in Procs, held[p] # Idle, held[p].id = g, held[p].op # "revoke"
      PROVE  held[p].grant \in GrantDoc /\ ~Usable(held[p].grant, now)
  BY <1>1, <1>5, HeldCopy DEF Closed
<1>6. ~Usable(grants'[g], now')
  <2>1. ASSUME NEW p \in Procs, NEW amount \in Amounts, Charge(p, amount)
        PROVE  ~Usable(grants'[g], now')
    <3>1. held[p] # Idle /\ held[p].op # "revoke" /\ amount \in Nat
      BY <2>1, IdleOp, GrantConstants DEF Charge
    <3>2. CASE held[p].id = g
      <4>1. grants'[g] = Charged(held[p].grant, amount)
        BY <1>1, <2>1, <3>2 DEF Charge, Persist, TypeOK
      <4> QED BY <1>3, <1>4, <1>5, <2>1, <3>1, <3>2, <4>1, StaysUnusable DEF Charge
    <3>3. CASE held[p].id # g
      <4>1. grants'[g] = grants[g]
        BY <1>1, <2>1, <3>3 DEF Charge, Persist, TypeOK
      <4> QED BY <1>3, <1>4, <4>1, StaysUnusable DEF Closed
    <3> QED BY <3>2, <3>3
  <2>2. ASSUME NEW p \in Procs, RevokePersist(p) PROVE ~Usable(grants'[g], now')
    <3>1. held[p] # Idle
      BY <2>2, IdleOp DEF RevokePersist
    <3>2. held[p].grant \in GrantDoc
      BY <1>1, <3>1, HeldCopy
    <3>3. CASE held[p].id = g
      <4>1. grants'[g] = Revoked(held[p].grant)
        BY <1>1, <2>2, <3>3 DEF RevokePersist, Persist, TypeOK
      <4> QED BY <1>4, <3>2, <4>1, RevokedDoc, UsableMeans
    <3>4. CASE held[p].id # g
      <4>1. grants'[g] = grants[g]
        BY <1>1, <2>2, <3>4 DEF RevokePersist, Persist, TypeOK
      <4> QED BY <1>3, <1>4, <4>1, StaysUnusable DEF Closed
    <3> QED BY <3>3, <3>4
  <2>3. CASE grants'[g] = grants[g]
    BY <1>3, <1>4, <2>3, StaysUnusable DEF Closed
  <2>4. ASSUME NEW h \in GrantIds, NEW budget \in Budgets, NEW life \in Lifetimes,
               NEW terms \in Terms, CreateGrant(h, budget, life, terms)
        PROVE  grants'[g] = grants[g]
    BY <1>1, <2>4 DEF CreateGrant, Persist, TypeOK, Closed
  <2> QED
    BY <2>1, <2>2, <2>3, <2>4 DEF Next, LoadGrant, AssertUsable, Abandon, Tick, vars
<1>7. ASSUME NEW p \in Procs, held'[p].id = g, held'[p].op # "revoke"
      PROVE  ~Usable(held'[p].grant, now')
  <2>1. held'[p] # Idle
    BY <1>7, GrantConstants DEF Idle
  <2>2. \/ held[p] # Idle /\ held[p].id = g /\ held[p].op # "revoke"
             /\ held'[p].grant = held[p].grant
        \/ held'[p].grant = grants[g]
    <3>1. ASSUME NEW q \in Procs, NEW h \in GrantIds, NEW op \in {"charge", "revoke"},
                 LoadGrant(q, h, op), q = p
          PROVE  held'[p].grant = grants[g]
      BY <1>1, <1>7, <3>1 DEF LoadGrant, TypeOK, Holding
    <3>2. CASE held'[p] = held[p]
      BY <1>7, <2>1, <3>2
    <3>3. ASSUME AssertUsable(p)
          PROVE  /\ held[p] # Idle /\ held[p].id = g /\ held[p].op # "revoke"
                 /\ held'[p].grant = held[p].grant
      <4>1. held[p] # Idle /\ held[p].op = "charge"
        BY <3>3, IdleOp DEF AssertUsable
      <4>2. held'[p] = [held[p] EXCEPT !.op = "admitted"]
        BY <1>1, <2>1, <3>3 DEF AssertUsable, TypeOK
      <4>3. held[p] \in [op: {"charge", "admitted", "revoke"}, id: GrantIds, grant: GrantDoc]
        BY <1>1, <4>1 DEF TypeOK, Held
      <4> QED BY <1>7, <4>1, <4>2, <4>3
    <3>4. ASSUME NEW q \in Procs, held' = [held EXCEPT ![q] = Idle] PROVE held'[p] = held[p]
      BY <1>1, <2>1, <3>4 DEF TypeOK
    <3>5. ASSUME NEW q \in Procs, q # p,
                 AssertUsable(q) \/ (\E h \in GrantIds, op \in {"charge", "revoke"} : LoadGrant(q, h, op))
          PROVE  held'[p] = held[p]
      BY <1>1, <3>5 DEF AssertUsable, LoadGrant, TypeOK
    <3> QED
      BY <3>1, <3>2, <3>3, <3>4, <3>5
      DEF Next, CreateGrant, Charge, RevokePersist, Abandon, Tick, vars
  <2>3. CASE held[p] # Idle /\ held[p].id = g /\ held[p].op # "revoke" /\ held'[p].grant = held[p].grant
    BY <1>3, <1>4, <1>5, <2>3, StaysUnusable
  <2>4. CASE held'[p].grant = grants[g]
    BY <1>3, <1>4, <2>4, StaysUnusable DEF Closed
  <2> QED BY <2>2, <2>3, <2>4
<1> QED BY <1>2, <1>6, <1>7 DEF Closed, Usable, DerivedStatus

\* charge and revoke, grants/manager.py:80-106: once a grant is revoked, expired
\* or exhausted, and so is every copy under way, no interleaving reopens it.
THEOREM NothingReopens == Spec => ClosedForGood
<1>1. IInv /\ [Next]_vars => [\A g \in GrantIds : Closed(g) => Closed(g)']_vars
  BY ClosedStep
<1> QED BY <1>1, InvHolds, PTL DEF Spec, ClosedForGood
-----------------------------------------------------------------------------
\* A caller that starts alone stays alone, so its copy stays what is on disk.
LEMMA OneCallerStep ==
  ASSUME Serial, IInv, OneCaller, [Next]_vars
  PROVE  OneCaller'
<1>1. TypeOK /\ CopiesAgree
  BY DEF IInv
<1>2. ASSUME NEW g \in GrantIds, NEW budget \in Budgets, NEW life \in Lifetimes,
             NEW terms \in Terms, CreateGrant(g, budget, life, terms)
      PROVE  OneCaller'
  <2>1. ASSUME NEW q \in Procs, held[q] # Idle
        PROVE  grants'[held[q].id] = grants[held[q].id]
    BY <1>1, <1>2, <2>1, HeldCopy DEF CreateGrant, Persist, CopiesAgree, TypeOK
  <2> QED BY <1>2, <2>1 DEF CreateGrant, OneCaller
<1>3. ASSUME NEW p \in Procs, NEW g \in GrantIds, NEW op \in {"charge", "revoke"},
             LoadGrant(p, g, op)
      PROVE  OneCaller'
  <2>1. /\ grants' = grants
        /\ held'[p] = Holding(op, g, grants[g])
        /\ \A q \in Procs : q # p => held'[q] = Idle
    BY <1>1, <1>3 DEF LoadGrant, MayStart, TypeOK
  <2>2. op # "admitted"
    OBVIOUS
  <2> QED BY <2>1, <2>2 DEF OneCaller, Holding
<1>4. ASSUME NEW p \in Procs, AssertUsable(p) PROVE OneCaller'
  <2>1. grants' = grants /\ held[p] # Idle
    BY <1>4, IdleOp DEF AssertUsable
  <2>2. ASSUME NEW q \in Procs, q # p PROVE held'[q] = Idle
    BY <1>1, <1>4, <2>1, <2>2 DEF AssertUsable, OneCaller, TypeOK
  <2>3. CASE Usable(held[p].grant, now)
    <3>1. held'[p] = [held[p] EXCEPT !.op = "admitted"]
      BY <1>1, <1>4, <2>3 DEF AssertUsable, TypeOK
    <3>2. held[p] \in [op: {"charge", "admitted", "revoke"}, id: GrantIds, grant: GrantDoc]
      BY <1>1, <2>1 DEF TypeOK, Held
    <3>3. held'[p].id = held[p].id /\ held'[p].grant = held[p].grant
      BY <3>1, <3>2
    <3>4. held[p].grant.status # "revoked"
      BY <2>3 DEF Usable, DerivedStatus
    <3> QED BY <2>1, <2>2, <3>3, <3>4 DEF OneCaller
  <2>4. CASE ~Usable(held[p].grant, now)
    <3>1. held'[p] = Idle
      BY <1>1, <1>4, <2>4 DEF AssertUsable, TypeOK
    <3> QED BY <2>2, <3>1 DEF OneCaller
  <2> QED BY <2>3, <2>4
<1>5. ASSUME NEW p \in Procs, held[p] # Idle, held' = [held EXCEPT ![p] = Idle]
      PROVE  OneCaller'
  <2>1. \A q \in Procs : held'[q] = Idle
    BY <1>1, <1>5 DEF OneCaller, TypeOK
  <2> QED BY <2>1 DEF OneCaller
<1>6. CASE Tick \/ UNCHANGED vars
  BY <1>6 DEF Tick, vars, OneCaller
<1> QED
  BY <1>2, <1>3, <1>4, <1>5, <1>6, IdleOp
  DEF Next, Charge, RevokePersist, Abandon

\* Each step of a lone caller is a step of the ledger, or leaves it alone.
LEMMA LedgerStep ==
  ASSUME IInv, OneCaller, [Next]_vars
  PROVE  [Ledger!LedgerNext]_grants
<1>1. TypeOK
  BY DEF IInv
<1>2. ASSUME NEW g \in GrantIds, NEW budget \in Budgets, NEW life \in Lifetimes,
             NEW terms \in Terms, CreateGrant(g, budget, life, terms)
      PROVE  Ledger!Open(g)
  <2> DEFINE doc == NewGrant(budget, now + life, terms)
  <2>1. doc \in GrantDoc
    BY <1>1, GrantConstants, NewGrantDoc DEF TypeOK
  <2>2. grants'[g] = doc
    BY <1>1, <1>2 DEF CreateGrant, Persist, TypeOK
  <2>3. doc = NewGrant(doc.budget, doc.expires, doc.terms)
    BY DEF NewGrant
  <2>4. grants[g] = None /\ grants' = [grants EXCEPT ![g] = doc]
    BY <1>2 DEF CreateGrant, Persist
  <2> HIDE DEF doc
  <2>5. doc \in Ledger!GrantDoc /\ doc = Ledger!NewGrant(doc.budget, doc.expires, doc.terms)
    BY <2>1, <2>3 DEF GrantDoc, GrantStatus, NewGrant, Ledger!GrantDoc, Ledger!GrantStatus,
                      Ledger!NewGrant
  <2> QED BY <2>2, <2>4, <2>5 DEF Ledger!Open
<1>3. ASSUME NEW p \in Procs, NEW amount \in Amounts, Charge(p, amount)
      PROVE  held[p].id \in GrantIds /\ Ledger!Post(held[p].id)
  <2> DEFINE g == held[p].id
             doc == Charged(grants[g], amount)
  <2>1. /\ held[p] # Idle /\ amount \in Nat
        /\ held[p].op = "admitted"
    BY <1>3, IdleOp, GrantConstants DEF Charge
  <2>2. g \in GrantIds /\ held[p].grant \in GrantDoc
    BY <1>1, <2>1, HeldCopy
  <2>3. held[p].grant = grants[g] /\ grants[g].status # "revoked"
    BY <2>1 DEF OneCaller
  <2>4. CanPay(grants[g], amount) /\ grants' = [grants EXCEPT ![g] = doc]
    BY <1>3, <2>3 DEF Charge, Persist
  <2>5. doc \in GrantDoc /\ doc.spent = grants[g].spent + amount
    BY <2>1, <2>2, <2>3, <2>4, ChargedDoc
  <2>6. grants'[g] = doc
    BY <1>1, <2>2, <2>4 DEF TypeOK
  <2>7. grants'[g].spent - grants[g].spent = amount
    BY <2>1, <2>2, <2>3, <2>5, <2>6 DEF GrantDoc
  <2>8. grants[g] # None
    BY <2>2, <2>3, GrantConstants
  <2>9. /\ Ledger!GrantDoc = GrantDoc
        /\ Ledger!CanPay(grants[g], amount)
        /\ Ledger!Charged(grants[g], amount) = doc
    BY <2>4 DEF GrantDoc, GrantStatus, CanPay, Charged, ChargedStatus,
                Ledger!GrantDoc, Ledger!GrantStatus, Ledger!CanPay, Ledger!Charged,
                Ledger!ChargedStatus
  <2>10. \A d : d = amount =>
           /\ d \in Nat
           /\ Ledger!CanPay(grants[g], d)
           /\ grants' = [grants EXCEPT ![g] = Ledger!Charged(@, d)]
    BY <2>1, <2>4, <2>9
  <2>11. grants'[g] \in Ledger!GrantDoc
    BY <2>5, <2>6, <2>9
  <2> HIDE DEF doc
  <2>12. Ledger!Post(g)
    BY <2>3, <2>7, <2>8, <2>10, <2>11 DEF Ledger!Post
  <2> QED BY <2>2, <2>12
<1>4. ASSUME NEW p \in Procs, RevokePersist(p)
      PROVE  held[p].id \in GrantIds /\ Ledger!Close(held[p].id)
  <2>1. held[p] # Idle
    BY <1>4, IdleOp DEF RevokePersist
  <2>2. held[p].id \in GrantIds /\ held[p].grant \in GrantDoc
    BY <1>1, <2>1, HeldCopy
  <2>3. held[p].grant = grants[held[p].id] /\ grants[held[p].id] # None
    BY <2>1, <2>2, GrantConstants DEF OneCaller
  <2>4. Ledger!Revoked(grants[held[p].id]) = Revoked(grants[held[p].id])
    BY DEF Revoked, Ledger!Revoked
  <2> QED BY <1>4, <2>2, <2>3, <2>4 DEF RevokePersist, Persist, Ledger!Close
<1>5. CASE grants' = grants
  BY <1>5
<1> QED
  BY <1>2, <1>3, <1>4, <1>5
  DEF Next, LoadGrant, AssertUsable, Abandon, Tick, vars, Ledger!LedgerNext

\* Callers one at a time, the manager implements the ledger of protocol section 2.
THEOREM SerialIsLedger ==
  ASSUME Serial
  PROVE  Spec => RefinesLedger
<1>1. Init => OneCaller
  BY DEF Init, OneCaller
<1>2. IInv /\ OneCaller /\ [Next]_vars => OneCaller'
  BY OneCallerStep
<1>3. IInv /\ OneCaller /\ [Next]_vars => [Ledger!LedgerNext]_grants
  BY LedgerStep
<1>4. Init => Ledger!LedgerInit
  BY DEF Init, Ledger!LedgerInit
<1> QED
  BY <1>1, <1>2, <1>3, <1>4, InvHolds, PTL DEF Spec, RefinesLedger, Ledger!LedgerSpec

\* A lone caller charges the document that is on disk, and assert_usable has seen
\* that it is not revoked.
LEMMA RevokedStays ==
  ASSUME IInv, OneCaller, [Next]_vars, NEW g \in GrantIds,
         grants[g] # None, grants[g].status = "revoked"
  PROVE  grants'[g].status = "revoked"
<1>1. TypeOK
  BY DEF IInv
<1>2. ASSUME NEW p \in Procs, NEW amount \in Amounts, Charge(p, amount)
      PROVE  grants'[g] = grants[g]
  <2>1. held[p] # Idle /\ held[p].op = "admitted"
    BY <1>2, IdleOp DEF Charge
  <2>2. held[p].id \in GrantIds /\ held[p].id # g
    BY <1>1, <2>1, HeldCopy DEF OneCaller
  <2> QED BY <1>1, <1>2, <2>2 DEF Charge, Persist, TypeOK
<1>3. ASSUME NEW p \in Procs, RevokePersist(p)
      PROVE  grants'[g] = grants[g] \/ grants'[g].status = "revoked"
  <2>1. held[p] # Idle
    BY <1>3, IdleOp DEF RevokePersist
  <2>2. held[p].id \in GrantIds /\ Revoked(held[p].grant).status = "revoked"
    BY <1>1, <2>1, HeldCopy, RevokedDoc
  <2> QED BY <1>1, <1>3, <2>2 DEF RevokePersist, Persist, TypeOK
<1>4. ASSUME NEW h \in GrantIds, NEW budget \in Budgets, NEW life \in Lifetimes,
             NEW terms \in Terms, CreateGrant(h, budget, life, terms)
      PROVE  grants'[g] = grants[g]
  BY <1>1, <1>4 DEF CreateGrant, Persist, TypeOK
<1> QED
  BY <1>2, <1>3, <1>4 DEF Next, LoadGrant, AssertUsable, Abandon, Tick, vars

\* docs/protocol.md:65 and revoke, grants/manager.py:80-85: callers one at a time,
\* revocation is final; what undoes it is overlap and nothing else.
THEOREM SerialRevocationFinal ==
  ASSUME Serial
  PROVE  Spec => RevokedIsTerminal
<1>1. Init => OneCaller
  BY DEF Init, OneCaller
<1>2. IInv /\ OneCaller /\ [Next]_vars => OneCaller'
  BY OneCallerStep
<1>3. IInv /\ OneCaller /\ [Next]_vars =>
        [\A g \in GrantIds : grants[g] # None /\ grants[g].status = "revoked"
           => grants'[g].status = "revoked"]_vars
  BY RevokedStays
<1> QED BY <1>1, <1>2, <1>3, InvHolds, PTL DEF Spec, RevokedIsTerminal
=============================================================================
