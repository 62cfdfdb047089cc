------------------------- MODULE BrokerRuntimeProofs -------------------------
(***************************************************************************)
(* What holds of the pipeline for any number of executions, revokers and   *)
(* grants.  Every step of it is a step of the grant manager or leaves the  *)
(* grants alone (ManagerStep), so all that GrantManagerProofs says of the  *)
(* documents holds under executions that fail, raise and die.  That        *)
(* requests are covered by their grant is an invariant of each execution:  *)
(* the copy it was admitted with is the one base_fields was made from, and *)
(* nothing that happens to the file afterwards changes it (CoverInv).      *)
(***************************************************************************)
EXTENDS BrokerRuntime, GrantManagerProofs

\* The grant execution e was given covers its package and could be used when
\* assert_usable looked at it.
Covered(e) ==
  /\ Compatible(base[e].grant.terms, base[e].pkg)
  /\ base[e].grant.status # "revoked"
  /\ base[e].grant.spent < base[e].grant.budget
  /\ base[e].at < base[e].grant.expires

\* Nothing is sent before assert_usable has looked at the copy in base_fields.
CoverInv ==
  \A e \in Execs :
    /\ pc[e] = "idle" => e \notin called
    /\ pc[e] = "loaded" => e \notin called /\ held[e].grant = base[e].grant
    /\ pc[e] \in {"admitted", "prepared"} \/ e \in called => Covered(e)
-----------------------------------------------------------------------------
LEMMA ExecIsCaller == ASSUME NEW e \in Execs PROVE e \in Procs
BY RuntimeConstants

LEMMA AdminIsCaller == ASSUME NEW a \in Admins PROVE a \in Procs
BY RuntimeConstants

\* The cost that is charged is one the manager knows.
LEMMA AmountKnown ==
  ASSUME RuntimeTypeOK, NEW e \in Execs
  PROVE  Amount(base[e].cost) \in Amounts
<1>1. base[e].cost \in Amounts \cup {None}
  BY DEF RuntimeTypeOK, BaseFields
<1> QED BY <1>1, RuntimeConstants DEF Amount

LEMMA ForgetStep ==
  ASSUME NEW e \in Execs, Forget(e)
  PROVE  UNCHANGED vars \/ Abandon(e)
BY DEF Forget, managerVars, vars

\* Every step of the runtime is a step of the manager, or none of its business.
LEMMA ManagerStep ==
  ASSUME RuntimeTypeOK, [RuntimeNext]_runtimeVars
  PROVE  [Next]_vars
<1>1. ASSUME NEW e \in Execs, NEW k \in Packages, NEW g \in GrantIds, Load(e, k, g)
      PROVE  Next
  BY <1>1, ExecIsCaller DEF Load, Next
<1>2. ASSUME NEW e \in Execs, Abandon(e) PROVE Next
  BY <1>2, ExecIsCaller DEF Next
<1>3. ASSUME NEW e \in Execs, Admit(e) PROVE Next
  <2>1. AssertUsable(e) => Next
    BY ExecIsCaller DEF Next
  <2> QED BY <1>2, <1>3, <2>1 DEF Admit
<1>4. ASSUME NEW e \in Execs, ChargeGrant(e) PROVE Next
  <2>1. Charge(e, Amount(base[e].cost)) => Next
    BY ExecIsCaller, AmountKnown DEF Next
  <2> QED BY <1>2, <1>4, <2>1 DEF ChargeGrant
<1>5. ASSUME NEW e \in Execs, Raise(e) \/ Crash(e) PROVE [Next]_vars
  BY <1>2, <1>5, ForgetStep DEF Raise, Crash
<1>6. ASSUME NEW e \in Execs, Step(e) PROVE [Next]_vars
  BY <1>2, <1>3, <1>4, <1>6
  DEF Step, CheckInput, AdapterRefuses, CallProvider, ProviderAnswers, ProviderFails,
      CheckOutput, PersistReceipt, PersistResult, managerVars, vars
<1>7. ASSUME NEW e \in Execs, LoadFails(e) PROVE UNCHANGED vars
  BY <1>7 DEF LoadFails, managerVars, vars
<1>8. ASSUME Outside PROVE Next
  BY <1>8, AdminIsCaller DEF Outside, Next
<1>9. CASE UNCHANGED runtimeVars
  BY <1>9 DEF runtimeVars, vars
<1> QED BY <1>1, <1>5, <1>6, <1>7, <1>8, <1>9 DEF RuntimeNext
-----------------------------------------------------------------------------
\* Every step keeps the shape of the pipeline's own state.
LEMMA RuntimeTypeStep == RuntimeTypeOK /\ [RuntimeNext]_runtimeVars => RuntimeTypeOK'
<1> SUFFICES ASSUME RuntimeTypeOK, [RuntimeNext]_runtimeVars PROVE RuntimeTypeOK'
  OBVIOUS
<1>1. TypeOK'
  BY ManagerStep, TypeStep DEF RuntimeTypeOK
<1>2. /\ pc \in [Execs -> Stages] /\ base \in [Execs -> BaseFields]
      /\ called \subseteq Execs /\ paid \in [Execs -> Amounts \cup {None}]
      /\ shared \subseteq Execs
  BY DEF RuntimeTypeOK
<1>3. ASSUME NEW e \in Execs, NEW stage \in Stages, Goto(e, stage)
      PROVE  pc' \in [Execs -> Stages]
  BY <1>2, <1>3 DEF Goto
<1>4. ASSUME NEW e \in Execs, NEW status \in Statuses, NEW output \in Outputs,
             Decide(e, status, output)
      PROVE  pc' \in [Execs -> Stages] /\ base' \in [Execs -> BaseFields]
  <2>1. "decided" \in Stages
    BY DEF Stages
  <2>2. [base[e] EXCEPT !.status = status, !.output = output] \in BaseFields
    BY <1>2 DEF BaseFields
  <2>3. base' = [base EXCEPT ![e] = [base[e] EXCEPT !.status = status, !.output = output]]
    BY <1>2, <1>4 DEF Decide
  <2> QED BY <1>2, <1>3, <1>4, <2>1, <2>2, <2>3 DEF Decide
<1> DEFINE Shape == /\ pc' \in [Execs -> Stages] /\ base' \in [Execs -> BaseFields]
                    /\ called' \subseteq Execs /\ paid' \in [Execs -> Amounts \cup {None}]
                    /\ shared' \subseteq Execs
<1>5. ASSUME NEW e \in Execs, NEW k \in Packages, NEW g \in GrantIds, Load(e, k, g)
      PROVE  Shape
  <2>1. grants[g] \in GrantDoc
    BY <1>5 DEF Load, LoadGrant, RuntimeTypeOK, TypeOK
  <2>2. [NoBase EXCEPT !.grant = grants[g], !.id = g, !.pkg = k] \in BaseFields
    BY <2>1 DEF NoBase, BaseFields, Outputs, Statuses
  <2>3. pc' \in [Execs -> Stages]
    BY <1>3, <1>5 DEF Load, Stages
  <2>4. shared' \subseteq Execs
    BY <1>2, <1>5 DEF Load, Take
  <2> QED BY <1>2, <1>5, <2>2, <2>3, <2>4 DEF Load
<1>6. ASSUME NEW e \in Execs, Admit(e) PROVE Shape
  <2>1. CASE Decide(e, "policy_denied", None)
    BY <1>2, <1>4, <1>6, <2>1 DEF Admit, Statuses, Outputs
  <2>2. CASE Goto(e, "admitted") /\ base' = [base EXCEPT ![e].at = now]
    <3>1. [base[e] EXCEPT !.at = now] \in BaseFields
      BY <1>2 DEF BaseFields, RuntimeTypeOK, TypeOK
    <3>2. base' = [base EXCEPT ![e] = [base[e] EXCEPT !.at = now]]
      BY <1>2, <2>2
    <3> QED BY <1>2, <1>3, <1>6, <2>2, <3>1, <3>2 DEF Admit, Stages
  <2>3. CASE \E status \in {"grant_expired", "grant_exhausted", "grant_revoked"} :
               Decide(e, status, None)
    BY <1>2, <1>4, <1>6, <2>3 DEF Admit, Statuses, Outputs
  <2>4. DerivedStatus(held[e].grant, now) \in GrantStatus
    BY DEF DerivedStatus, GrantStatus
  <2> QED BY <1>6, <2>1, <2>2, <2>3, <2>4 DEF Admit, GrantStatus
<1>7. ASSUME NEW e \in Execs, CheckInput(e) \/ AdapterRefuses(e) PROVE Shape
  BY <1>2, <1>3, <1>4, <1>7
  DEF CheckInput, AdapterRefuses, Statuses, Outputs, Stages
<1>8. ASSUME NEW e \in Execs, CallProvider(e) PROVE Shape
  BY <1>2, <1>3, <1>8 DEF CallProvider, Stages
<1>9. ASSUME NEW e \in Execs, NEW cost \in Amounts \cup {None}, NEW output \in Outputs,
             ProviderAnswers(e, cost, output)
      PROVE  Shape
  <2>1. [base[e] EXCEPT !.cost = cost, !.output = output] \in BaseFields
    BY <1>2 DEF BaseFields
  <2>2. base' = [base EXCEPT ![e] = [base[e] EXCEPT !.cost = cost, !.output = output]]
    BY <1>2, <1>9 DEF ProviderAnswers
  <2>3. pc' \in [Execs -> Stages]
    BY <1>3, <1>9 DEF ProviderAnswers, Stages
  <2> QED BY <1>2, <1>9, <2>1, <2>2, <2>3 DEF ProviderAnswers, Calling, auditFiles
<1>10. ASSUME NEW e \in Execs, ProviderFails(e) PROVE Shape
  BY <1>2, <1>4, <1>10 DEF ProviderFails, Calling, Statuses, Outputs
<1>11. ASSUME NEW e \in Execs, ChargeGrant(e) PROVE Shape
  <2>1. CASE /\ Goto(e, "charged") /\ UNCHANGED base
             /\ paid' = [paid EXCEPT ![e] = Amount(base[e].cost)]
    BY <1>2, <1>3, <1>11, <2>1, AmountKnown DEF ChargeGrant, Stages
  <2>2. CASE Decide(e, "budget_exceeded", None) /\ UNCHANGED paid
    BY <1>2, <1>4, <1>11, <2>2 DEF ChargeGrant, Statuses, Outputs
  <2> QED BY <1>11, <2>1, <2>2 DEF ChargeGrant
<1>12. ASSUME NEW e \in Execs, CheckOutput(e) PROVE Shape
  <2>1. base[e].output \in Outputs
    BY <1>2 DEF BaseFields
  <2>2. \E status \in {"succeeded", "invalid_output"} : Decide(e, status, base[e].output)
    BY <1>12 DEF CheckOutput
  <2>3. pc' \in [Execs -> Stages] /\ base' \in [Execs -> BaseFields]
    BY <1>4, <2>1, <2>2 DEF Statuses
  <2> QED BY <1>2, <1>12, <2>3 DEF CheckOutput
<1>13. ASSUME NEW e \in Execs, PersistReceipt(e) \/ PersistResult(e) PROVE Shape
  <2>1. \E stage \in {"receipted", "done"} : Goto(e, stage)
    BY <1>13 DEF PersistReceipt, PersistResult
  <2>2. pc' \in [Execs -> Stages]
    BY <1>3, <2>1 DEF Stages, Ended
  <2>3. UNCHANGED <<base, called, paid, shared>>
    BY <1>13 DEF PersistReceipt, PersistResult
  <2> QED BY <1>2, <2>2, <2>3
<1>14. ASSUME NEW e \in Execs, LoadFails(e) \/ Raise(e) \/ Crash(e) PROVE Shape
  <2>1. Goto(e, "raised") \/ Goto(e, "crashed")
    BY <1>14 DEF LoadFails, Raise, Crash
  <2>2. pc' \in [Execs -> Stages]
    BY <1>3, <2>1 DEF Stages, Ended
  <2>3. UNCHANGED <<base, called, paid, shared>>
    BY <1>14 DEF LoadFails, Raise, Crash
  <2> QED BY <1>2, <2>2, <2>3
<1>15. ASSUME Outside \/ UNCHANGED runtimeVars PROVE Shape
  BY <1>2, <1>15 DEF Outside, Take, runtimeVars
<1>16. Shape
  BY <1>5, <1>6, <1>7, <1>8, <1>9, <1>10, <1>11, <1>12, <1>13, <1>14, <1>15
  DEF RuntimeNext, Step
<1> QED BY <1>1, <1>16 DEF RuntimeTypeOK

LEMMA RuntimeTypeInit == RuntimeInit => RuntimeTypeOK
<1> SUFFICES ASSUME RuntimeInit PROVE RuntimeTypeOK
  OBVIOUS
<1>1. TypeOK
  BY InvInit DEF RuntimeInit, IInv
<1>2. NoBase \in BaseFields
  BY DEF NoBase, BaseFields, Outputs, Statuses
<1> QED BY <1>1, <1>2 DEF RuntimeInit, RuntimeTypeOK, Stages

\* broker/runtime.py:90: base_fields and the places of execute keep their types
\* in every interleaving and under every fault.
THEOREM RuntimeTypeCorrect == RuntimeSpec => []RuntimeTypeOK
BY RuntimeTypeInit, RuntimeTypeStep, PTL DEF RuntimeSpec

\* broker/runtime.py:90: seen from the grant files, executions that fail, raise
\* or die are nothing but callers of the grant manager.
THEOREM RuntimeUsesManager == RuntimeSpec => Spec
<1>1. RuntimeInit => Init
  BY DEF RuntimeInit
<1>2. RuntimeTypeOK /\ [RuntimeNext]_runtimeVars => [Next]_vars
  BY ManagerStep
<1> QED BY <1>1, <1>2, RuntimeTypeCorrect, PTL DEF RuntimeSpec, Spec

\* So whatever happens to executions, no document on disk has spent more than
\* its budget, and its status agrees with its total.
THEOREM RuntimeSpendingSound == RuntimeSpec => []DocumentsSound
BY RuntimeUsesManager, SpendingSound, PTL

\* Nor does any of them change what the customer signed up to, or reopen a grant
\* that was closed together with all copies of it.
THEOREM RuntimeKeepsTerms == RuntimeSpec => TermsImmutable /\ ClosedForGood
BY RuntimeUsesManager, TermsNeverChange, NothingReopens, PTL

\* One at a time, executions that fail and die leave the ledger of the protocol.
THEOREM RuntimeSerialLedger ==
  ASSUME Serial
  PROVE  RuntimeSpec => RefinesLedger
BY RuntimeUsesManager, SerialIsLedger, PTL
-----------------------------------------------------------------------------
\* What a step of e does to the other executions: nothing.
OnlyMoves(e) ==
  \A f \in Execs \ {e} :
    /\ pc'[f] = pc[f]
    /\ base'[f] = base[f]
    /\ held'[f] = held[f]
    /\ f \in called' <=> f \in called

\* Once admitted, base_fields keeps its grant, its package and the time.
LEMMA CoveredKept ==
  ASSUME RuntimeTypeOK, NEW e \in Execs, Covered(e),
         base'[e].grant = base[e].grant, base'[e].pkg = base[e].pkg,
         base'[e].at = base[e].at
  PROVE  Covered(e)'
BY DEF Covered, Compatible

LEMMA OthersCovered ==
  ASSUME RuntimeTypeOK, CoverInv, NEW e \in Execs, OnlyMoves(e),
         pc'[e] = "idle" => e \notin called',
         pc'[e] = "loaded" => e \notin called' /\ held'[e].grant = base'[e].grant,
         pc'[e] \in {"admitted", "prepared"} \/ e \in called' => Covered(e)'
  PROVE  CoverInv'
<1>1. ASSUME NEW f \in Execs, f # e, Covered(f) PROVE Covered(f)'
  BY <1>1, CoveredKept DEF OnlyMoves
<1> QED BY <1>1 DEF CoverInv, OnlyMoves

\* The steps that leave the grant's and the package's part of base_fields alone,
\* send nothing and do not go back.
LEMMA LaterStep ==
  ASSUME RuntimeTypeOK, CoverInv, NEW e \in Execs, OnlyMoves(e),
         base'[e].grant = base[e].grant, base'[e].pkg = base[e].pkg,
         base'[e].at = base[e].at,
         called' = called, pc'[e] \notin {"idle", "loaded"},
         pc'[e] \in {"admitted", "prepared"} => pc[e] \in {"admitted", "prepared"}
  PROVE  CoverInv'
BY OthersCovered, CoveredKept DEF CoverInv

\* A document that assert_usable accepts.
LEMMA StatusActive ==
  ASSUME NEW doc \in GrantDoc, NEW time \in Nat, DerivedStatus(doc, time) = "active"
  PROVE  doc.status # "revoked" /\ doc.spent < doc.budget /\ time < doc.expires
BY DEF DerivedStatus, GrantDoc

\* Whatever Decide settles, the execution was and stays covered or uncalled.
LEMMA DecideMoves ==
  ASSUME RuntimeTypeOK, NEW e \in Execs, NEW status, NEW output,
         Decide(e, status, output)
  PROVE  /\ pc'[e] = "decided"
         /\ base'[e].grant = base[e].grant
         /\ base'[e].pkg = base[e].pkg
         /\ base'[e].at = base[e].at
         /\ \A f \in Execs \ {e} : pc'[f] = pc[f] /\ base'[f] = base[f]
<1>1. pc \in [Execs -> Stages] /\ base \in [Execs -> BaseFields]
  BY DEF RuntimeTypeOK
<1>2. base' = [base EXCEPT ![e] = [base[e] EXCEPT !.status = status, !.output = output]]
  BY <1>1 DEF Decide
<1>3. base[e] \in BaseFields
  BY <1>1
<1> QED BY <1>1, <1>2, <1>3 DEF Decide, Goto, BaseFields

\* The manager's steps of e change e's copy only.
LEMMA OwnCopy ==
  ASSUME RuntimeTypeOK, NEW e \in Execs,
         \/ Abandon(e) \/ AssertUsable(e) \/ Forget(e) \/ UNCHANGED managerVars
         \/ \E amount \in Amounts : Charge(e, amount)
         \/ \E g \in GrantIds : LoadGrant(e, g, "charge")
  PROVE  \A f \in Execs \ {e} : held'[f] = held[f]
<1>1. held \in [Procs -> Held]
  BY DEF RuntimeTypeOK, TypeOK
<1>2. UNCHANGED held \/ \E copy : held' = [held EXCEPT ![e] = copy]
  BY DEF Abandon, AssertUsable, Forget, managerVars, Charge, LoadGrant
<1> QED BY <1>1, <1>2, ExecIsCaller

LEMMA CoverStep ==
  ASSUME RuntimeTypeOK, CoverInv, [RuntimeNext]_runtimeVars
  PROVE  CoverInv'
<1>1. /\ held \in [Procs -> Held] /\ pc \in [Execs -> Stages]
      /\ base \in [Execs -> BaseFields]
  BY DEF RuntimeTypeOK, TypeOK
<1>2. ASSUME NEW e \in Execs, NEW k \in Packages, NEW g \in GrantIds, Load(e, k, g)
      PROVE  CoverInv'
  <2>1. pc'[e] = "loaded" /\ e \notin called' /\ called' = called
    BY <1>1, <1>2 DEF Load, Goto, CoverInv
  <2>2. held'[e].grant = grants[g] /\ base'[e].grant = grants[g]
    BY <1>1, <1>2, ExecIsCaller DEF Load, LoadGrant, Holding, NoBase
  <2>3. OnlyMoves(e)
    BY <1>1, <1>2, OwnCopy DEF Load, Goto, OnlyMoves
  <2> QED BY <2>1, <2>2, <2>3, OthersCovered
<1>3. ASSUME NEW e \in Execs, NEW status, NEW output, Decide(e, status, output),
             Abandon(e) \/ AssertUsable(e) \/ UNCHANGED managerVars, called' = called
      PROVE  CoverInv'
  <2>1. OnlyMoves(e)
    BY <1>3, DecideMoves, OwnCopy DEF OnlyMoves
  <2> QED BY <1>3, <2>1, DecideMoves, LaterStep
<1>4. ASSUME NEW e \in Execs, Admit(e) PROVE CoverInv'
  <2>1. CASE Goto(e, "admitted") /\ base' = [base EXCEPT ![e].at = now]
    <3>1. /\ pc[e] = "loaded" /\ AssertUsable(e) /\ called' = called
          /\ Compatible(held[e].grant.terms, base[e].pkg)
          /\ DerivedStatus(held[e].grant, now) = "active"
      BY <1>1, <1>4, <2>1 DEF Admit, Decide, Goto
    <3>2. held[e].grant = base[e].grant /\ e \notin called
      BY <3>1 DEF CoverInv
    <3>3. held[e] # Idle
      BY <3>1, IdleOp DEF AssertUsable
    <3>4. held[e].grant \in GrantDoc
      BY <3>3, HeldCopy, ExecIsCaller DEF RuntimeTypeOK
    <3>5. /\ held[e].grant.status # "revoked" /\ held[e].grant.spent < held[e].grant.budget
          /\ now < held[e].grant.expires
      BY <3>1, <3>4, StatusActive DEF RuntimeTypeOK, TypeOK
    <3>6. /\ base'[e].grant = base[e].grant /\ base'[e].pkg = base[e].pkg
          /\ base'[e].at = now
      <4>1. base[e] \in BaseFields
        BY <1>1
      <4> QED BY <1>1, <2>1, <4>1 DEF BaseFields
    <3>7. Covered(e)'
      BY <3>1, <3>2, <3>5, <3>6 DEF Covered, Compatible
    <3>8. OnlyMoves(e) /\ pc'[e] = "admitted"
      BY <1>1, <2>1, <3>1, OwnCopy DEF Goto, OnlyMoves
    <3> QED BY <3>7, <3>8, OthersCovered
  <2>2. CASE \E status : Decide(e, status, None)
    BY <1>3, <1>4, <2>2 DEF Admit
  <2> QED BY <1>4, <2>1, <2>2 DEF Admit
<1>5. ASSUME NEW e \in Execs, CallProvider(e) PROVE CoverInv'
  <2>1. /\ pc[e] = "prepared" /\ pc'[e] = "calling" /\ base' = base
        /\ called' = called \cup {e}
    BY <1>1, <1>5 DEF CallProvider, Goto
  <2>2. OnlyMoves(e)
    BY <1>1, <1>5, <2>1, OwnCopy DEF CallProvider, Goto, OnlyMoves
  <2>3. Covered(e)
    BY <2>1 DEF CoverInv
  <2> QED BY <2>1, <2>2, <2>3, CoveredKept, OthersCovered
<1>6. ASSUME NEW e \in Execs, CheckInput(e) \/ AdapterRefuses(e) PROVE CoverInv'
  <2>1. CASE Goto(e, "prepared") /\ UNCHANGED <<managerVars, base>> /\ pc[e] = "admitted"
    <3>1. pc'[e] = "prepared" /\ base' = base /\ called' = called /\ OnlyMoves(e)
      BY <1>1, <1>6, <2>1, OwnCopy DEF CheckInput, AdapterRefuses, Goto, OnlyMoves
    <3> QED BY <2>1, <3>1, LaterStep
  <2>2. CASE Abandon(e) /\ \E status : Decide(e, status, None)
    BY <1>3, <1>6, <2>2 DEF CheckInput, AdapterRefuses
  <2> QED BY <1>6, <2>1, <2>2 DEF CheckInput, AdapterRefuses
<1>7. ASSUME NEW e \in Execs, NEW cost, NEW output, ProviderAnswers(e, cost, output)
      PROVE  CoverInv'
  <2>1. base' = [base EXCEPT ![e] = [base[e] EXCEPT !.cost = cost, !.output = output]]
    BY <1>1, <1>7 DEF ProviderAnswers
  <2>2. base[e] \in BaseFields
    BY <1>1
  <2>3. /\ base'[e].grant = base[e].grant /\ base'[e].pkg = base[e].pkg
        /\ base'[e].at = base[e].at
    BY <1>1, <2>1, <2>2 DEF BaseFields
  <2>4. pc'[e] = "answered" /\ called' = called /\ OnlyMoves(e)
    BY <1>1, <1>7, <2>1, OwnCopy DEF ProviderAnswers, Calling, Goto, OnlyMoves
  <2> QED BY <2>3, <2>4, LaterStep
<1>8. ASSUME NEW e \in Execs, ProviderFails(e) PROVE CoverInv'
  BY <1>3, <1>8 DEF ProviderFails, Calling
<1>9. ASSUME NEW e \in Execs, ChargeGrant(e) PROVE CoverInv'
  <2>1. CASE Charge(e, Amount(base[e].cost)) /\ Goto(e, "charged") /\ UNCHANGED base
    <3>1. pc'[e] = "charged" /\ base' = base /\ called' = called /\ OnlyMoves(e)
      BY <1>1, <1>9, <2>1, OwnCopy, AmountKnown DEF ChargeGrant, Goto, OnlyMoves
    <3> QED BY <3>1, LaterStep
  <2>2. CASE Abandon(e) /\ Decide(e, "budget_exceeded", None)
    BY <1>3, <1>9, <2>2 DEF ChargeGrant
  <2> QED BY <1>9, <2>1, <2>2 DEF ChargeGrant
<1>10. ASSUME NEW e \in Execs, CheckOutput(e) PROVE CoverInv'
  BY <1>3, <1>10 DEF CheckOutput
<1>11. ASSUME NEW e \in Execs, NEW stage, stage \notin {"idle", "loaded", "admitted", "prepared"},
              Goto(e, stage), UNCHANGED <<base, called>>,
              Forget(e) \/ UNCHANGED managerVars
       PROVE  CoverInv'
  <2>1. pc'[e] = stage /\ OnlyMoves(e)
    BY <1>1, <1>11, OwnCopy DEF Goto, OnlyMoves
  <2> QED BY <1>11, <2>1, LaterStep
<1>12. ASSUME NEW e \in Execs,
              PersistReceipt(e) \/ PersistResult(e) \/ LoadFails(e) \/ Raise(e) \/ Crash(e)
       PROVE  CoverInv'
  BY <1>11, <1>12 DEF PersistReceipt, PersistResult, LoadFails, Raise, Crash
<1>13. ASSUME Outside \/ UNCHANGED runtimeVars PROVE CoverInv'
  <2>1. UNCHANGED <<pc, base, called>>
    BY <1>13 DEF Outside, runtimeVars
  <2>2. ASSUME NEW e \in Execs PROVE held'[e] = held[e]
    BY <1>1, <1>13, RuntimeConstants
    DEF Outside, runtimeVars, CreateGrant, LoadGrant, RevokePersist, Abandon, Tick
  <2> QED BY <2>1, <2>2 DEF CoverInv, Covered, Compatible
<1> QED BY <1>2, <1>4, <1>5, <1>6, <1>7, <1>8, <1>9, <1>10, <1>12, <1>13 DEF RuntimeNext, Step

\* broker/runtime.py:147-159: in any interleaving, a request is only ever sent for
\* a package that the grant covers, under a grant that was not revoked and had
\* money left in the copy that assert_usable looked at, and was not expired then.
THEOREM RequestsCovered == RuntimeSpec => []CallsCovered
<1>1. RuntimeInit => CoverInv
  BY DEF RuntimeInit, CoverInv
<1>2. RuntimeTypeOK /\ CoverInv /\ [RuntimeNext]_runtimeVars => CoverInv'
  BY CoverStep
<1>3. RuntimeTypeOK /\ CoverInv => CallsCovered
  BY DEF RuntimeTypeOK, CoverInv, Covered, CallsCovered
<1> QED BY <1>1, <1>2, <1>3, RuntimeTypeCorrect, PTL DEF RuntimeSpec
-----------------------------------------------------------------------------
\* What base_fields says when an execution decided what to sign.
Truthful(e) ==
  \/ /\ base[e].status \in Audit!Denials /\ e \notin called /\ paid[e] = None
     /\ base[e].cost = None /\ base[e].output = None
  \/ /\ base[e].status = "provider_error" /\ e \in called /\ paid[e] = None
     /\ base[e].cost = None /\ base[e].output = None
  \/ /\ base[e].status = "budget_exceeded" /\ e \in called /\ paid[e] = None
     /\ base[e].cost # None /\ base[e].cost > 0 /\ base[e].output = None
  \/ /\ base[e].status \in {"succeeded", "invalid_output"} /\ e \in called
     /\ paid[e] = Amount(base[e].cost)
     /\ base[e].status = "succeeded" => base[e].output = "accepted"

\* Execution e has done what its place in the pipeline says, and nothing else.
OnTheBooks(e) ==
  /\ pc[e] \notin {"idle"} \cup Ended => base[e].grant \in GrantDoc /\ base[e].pkg \in Packages
  /\ pc[e] \in {"idle", "loaded", "admitted", "prepared"} => e \notin called
  /\ pc[e] \in {"calling", "answered", "charged"} => e \in called
  /\ pc[e] \in {"idle", "loaded", "admitted", "prepared", "calling"} =>
       base[e].cost = None /\ base[e].output = None
  /\ pc[e] \in {"idle", "loaded", "admitted", "prepared", "calling", "answered"} => paid[e] = None
  /\ pc[e] \in {"admitted", "prepared", "calling", "answered"} => held[e].grant = base[e].grant
  /\ pc[e] = "charged" => paid[e] = Amount(base[e].cost)
  /\ pc[e] = "decided" => Truthful(e)
  /\ receipts[e] # None => pc[e] \in {"receipted"} \cup Ended
  /\ results[e] # None => pc[e] \in Ended
  /\ pc[e] = "receipted" =>
       /\ receipts[e] # None
       /\ receipts[e].status = base[e].status
       /\ receipts[e].output_hash = HashOf(base[e].output)

AuditInv ==
  /\ RuntimeTypeOK /\ CoverInv
  /\ receipts = [e \in Execs |-> receipts[e]] /\ results = [e \in Execs |-> results[e]]
  /\ \A e \in Execs : OnTheBooks(e)

\* An execution whose variables stay is still on the books.
Rests(e) ==
  /\ pc'[e] = pc[e] /\ base'[e] = base[e] /\ held'[e] = held[e]
  /\ e \in called' <=> e \in called
  /\ paid'[e] = paid[e] /\ receipts'[e] = receipts[e] /\ results'[e] = results[e]

LEMMA RestsOnTheBooks ==
  ASSUME NEW e \in Execs, OnTheBooks(e), Rests(e)
  PROVE  OnTheBooks(e)'
BY DEF OnTheBooks, Rests, Truthful, Amount, HashOf

\* A step that leaves e's cost alone leaves the auditor's bills alone.
LEMMA BillsKept ==
  ASSUME NEW e \in Execs, base'[e].cost = base[e].cost, \A f \in Execs \ {e} : Rests(f)
  PROVE  UNCHANGED [f \in Execs |-> base[f].cost]
BY DEF Rests

\* What every step has to show: its execution stays on the books, touches no
\* other one, and what an auditor sees of it is a step of the specification.
Booked(e) ==
  /\ OnTheBooks(e)'
  /\ \A f \in Execs \ {e} : Rests(f)
  /\ receipts' = [f \in Execs |-> receipts'[f]] /\ results' = [f \in Execs |-> results'[f]]
  /\ Audit!AuditNext \/ UNCHANGED Audit!auditVars

\* Reading package and grant, and failing to.
LEMMA LoadBooked ==
  ASSUME AuditInv, NEW e \in Execs,
         LoadFails(e) \/ \E k \in Packages, g \in GrantIds : Load(e, k, g)
  PROVE  Booked(e)
<1>1. /\ held \in [Procs -> Held] /\ pc \in [Execs -> Stages] /\ base \in [Execs -> BaseFields]
      /\ grants \in [GrantIds -> GrantDoc \cup {None}]
      /\ OnTheBooks(e)
  BY DEF AuditInv, RuntimeTypeOK, TypeOK
<1>2. /\ pc[e] = "idle" /\ UNCHANGED <<called, paid, receipts, results>>
      /\ \A f \in Execs \ {e} : pc'[f] = pc[f] /\ base'[f] = base[f] /\ held'[f] = held[f]
  BY <1>1, OwnCopy DEF Load, LoadFails, Goto, auditFiles, AuditInv
<1>3. \A f \in Execs \ {e} : Rests(f)
  BY <1>2 DEF Rests
<1>4. OnTheBooks(e)'
  <2>1. CASE LoadFails(e)
    <3>1. pc'[e] = "raised" /\ base' = base
      BY <1>1, <2>1 DEF LoadFails, Goto
    <3> QED BY <1>1, <1>2, <3>1 DEF OnTheBooks, Ended
  <2>2. ASSUME NEW k \in Packages, NEW g \in GrantIds, Load(e, k, g) PROVE OnTheBooks(e)'
    <3>1. /\ pc'[e] = "loaded"
          /\ base'[e].grant = grants[g] /\ base'[e].pkg = k
          /\ base'[e].cost = None /\ base'[e].output = None
          /\ grants[g] \in GrantDoc
      BY <1>1, <2>2 DEF Load, LoadGrant, Goto, NoBase
    <3> QED BY <1>1, <1>2, <3>1 DEF OnTheBooks, Ended
  <2> QED BY <2>1, <2>2
<1>5. base'[e].cost = base[e].cost
  <2>1. base[e].cost = None
    BY <1>1, <1>2 DEF OnTheBooks
  <2>2. CASE LoadFails(e)
    BY <2>2 DEF LoadFails
  <2>3. ASSUME NEW k \in Packages, NEW g \in GrantIds, Load(e, k, g)
        PROVE  base'[e].cost = None
    BY <1>1, <2>3 DEF Load, NoBase
  <2> QED BY <2>1, <2>2, <2>3
<1> QED BY <1>2, <1>3, <1>4, <1>5, BillsKept DEF Booked, AuditInv, Audit!auditVars

\* Settling what to sign, with the grant's copy let go: a denial, a failure of
\* the provider, a refused charge, the verdict on the output.
LEMMA DecideBooked ==
  ASSUME AuditInv, NEW e \in Execs, NEW status, NEW output, Decide(e, status, output),
         Abandon(e) \/ AssertUsable(e) \/ UNCHANGED managerVars,
         UNCHANGED <<called, paid, receipts, results>>,
         pc[e] \notin {"idle"} \cup Ended,
         base'[e].status = status /\ base'[e].output = output /\ base'[e].cost = base[e].cost
           => Truthful(e)',
         receipts[e] = None, results[e] = None
  PROVE  Booked(e)
<1>1. base \in [Execs -> BaseFields] /\ OnTheBooks(e)
  BY DEF AuditInv, RuntimeTypeOK
<1>2. /\ pc'[e] = "decided"
      /\ base'[e].grant = base[e].grant /\ base'[e].pkg = base[e].pkg
      /\ \A f \in Execs \ {e} : pc'[f] = pc[f] /\ base'[f] = base[f]
  BY DecideMoves DEF AuditInv
<1>3. base'[e].status = status /\ base'[e].output = output /\ base'[e].cost = base[e].cost
  <2>1. base' = [base EXCEPT ![e] = [base[e] EXCEPT !.status = status, !.output = output]]
    BY <1>1 DEF Decide
  <2>2. base[e] \in BaseFields
    BY <1>1
  <2> QED BY <1>1, <2>1, <2>2 DEF BaseFields
<1>4. \A f \in Execs \ {e} : held'[f] = held[f]
  BY OwnCopy DEF AuditInv
<1>5. \A f \in Execs \ {e} : Rests(f)
  BY <1>2, <1>4 DEF Rests
<1>6. OnTheBooks(e)'
  BY <1>1, <1>2, <1>3 DEF OnTheBooks, Ended
<1> QED BY <1>3, <1>5, <1>6, BillsKept DEF Booked, AuditInv, Audit!auditVars

\* Going on to the next stage, with the copy of the grant as it is.
LEMMA GoOnBooked ==
  ASSUME AuditInv, NEW e \in Execs, NEW stage, Goto(e, stage),
         base'[e].grant = base[e].grant, base'[e].pkg = base[e].pkg,
         base'[e].cost = base[e].cost, base'[e].output = base[e].output,
         held'[e].grant = held[e].grant,
         \A f \in Execs \ {e} : held'[f] = held[f] /\ base'[f] = base[f],
         UNCHANGED <<called, paid, receipts, results>>,
         \/ pc[e] = "admitted" /\ stage = "prepared"
         \/ pc[e] = "loaded" /\ stage = "admitted" /\ held[e].grant = base[e].grant
  PROVE  Booked(e)
<1>1. pc \in [Execs -> Stages] /\ OnTheBooks(e)
  BY DEF AuditInv, RuntimeTypeOK
<1>2. pc'[e] = stage /\ \A f \in Execs \ {e} : pc'[f] = pc[f]
  BY <1>1 DEF Goto
<1>3. \A f \in Execs \ {e} : Rests(f)
  BY <1>2 DEF Rests
<1>4. OnTheBooks(e)'
  BY <1>1, <1>2 DEF OnTheBooks, Ended
<1> QED BY <1>3, <1>4, BillsKept DEF Booked, AuditInv, Audit!auditVars

\* Up to the call.
LEMMA AdmitBooked ==
  ASSUME AuditInv, NEW e \in Execs, Admit(e) \/ CheckInput(e) \/ AdapterRefuses(e)
  PROVE  Booked(e)
<1>1. RuntimeTypeOK /\ OnTheBooks(e) /\ held \in [Procs -> Held]
  BY DEF AuditInv, RuntimeTypeOK, TypeOK
<1>2. /\ pc[e] \in {"loaded", "admitted", "prepared"}
      /\ UNCHANGED <<called, paid, receipts, results>>
  BY DEF Admit, CheckInput, AdapterRefuses, auditFiles
<1>3. ASSUME NEW status \in Audit!Denials, Decide(e, status, None),
             Abandon(e) \/ AssertUsable(e)
      PROVE  Booked(e)
  <2>1. base'[e].status = status /\ base'[e].output = None /\ base'[e].cost = base[e].cost
          => Truthful(e)'
    BY <1>1, <1>2, <1>3 DEF OnTheBooks, Truthful
  <2>2. receipts[e] = None /\ results[e] = None
    BY <1>1, <1>2 DEF OnTheBooks, Ended
  <2> QED BY <1>2, <1>3, <2>1, <2>2, DecideBooked DEF Ended
<1>4. CASE Admit(e)
  <2>1. CASE Goto(e, "admitted") /\ base' = [base EXCEPT ![e].at = now]
    <3>1. /\ pc[e] = "loaded" /\ AssertUsable(e)
          /\ DerivedStatus(held[e].grant, now) = "active"
      <4>1. ~Decide(e, "policy_denied", None)
        BY <1>1, <2>1 DEF Decide, Goto, RuntimeTypeOK
      <4> QED BY <1>1, <1>4, <2>1, <4>1 DEF Admit, Decide, Goto, RuntimeTypeOK
    <3>2. held[e].grant = base[e].grant
      BY <3>1 DEF AuditInv, CoverInv
    <3>3. held[e] # Idle
      BY <3>1, IdleOp DEF AssertUsable
    <3>4. held'[e].grant = held[e].grant /\ \A f \in Execs \ {e} : held'[f] = held[f]
      <4>1. held' = [held EXCEPT ![e] = [held[e] EXCEPT !.op = "admitted"]]
        BY <1>1, <3>1, ExecIsCaller DEF AssertUsable, Usable
      <4>2. held[e] \in [op: {"charge", "admitted", "revoke"}, id: GrantIds, grant: GrantDoc]
        BY <1>1, <3>3, ExecIsCaller DEF Held
      <4> QED BY <1>1, <4>1, <4>2, ExecIsCaller
    <3>5. /\ base'[e].grant = base[e].grant /\ base'[e].pkg = base[e].pkg
          /\ base'[e].cost = base[e].cost /\ base'[e].output = base[e].output
          /\ \A f \in Execs \ {e} : base'[f] = base[f]
      <4>1. base \in [Execs -> BaseFields] /\ base[e] \in BaseFields
        BY <1>1 DEF RuntimeTypeOK
      <4> QED BY <2>1, <4>1 DEF BaseFields
    <3> QED BY <1>2, <2>1, <3>1, <3>2, <3>4, <3>5, GoOnBooked
  <2>2. CASE Decide(e, "policy_denied", None) /\ Abandon(e)
    BY <1>3, <2>2 DEF Audit!Denials
  <2>3. CASE AssertUsable(e) /\ \E status \in {"grant_expired", "grant_exhausted", "grant_revoked"} :
               Decide(e, status, None)
    BY <1>3, <2>3 DEF Audit!Denials
  <2>4. DerivedStatus(held[e].grant, now) \in GrantStatus
    BY DEF DerivedStatus, GrantStatus
  <2> QED BY <1>4, <2>1, <2>2, <2>3, <2>4 DEF Admit, GrantStatus
<1>5. CASE CheckInput(e)
  <2>1. CASE Goto(e, "prepared") /\ UNCHANGED <<managerVars, base>>
    BY <1>2, <1>5, <2>1, GoOnBooked DEF CheckInput, managerVars
  <2>2. CASE Abandon(e) /\ Decide(e, "invalid_input", None)
    BY <1>3, <2>2 DEF Audit!Denials
  <2> QED BY <1>5, <2>1, <2>2 DEF CheckInput
<1>6. CASE AdapterRefuses(e)
  BY <1>3, <1>6 DEF AdapterRefuses, Audit!Denials
<1> QED BY <1>4, <1>5, <1>6

\* The call is made once; its answer is noted, or its failure.
LEMMA CallBooked ==
  ASSUME AuditInv, NEW e \in Execs,
         \/ CallProvider(e) \/ ProviderFails(e)
         \/ \E cost \in Amounts \cup {None}, output \in Outputs : ProviderAnswers(e, cost, output)
  PROVE  Booked(e)
<1>1. /\ RuntimeTypeOK /\ OnTheBooks(e)
      /\ pc \in [Execs -> Stages] /\ base \in [Execs -> BaseFields]
  BY DEF AuditInv, RuntimeTypeOK
<1>2. CASE CallProvider(e)
  <2>1. /\ pc[e] = "prepared" /\ pc' = [pc EXCEPT ![e] = "calling"]
        /\ called' = called \cup {e}
        /\ UNCHANGED <<held, base, paid, receipts, results>>
    BY <1>2 DEF CallProvider, Goto, managerVars, auditFiles
  <2>2. e \notin called /\ receipts[e] = None
    BY <1>1, <2>1 DEF OnTheBooks, Ended
  <2>3. pc'[e] = "calling" /\ \A f \in Execs \ {e} : Rests(f)
    BY <1>1, <2>1 DEF Rests
  <2>4. OnTheBooks(e)'
    BY <1>1, <2>1, <2>3 DEF OnTheBooks, Ended
  <2>5. Audit!AuditNext
    BY <2>1, <2>2, <2>3, BillsKept DEF Audit!AuditNext, Audit!Call
  <2> QED BY <2>1, <2>3, <2>4, <2>5 DEF Booked, AuditInv
<1>3. CASE ProviderFails(e)
  <2>1. /\ pc[e] = "calling" /\ Abandon(e) /\ Decide(e, "provider_error", None)
        /\ UNCHANGED <<called, paid, receipts, results>>
    BY <1>3 DEF ProviderFails, Calling, auditFiles
  <2>2. receipts[e] = None /\ results[e] = None
    BY <1>1, <2>1 DEF OnTheBooks, Ended
  <2>3. base'[e].status = "provider_error" /\ base'[e].output = None
          /\ base'[e].cost = base[e].cost => Truthful(e)'
    BY <1>1, <2>1 DEF OnTheBooks, Truthful
  <2> QED BY <2>1, <2>2, <2>3, DecideBooked DEF Ended
<1>4. ASSUME NEW cost \in Amounts \cup {None}, NEW output \in Outputs,
             ProviderAnswers(e, cost, output)
      PROVE  Booked(e)
  <2>1. /\ pc[e] = "calling" /\ pc' = [pc EXCEPT ![e] = "answered"]
        /\ base' = [base EXCEPT ![e] = [base[e] EXCEPT !.cost = cost, !.output = output]]
        /\ UNCHANGED <<held, called, paid, receipts, results>>
    BY <1>1, <1>4 DEF ProviderAnswers, Calling, Goto, managerVars, auditFiles
  <2>2. base[e] \in BaseFields
    BY <1>1
  <2>3. base'[e].grant = base[e].grant /\ base'[e].pkg = base[e].pkg /\ base'[e].cost = cost
    BY <1>1, <2>1, <2>2 DEF BaseFields
  <2>4. pc'[e] = "answered" /\ \A f \in Execs \ {e} : Rests(f)
    BY <1>1, <2>1 DEF Rests
  <2>5. OnTheBooks(e)'
    BY <1>1, <2>1, <2>3, <2>4 DEF OnTheBooks, Ended
  <2>6. /\ e \in called /\ base[e].cost = None /\ paid[e] = None /\ receipts[e] = None
    BY <1>1, <2>1 DEF OnTheBooks, Ended
  <2>7. CASE cost = None
    BY <2>1, <2>3, <2>4, <2>5, <2>6, <2>7, BillsKept DEF Booked, AuditInv, Audit!auditVars
  <2>8. CASE cost # None
    <3> DEFINE bills == [f \in Execs |-> base[f].cost]
    <3>1. bills'[e] \in Nat
      BY <2>3, <2>8, GrantConstants
    <3>2. bills' = [bills EXCEPT ![e] = bills'[e]]
      BY <2>4 DEF Rests
    <3>3. Audit!Bill(e)
      BY <2>1, <2>6, <3>1, <3>2 DEF Audit!Bill
    <3> QED BY <2>1, <2>4, <2>5, <3>3 DEF Booked, AuditInv, Audit!AuditNext
  <2> QED BY <2>7, <2>8
<1> QED BY <1>2, <1>3, <1>4

\* The charge goes through once, or is refused because the cost does not fit.
LEMMA ChargeBooked ==
  ASSUME AuditInv, NEW e \in Execs, ChargeGrant(e)
  PROVE  Booked(e)
<1> DEFINE amount == Amount(base[e].cost)
<1>1. /\ RuntimeTypeOK /\ OnTheBooks(e) /\ amount \in Amounts /\ amount \in Nat
      /\ pc \in [Execs -> Stages] /\ base \in [Execs -> BaseFields]
      /\ paid \in [Execs -> Amounts \cup {None}]
  BY AmountKnown, GrantConstants DEF AuditInv, RuntimeTypeOK
<1>2. pc[e] = "answered" /\ UNCHANGED <<called, receipts, results>>
  BY DEF ChargeGrant, auditFiles
<1>3. /\ e \in called /\ paid[e] = None /\ receipts[e] = None /\ results[e] = None
      /\ held[e].grant = base[e].grant /\ base[e].grant \in GrantDoc
  BY <1>1, <1>2 DEF OnTheBooks, Ended
<1>4. CASE /\ Charge(e, amount) /\ Goto(e, "charged")
           /\ paid' = [paid EXCEPT ![e] = amount] /\ UNCHANGED base
  <2>1. \A f \in Execs \ {e} : held'[f] = held[f]
    BY <1>1, <1>4, OwnCopy
  <2>2. pc'[e] = "charged" /\ paid'[e] = amount /\ \A f \in Execs \ {e} : Rests(f)
    BY <1>1, <1>2, <1>4, <2>1 DEF Rests, Goto
  <2>3. OnTheBooks(e)'
    BY <1>1, <1>2, <1>3, <1>4, <2>2 DEF OnTheBooks, Ended, Amount
  <2>4. Audit!Pay(e)
    BY <1>1, <1>2, <1>3, <1>4, <2>2, BillsKept DEF Audit!Pay, Audit!Due, Amount
  <2> QED BY <1>2, <2>2, <2>3, <2>4 DEF Booked, AuditInv, Audit!AuditNext
<1>5. CASE ~CanPay(held[e].grant, amount) /\ Abandon(e) /\ Decide(e, "budget_exceeded", None)
           /\ UNCHANGED paid
  <2>1. base[e].grant.spent < base[e].grant.budget
    BY <1>3 DEF AuditInv, CoverInv, Covered
  <2>2. amount > 0
    BY <1>1, <1>3, <1>5, <2>1 DEF CanPay, GrantDoc
  <2>3. base[e].cost # None /\ base[e].cost > 0
    BY <2>2 DEF Amount
  <2>4. base'[e].status = "budget_exceeded" /\ base'[e].output = None
          /\ base'[e].cost = base[e].cost => Truthful(e)'
    BY <1>2, <1>3, <1>5, <2>3 DEF Truthful
  <2> QED BY <1>2, <1>3, <1>5, <2>4, DecideBooked DEF Ended
<1> QED BY <1>4, <1>5 DEF ChargeGrant

\* The verdict on the output of a paid call.
LEMMA OutputBooked ==
  ASSUME AuditInv, NEW e \in Execs, CheckOutput(e)
  PROVE  Booked(e)
<1>1. OnTheBooks(e)
  BY DEF AuditInv
<1> DEFINE status == IF base[e].output = "accepted" THEN "succeeded" ELSE "invalid_output"
<1>2. /\ pc[e] = "charged" /\ Decide(e, status, base[e].output)
      /\ UNCHANGED managerVars /\ UNCHANGED <<called, paid, receipts, results>>
  BY DEF CheckOutput, auditFiles
<1>3. /\ e \in called /\ paid[e] = Amount(base[e].cost)
      /\ receipts[e] = None /\ results[e] = None
  BY <1>1, <1>2 DEF OnTheBooks, Ended
<1>4. base'[e].status = status /\ base'[e].output = base[e].output
        /\ base'[e].cost = base[e].cost => Truthful(e)'
  BY <1>2, <1>3 DEF Truthful, Amount
<1> QED BY <1>2, <1>3, <1>4, DecideBooked DEF Ended

\* The receipt says what base_fields says, and the result what the receipt says.
LEMMA PersistBooked ==
  ASSUME AuditInv, NEW e \in Execs, PersistReceipt(e) \/ PersistResult(e)
  PROVE  Booked(e)
<1>1. /\ OnTheBooks(e) /\ pc \in [Execs -> Stages] /\ base \in [Execs -> BaseFields]
      /\ receipts = [f \in Execs |-> receipts[f]] /\ results = [f \in Execs |-> results[f]]
  BY DEF AuditInv, RuntimeTypeOK
<1>2. /\ base[e].status \in Statuses /\ base[e].cost \in Amounts \cup {None}
      /\ base[e].output \in Outputs
  BY <1>1 DEF BaseFields
<1>3. CASE PersistReceipt(e)
  <2> DEFINE receipt ==
        [status |-> base[e].status, pkg |-> base[e].pkg, terms |-> base[e].grant.terms,
         budget |-> base[e].grant.budget, cost |-> base[e].cost,
         output_hash |-> HashOf(base[e].output)]
  <2>1. /\ pc[e] = "decided" /\ pc' = [pc EXCEPT ![e] = "receipted"]
        /\ receipts' = [receipts EXCEPT ![e] = receipt]
        /\ UNCHANGED <<held, base, called, paid, results>>
    BY <1>3 DEF PersistReceipt, Goto, managerVars
  <2>2. /\ base[e].grant \in GrantDoc /\ base[e].pkg \in Packages /\ Truthful(e)
        /\ receipts[e] = None /\ results[e] = None
    BY <1>1, <2>1 DEF OnTheBooks, Ended
  <2>3. HashOf(base[e].output) \in {None} \cup ({"sha256"} \X (Outputs \ {None}))
    BY <1>2 DEF HashOf
  <2>4. receipt \in ReceiptDoc
    BY <1>2, <2>2, <2>3 DEF ReceiptDoc, GrantDoc
  <2>5. /\ receipt.status = base[e].status /\ receipt.cost = base[e].cost
        /\ receipt.output_hash = HashOf(base[e].output)
    OBVIOUS
  <2> HIDE DEF receipt
  <2>6. receipts'[e] = receipt /\ receipt # None /\ pc'[e] = "receipted"
    BY <1>1, <2>1, <2>4, NoneIsNoDocument
  <2>7. \A f \in Execs \ {e} : Rests(f)
    BY <1>1, <2>1 DEF Rests
  <2>8. HashOf("accepted") # None
    BY NoneIsNoDocument DEF HashOf
  <2>9. Audit!Honest(e, receipt)
    BY <2>2, <2>5, <2>8 DEF Truthful, Audit!Honest, Audit!Due, Amount, HashOf
  <2>10. Audit!Sign(e)
    BY <2>1, <2>2, <2>6, <2>7, <2>9, BillsKept DEF Audit!Sign
  <2>11. OnTheBooks(e)'
    BY <2>1, <2>2, <2>5, <2>6 DEF OnTheBooks, Ended, HashOf
  <2> QED BY <1>1, <2>1, <2>7, <2>10, <2>11 DEF Booked, Audit!AuditNext
<1>4. CASE PersistResult(e)
  <2> DEFINE result == [status |-> base[e].status, output |-> base[e].output]
  <2>1. /\ pc[e] = "receipted" /\ pc' = [pc EXCEPT ![e] = "done"]
        /\ results' = [results EXCEPT ![e] = result]
        /\ UNCHANGED <<held, base, called, paid, receipts>>
    BY <1>4 DEF PersistResult, Goto, managerVars
  <2>2. /\ receipts[e] # None /\ results[e] = None
        /\ receipts[e].status = base[e].status
        /\ receipts[e].output_hash = HashOf(base[e].output)
    BY <1>1, <2>1 DEF OnTheBooks, Ended
  <2>3. result \in ResultDoc
    BY <1>2 DEF ResultDoc
  <2>4. result.status = base[e].status /\ result.output = base[e].output
    OBVIOUS
  <2> HIDE DEF result
  <2>5. results'[e] = result /\ result # None /\ pc'[e] = "done"
    BY <1>1, <2>1, <2>3, NoneIsNoDocument
  <2>6. \A f \in Execs \ {e} : Rests(f)
    BY <1>1, <2>1 DEF Rests
  <2>7. Audit!HashOf(base[e].output) = HashOf(base[e].output)
    BY DEF HashOf, Audit!HashOf
  <2>8. Audit!Deliver(e)
    BY <2>1, <2>2, <2>4, <2>5, <2>6, <2>7, BillsKept DEF Audit!Deliver
  <2>9. OnTheBooks(e)'
    BY <1>1, <2>1, <2>5 DEF OnTheBooks, Ended
  <2> QED BY <1>1, <2>1, <2>6, <2>8, <2>9 DEF Booked, Audit!AuditNext
<1> QED BY <1>3, <1>4

\* An exception or the end of the process leaves the files as they are.
LEMMA CutBooked ==
  ASSUME AuditInv, NEW e \in Execs, Raise(e) \/ Crash(e)
  PROVE  Booked(e)
<1>1. /\ RuntimeTypeOK /\ OnTheBooks(e) /\ pc \in [Execs -> Stages]
  BY DEF AuditInv, RuntimeTypeOK
<1>2. /\ \E stage \in {"raised", "crashed"} : Goto(e, stage)
      /\ Forget(e) /\ UNCHANGED <<base, called, paid, receipts, results>>
  BY DEF Raise, Crash, auditFiles
<1>3. pc'[e] \in {"raised", "crashed"} /\ \A f \in Execs \ {e} : Rests(f)
  BY <1>1, <1>2, OwnCopy DEF Goto, Rests
<1>4. OnTheBooks(e)'
  BY <1>1, <1>2, <1>3 DEF OnTheBooks, Ended
<1> QED BY <1>2, <1>3, <1>4, BillsKept DEF Booked, AuditInv, Audit!auditVars

LEMMA AuditStep ==
  ASSUME AuditInv, [RuntimeNext]_runtimeVars
  PROVE  AuditInv' /\ [Audit!AuditNext]_(Audit!auditVars)
<1>1. RuntimeTypeOK' /\ CoverInv'
  BY RuntimeTypeStep, CoverStep DEF AuditInv
<1>2. ASSUME NEW e \in Execs, Booked(e)
      PROVE  AuditInv' /\ [Audit!AuditNext]_(Audit!auditVars)
  <2>1. \A f \in Execs : OnTheBooks(f)'
    BY <1>2, RestsOnTheBooks DEF Booked, AuditInv
  <2> QED BY <1>1, <1>2, <2>1 DEF Booked, AuditInv
<1>3. ASSUME Outside \/ UNCHANGED runtimeVars
      PROVE  AuditInv' /\ [Audit!AuditNext]_(Audit!auditVars)
  <2>1. UNCHANGED <<pc, base, called, paid, receipts, results>>
    BY <1>3 DEF Outside, runtimeVars, auditFiles
  <2>2. ASSUME NEW e \in Execs PROVE held'[e] = held[e]
    BY <1>3, RuntimeConstants
    DEF AuditInv, RuntimeTypeOK, TypeOK, Outside, runtimeVars, CreateGrant, LoadGrant,
        RevokePersist, Abandon, Tick
  <2>3. \A e \in Execs : OnTheBooks(e)'
    BY <2>1, <2>2, RestsOnTheBooks DEF Rests, AuditInv
  <2> QED BY <1>1, <2>1, <2>3 DEF AuditInv, Audit!auditVars
<1> QED
  BY <1>2, <1>3, LoadBooked, AdmitBooked, CallBooked, ChargeBooked, OutputBooked,
     PersistBooked, CutBooked
  DEF RuntimeNext, Step

LEMMA AuditHolds == RuntimeSpec => []AuditInv
<1>1. RuntimeInit => AuditInv
  <2> SUFFICES ASSUME RuntimeInit PROVE AuditInv
    OBVIOUS
  <2>1. RuntimeTypeOK /\ CoverInv
    BY RuntimeTypeInit DEF RuntimeInit, CoverInv
  <2>2. \A e \in Execs : OnTheBooks(e)
    BY DEF RuntimeInit, OnTheBooks, NoBase, Ended
  <2> QED BY <2>1, <2>2 DEF RuntimeInit, AuditInv
<1>2. AuditInv /\ [RuntimeNext]_runtimeVars => AuditInv'
  BY AuditStep
<1> QED BY <1>1, <1>2, PTL DEF RuntimeSpec

\* broker/runtime.py:90-242: whatever the callers of the grants do and wherever
\* executions fail, raise or die, each of them is an audited execution: one call
\* and its bill, at most one charge of just that, a truthful receipt after it,
\* then the result with the output the receipt names.
THEOREM RuntimeIsAudited == RuntimeSpec => RefinesAudit
<1>1. RuntimeInit => Audit!AuditInit
  BY DEF RuntimeInit, NoBase, Audit!AuditInit
<1>2. AuditInv /\ [RuntimeNext]_runtimeVars => [Audit!AuditNext]_(Audit!auditVars)
  BY AuditStep
<1> QED BY <1>1, <1>2, AuditHolds, PTL DEF RuntimeSpec, RefinesAudit, Audit!AuditSpec
=============================================================================
