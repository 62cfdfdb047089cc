---------------------------- MODULE VerifierProofs ----------------------------
(***************************************************************************)
(* What a verdict of ok says, and when it is given, for any contents and   *)
(* keys and any number of losses and edits.  The signature on file is the  *)
(* one issue_receipt made and nobody makes another (Issued), so that a     *)
(* body it fits is the body that was issued; the rest is comparing hashes. *)
(***************************************************************************)
EXTENDS Verifier, FiniteSetTheorems, TLAPS

\* What was executed was there, and the signature is of it; so is a receipt that
\* nobody altered.
Issued ==
  /\ Lost \notin {executed.prompt, executed.input_schema, executed.output_schema,
                  executed.output, executed.key}
  /\ receipt = None => executed = home
  /\ receipt # None =>
       /\ receipt.signature = Signature(executed.key, BodyOf(executed))
       /\ "receipt" \notin changed => receipt.body = BodyOf(executed)

VerifyInv == VerifyTypeOK /\ Issued
-----------------------------------------------------------------------------
\* hashing.py: no two contents have one hash.
LEMMA HashInjective ==
  ASSUME NEW c \in Contents \cup {None}, NEW d \in Contents \cup {None}, HashOf(c) = HashOf(d)
  PROVE  c = d
BY VerifierConstants DEF HashOf

\* The hashes of a body, by part.
LEMMA BodyHashes ==
  ASSUME NEW h, NEW part \in Artifacts \cup {"output"}
  PROVE  BodyOf(h)[part] = HashOf(h[part])
<1>1. /\ BodyOf(h).prompt = HashOf(h.prompt)
      /\ BodyOf(h).input_schema = HashOf(h.input_schema)
      /\ BodyOf(h).output_schema = HashOf(h.output_schema)
      /\ BodyOf(h).output = HashOf(h.output)
  BY DEF BodyOf
<1> QED BY <1>1 DEF Artifacts

\* A home that has everything makes a receipt.
LEMMA HomeGivesReceipt ==
  ASSUME NEW h \in Homes,
         Lost \notin {h.prompt, h.input_schema, h.output_schema, h.output, h.key}
  PROVE  /\ BodyOf(h) \in Bodies
         /\ [body |-> BodyOf(h), signature |-> Signature(h.key, BodyOf(h))] \in Receipts
<1>1. BodyOf(h) \in Bodies
  BY DEF Homes, BodyOf, Bodies, Hashes
<1>2. Signature(h.key, BodyOf(h)) \in {"ed25519"} \X Keys \X Bodies
  BY <1>1 DEF Homes, Signature
<1> QED BY <1>1, <1>2 DEF Receipts
-----------------------------------------------------------------------------
LEMMA VerifyInvInit == VerifyInit => VerifyInv
BY VerifierConstants, FS_EmptySet DEF VerifyInit, VerifyInv, VerifyTypeOK, Issued

LEMMA VerifyInvStep == VerifyInv /\ [VerifyNext]_verifyVars => VerifyInv'
<1> SUFFICES ASSUME VerifyInv, [VerifyNext]_verifyVars PROVE VerifyInv'
  OBVIOUS
<1>1. VerifyTypeOK /\ Issued
  BY DEF VerifyInv
<1>2. CASE Issue
  <2> DEFINE made == [body |-> BodyOf(home), signature |-> Signature(home.key, BodyOf(home))]
  <2>1. receipt' = made /\ UNCHANGED <<home, executed, changed>> /\ executed = home
    BY <1>1, <1>2 DEF Issue, Issued
  <2>2. made \in Receipts /\ made # None
    BY <1>1, <2>1, HomeGivesReceipt, VerifierConstants DEF VerifyTypeOK, Issued
  <2>3. made.signature = Signature(executed.key, BodyOf(executed)) /\ made.body = BodyOf(executed)
    BY <2>1
  <2> HIDE DEF made
  <2> QED BY <1>1, <2>1, <2>2, <2>3 DEF VerifyInv, VerifyTypeOK, Issued, Signature, BodyOf
<1>3. ASSUME NEW part, NEW value, Change(part, value) PROVE VerifyInv'
  <2>1. /\ receipt # None /\ receipt' = receipt /\ executed' = executed /\ home' \in Homes
        /\ Cardinality(changed') <= MaxChanges /\ changed \subseteq changed'
    BY <1>3 DEF Change
  <2> QED BY <1>1, <2>1 DEF VerifyInv, VerifyTypeOK, Issued, Signature, BodyOf
<1>4. ASSUME NEW field \in Artifacts \cup {"output", "rest"}, NEW value, Alter(field, value),
             IF field = "rest" THEN value = "altered" ELSE value \in Hashes
      PROVE  VerifyInv'
  <2>1. /\ receipt # None /\ receipt \in Receipts
        /\ receipt' = [receipt EXCEPT !.body = [receipt.body EXCEPT ![field] = value]]
        /\ UNCHANGED <<home, executed>>
        /\ Cardinality(changed') <= MaxChanges /\ "receipt" \in changed'
    BY <1>1, <1>4 DEF Alter, VerifyTypeOK
  <2>2. [receipt.body EXCEPT ![field] = value] \in Bodies
    BY <1>4, <2>1 DEF Receipts, Bodies, Artifacts
  <2>3. receipt' \in Receipts /\ receipt'.signature = receipt.signature
    BY <2>1, <2>2 DEF Receipts
  <2> QED BY <1>1, <2>1, <2>3, VerifierConstants DEF VerifyInv, VerifyTypeOK, Issued, Signature, BodyOf
<1>5. CASE UNCHANGED verifyVars
  BY <1>1, <1>5 DEF verifyVars, VerifyInv, VerifyTypeOK, Issued, Signature, BodyOf
<1>6. \A content \in Contents \cup {None} : HashOf(content) \in Hashes
  BY DEF Hashes
<1>7. ASSUME NEW field \in Artifacts \cup {"output"}, NEW content \in Contents \cup {None},
             Alter(field, HashOf(content))
      PROVE  VerifyInv'
  BY <1>4, <1>6, <1>7 DEF Artifacts
<1>8. Alter("rest", "altered") => VerifyInv'
  BY <1>4
<1> QED BY <1>2, <1>3, <1>5, <1>7, <1>8 DEF VerifyNext

LEMMA VerifyInvHolds == VerifySpec => []VerifyInv
BY VerifyInvInit, VerifyInvStep, PTL DEF VerifySpec
-----------------------------------------------------------------------------
\* receipts/verifier.py:61-131: what verification reads keeps its shape, whatever
\* is lost or altered.
THEOREM VerificationTyped == VerifySpec => []VerifyTypeOK
BY VerifyInvHolds, PTL DEF VerifyInv

\* receipts/verifier.py:61-131: a receipt as issued verifies wherever the public
\* key is, however many of the files it speaks of are gone.
THEOREM GenuineReceiptsVerify == VerifySpec => []GenuineVerifies
<1>1. VerifyInv => GenuineVerifies
  <2> SUFFICES ASSUME VerifyInv, receipt # None, "receipt" \notin changed,
                      home.key = executed.key,
                      \A part \in Artifacts \cup {"output"} : ~Differs(part)
               PROVE  Ok(home, receipt)
    BY DEF GenuineVerifies
  <2>1. receipt.body = BodyOf(executed) /\ home.key # Lost
    BY DEF VerifyInv, Issued
  <2>2. SignatureValid(receipt, home.key)
    BY <2>1 DEF VerifyInv, Issued, SignatureValid
  <2>3. ASSUME NEW a \in Artifacts \cup {"output"}, home[a] # Lost
        PROVE  HashOf(home[a]) = receipt.body[a]
    BY <2>1, <2>3, BodyHashes DEF Differs
  <2>4. \A a \in DOMAIN HashChecks(home, receipt) : HashChecks(home, receipt)[a]
    BY <2>3 DEF HashChecks
  <2> QED BY <2>1, <2>2, <2>4 DEF Ok
<1> QED BY <1>1, VerifyInvHolds, PTL

\* A verdict of ok speaks of the execution itself: nothing of the receipt, of the
\* artifacts and of the output that is there differs from what was executed.
THEOREM OkIsAsExecuted == VerifySpec => []OkMeansAsExecuted
<1>1. VerifyInv => OkMeansAsExecuted
  <2> SUFFICES ASSUME VerifyInv, receipt # None, Ok(home, receipt)
               PROVE  /\ receipt.body = BodyOf(executed)
                      /\ home.key = executed.key
                      /\ \A part \in Artifacts : ~Differs(part)
                      /\ home.output # None => ~Differs("output")
    BY DEF OkMeansAsExecuted
  <2>1. receipt.body = BodyOf(executed) /\ home.key = executed.key
    BY DEF VerifyInv, Issued, Ok, SignatureValid, Signature
  <2>2. ASSUME NEW part \in Artifacts \cup {"output"}, home[part] # Lost,
               part = "output" => home.output # None
        PROVE  home[part] = executed[part]
    <3>1. part \in DOMAIN HashChecks(home, receipt)
      BY <2>2 DEF HashChecks
    <3>2. HashChecks(home, receipt)[part] = (HashOf(home[part]) = receipt.body[part])
      BY <3>1 DEF HashChecks
    <3>3. HashOf(home[part]) = HashOf(executed[part])
      BY <2>1, <3>1, <3>2, BodyHashes DEF Ok
    <3>4. home[part] \in Contents \cup {None} /\ executed[part] \in Contents \cup {None}
      BY <2>2 DEF VerifyInv, VerifyTypeOK, Issued, Homes, Artifacts
    <3> QED BY <3>3, <3>4, HashInjective
  <2> QED BY <2>1, <2>2 DEF Differs, Artifacts
<1> QED BY <1>1, VerifyInvHolds, PTL
=============================================================================
