-------------------------------- MODULE Grant --------------------------------
(***************************************************************************)
(* The execution grant document (sealedx/grants/models.py) and the rules   *)
(* of sealedx/grants/manager.py that only look at one document: which      *)
(* status it has, whether it can pay for a call, what a charge and a       *)
(* revocation turn it into.                                                *)
(*                                                                         *)
(* Money is counted in units of 0.0001 USD, the precision every persisted  *)
(* amount has (_ser_decimal).  A budget may be any integer: neither the    *)
(* model nor the CLI refuses a zero or a negative one.  Time is a natural  *)
(* number.  provider, model and allowed_models are one value of Terms.     *)
(***************************************************************************)
EXTENDS Integers

CONSTANT Terms

\* GrantStatus: the four values `status` may have on disk.
GrantStatus == {"active", "expired", "exhausted", "revoked"}

\* ExecutionGrant, without its id (the key of the file) and created_at.
GrantDoc == [budget: Int, spent: Nat, expires: Nat, status: GrantStatus, terms: Terms]

\* The document create_grant writes: nothing spent, active whatever the budget.
NewGrant(budget, expires, terms) ==
  [budget |-> budget, spent |-> 0, expires |-> expires,
   status |-> "active", terms |-> terms]

-----------------------------------------------------------------------------
(***************************************************************************)
(* Mutated forms of the operators below: what a plausible slip in the code *)
(* would compute.  Only the mutation runs use them.                        *)
(***************************************************************************)
DerivedStatusKeepsPersisted(g, now) ==     \* forgets that revocation comes first
  CASE now >= g.expires    -> "expired"
    [] g.spent >= g.budget -> "exhausted"
    [] OTHER               -> "active"

CanPayLoose(g, amount) == g.spent <= g.budget       \* checks the old total

ChargedRefund(g, amount) ==                         \* wrong sign
  [g EXCEPT !.spent = @ - amount]

ChargedTopsUp(g, amount) ==                         \* restates the budget on a charge
  [g EXCEPT !.spent = @ + amount, !.budget = @ - amount]

ChargedForgetsOld(g, amount) == [g EXCEPT !.spent = amount]

ChargedRoundsUp(g, amount) ==                       \* a unit more for every charge
  [g EXCEPT !.spent = @ + amount + 1]

ChargedExtends(g, amount) ==                        \* a paid call renews the grant
  [g EXCEPT !.spent = @ + amount, !.expires = @ + 1]

-----------------------------------------------------------------------------
\* derived_status: revoked wins over expired, expired over exhausted.  The
\* persisted status matters only when it is "revoked".
DerivedStatus(g, now) ==
  CASE g.status = "revoked"                           -> "revoked"
    [] g.status # "revoked" /\ now >= g.expires       -> "expired"
    [] /\ g.status # "revoked" /\ now < g.expires
       /\ g.spent >= g.budget                         -> "exhausted"
    [] OTHER                                          -> "active"

\* assert_usable returns instead of raising.
Usable(g, now) == DerivedStatus(g, now) = "active"

\* charge does not raise BudgetExceededError.
CanPay(g, amount) == g.spent + amount <= g.budget

\* The status charge writes beside the new total: a stale "active" included.
ChargedStatus(g, spent) ==
  IF spent >= g.budget THEN "exhausted" ELSE g.status

\* The document charge persists, made from the caller's copy g.
Charged(g, amount) ==
  [g EXCEPT !.spent = @ + amount, !.status = ChargedStatus(g, g.spent + amount)]

\* The document revoke persists.
Revoked(g) == [g EXCEPT !.status = "revoked"]
=============================================================================
