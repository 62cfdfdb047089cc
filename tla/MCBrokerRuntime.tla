--------------------------- MODULE MCBrokerRuntime ---------------------------
(* Instances of BrokerRuntime for TLC. *)
EXTENDS BrokerRuntime, TLC

CONSTANTS m1, m2

MCTerms == {[provider |-> "openai", model |-> m1, allowed |-> {}]}
\* Terms that exclude their own model: `customer grant` accepts them.
MCTermsAll == MCTerms \cup {[provider |-> "openai", model |-> m1, allowed |-> {m2}]}

MCPackages == {[provider |-> None, models |-> {m1}]}
\* A package for another provider, one for another model, one that fits.
MCPackagesAll == MCPackages \cup {[provider |-> "mock", models |-> {}],
                                  [provider |-> "openai", models |-> {m2}]}

MCProcs == Execs \cup Admins

\* No money at all, less than that, and room for two charges.
MCBudgets == {-1, 0, 2}

Symmetry == Permutations(Execs)
=============================================================================
