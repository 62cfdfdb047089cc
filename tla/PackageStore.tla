----------------------------- MODULE PackageStore -----------------------------
(***************************************************************************)
(* What packaging promises its readers (execute, receipt verify, list): a  *)
(* package appears at once and whole, its hashes are those of its          *)
(* artifacts, and it never changes.                                        *)
(***************************************************************************)
CONSTANTS PkgIds, None

VARIABLE visible    \* visible[k]: [hashes, files] of package k, None before

StoreInit == visible = [k \in PkgIds |-> None]

Publish(k) ==
  /\ visible[k] = None
  /\ visible'[k] # None
  /\ \A a \in DOMAIN visible'[k].hashes : visible'[k].hashes[a] = <<"sha256", visible'[k].files[a]>>
  /\ \A a \in DOMAIN visible'[k].files : visible'[k].files[a] # None
  /\ visible' = [visible EXCEPT ![k] = visible'[k]]

StoreSpec == StoreInit /\ [][\E k \in PkgIds : Publish(k)]_visible
=============================================================================
