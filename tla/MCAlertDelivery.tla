-------------------------- MODULE MCAlertDelivery --------------------------
(***************************************************************************)
(* AlertDelivery with alerts that every announcement satisfies.  t1 and t2 *)
(* match j1, after its crawl and after its document; t3 matches j2.        *)
(***************************************************************************)
EXTENDS AlertDelivery, DigestChecks

CONSTANTS j1, j2, t3

MCCriteria == Alert \X Job
MCJobOf == [t \in Task |-> IF t = t3 THEN j2 ELSE j1]

=============================================================================
