----------------------------- MODULE MCApigwSync -----------------------------
(* A deployment to the staging stage, stamped with the time and deleting   *)
(* what it does not declare; two of the same pinned version to production, *)
(* the first from an environment that is not named, the second with one    *)
(* resource more; and one that has no backend for its environment.         *)
EXTENDS ApigwSync

CONSTANTS d1, d2, d3, d4, r1, r2, stag, prod, dev, pin, name, url1, url2

Settings1 == [name |-> Null, names |-> <<Null, Spaces, name>>, stage |-> Null,
              environment |-> stag, urls |-> [e \in {stag} |-> url1]]
Settings2 == [name |-> name, names |-> <<Null, Null, Null>>, stage |-> Null,
              environment |-> Null, urls |-> [e \in {dev, prod} |->
                                                IF e = dev THEN url1 ELSE url2]]
Settings3 == [Settings2 EXCEPT !.stage = prod, !.environment = prod]
Settings4 == [Settings2 EXCEPT !.environment = stag]

MCSettings ==
  [d \in Deployments |-> CASE d = d1 -> Settings1 [] d = d2 -> Settings2
                           [] d = d3 -> Settings3 [] d = d4 -> Settings4]
MCDeclared == [d \in Deployments |-> IF d = d3 THEN {r1, r2} ELSE {r1}]
MCPinned == [d \in Deployments |-> IF d \in {d1, d4} THEN Null ELSE pin]
=============================================================================
