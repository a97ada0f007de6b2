SPECIFICATION FairSpec
CONSTANTS
  c1 = c1 c2 = c2
  Nobody = Nobody
  Conns = {c1, c2}
  MaxData = 1
INVARIANTS TypeOK OneMoreFrame
PROPERTIES OldPeersExplained RefusalsReachClient DeparturesNoticed ClientsNotLeftWaiting
