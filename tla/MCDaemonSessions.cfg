CONSTANTS
  k1 = k1
  k2 = k2
  s1 = s1
  s2 = s2
  Clients <- MCClients
  SessionIds <- MCSessionIds
SYMMETRY MCSymmetry
SPECIFICATION Spec
INVARIANTS RecordsMatchChildren NoAbandonedWorker
PROPERTIES BrokerFailureIsReported LifecycleRefined
