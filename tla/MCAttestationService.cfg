SPECIFICATION Spec
CONSTANTS
  h1 = h1
  h2 = h2
  c1 = c1
  m1 = m1
  m2 = m2
  w1 = w1
  w2 = w2
  Hosts <- MCHosts
  TpmHosts <- MCTpmHosts
  Challenges = {c1}
  Workers = {w1, w2}
  Measurements = {m1, m2}
  Sizes = {1, 2, 3}
  Delta = 1
  Baselines <- MCBaselines
  Enrolled <- MCEnrolled
  TTL = 1
  MaxTime = 2
  MaxProposals = 2
SYMMETRY Symmetric
INVARIANTS OneReceipt ReceiptIsTrue OneLineOfBaselines
PROPERTIES NeverReopened ReceiptNamesCurrentBaseline
