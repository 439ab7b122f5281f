SPECIFICATION Spec
CONSTANTS
  none = none
  Runs = {r1, r2}
  Tokens = {t1, t2}
  Hosts = {h1, h2}
  TpmHosts = {h1}
  MaxMismatches = 1
  MaxNonces = 3
SYMMETRY Symmetric
INVARIANTS TokenBuysOneHost ClientAgrees 
