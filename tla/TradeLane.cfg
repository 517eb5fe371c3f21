\* Two signed actions: what is posted against what is signed.
SPECIFICATION Spec
CONSTANTS
  Calls = {c1, c2}
  Requests <- MCRequests
  Absent = Absent
  Nobody = Nobody
  Alice = Alice
  Vault = Vault
  Agent = Agent
INVARIANTS Verifies SignedMeansOne ActsForAsked FitForNode
SYMMETRY Callers
CHECK_DEADLOCK FALSE
