\* Two signed account actions: what is posted against what is signed.
SPECIFICATION Spec
CONSTANTS
  Calls = {c1, c2}
  Requests <- MCRequests
  Absent = Absent
  Nobody = Nobody
  MaxU64 = 3
  Roster <- MCRoster
  Threshold = 2
  Alice = Alice
  Vault = Vault
  Agent = Agent
INVARIANTS Verifies SignedMeansOne ActsForAsked RosterSpeaks WordsFollowType
SYMMETRY Callers
CHECK_DEADLOCK FALSE
