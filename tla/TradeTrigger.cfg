\* A trigger that the guard rejects is posted all the same.
SPECIFICATION Spec
CONSTANTS
  Calls = {c1}
  Requests <- MCRequests
  Absent = Absent
  Nobody = Nobody
  Alice = Alice
  Vault = Vault
  Agent = Agent
INVARIANT TriggersRest
CHECK_DEADLOCK FALSE
