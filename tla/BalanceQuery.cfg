\* One request at a time, of all three kinds.
CONSTANTS
  Client = {c1}
  Kind = {"http", "balance", "code"}
  MaxQueries = 5
  MaxVersion = 3
SPECIFICATION Spec
INVARIANTS TypeOK 
 
CHECK_DEADLOCK FALSE
