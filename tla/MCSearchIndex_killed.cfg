\* An older file, whose first start with the index may be cut short.
SPECIFICATION Spec
CONSTANTS
  Ids = {1, 2}
  Stored = {1}
  Columns = {device_id, context}
  MaxBoots = 2
CHECK_DEADLOCK FALSE
INVARIANT SearchIsComplete
