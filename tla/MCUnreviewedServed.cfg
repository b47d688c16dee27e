\* A device asks for a published asset while a new version of it is contributed.
CONSTANTS
  None = None
  AssetIds = {a1}
  AssetKeys = {s1}
  TeamKeys = {}
  Capabilities = {}
  Contributors = {d1}
  AssetAdmins = {r1}
  Readers = {x1}
  MaxWrites = 3
SPECIFICATION AssetSpec
INVARIANT ServedIsReviewed
CHECK_DEADLOCK FALSE
