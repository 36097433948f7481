SPECIFICATION Spec
CONSTANTS
  r1 = r1
  r2 = r2
  laptop = laptop
  phone = phone
  guest = guest
  editor = editor
  viewer = viewer
  Requests = {r1, r2}
  None = None
  Sessions = {laptop, phone, guest}
  People = {editor, viewer}
  PersonOf <- Owner
  Editors = {editor}
  Buckets = {"upload"}
  Capacity = 2
  Limit = 2
  Window = 4
  Second = 2
  MaxRequests = 5
  MaxTime = 8
  MaxRestarts = 1
INVARIANTS SignInsAreCounted WindowBound
PROPERTIES RetryIsAccepted
CHECK_DEADLOCK FALSE
