SPECIFICATION Spec
CONSTANTS
  Requests = {r1, r2}
  Attachments = {}
  Fields = {f}
  Related = related
  Initial = initial
  NoOne = noOne
  Unread = unread
  Workers = 2
  EarlyLoad = FALSE
INVARIANTS
  ConflictRefused
