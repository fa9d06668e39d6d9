SPECIFICATION Spec
CONSTANTS
  Requests = {r1, r2, r3}
  Attachments = {}
  Fields = {f, g}
  Related = related
  Initial = initial
  NoOne = noOne
  Unread = unread
  Workers = 1
  EarlyLoad = TRUE
PROPERTIES
  ImplementsMergedObject
