SPECIFICATION FairSpec
CONSTANTS
  Requests = {r1, r2, r3}
  Attachments = {a1}
  Fields = {f}
  Related = related
  Initial = initial
  NoOne = noOne
  Unread = unread
  Workers = 3
  EarlyLoad = FALSE
INVARIANTS
  TypeOK
  VersionCountsSaves
  HistoryMatchesRow
PROPERTIES
  SavesAnswered

\* Waiting for ever is what SavesAnswered excludes.
CHECK_DEADLOCK FALSE
