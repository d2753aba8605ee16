SPECIFICATION Spec
CONSTANTS
  json1 = json1
  json2 = json2
  xml = xml
  csv = csv
  amc = amc
  Paths = {json1}
  Suffix <- MCSuffix
  Catalogs = {empty, garbage, c1}
  Empty = empty
  Garbage = garbage
  Absent = Absent
  Failure = Failure
  MaxHistoryLimit = 3
INVARIANTS
  TypeOK
  HistoryBounded
  PublishedWasPersisted
PROPERTY BehavesAsDocument
