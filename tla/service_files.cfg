SPECIFICATION Spec
CONSTANTS
  json1 = json1
  json2 = json2
  xml = xml
  csv = csv
  amc = amc
  Paths = {json1, json2, csv}
  Suffix <- MCSuffix
  Catalogs = {empty, garbage}
  Empty = empty
  Garbage = garbage
  Absent = Absent
  Failure = Failure
  MaxHistoryLimit = 2
INVARIANTS
  DisplayMatchesFile
  HistoryIsWritable
