---------------------------- MODULE CatalogFiles ----------------------------
(***************************************************************************)
(* Catalog files and the dispatch that reads them (amc/storage.py).        *)
(*                                                                         *)
(* A file is what its bytes are (a format and the catalog a reader of that *)
(* format finds in it); a path is the suffix that steers `load'.  The two  *)
(* are independent: nothing ties the format of a file to its name, and     *)
(* most of the ways a catalog can be lost come from that.                  *)
(***************************************************************************)
EXTENDS Naturals

CONSTANTS
  Paths,      \* the catalog files the user works with
  Suffix,     \* Suffix[p]: "json" (any working suffix), "amc", "xml" or "csv"
  Catalogs,   \* catalog values: movies and metadata together
  Empty,      \* Catalog(): no movie, no metadata
  Garbage,    \* what the CSV reader makes of bytes that are not a CSV catalog:
              \* some catalog, or Failure (duplicate headers, bytes that are
              \* not UTF-8, values a movie cannot have)
  Absent,     \* no file at this path
  Failure     \* `load' raised

SuffixKinds == {"json", "amc", "xml", "csv"}

(* "junk" is a file that no reader but the CSV one accepts: a static HTML  *)
(* export, a foreign document.                                             *)
Formats == {"json", "native", "xml", "csv", "junk"}

ASSUME SuffixAssumption == Suffix \in [Paths -> SuffixKinds]
ASSUME CatalogAssumption == Empty \in Catalogs /\ Garbage \in Catalogs \union {Failure}
ASSUME SentinelAssumption == Failure \notin Catalogs

File == [format : Formats, catalog : Catalogs]

ASSUME AbsentAssumption == Absent \notin File

FileOf(f, c) == [format |-> f, catalog |-> c]

JsonFile(c) == FileOf("json", c)

(* _READ_ONLY_INTERCHANGE_SUFFIXES and is_writable.                        *)
IsWorkingFormat(p) == Suffix[p] = "json"

(* `load': the native header wins over every suffix; then ".amc" accepts   *)
(* only native or JSON bytes, ".xml" only XML, ".csv" any text, and every  *)
(* other suffix only JSON.  All bytes the CSV reader does not understand   *)
(* have one fate, Garbage.                                                 *)
Load(suffix, file) ==
  IF \/ file.format = "native"
     \/ file.format = "json" /\ suffix \in {"json", "amc"}
     \/ file.format = suffix
  THEN file.catalog
  ELSE IF suffix = "csv" THEN Garbage ELSE Failure

(* copy_catalog validates the bytes it has just copied by loading its      *)
(* temporary file, whose suffix is ".tmp" whatever the destination's is.   *)
ValidatedCopy(file) == file # Absent /\ Load("json", file) # Failure

=============================================================================
