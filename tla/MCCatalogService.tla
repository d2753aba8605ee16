-------------------------- MODULE MCCatalogService --------------------------
(* Small instances of CatalogService for TLC.                              *)
EXTENDS CatalogService

CONSTANTS json1, json2, xml, csv, amc

(* The paths of the instances, each named for its suffix.                  *)
SuffixOf == json1 :> "json" @@ json2 :> "json" @@ xml :> "xml" @@ csv :> "csv" @@ amc :> "amc"

MCSuffix == [p \in Paths |-> SuffixOf[p]]
=============================================================================
