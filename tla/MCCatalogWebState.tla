-------------------------- MODULE MCCatalogWebState --------------------------
(* Small instances of CatalogWebState for TLC.                             *)
EXTENDS CatalogWebState, TLC

CONSTANTS t1, t2
=============================================================================
