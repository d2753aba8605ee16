------------------------ MODULE MCCatalogNumbering ------------------------
EXTENDS CatalogNumbering

CONSTANTS a, b

\* One movie has a value to sort by, the other has none.
MCKey == (a :> 5) @@ (b :> None)
=============================================================================
