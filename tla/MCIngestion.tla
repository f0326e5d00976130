----------------------------- MODULE MCIngestion -----------------------------
EXTENDS Ingestion

CONSTANTS p1, p2, f1, f2

\* Two providers that share a title; the first row of p1 is refused by its adapter.
Catalogues == (p1 :> <<None, f1>>) @@ (p2 :> <<f1, f2>>)
=============================================================================
