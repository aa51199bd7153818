----------------------------- MODULE MCInsolation -----------------------------
EXTENDS Insolation
=============================================================================
