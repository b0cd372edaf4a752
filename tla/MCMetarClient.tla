--------------------------- MODULE MCMetarClient ---------------------------
EXTENDS MetarClient
=============================================================================
