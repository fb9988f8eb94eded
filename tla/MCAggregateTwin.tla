--------------------------- MODULE MCAggregateTwin ---------------------------
EXTENDS AggregateTwin
=============================================================================
