--------------------------- MODULE MCIntradayWatch ---------------------------
EXTENDS IntradayWatch
=============================================================================
