---------------------------- MODULE MCIbTransport -----------------------------
EXTENDS IbTransport
================================================================================
