----------------------------- MODULE MCDatapath -----------------------------
EXTENDS DatapathService
===============================================================================
