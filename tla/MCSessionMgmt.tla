---- MODULE MCSessionMgmt ----
EXTENDS SessionMgmt
====
