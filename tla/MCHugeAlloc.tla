---- MODULE MCHugeAlloc ----
EXTENDS HugeAlloc
====
