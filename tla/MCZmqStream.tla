----------------------------- MODULE MCZmqStream -----------------------------
EXTENDS ZmqStreamRefinement, TLC

CONSTANTS c1, c2, r1
=============================================================================
