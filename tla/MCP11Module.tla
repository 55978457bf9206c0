----------------------------- MODULE MCP11Module -----------------------------
\* P11Module on a small instance: model values for TLC.
EXTENDS P11Module

CONSTANTS t1, t2, d1, d2
=============================================================================
