----------------------------- MODULE MCProtection -----------------------------
EXTENDS Protection
=============================================================================
