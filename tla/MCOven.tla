------------------------------- MODULE MCOven -------------------------------
EXTENDS Oven
=============================================================================
