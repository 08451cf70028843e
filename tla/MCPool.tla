------------------------------- MODULE MCPool -------------------------------
EXTENDS Pool

CONSTANTS a1, a2, a3
==============================================================================
