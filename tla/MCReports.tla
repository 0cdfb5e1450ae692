------------------------------- MODULE MCReports -------------------------------
\* An instance of Reports for TLC, and with it of Experiments.
EXTENDS Reports, TLC

CONSTANTS n1, n2, u1, u2, m1, m2

\* Names and shells are only compared for equality.
Symmetry == Permutations(Names) \cup Permutations(Users)
================================================================================
