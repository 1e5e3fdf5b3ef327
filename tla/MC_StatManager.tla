--------------------------- MODULE MC_StatManager ---------------------------
EXTENDS StatManager

CONSTANTS n1, n2, n3

SNames == {n1, n2, n3}
SAddr == 1..3

=============================================================================
