--------------------------- MODULE MCImprovement ---------------------------
EXTENDS Improvement

CONSTANTS c1, c2

=============================================================================
