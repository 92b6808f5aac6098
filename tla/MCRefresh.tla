------------------------------ MODULE MCRefresh ------------------------------
EXTENDS AutoRefresh
CONSTANTS c1, c2, w1
=============================================================================
