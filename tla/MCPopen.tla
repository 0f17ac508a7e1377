------------------------------ MODULE MCPopen ------------------------------
EXTENDS Popen

CONSTANTS t1, t2, p1

SomeLengths == {Line, All, 0, 1, 3}
=============================================================================
