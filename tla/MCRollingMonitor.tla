---------------------------- MODULE MCRollingMonitor ----------------------------
EXTENDS RollingMonitor

CONSTANTS u1, u2

MCPlays == [u \in Users |-> IF u = u1 THEN {<<2, 1>>, <<3, 1>>} ELSE {<<1, 1>>}]
=============================================================================
