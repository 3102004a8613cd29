---------------------------- MODULE MCEventClient ----------------------------
EXTENDS EventClient

CONSTANTS state, sync

MCTypes == {state, sync}
MCCap == [t \in MCTypes |-> IF t = state THEN 2 ELSE 1]
=============================================================================
