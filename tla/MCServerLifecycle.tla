------------------------- MODULE MCServerLifecycle -------------------------
\* A small instance of ServerLifecycle: two concurrent requests.
EXTENDS ServerLifecycle

CONSTANTS r1, r2, i1, i2

MCRequest == {r1, r2}

MCIp == {i1, i2}

MCIpsOf == [r \in MCRequest |-> IF r = r1 THEN {i1} ELSE MCIp]

MCSizes == {0, 1, 2}

=============================================================================
