------------------------------ MODULE MCFleet -------------------------------
EXTENDS Fleet

CONSTANTS fast, slow

\* One machine of each of two GPU models.
MCClasses == {"fast", "slow"}
MCClassOf == [w \in Workers |-> IF w = slow THEN "slow" ELSE "fast"]
MCCalibratedSlow == [c \in MCClasses |-> IF c = "fast" THEN 0 ELSE 20]
MCSpeeds == [c \in MCClasses |-> IF c = "fast" THEN {60, 90} ELSE {20}]
=============================================================================
