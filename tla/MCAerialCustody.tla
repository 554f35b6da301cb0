--------------------------- MODULE MCAerialCustody ---------------------------
\* The instances of AerialCustody that TLC checks.
EXTENDS AerialCustody
=============================================================================
