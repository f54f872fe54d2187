------------------------------ MODULE MCSetup ------------------------------
EXTENDS SetupProperties

SomeRFC == {Unset, 1000}
=============================================================================
