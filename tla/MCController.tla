---------------------------- MODULE MCController ----------------------------
EXTENDS ControllerProperties, MCValues
=============================================================================
