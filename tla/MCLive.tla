------------------------------- MODULE MCLive -------------------------------
EXTENDS ControllerLiveness, MCValues
=============================================================================
