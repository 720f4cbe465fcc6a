-------------------------- MODULE MCSingleInstance --------------------------
EXTENDS SingleInstance

=============================================================================
