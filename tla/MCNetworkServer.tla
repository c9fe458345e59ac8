-------------------------- MODULE MCNetworkServer --------------------------
EXTENDS NetworkServer
=============================================================================
