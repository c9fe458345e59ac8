---------------------------- MODULE MCLineFramer ----------------------------
EXTENDS LineFramer
=============================================================================
