-------------------------- MODULE MCOutboundWriter --------------------------
EXTENDS OutboundWriter
=============================================================================
