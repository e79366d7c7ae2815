---------------------------- MODULE MCTcpMessages ----------------------------
EXTENDS TcpMessages
=============================================================================
