------------------------------ MODULE MCTcpNet ------------------------------
EXTENDS TcpNet
=============================================================================
