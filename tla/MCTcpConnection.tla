--------------------------- MODULE MCTcpConnection ---------------------------
EXTENDS TcpConnection
=============================================================================
