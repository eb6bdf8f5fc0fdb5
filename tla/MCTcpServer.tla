---------------------------- MODULE MCTcpServer -----------------------------
(* One address the server can have and two another process has taken, so    *)
(* that bind fails after a Socket is listening; one of these is of another   *)
(* family than the user's Socket.  Descriptors run out with the listening    *)
(* one, the user's and MaxFds - 2 accepted ones, or without the user's.      *)
EXTENDS TcpServer
=============================================================================
