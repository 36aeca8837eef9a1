\* 12.inetd with its four services and two requests from the clients.
\* DgServiceRestored fails: a dg server that reads "udpquit" and exits
\* before the parent stores its pid (inetd.c:444) is reaped by sig_child
\* with no match, and the parent then marks the service busy for good.
CONSTANTS
  Serv <- ServArr
  Stream <- StreamServ
  MaxReqs = 2
  SysFail = FALSE
SPECIFICATION Spec
PROPERTY DgServiceRestored
CHECK_DEADLOCK FALSE
