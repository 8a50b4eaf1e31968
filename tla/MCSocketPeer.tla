----------------------------- MODULE MCSocketPeer -----------------------------
(***************************************************************************)
(* Three objects and three descriptors: a listener, the end that connects  *)
(* and the end that is accepted, or two listeners that want one name.      *)
(***************************************************************************)
EXTENDS SocketPeer

CONSTANTS port, path

MCPorts == {port}
MCPaths == {path}
===============================================================================
