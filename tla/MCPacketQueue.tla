---------------------------- MODULE MCPacketQueue ----------------------------
(***************************************************************************)
(* PacketQueue with a file of MCMaxRead packets of different sizes, one of *)
(* them empty and one of unknown duration, and with the two threads that   *)
(* flush and abort a queue: the GUI's (seek, stop) and the worker (close). *)
(***************************************************************************)
EXTENDS PacketQueue

CONSTANTS gui, worker

MCMaxRead == 4
MCPktSize == <<3, 0, 2, 5>>
MCPktDuration == <<1, 2, 0, -1>>
MCControllers == {gui, worker}
=============================================================================
