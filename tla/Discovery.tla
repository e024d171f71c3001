-------------------------------- MODULE Discovery --------------------------------
(***************************************************************************)
(* The discovery thread of the trace daemon (clacksd/src/transport-server/ *)
(* cl_discovery_thread.c and cl_discovery.c): for ever it makes a UDP      *)
(* socket, binds it to the discovery port, receives one message and closes *)
(* the socket.  (main has the creation of the thread in a comment.)        *)
(*                                                                         *)
(* A message is the size its sender gave it: shorter than, as long as or   *)
(* longer than struct CL_Discovery_Transport.                              *)
(***************************************************************************)
EXTENDS Naturals, Sequences, SequencesExt

CONSTANTS
  Sizes,                \* sizes that applications send
  MaxFds,               \* descriptors the process may have open
  QueueLen              \* messages the kernel holds for the port

VARIABLES
  pc,                   \* where the thread is
  fds,                  \* its sockets: bound to the port or not, oldest first
  msg,                  \* the size of the message it has received
  queue                 \* what the kernel holds for the socket bound to the port

vars == <<pc, fds, msg, queue>>

Init ==
  /\ pc = "socket"
  /\ fds = <<>>
  /\ msg = "none"
  /\ queue = <<>>

PortTaken == \E i \in DOMAIN fds : fds[i] = "bound"

(* A datagram reaches the port, or nobody. *)
Send ==
  /\ \E size \in Sizes :
       queue' = IF PortTaken /\ Len(queue) < QueueLen THEN Append(queue, size) ELSE queue
  /\ UNCHANGED <<pc, fds, msg>>

(* With no descriptor left wait_for_transport returns, to be called again. *)
Socket ==
  /\ pc = "socket"
  /\ IF Len(fds) < MaxFds THEN pc' = "bind" /\ fds' = Append(fds, "unbound")
                          ELSE UNCHANGED <<pc, fds>>
  /\ UNCHANGED <<msg, queue>>

(* When the port is taken the call returns and the socket stays open. *)
Bind ==
  /\ pc = "bind"
  /\ IF PortTaken THEN pc' = "socket" /\ UNCHANGED fds
                  ELSE pc' = "recv" /\ fds' = [fds EXCEPT ![Len(fds)] = "bound"]
  /\ UNCHANGED <<msg, queue>>

(* recvfrom() fills the buffer and drops the rest of a longer message. *)
Received(size) == IF size = "long" THEN "whole" ELSE size

Recv ==
  /\ pc = "recv" /\ queue # <<>>
  /\ pc' = "check"
  /\ msg' = Head(queue)
  /\ queue' = Tail(queue)
  /\ UNCHANGED fds

(* A good message: the socket is closed, with what came behind the message *)
(* still in it.  One of the wrong size: the call returns.                  *)
CheckSize ==
  /\ pc = "check"
  /\ pc' = "socket"
  /\ \/ /\ Received(msg) = "whole"
        /\ fds' = Front(fds)
        /\ queue' = <<>>
     \/ /\ Received(msg) # "whole"
        /\ UNCHANGED <<fds, queue>>
  /\ UNCHANGED msg

start_discovery == Socket \/ Bind \/ Recv \/ CheckSize

Next == start_discovery \/ Send

Spec == Init /\ [][Next]_vars

FairSpec == Spec /\ WF_vars(start_discovery)

-------------------------------------------------------------------------------
(* "Received a discovery message that was of the wrong size. Dropping"     *)
(* (cl_discovery.c): it is the message that is dropped; the thread goes on *)
(* to receive the next one.                                                *)
DropsMessageOnly == pc = "check" ~> pc = "recv"
===============================================================================
