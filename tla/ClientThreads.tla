------------------------------ MODULE ClientThreads ------------------------------
(***************************************************************************)
(* Threads of one application in get_new_id (lib/src/clacks-api/           *)
(* id_client.c).  They share the static dom_sock and server, which every   *)
(* system call reads anew; module IdService, in which each application has *)
(* one thread, treats a call's socket as its own.  The daemon is reduced   *)
(* to its handling of GET (identifier-service/src/id_dom_socket.c) and is  *)
(* never lost.                                                             *)
(*                                                                         *)
(* Descriptors are numbered in the order of their creation, and a number   *)
(* is not used again.  A close() under a thread that is in read() takes    *)
(* effect when that thread has left it.                                    *)
(***************************************************************************)
EXTENDS Integers, Sequences, FiniteSets, Functions, UnixStream

CONSTANTS
  Threads,              \* the threads of the application
  MaxCalls              \* bound: calls per thread

ASSUME ThreadsAssumption == IsFiniteSet(Threads)
ASSUME CallsAssumption == MaxCalls \in Nat

VARIABLES
  dom_sock,             \* a descriptor, or NoSock for -1
  server,               \* the address has been filled in
  made,                 \* descriptors made so far
  fds,                  \* those that are open
  conn,                 \* the connection behind each descriptor
  th,                   \* the threads
  backlog, srv,         \* connections waiting, and the daemon
  clock                 \* identifiers drawn so far

vars == <<dom_sock, server, made, fds, conn, th, backlog, srv, clock>>

NoSock == 0
NoUuid == 0             \* what buf may hold that is no identifier
GET == 0                \* the command, which is no identifier either
Socks == 1 .. Cardinality(Threads) * MaxCalls

Init ==
  /\ dom_sock = NoSock
  /\ server = FALSE
  /\ made = 0
  /\ fds = {}
  /\ conn = [k \in Socks |-> NoStream]
  /\ th = [t \in Threads |-> [pc |-> "idle", calls |-> 0, fd |-> NoSock, ids |-> <<>>]]
  /\ backlog = <<>>
  /\ srv = [pc |-> "accept", conn |-> NoSock]
  /\ clock = 0

-------------------------------------------------------------------------------
(* The library.  Usable: what write() and read() ask of the descriptor. *)
daemonVars == <<backlog, srv, clock>>
At(t, here) == th[t].pc = here
Goto(t, next) == th' = [th EXCEPT ![t].pc = next]
Moved(t, here, next) == At(t, here) /\ Goto(t, next) /\ UNCHANGED daemonVars

Connected(k) == conn[k] # NoStream
Usable == dom_sock \in fds /\ Connected(dom_sock)
Readers(k) == {t \in Threads : th[t].pc = "reading" /\ th[t].fd = k}

Call(t) ==
  /\ At(t, "idle") /\ th[t].calls < MaxCalls
  /\ th' = [th EXCEPT ![t].pc = "test", ![t].calls = @ + 1]
  /\ UNCHANGED <<dom_sock, server, made, fds, conn, daemonVars>>

(* connect_to_id_service *)
TestSock(t) ==
  /\ Moved(t, "test", IF dom_sock = NoSock THEN "socket" ELSE "connect")
  /\ UNCHANGED <<dom_sock, server, made, fds, conn>>

Socket(t) ==
  /\ Moved(t, "socket", "fill")
  /\ made' = made + 1
  /\ fds' = fds \cup {made'}
  /\ dom_sock' = made'
  /\ UNCHANGED <<server, conn>>

(* First dom_sock is tested for less than 0: it may be -1 by now, and that *)
(* may be seen, or not in a build that has kept it in a register.          *)
FillServer(t) ==
  /\ \/ Moved(t, "fill", "connect") /\ server' = TRUE
     \/ dom_sock = NoSock /\ Moved(t, "fill", "reset") /\ UNCHANGED server
  /\ UNCHANGED <<dom_sock, made, fds, conn>>

ConnectOr(t, refused) ==
  /\ At(t, "connect")
  /\ IF server /\ dom_sock \in fds /\ ~ Connected(dom_sock)
       THEN /\ conn' = [conn EXCEPT ![dom_sock] = NewStream]
            /\ backlog' = Append(backlog, dom_sock)
            /\ Goto(t, "write")
       ELSE Goto(t, refused) /\ UNCHANGED <<conn, backlog>>
  /\ UNCHANGED <<dom_sock, server, made, fds, srv, clock>>

\* connect_to_id_service that tries another socket when it is refused.
Connect_NewSocket(t) == ConnectOr(t, "socket")

(* connect() refuses an address without a family, and a socket that is     *)
(* connected already.                                                      *)
Connect(t) == ConnectOr(t, "fail")

(* A write to a connection the daemon has closed fails, unless SIGPIPE     *)
(* ends the application.                                                   *)
WriteGet(t) ==
  /\ At(t, "write")
  /\ \/ /\ Usable /\ ~ Broken(conn[dom_sock], "client")
        /\ conn' = [conn EXCEPT ![dom_sock] = Written(@, "client", GET)]
        /\ Goto(t, "read")
        /\ UNCHANGED fds
     \/ /\ Usable => Broken(conn[dom_sock], "client")
        /\ Goto(t, "fail")
        /\ UNCHANGED <<fds, conn>>
     \/ /\ Usable /\ Broken(conn[dom_sock], "client")
        /\ th' = [u \in Threads |-> [th[u] EXCEPT !.pc = "dead"]]
        /\ fds' = {}
        /\ conn' = [k \in Socks |-> Closed(conn[k], "client", FALSE)]
  /\ UNCHANGED <<dom_sock, server, made, daemonVars>>

BeginRead(t) ==
  /\ At(t, "read")
  /\ th' = [th EXCEPT ![t].pc = IF Usable THEN "reading" ELSE "fail", ![t].fd = dom_sock]
  /\ UNCHANGED <<dom_sock, server, made, fds, conn, daemonVars>>

(* The connection after a thread has left read(). *)
Left(s, t) ==
  IF th[t].fd \in fds \/ Readers(th[t].fd) # {t} THEN s ELSE Closed(s, "client", FALSE)

(* read() of 0 bytes passes for success: the caller gets what buf held, an *)
(* earlier answer perhaps.                                                 *)
EndRead(t) ==
  LET s == conn[th[t].fd]
      Return(id) == th' = [th EXCEPT ![t].pc = "close", ![t].ids = Append(@, id)]
      Leave(s2) == conn' = [conn EXCEPT ![th[t].fd] = Left(s2, t)]
  IN  /\ At(t, "reading")
      /\ \/ HasData(s, "client") /\ Return(Data(s, "client")) /\ Leave(Consumed(s, "client"))
         \/ /\ AtEof(s, "client")
            /\ \E stale \in {NoUuid} \cup Range(th[t].ids) : Return(stale)
            /\ Leave(s)
         \/ IsReset(s, "client") /\ Goto(t, "fail") /\ Leave(ResetSeen(s, "client"))
      /\ UNCHANGED <<dom_sock, server, made, fds, daemonVars>>

(* close(dom_sock), after success and after every error. *)
CloseSock(t) ==
  /\ Moved(t, "close", "reset") \/ Moved(t, "fail", "reset")
  /\ fds' = fds \ {dom_sock}
  /\ conn' = IF Usable /\ Readers(dom_sock) = {}
               THEN [conn EXCEPT ![dom_sock] = Closed(@, "client", FALSE)] ELSE conn
  /\ UNCHANGED <<dom_sock, server, made>>

\* get_new_id that leaves the number of the closed descriptor in dom_sock.
ResetSock_Kept(t) ==
  /\ Moved(t, "reset", "idle")
  /\ UNCHANGED <<dom_sock, server, made, fds, conn>>

ResetSock(t) ==
  /\ Moved(t, "reset", "idle")
  /\ dom_sock' = NoSock
  /\ UNCHANGED <<server, made, fds, conn>>

get_new_id(t) ==
  \/ TestSock(t) \/ Socket(t) \/ FillServer(t) \/ Connect(t) \/ WriteGet(t)
  \/ BeginRead(t) \/ EndRead(t) \/ CloseSock(t) \/ ResetSock(t)

-------------------------------------------------------------------------------
(* The daemon: one connection at a time. *)
Served == conn[srv.conn]
libVars == <<dom_sock, server, made, fds, th>>

Accept ==
  /\ srv.pc = "accept" /\ backlog # <<>>
  /\ srv' = [pc |-> "read_cmd", conn |-> Head(backlog)]
  /\ backlog' = Tail(backlog)
  /\ UNCHANGED <<libVars, conn, clock>>

(* One read takes everything that was written, "GET" once or more often;   *)
(* after a read of 0 bytes buf holds an earlier "GET", or nothing.         *)
ReadCommand ==
  /\ srv.pc = "read_cmd"
  /\ \/ /\ HasData(Served, "server")
        /\ srv' = [srv EXCEPT !.pc = "send_uuid"]
     \/ /\ AtEof(Served, "server")
        /\ srv' \in {[srv EXCEPT !.pc = "send_uuid"], [srv EXCEPT !.pc = "close"]}
  /\ conn' = [conn EXCEPT ![srv.conn].in["server"] = <<>>]
  /\ UNCHANGED <<libVars, backlog, clock>>

Answer(id) ==
  /\ srv.pc = "send_uuid"
  /\ srv' = [srv EXCEPT !.pc = "close"]
  /\ clock' = id
  /\ conn' = IF Broken(Served, "server") THEN conn
             ELSE [conn EXCEPT ![srv.conn] = Written(@, "server", id)]
  /\ UNCHANGED <<libVars, backlog>>

\* send_uuid that goes back to its first identifier.
SendUuid_First == Answer(1)

SendUuid == Answer(clock + 1)

CloseConnection ==
  /\ srv.pc = "close"
  /\ srv' = [pc |-> "accept", conn |-> NoSock]
  /\ conn' = [conn EXCEPT ![srv.conn] = Closed(@, "server", FALSE)]
  /\ UNCHANGED <<libVars, backlog, clock>>

Daemon == Accept \/ ReadCommand \/ SendUuid \/ CloseConnection

(* All calls are made, the daemon waits for the next connection. *)
Rest ==
  /\ \A t \in Threads : At(t, "dead") \/ (At(t, "idle") /\ th[t].calls = MaxCalls)
  /\ srv.pc = "accept" /\ backlog = <<>>
  /\ UNCHANGED vars

Next == Daemon \/ Rest \/ \E t \in Threads : Call(t) \/ get_new_id(t)

Spec == Init /\ [][Next]_vars

(* The daemon and a thread that can go on do so. *)
Fairness == WF_vars(Daemon) /\ \A t \in Threads : WF_vars(get_new_id(t))

FairSpec == Spec /\ Fairness

-------------------------------------------------------------------------------
ThreadPcs == {"idle", "test", "socket", "fill", "connect", "write", "read",
              "reading", "close", "fail", "reset", "dead"}

(* Types; a call makes one socket at most, and a connection is open as     *)
(* long as its descriptor is, or a thread waits in read() on it.           *)
TypeOK ==
  /\ made \in {0} \cup Socks
  /\ dom_sock \in 0 .. made
  /\ server \in BOOLEAN
  /\ fds \subseteq 1 .. made
  /\ \A k \in Socks : conn[k].open["client"] <=> Connected(k) /\ (k \in fds \/ Readers(k) # {})
  /\ \A t \in Threads :
       /\ th[t].pc \in ThreadPcs
       /\ th[t].calls \in 0 .. MaxCalls
       /\ th[t].fd \in 0 .. made
       /\ Range(th[t].ids) \subseteq 0 .. clock
  /\ Range(backlog) \subseteq Socks
  /\ srv.conn \in Socks \cup {NoSock}

(* However the threads get in each other's way on dom_sock, two of them    *)
(* are never given one identifier: the answer on a connection that both of *)
(* them took for theirs is read by one.                                    *)
NotSharedByThreads ==
  \A t, u \in Threads : t # u =>
    Range(th[t].ids) \cap Range(th[u].ids) \subseteq {NoUuid}

(* Whatever the threads do to each other's socket is over with the calls  *)
(* it was done in: the next one makes a socket of its own.  Descriptors    *)
(* that were lost stay open, and so does the daemon's end of them.         *)
RaceLeavesNoSocket ==
  (\A t \in Threads : th[t].pc = "idle") => dom_sock = NoSock

(* Why they hold.  The whole of the types; *)
Typed ==
  /\ th \in [Threads -> [pc : ThreadPcs, calls : Nat, fd : Nat, ids : Seq(Nat)]]
  /\ \A t \in Threads : At(t, "reading") => th[t].fd \in Socks
  /\ conn \in [Socks -> Streams(Nat)]
  /\ backlog \in Seq(Socks)
  /\ srv \in [pc : {"accept", "read_cmd", "send_uuid", "close"}, conn : Socks \cup {NoSock}]
  /\ srv.pc # "accept" => srv.conn # NoSock
  /\ clock \in Nat

(* every descriptor was made by a call of its own; *)
Asked == {p \in Threads \X (1 .. MaxCalls) :
            \/ p[2] < th[p[1]].calls
            \/ p[2] = th[p[1]].calls /\ th[p[1]].pc \notin {"test", "socket"}}
MadeByCalls ==
  /\ made <= Cardinality(Asked)
  /\ \A t \in Threads : th[t].pc \in {"test", "socket"} => th[t].calls # 0
  /\ \A k \in Socks : Connected(k) => k <= made

(* what the daemon has answered and nobody has read is all different, and  *)
(* no thread has had it yet;                                               *)
Unread(k) == conn[k].in["client"]
AnswersDiffer ==
  /\ \A k \in Socks : \A i \in DOMAIN Unread(k) :
       Unread(k)[i] \in 1 .. clock /\ \A t \in Threads : Unread(k)[i] \notin Range(th[t].ids)
  /\ \A k, l \in Socks : \A i \in DOMAIN Unread(k), j \in DOMAIN Unread(l) :
       Unread(k)[i] = Unread(l)[j] => k = l /\ i = j

(* and while dom_sock is set, a thread is on its way to set it to -1.      *)
SockIsHeld ==
  dom_sock # NoSock => \E t \in Threads : th[t].pc \notin {"idle", "test", "socket"}

ThreadsInv ==
  TypeOK /\ Typed /\ MadeByCalls /\ AnswersDiffer /\ NotSharedByThreads /\ SockIsHeld

(* "Return: 0: on success -1: on error" (clacks.h): get_new_id returns.    *)
CallsReturn == \A t \in Threads : At(t, "test") ~> At(t, "idle") \/ At(t, "dead")
===============================================================================
