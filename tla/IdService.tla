-------------------------------- MODULE IdService --------------------------------
(***************************************************************************)
(* The identifier service: the daemon's accept loop and request handlers   *)
(* (identifier-service/src/id_dom_socket.c, started by clacksidd.c) and    *)
(* the library calls that talk to it (lib/src/clacks-api/id_client.c), one *)
(* action per system call, over the streams of module UnixStream.  The     *)
(* daemon serves one connection at a time, draws UUIDs from the pool of    *)
(* module UuidPool and keeps the table of module TagStore; it may be       *)
(* terminated between any two of its steps, and so may a client.           *)
(*                                                                         *)
(* A client is a single-threaded application; the stream of its k-th call  *)
(* is named <<client, k>>.                                                 *)
(***************************************************************************)
EXTENDS Integers, Sequences, Functions, UnixStream, TagStore

CONSTANTS
  Clients,              \* the applications
  Requests,             \* what each of them may ask for, see RequestType
  ClIds,                \* identifiers applications tag
  Strings,              \* the derived identifiers of those requests
  Residue,              \* strings that stack memory may hold past the bytes read
  NoId,                 \* bytes that are no identifier
  BACKLOG,              \* listen()'s argument
  CL_MAX_FREE_UUIDS,    \* slots of the pool
  MaxUuid,              \* bound: readings of the UUID clock
  MaxCalls,             \* bound: calls per client
  MaxKills,             \* bound: times the daemon is terminated or gives up
  MaxCrashes            \* bound: clients that die

VARIABLES
  srv,                  \* the daemon: where it is, and the locals it is using
  sock_file,            \* CL_ID_DOM_SOCKET exists in the file system
  backlog,              \* connections waiting for accept()
  conn,                 \* the stream of every call
  cl,                   \* the clients
  all_tagged_ids,       \* the daemon's table of tags
  uuid_list, uuid_list_hd, generated, issued, lost,     \* module UuidPool
  kills, crashes        \* how often the environment struck

poolVars == <<uuid_list, uuid_list_hd, generated, issued, lost>>
vars == <<srv, sock_file, backlog, conn, cl, all_tagged_ids, poolVars, kills, crashes>>

Calls == Clients \X (1 .. MaxCalls)
NoCall == <<>>

RequestType ==
  [op : {"GET"}, cl_id : {NoId}, derrived : {<<>>}]
    \cup [op : {"TAG"}, cl_id : ClIds, derrived : Strings]

ASSUME BoundsAssumption ==
  /\ BACKLOG \in Nat /\ CL_MAX_FREE_UUIDS \in Nat \ {0}
  /\ MaxUuid \in Nat /\ MaxCalls \in Nat /\ MaxKills \in Nat /\ MaxCrashes \in Nat
ASSUME NoIdAssumption == NoId \notin 1 .. MaxUuid
ASSUME StringsAssumption == \A s \in Strings \cup Residue : s \in Seq(Range(s))
ASSUME RequestAssumption == Requests \in [Clients -> SUBSET RequestType]

Msg(kind, val) == [kind |-> kind, val |-> val]
Go == Msg("go", 1)

-------------------------------------------------------------------------------
(* The daemon.  Its locals live as long as the handler that owns them. *)
Down == [pc |-> "down", conn |-> NoCall, uuid |-> NoId, derrived |-> <<>>]
Listening == [Down EXCEPT !.pc = "accept"]

PoolPhase ==
  CASE srv.pc = "down" -> "start"
    [] srv.pc \in {"write_uuid", "check_pool"} -> "drawn"
    [] OTHER -> "idle"

Pool == INSTANCE UuidPool WITH phase <- PoolPhase

(* The clients.  sock: dom_sock # -1; ids: what get_new_id returned 0 with. *)
IdleClient == [pc |-> "idle", reqs |-> <<>>, sock |-> FALSE, ids |-> <<>>]

Call(c) == <<c, Len(cl[c].reqs)>>
Req(c) == Last(cl[c].reqs)

Init ==
  /\ srv = Down
  /\ sock_file = FALSE
  /\ backlog = <<>>
  /\ conn = [k \in Calls |-> NoStream]
  /\ cl = [c \in Clients |-> IdleClient]
  /\ all_tagged_ids = <<>>
  /\ Pool!Init
  /\ kills = 0
  /\ crashes = 0

-------------------------------------------------------------------------------
(* main(): fill the pool, then listen_on_dom_socket. *)
Launch ==
  /\ srv.pc = "down"
  /\ srv' = [srv EXCEPT !.pc = "bind"]
  /\ Pool!Start
  /\ UNCHANGED <<sock_file, backlog, conn, cl, all_tagged_ids, kills, crashes>>

Bind ==
  /\ srv.pc = "bind"
  /\ ~ sock_file
  /\ sock_file' = TRUE
  /\ srv' = Listening
  /\ UNCHANGED <<backlog, conn, cl, all_tagged_ids, poolVars, kills, crashes>>

(* bind() fails because the file is there, even when nobody listens on it  *)
(* any more: the error path unlinks the file and the daemon exits.         *)
BindFails ==
  /\ srv.pc = "bind"
  /\ sock_file
  /\ sock_file' = FALSE
  /\ srv' = Down
  /\ Pool!Exit
  /\ UNCHANGED <<backlog, conn, cl, all_tagged_ids, kills, crashes>>

Accept ==
  /\ srv.pc = "accept"
  /\ backlog # <<>>
  /\ srv' = [srv EXCEPT !.pc = "read_cmd", !.conn = Head(backlog)]
  /\ backlog' = Tail(backlog)
  /\ UNCHANGED <<sock_file, conn, cl, all_tagged_ids, poolVars, kills, crashes>>

-------------------------------------------------------------------------------
(* What a handler's read() and write() do on the connection being served. *)
Served == conn[srv.conn]
Serve(stream) == conn' = [conn EXCEPT ![srv.conn] = stream]
At(here) == srv.pc = here
Goto(next) == srv' = [srv EXCEPT !.pc = next]

daemonRest == <<sock_file, backlog, cl, kills, crashes>>

ServerWrites(here, m, next, onError) ==
  /\ At(here)
  /\ IF Broken(Served, "server")
       THEN Goto(onError) /\ UNCHANGED conn
       ELSE Goto(next) /\ Serve(Written(Served, "server", m))
  /\ UNCHANGED <<daemonRest, all_tagged_ids, poolVars>>

(* A read that fails ends the handler.  One of 0 bytes does not: it passes *)
(* the test for an error.                                                  *)
ServerReads(here, Got(_), Nothing) ==
  /\ At(here)
  /\ \/ /\ HasData(Served, "server")
        /\ Got(Data(Served, "server").val)
        /\ Serve(Consumed(Served, "server"))
     \/ /\ AtEof(Served, "server")
        /\ Nothing
        /\ UNCHANGED conn
     \/ /\ IsReset(Served, "server")
        /\ Goto("close")
        /\ Serve(ResetSeen(Served, "server"))
  /\ UNCHANGED <<daemonRest, all_tagged_ids, poolVars>>

Dispatch(cmd) == Goto(CASE cmd = "GET" -> "next_uuid"
                        [] cmd = "TAG" -> "write_go1"
                        [] OTHER -> "close")

\* handle_connection that waits for a command again when it has read nothing.
Unread_Retry == UNCHANGED srv

\* A client left without a word: buf holds whatever the stack held.
Unread == \E cmd \in {"GET", "TAG", "other"} : Dispatch(cmd)

(* handle_connection. *)
ReadCommand == ServerReads("read_cmd", Dispatch, Unread)

(* send_uuid: next_uuid; write; check_pool. *)
NextUuid ==
  /\ At("next_uuid")
  /\ srv' = [srv EXCEPT !.pc = "write_uuid", !.uuid = Pool!Drawn]
  /\ Pool!DrawUuid
  /\ UNCHANGED <<daemonRest, conn, all_tagged_ids>>

\* The UUID that is next in the pool, not the one that was drawn.
Answer_FromPool == uuid_list[IF uuid_list_hd < 0 THEN 0 ELSE uuid_list_hd]

Answer == srv.uuid

\* send_uuid that returns right after a failed write.
AfterUuid_Return == "close"

AfterUuid == "check_pool"

WriteUuid == ServerWrites("write_uuid", Msg("uuid", Answer), "check_pool", AfterUuid)

CheckPool ==
  /\ At("check_pool")
  /\ Goto("close")
  /\ Pool!CheckPool
  /\ UNCHANGED <<daemonRest, conn, all_tagged_ids>>

\* handle_tag_operation not looking at whether its continue message went out.
GoNotWritten_Ignore(next) == next

GoNotWritten(next) == "close"

(* handle_tag_operation. *)
WriteGo(here, next) == ServerWrites(here, Go, next, GoNotWritten(next))

(* The UUID to tag. *)
ReadUuid ==
  LET Got(id) == srv' = [srv EXCEPT !.pc = "write_go2", !.uuid = id]
  IN  ServerReads("read_uuid", Got, Got(NoId))

(* The derived identifier arrives without its terminator, so the string    *)
(* goes on into what the stack held behind it.  What a longer name has     *)
(* beyond the buffer stays unread until the connection is closed.          *)
ReadDerrived ==
  LET Got(name) == \E junk \in Residue :
        srv' = [srv EXCEPT !.pc = "tag_id", !.derrived = Fitting(name) \o junk]
  IN  ServerReads("read_derrived", Got, Got(<<>>))

Tagged == tag_id(all_tagged_ids, srv.uuid, srv.derrived)

\* handle_tag_operation that drops the tag of a client that has hung up.
Table_SkipIfGone == IF Broken(Served, "server") THEN all_tagged_ids ELSE Tagged

Table == Tagged

TagId ==
  /\ At("tag_id")
  /\ Goto("close")
  /\ all_tagged_ids' = Table
  /\ UNCHANGED <<daemonRest, conn, poolVars>>

\* An accept loop that forgets the connection.
HungUp_Leak == Served

HungUp == Closed(Served, "server", FALSE)

CloseConnection ==
  /\ At("close")
  /\ Serve(HungUp)
  /\ srv' = Listening
  /\ UNCHANGED <<daemonRest, all_tagged_ids, poolVars>>

Daemon ==
  \/ Bind \/ BindFails \/ Accept \/ ReadCommand
  \/ NextUuid \/ WriteUuid \/ CheckPool
  \/ WriteGo("write_go1", "read_uuid") \/ ReadUuid
  \/ WriteGo("write_go2", "read_derrived") \/ ReadDerrived \/ TagId
  \/ CloseConnection

(* exit(): every descriptor is closed, the memory goes. *)
DaemonGone ==
  /\ conn' = [k \in Calls |->
                IF k \in Range(backlog) THEN Closed(conn[k], "server", TRUE)
                ELSE IF k = srv.conn THEN Closed(conn[k], "server", FALSE)
                ELSE conn[k]]
  /\ backlog' = <<>>
  /\ all_tagged_ids' = <<>>
  /\ srv' = Down
  /\ Pool!Exit
  /\ kills' = kills + 1
  /\ UNCHANGED <<cl, crashes>>

(* SIGTERM (or worse) at any moment; the socket's file stays behind. *)
Terminate ==
  /\ kills < MaxKills
  /\ srv.pc # "down"
  /\ DaemonGone
  /\ UNCHANGED sock_file

(* accept() fails: the loop is left, the file unlinked, main exits. *)
AcceptFails ==
  /\ kills < MaxKills
  /\ srv.pc = "accept"
  /\ DaemonGone
  /\ sock_file' = FALSE

Quit == Terminate \/ AcceptFails

-------------------------------------------------------------------------------
(* The library, one call at a time per client.  Its reads and writes go to *)
(* dom_sock, which an earlier error may have set to -1.                    *)
Stream(c) == conn[Call(c)]
Step(c, next) == cl' = [cl EXCEPT ![c].pc = next]
clientRest == <<srv, sock_file, all_tagged_ids, poolVars, kills>>

(* close(dom_sock); dom_sock = -1; harmless when it is -1 already. *)
HangUp(c, next) ==
  /\ cl' = [cl EXCEPT ![c].pc = next, ![c].sock = FALSE]
  /\ conn' = IF cl[c].sock
               THEN [conn EXCEPT ![Call(c)] = Closed(Stream(c), "client", FALSE)]
               ELSE conn

(* The error paths.  get_new_id returns -1; cl_id_tag_id goes on with the  *)
(* next system call of the protocol, on a dom_sock of -1.                  *)
Fails(c, next) == HangUp(c, IF Req(c).op = "GET" THEN "idle" ELSE next)

NewCall(c) ==
  /\ cl[c].pc = "idle"
  /\ Len(cl[c].reqs) < MaxCalls
  /\ \E r \in Requests[c] :
       cl' = [cl EXCEPT ![c].reqs = Append(@, r), ![c].pc = "connect"]
  /\ UNCHANGED <<clientRest, backlog, conn, crashes>>

(* connect_to_id_service.  With a full backlog connect() waits; the kernel *)
(* calls it full when it holds more than BACKLOG connections.              *)
IsListening == srv.pc \notin {"down", "bind"} /\ sock_file

Connect(c) ==
  /\ cl[c].pc = "connect"
  /\ \/ /\ IsListening
        /\ Len(backlog) <= BACKLOG
        /\ conn' = [conn EXCEPT ![Call(c)] = NewStream]
        /\ backlog' = Append(backlog, Call(c))
        /\ cl' = [cl EXCEPT ![c].pc = "write_cmd", ![c].sock = TRUE]
     \/ /\ ~ IsListening
        /\ Step(c, "idle")
        /\ UNCHANGED <<conn, backlog>>
  /\ UNCHANGED <<clientRest, crashes>>

(* A write.  When the daemon has closed, SIGPIPE ends an application that  *)
(* does not ignore it; the others see an error.                            *)
ClientWrites(c, here, msgs, next) ==
  /\ cl[c].pc = here
  /\ \/ /\ cl[c].sock /\ ~ Broken(Stream(c), "client")
        /\ conn' = [conn EXCEPT ![Call(c)] =
                      IF msgs = <<>> THEN @ ELSE Written(@, "client", msgs[1])]
        /\ Step(c, next)
     \/ /\ cl[c].sock => Broken(Stream(c), "client")
        /\ Fails(c, next)
     \/ /\ cl[c].sock /\ Broken(Stream(c), "client")
        /\ HangUp(c, "dead")
  /\ UNCHANGED <<clientRest, backlog, crashes>>

(* A read, which fails when the daemon reset the stream or dom_sock is -1. *)
(* One of 0 bytes passes the test for an error.                            *)
ClientReads(c, here, Got(_), Nothing, onError) ==
  /\ cl[c].pc = here
  /\ \/ /\ cl[c].sock /\ HasData(Stream(c), "client")
        /\ Got(Data(Stream(c), "client").val)
        /\ conn' = [conn EXCEPT ![Call(c)] = Consumed(@, "client")]
     \/ /\ cl[c].sock /\ AtEof(Stream(c), "client")
        /\ Nothing
        /\ UNCHANGED conn
     \/ /\ cl[c].sock => IsReset(Stream(c), "client")
        /\ Fails(c, onError)
  /\ UNCHANGED <<clientRest, backlog, crashes>>

WriteCommand(c) ==
  ClientWrites(c, "write_cmd", <<Msg("cmd", Req(c).op)>>,
               IF Req(c).op = "GET" THEN "read_id" ELSE "read_go1")

(* The end of get_new_id.  After a read of 0 bytes id is filled from a     *)
(* buffer nothing was read into, which may hold an earlier answer.         *)
ReadId(c) ==
  LET Got(id) == cl' = [cl EXCEPT ![c].ids = Append(@, id), ![c].pc = "close"]
  IN  ClientReads(c, "read_id", Got, \E stale \in Range(cl[c].ids) \cup {NoId} : Got(stale),
                  "close")

\* A tagging client that reads again when it has read nothing.
NoGo_Retry(c, next) == UNCHANGED cl

NoGo(c, next) == Step(c, next)

(* cl_id_tag_id: what the continue message says is not looked at. *)
ReadGo(c, here, next) ==
  ClientReads(c, here, LAMBDA go : Step(c, next), NoGo(c, next), next)

\* A tagging client that does not wait for the second continue message.
WriteClId_NoWait(c) ==
  ClientWrites(c, "write_uuid", <<Msg("uuid", Req(c).cl_id)>>, "write_derrived")

WriteClId(c) ==
  ClientWrites(c, "write_uuid", <<Msg("uuid", Req(c).cl_id)>>, "read_go2")

(* strlen(derrived) bytes, without the terminator: none for the string "". *)
WriteDerrived(c) ==
  LET name == Req(c).derrived
  IN  ClientWrites(c, "write_derrived",
                   IF name = <<>> THEN <<>> ELSE <<Msg("derrived", name)>>, "close")

CloseSocket(c) ==
  /\ cl[c].pc = "close"
  /\ HangUp(c, "idle")
  /\ UNCHANGED <<clientRest, backlog, crashes>>

Library(c) ==
  \/ Connect(c) \/ WriteCommand(c) \/ ReadId(c)
  \/ ReadGo(c, "read_go1", "write_uuid") \/ WriteClId(c)
  \/ ReadGo(c, "read_go2", "write_derrived") \/ WriteDerrived(c)
  \/ CloseSocket(c)

(* The application dies in the middle of a call. *)
Crash(c) ==
  /\ crashes < MaxCrashes
  /\ cl[c].pc \notin {"idle", "dead"}
  /\ crashes' = crashes + 1
  /\ HangUp(c, "dead")
  /\ UNCHANGED <<clientRest, backlog>>

-------------------------------------------------------------------------------
(* Every client has made its calls; the daemon waits for the next one. *)
Rest ==
  /\ \A c \in Clients : \/ cl[c].pc = "dead"
                        \/ cl[c].pc = "idle" /\ Len(cl[c].reqs) = MaxCalls
  /\ srv.pc \in {"down", "accept"}
  /\ backlog = <<>>
  /\ UNCHANGED vars

Next ==
  \/ Launch \/ Daemon \/ Quit
  \/ \E c \in Clients : NewCall(c) \/ Library(c) \/ Crash(c)
  \/ Rest

Spec == Init /\ [][Next]_vars

(* A running daemon and a library call that can go on do so.  Nobody has   *)
(* to start the daemon, to make a call, or to be terminated.               *)
Fairness == WF_vars(Daemon) /\ \A c \in Clients : WF_vars(Library(c))

FairSpec == Spec /\ Fairness

-------------------------------------------------------------------------------
ServerPcs == {"down", "bind", "accept", "read_cmd", "next_uuid", "write_uuid",
              "check_pool", "write_go1", "read_uuid", "write_go2",
              "read_derrived", "tag_id", "close"}
ClientPcs == {"idle", "connect", "write_cmd", "read_id", "read_go1", "write_uuid",
              "read_go2", "write_derrived", "close", "dead"}

AnyId == ClIds \cup {NoId} \cup 0 .. MaxUuid

(* Types; the pool of module UuidPool keeps its own.  No more connections  *)
(* wait than the kernel lets wait.                                         *)
TypeOK ==
  /\ Pool!TypeOK
  /\ srv.pc \in ServerPcs
  /\ srv.conn \in Calls \cup {NoCall}
  /\ srv.uuid \in AnyId
  /\ sock_file \in BOOLEAN
  /\ Range(backlog) \subseteq Calls /\ Len(backlog) <= BACKLOG + 1
  /\ DOMAIN conn = Calls
  /\ \A c \in Clients :
       /\ cl[c].pc \in ClientPcs
       /\ Range(cl[c].reqs) \subseteq Requests[c] /\ Len(cl[c].reqs) <= MaxCalls
       /\ cl[c].sock \in BOOLEAN
       /\ Range(cl[c].ids) \subseteq AnyId
  /\ \A i \in DOMAIN all_tagged_ids : all_tagged_ids[i].cl_id \in AnyId
  /\ kills \in 0 .. MaxKills
  /\ crashes \in 0 .. MaxCrashes

(* "Get a fresh new id to track activities", "0: on success" (clacks.h):   *)
(* the identifiers that get_new_id returned 0 with, over all applications  *)
(* and all calls, are UUIDs of the daemon, and no two are the same.        *)
ReturnedIdsFresh ==
  /\ \A c \in Clients : Range(cl[c].ids) \subseteq Range(issued)
  /\ \A c, d \in Clients : \A i \in DOMAIN cl[c].ids, j \in DOMAIN cl[d].ids :
       cl[c].ids[i] = cl[d].ids[j] => c = d /\ i = j

(* Without the loss of a daemon that is so, also when applications die;    *)
(* and whatever the daemon dies of, no two applications are ever given the *)
(* same identifier: what a failed call returns is at worst the caller's    *)
(* own, and the daemon that comes next draws new ones.                     *)
IdsNotShared ==
  /\ kills = 0 => ReturnedIdsFresh
  /\ \A c, d \in Clients : c # d =>
       Range(cl[c].ids) \cap Range(cl[d].ids) \subseteq {NoId}

Expected(end, pc) ==
  IF end = "server"
    THEN CASE pc = "read_uuid" -> {"uuid"}
           [] pc = "read_derrived" -> {"derrived"}
           [] OTHER -> {}
    ELSE CASE pc = "read_id" -> {"uuid"}
           [] pc \in {"read_go1", "read_go2"} -> {"go"}
           [] OTHER -> {}

(* The two sides never get out of step, whoever fails where: at most one   *)
(* message is under way on a connection, so that a read of a fixed number  *)
(* of bytes cannot take in the message after it, and it is the message     *)
(* that its reader is waiting for.                                         *)
LockStep ==
  \A k \in Calls :
    /\ Len(conn[k].in["client"]) + Len(conn[k].in["server"]) <= 1
    /\ HasData(conn[k], "client") =>
         Data(conn[k], "client").kind \in Expected("client", cl[k[1]].pc)
    /\ HasData(conn[k], "server") =>
         IF k = srv.conn /\ srv.pc # "read_cmd"
           THEN Data(conn[k], "server").kind \in Expected("server", srv.pc)
           ELSE Data(conn[k], "server").kind = "cmd"

(* A tag is stored under the identifier its client sent, although the      *)
(* daemon takes a read of 0 bytes for the identifier: a client that left   *)
(* is found out by the write that comes next.  The derived identifier of a *)
(* client that lives starts with what it sent, or as much of it as a read  *)
(* into derrived_id can hold.                                              *)
TagIsWhatWasSent ==
  srv.pc = "tag_id" =>
    LET c == srv.conn[1]
        r == cl[c].reqs[srv.conn[2]]
    IN  /\ r.op = "TAG"
        /\ srv.uuid = r.cl_id
        /\ cl[c].pc # "dead" => IsPrefix(Fitting(r.derrived), srv.derrived)

(* What the protocol comment says of the last message, "server <- derrived *)
(* <- client": what is stored is what was sent.                            *)
DerrivedArrives ==
  srv.pc = "tag_id" /\ cl[srv.conn[1]].pc # "dead" =>
    srv.derrived = cl[srv.conn[1]].reqs[srv.conn[2]].derrived

(* "It's not in the hash table" (id_tag_manager.c): tag_id adds an entry   *)
(* only for a string that has none, so every string has one at most - or   *)
(* every string that leaves room for its terminator: one that does not is  *)
(* never found again, and is added every time.                             *)
OneEntryPerKey == KeysDiffer(all_tagged_ids)

(* Descriptors do not pile up over calls that fail half way: the daemon    *)
(* holds only the connection it serves and those it has yet to accept, an  *)
(* application only that of the call it is making.                         *)
NoLeakedSocket ==
  \A k \in Calls :
    /\ conn[k].open["server"] <=> k = srv.conn \/ k \in Range(backlog)
    /\ conn[k].open["client"] <=> cl[k[1]].sock /\ k = Call(k[1])
    /\ k = Call(k[1]) /\ cl[k[1]].pc \in {"idle", "dead", "connect"} => ~ cl[k[1]].sock

(* The handlers use the pool the way module UuidPool says they do: one     *)
(* draw per request and a check after every draw, failed writes included.  *)
PoolUsedAsSpecified == Pool!Spec

Tags == INSTANCE TagMap WITH
  tags <- {<<e.derrived_id, e.cl_id>> : e \in Range(all_tagged_ids)}

(* The table implements a map from derived identifiers to identifiers in   *)
(* which the first tag of a name stands until the daemon goes away.        *)
ImplementsTagMap == Tags!Spec

(* A library call returns, whatever becomes of the daemon.                 *)
CallsReturn ==
  \A c \in Clients : cl[c].pc = "connect" ~> cl[c].pc \in {"idle", "dead"}

(* The daemon, which serves one connection at a time and waits for each of *)
(* its messages, gets back to accept().                                    *)
DaemonComesBack == srv.pc \notin {"down", "accept"} ~> srv.pc \in {"down", "accept"}

(* clacks_tag_id has no result, but once it has written its last message   *)
(* the tag gets into the table, unless the daemon is terminated.           *)
TagGetsStored ==
  \A c \in Clients : \A r \in Requests[c] :
    /\ cl[c].pc = "close" /\ cl[c].sock /\ Req(c) = r /\ r.op = "TAG"
    /\ ~ Broken(Stream(c), "client")
    ~> \/ srv.pc = "down"
       \/ \E e \in Range(all_tagged_ids) : IsPrefix(r.derrived, e.derrived_id)
===============================================================================
