------------------------------ MODULE IdServiceInv ------------------------------
(***************************************************************************)
(* Why the invariants of IdService hold: the inductive invariant of the    *)
(* service.  Its middle is InStep, the table of who may be where in the    *)
(* protocol with what under way between them.                              *)
(***************************************************************************)
EXTENDS IdService

Chars == UNION {Range(s) : s \in Strings \cup Residue}

Messages ==
  [kind : {"cmd"}, val : {"GET", "TAG"}] \cup [kind : {"uuid"}, val : AnyId]
    \cup {Go} \cup [kind : {"derrived"}, val : Strings]

ServerTypes == [pc : ServerPcs, conn : Calls \cup {NoCall}, uuid : AnyId, derrived : Seq(Chars)]
ClientTypes == [pc : ClientPcs, reqs : Seq(RequestType), sock : BOOLEAN, ids : Seq(AnyId)]

Typed ==
  /\ srv \in ServerTypes
  /\ backlog \in Seq(Calls)
  /\ conn \in [Calls -> Streams(Messages)]
  /\ cl \in [Clients -> ClientTypes]
  /\ sock_file \in BOOLEAN /\ kills \in 0 .. MaxKills /\ crashes \in 0 .. MaxCrashes

-------------------------------------------------------------------------------
(* The connections the daemon has; no call is in it twice, or before it    *)
(* has connected.                                                          *)
InDaemon(k) == k = srv.conn \/ k \in Range(backlog)

Connections ==
  /\ srv.conn = NoCall <=> srv.pc \in {"down", "bind", "accept"}
  /\ srv.conn \notin Range(backlog)
  /\ \A i, j \in DOMAIN backlog : backlog[i] = backlog[j] => i = j
  /\ Len(backlog) <= BACKLOG + 1
  /\ \A k \in Calls : InDaemon(k) =>
       /\ k[2] <= Len(cl[k[1]].reqs)
       /\ k = Call(k[1]) => cl[k[1]].pc # "connect"

(* A client is where its request takes it. *)
Applications ==
  \A c \in Clients :
    /\ cl[c].pc \in {"idle", "dead", "connect"} => ~ cl[c].sock
    /\ cl[c].pc \notin {"idle", "dead"} => cl[c].reqs # <<>>
    /\ cl[c].pc = "read_id" => Req(c).op = "GET"
    /\ cl[c].pc \in {"read_go1", "write_uuid", "read_go2", "write_derrived"} => Req(c).op = "TAG"
    /\ Range(cl[c].reqs) \subseteq Requests[c] /\ Len(cl[c].reqs) <= MaxCalls

(* Where the two ends of a connection are; "gone" when the end is shut.  A *)
(* connection that waits is as good as one whose command is to be read.    *)
ClientAt(k) == IF k = Call(k[1]) /\ cl[k[1]].sock THEN cl[k[1]].pc ELSE "gone"
ServerAt(k) ==
  IF k = srv.conn THEN srv.pc ELSE IF k \in Range(backlog) THEN "read_cmd" ELSE "gone"

Ended ==
  \A k \in Calls :
    /\ conn[k].open["client"] <=> ClientAt(k) # "gone"
    /\ conn[k].open["server"] <=> ServerAt(k) # "gone"
    /\ conn[k].err["client"] => ServerAt(k) = "gone"
    /\ conn[k].err["server"] => ClientAt(k) = "gone"

(* The protocol: with the client at q and the daemon at p, what is under   *)
(* way to the client (toC) and to the server (toS) for request r.          *)
NothingSent(q, p, r) ==
  \/ q = "gone" \/ p = "gone"
  \/ q = "write_cmd" /\ p = "read_cmd"
  \/ q = "read_id" /\ p \in {"next_uuid", "write_uuid"}
  \/ q = "read_go1" /\ p = "write_go1"
  \/ q = "write_uuid" /\ p = "read_uuid"
  \/ q = "read_go2" /\ p = "write_go2"
  \/ q = "write_derrived" /\ p = "read_derrived"
  \/ q = "close" /\ p \in {"check_pool", "tag_id", "close"}
  \/ q = "close" /\ p = "read_derrived" /\ r.derrived = <<>>

SentToClient(q, p, toC) ==
  \/ q = "read_id" /\ p \in {"check_pool", "close", "gone"}
       /\ \E id \in AnyId : toC = <<Msg("uuid", id)>>
  \/ q = "read_go1" /\ p \in {"read_uuid", "gone"} /\ toC = <<Go>>
  \/ q = "read_go2" /\ p \in {"read_derrived", "gone"} /\ toC = <<Go>>

SentToServer(q, p, toS, r) ==
  \/ toS = <<Msg("cmd", r.op)>> /\ p = "read_cmd"
       /\ q \in {IF r.op = "GET" THEN "read_id" ELSE "read_go1", "gone"}
  \/ toS = <<Msg("uuid", r.cl_id)>> /\ p = "read_uuid" /\ q \in {"read_go2", "gone"}
  \/ toS = <<Msg("derrived", r.derrived)>> /\ p = "read_derrived" /\ q \in {"close", "gone"}

InStep(q, p, toC, toS, r) ==
  \/ toC = <<>> /\ toS = <<>> /\ NothingSent(q, p, r)
  \/ toS = <<>> /\ SentToClient(q, p, toC)
  \/ toC = <<>> /\ SentToServer(q, p, toS, r)

Request(k) == cl[k[1]].reqs[k[2]]

Protocol ==
  \A k \in Calls :
    InStep(ClientAt(k), ServerAt(k), conn[k].in["client"], conn[k].in["server"], Request(k))

(* What the daemon knows of a tag; a client that shut its end before it    *)
(* sent a derived identifier is dead, or had the string "" to send.        *)
Alive(k) == cl[k[1]].pc # "dead"

Knows(k, pc, uuid, derrived, stream) ==
  /\ pc = "write_go2" /\ ClientAt(k) # "gone" => uuid = Request(k).cl_id
  /\ pc \in {"read_derrived", "tag_id"} => Request(k).op = "TAG" /\ uuid = Request(k).cl_id
  /\ pc = "read_derrived" /\ ClientAt(k) = "gone" /\ stream.in["server"] = <<>> /\ Alive(k)
       => Request(k).derrived = <<>>
  /\ pc = "tag_id" /\ Alive(k) =>
       \E junk \in Residue : derrived = Fitting(Request(k).derrived) \o junk

Tagging ==
  \A k \in Calls : k = srv.conn => Knows(k, srv.pc, srv.uuid, srv.derrived, conn[k])

-------------------------------------------------------------------------------
(* The identifiers: one that is about to be sent, or is under way, or was  *)
(* returned, is one the pool has handed out, and is in one place only.     *)
Carries(k, id) == conn[k].in["client"] = <<Msg("uuid", id)>>
Returned(c) == Range(cl[c].ids)

Identifiers ==
  /\ srv.pc = "write_uuid" =>
       /\ srv.uuid \in Range(issued)
       /\ \A k \in Calls : ~ Carries(k, srv.uuid)
       /\ \A c \in Clients : srv.uuid \notin Returned(c)
  /\ \A k \in Calls, id \in AnyId : Carries(k, id) =>
       /\ id \in Range(issued)
       /\ \A l \in Calls : Carries(l, id) => l = k
       /\ \A c \in Clients : id \notin Returned(c)
  /\ \A c \in Clients : Returned(c) \subseteq Range(issued) \cup {NoId}

(* As long as the daemon lives, no get_new_id is left without an answer.   *)
Answered ==
  kills = 0 => \A k \in Calls :
    ClientAt(k) = "read_id" /\ ServerAt(k) = "gone" => conn[k].in["client"] # <<>>

ServiceInv ==
  /\ Typed /\ Connections /\ Applications /\ Ended /\ Protocol /\ Tagging
  /\ Pool!PoolInv /\ Identifiers /\ Answered /\ IdsNotShared

-------------------------------------------------------------------------------
(* The table: a derived identifier ends in its array, or has its own       *)
(* identifier behind it.                                                   *)
Entries == [derrived_id : Seq(Chars \cup AnyId), cl_id : AnyId]

WellKept(e) ==
  Len(e.derrived_id) >= DERRIVED_LEN =>
    /\ Len(e.derrived_id) = DERRIVED_LEN + 1
    /\ e.derrived_id[DERRIVED_LEN + 1] = e.cl_id

TableInv ==
  /\ all_tagged_ids \in Seq(Entries)
  /\ \A i \in DOMAIN all_tagged_ids : WellKept(all_tagged_ids[i])
  /\ OneEntryPerKey

(* All of it. *)
IdInv == ServiceInv /\ TableInv
===============================================================================
