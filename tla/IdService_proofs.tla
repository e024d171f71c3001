---------------------------- MODULE IdService_proofs ----------------------------
(***************************************************************************)
(* Theorems about the identifier service, for any applications, requests,  *)
(* sizes and bounds.  First the pool: the handlers use it as UuidPool      *)
(* says, which brings in what UuidPool_proofs shows of it.  Then the       *)
(* protocol: what each system call does to the row of the table InStep     *)
(* that a connection is in.  Last the table of tags.                       *)
(***************************************************************************)
EXTENDS IdServiceInv, StreamLemmas, TLAPS

Proved == INSTANCE UuidPool_proofs WITH phase <- PoolPhase

(* The daemon's record keeps its fields. *)
Shaped == DOMAIN srv = {"pc", "conn", "uuid", "derrived"}

(* A handler's system call touches no pool: it neither draws nor checks.   *)
LEMMA PoolStep == Shaped /\ [Next]_vars => Shaped' /\ [Pool!Next]_Pool!vars
<1>. SUFFICES ASSUME Shaped, [Next]_vars PROVE Shaped' /\ [Pool!Next]_Pool!vars
  OBVIOUS
<1>1. CASE Launch
  BY <1>1 DEF Launch, Shaped, Pool!Next
<1>2. CASE BindFails
  BY <1>2 DEF BindFails, Shaped, Pool!Next, Down
<1>3. CASE NextUuid
  BY <1>3 DEF NextUuid, Shaped, Pool!Next
<1>4. CASE CheckPool
  BY <1>4 DEF CheckPool, Shaped, Pool!Next, Goto
<1>5. CASE Quit
  BY <1>5 DEF Quit, Terminate, AcceptFails, DaemonGone, Shaped, Pool!Next, Down
<1>6. ASSUME Shaped', UNCHANGED poolVars, PoolPhase' = PoolPhase
      PROVE  Shaped' /\ [Pool!Next]_Pool!vars
  BY <1>6 DEF Pool!vars, poolVars
<1>7. ASSUME srv.pc \notin {"down", "write_uuid", "check_pool"},
             srv'.pc \notin {"down", "write_uuid", "check_pool"}
      PROVE  PoolPhase' = PoolPhase
  BY <1>7 DEF PoolPhase
<1>8. CASE Bind \/ Accept \/ TagId \/ CloseConnection
  <2>1. Shaped' /\ UNCHANGED poolVars
    BY <1>8 DEF Bind, Accept, TagId, CloseConnection, Goto, Shaped, Listening, Down
  <2>2. /\ srv.pc \notin {"down", "write_uuid", "check_pool"}
        /\ srv'.pc \notin {"down", "write_uuid", "check_pool"}
    BY <1>8 DEF Bind, Accept, TagId, CloseConnection, At, Goto, Shaped, Listening, Down
  <2>. QED
    BY <1>6, <1>7, <2>1, <2>2
<1>9. CASE ReadCommand \/ ReadUuid \/ ReadDerrived
  <2>1. Shaped' /\ UNCHANGED poolVars
    BY <1>9 DEF ReadCommand, ReadUuid, ReadDerrived, ServerReads, Dispatch, Unread, Goto, Shaped
  <2>2. srv.pc \notin {"down", "write_uuid", "check_pool"}
    BY <1>9 DEF ReadCommand, ReadUuid, ReadDerrived, ServerReads, At
  <2>3. srv'.pc \notin {"down", "write_uuid", "check_pool"}
    BY <1>9 DEF ReadCommand, ReadUuid, ReadDerrived, ServerReads, Dispatch, Unread, Goto, Shaped
  <2>. QED
    BY <1>6, <1>7, <2>1, <2>2, <2>3
<1>10. CASE WriteGo("write_go1", "read_uuid") \/ WriteGo("write_go2", "read_derrived")
  <2>1. Shaped' /\ UNCHANGED poolVars
    BY <1>10 DEF WriteGo, ServerWrites, Goto, Shaped
  <2>2. /\ srv.pc \notin {"down", "write_uuid", "check_pool"}
        /\ srv'.pc \notin {"down", "write_uuid", "check_pool"}
    BY <1>10 DEF WriteGo, ServerWrites, GoNotWritten, At, Goto, Shaped
  <2>. QED
    BY <1>6, <1>7, <2>1, <2>2
<1>11. CASE WriteUuid
  <2>1. Shaped' /\ UNCHANGED poolVars
    BY <1>11 DEF WriteUuid, ServerWrites, Goto, Shaped
  <2>2. srv.pc = "write_uuid" /\ srv'.pc = "check_pool"
    BY <1>11 DEF WriteUuid, ServerWrites, AfterUuid, At, Goto, Shaped
  <2>3. PoolPhase' = PoolPhase
    BY <2>2 DEF PoolPhase
  <2>. QED
    BY <1>6, <2>1, <2>3
<1>12. CASE \/ \E c \in Clients : NewCall(c) \/ Library(c) \/ Crash(c)
            \/ Rest \/ UNCHANGED vars
  <2>1. UNCHANGED <<srv, poolVars>>
    BY <1>12 DEF NewCall, Library, Connect, WriteCommand, ReadId, ReadGo, WriteClId, WriteDerrived,
      ClientReads, ClientWrites, CloseSocket, Crash, clientRest, Rest, vars
  <2>. QED
    BY <1>6, <2>1 DEF Shaped, PoolPhase
<1>. QED
  BY <1>1, <1>2, <1>3, <1>4, <1>5, <1>8, <1>9, <1>10, <1>11, <1>12 DEF Next, Daemon

(* The handlers use the pool as module UuidPool says its callers do: one   *)
(* draw per request and a check after every draw, failed writes included,  *)
(* and no daemon goes on with the pool of the one before it.               *)
THEOREM PoolUse == Spec => PoolUsedAsSpecified
<1>1. Init => Pool!Init /\ Shaped
  BY DEF Init, Pool!Init, Shaped, Down
<1>. QED
  BY <1>1, PoolStep, PTL DEF Spec, PoolUsedAsSpecified, Pool!Spec

(* What is proved of the pool holds of the daemon's. *)
LEMMA PoolSame == Proved!PoolInv <=> Pool!PoolInv
  BY DEF Pool!PoolInv, Proved!PoolInv, Pool!TypeOK, Proved!TypeOK, Pool!NeverDrawFromEmpty,
    Proved!NeverDrawFromEmpty, Pool!NoReissue, Proved!NoReissue, Pool!NothingWasted,
    Proved!NothingWasted, Pool!DrawnFromClock, Proved!DrawnFromClock, Pool!ReadyFresh,
    Proved!ReadyFresh, Pool!StartsAtZero, Proved!StartsAtZero, Pool!Slots, Proved!Slots,
    Pool!Phases, Proved!Phases, Pool!Ready, Proved!Ready

LEMMA PoolBegins == Pool!Init => Pool!PoolInv
<1>1. Pool!Init => Proved!Init
  BY DEF Pool!Init, Proved!Init, Pool!EmptyPool, Proved!EmptyPool, Pool!Slots, Proved!Slots,
    Pool!NilUuid, Proved!NilUuid
<1>2. Proved!Init => Proved!PoolInv
  BY Proved!InitInv, BoundsAssumption
<1>. QED
  BY <1>1, <1>2, PoolSame

LEMMA PoolHolds == Spec => []Pool!PoolInv
<1>1. [Pool!Next]_Pool!vars => [Proved!Next]_Proved!vars
  BY DEF Pool!vars, Proved!vars, Pool!Next, Proved!Next, Pool!Start, Proved!Start,
    Pool!DrawUuid, Proved!DrawUuid, Pool!CheckPool, Proved!CheckPool, Pool!Exit, Proved!Exit,
    Pool!ClockSpent, Proved!ClockSpent, Pool!update_uuid_pool, Proved!update_uuid_pool,
    Pool!next_uuid, Proved!next_uuid, Pool!check_pool, Proved!check_pool, Pool!LastSlot,
    Proved!LastSlot, Pool!Drawn, Proved!Drawn, Pool!EmptyPool, Proved!EmptyPool, Pool!Slots,
    Proved!Slots, Pool!NilUuid, Proved!NilUuid, Pool!Ready, Proved!Ready, Pool!poolVars,
    Proved!poolVars
<1>2. Proved!PoolInv /\ [Proved!Next]_Proved!vars => Proved!PoolInv'
  BY Proved!StepInv, BoundsAssumption
<1>. QED
  BY <1>1, <1>2, PoolSame, PoolBegins, PoolUse, PTL DEF PoolUsedAsSpecified, Pool!Spec

-------------------------------------------------------------------------------
(* A connection s fits the table, with the client at q and the daemon at p *)
(* for request r.                                                          *)
Fits(s, q, p, r) ==
  /\ s.open["client"] <=> q # "gone"
  /\ s.open["server"] <=> p # "gone"
  /\ s.err["client"] => p = "gone"
  /\ s.err["server"] => q = "gone"
  /\ InStep(q, p, s.in["client"], s.in["server"], r)

(* One message under way is a message. *)
LEMMA OneMessage ==
  ASSUME NEW m
  PROVE  /\ <<m>> # <<>> /\ Head(<<m>>) = m /\ Tail(<<m>>) = <<>> /\ Append(<<>>, m) = <<m>>
         /\ \A n : <<m>> = <<n>> => m = n
  OBVIOUS

(* Either end may shut at any moment. *)
LEMMA ClientShuts ==
  ASSUME NEW s \in Streams(Messages), NEW q, NEW p, NEW r, Fits(s, q, p, r)
  PROVE  /\ Closed(s, "client", FALSE) \in Streams(Messages)
         /\ Fits(Closed(s, "client", FALSE), "gone", p, r)
         /\ Closed(s, "client", FALSE).in["client"] = <<>>
         /\ Closed(s, "client", FALSE).in["server"] = s.in["server"]
<1>1. /\ Closed(s, "client", FALSE) \in Streams(Messages)
      /\ Closed(s, "client", FALSE).open["client"] = FALSE
      /\ Closed(s, "client", FALSE).open["server"] = s.open["server"]
      /\ Closed(s, "client", FALSE).in["client"] = <<>>
      /\ Closed(s, "client", FALSE).in["server"] = s.in["server"]
  BY ClientCloses
<1>2. ~ Closed(s, "client", FALSE).err["client"]
  BY ClosedParts DEF Ends
<1>3. InStep("gone", p, <<>>, s.in["server"], r)
  BY DEF Fits, InStep, NothingSent, SentToClient, SentToServer
<1>. QED
  BY <1>1, <1>2, <1>3 DEF Fits

LEMMA ServerShuts ==
  ASSUME NEW s \in Streams(Messages), NEW q, NEW p, NEW r, NEW abort \in BOOLEAN,
         Fits(s, q, p, r)
  PROVE  /\ Closed(s, "server", abort) \in Streams(Messages)
         /\ Fits(Closed(s, "server", abort), q, "gone", r)
         /\ Closed(s, "server", abort).in["client"] = s.in["client"]
<1>1. /\ Closed(s, "server", abort) \in Streams(Messages)
      /\ Closed(s, "server", abort).open["server"] = FALSE
      /\ Closed(s, "server", abort).open["client"] = s.open["client"]
      /\ Closed(s, "server", abort).in["server"] = <<>>
      /\ Closed(s, "server", abort).in["client"] = s.in["client"]
  BY ServerCloses
<1>2. ~ Closed(s, "server", abort).err["server"]
  BY ClosedParts DEF Ends
<1>3. InStep(q, "gone", s.in["client"], <<>>, r)
  BY DEF Fits, InStep, NothingSent, SentToClient, SentToServer
<1>. QED
  BY <1>1, <1>2, <1>3 DEF Fits

(* The daemon goes on by itself once the client has gone, ... *)
LEMMA Deserted ==
  ASSUME NEW s, NEW q, NEW p, NEW p2, NEW r, Fits(s, q, p, r), p # "gone", p2 # "gone",
         s.in["server"] = <<>>, ~ s.open["client"] \/ s.err["server"]
  PROVE  q = "gone" /\ Fits(s, q, p2, r)
  BY DEF Fits, InStep, NothingSent, SentToClient, SentToServer

(* ... and the client once the daemon has. *)
LEMMA CutOff ==
  ASSUME NEW s, NEW q, NEW p, NEW q2, NEW r, Fits(s, q, p, r), q # "gone", q2 # "gone",
         s.in["client"] = <<>>, ~ s.open["server"] \/ s.err["client"]
  PROVE  p = "gone" /\ Fits(s, q2, p, r)
  BY DEF Fits, InStep, NothingSent, SentToClient, SentToServer

(* A reset that has been seen is over. *)
LEMMA ResetIsSeen ==
  ASSUME NEW s \in Streams(Messages), NEW e \in Ends, NEW q, NEW p, NEW r, Fits(s, q, p, r)
  PROVE  /\ ResetSeen(s, e) \in Streams(Messages)
         /\ Fits(ResetSeen(s, e), q, p, r)
         /\ ResetSeen(s, e).in = s.in
<1>1. /\ ResetSeen(s, e) \in Streams(Messages)
      /\ ResetSeen(s, e).open = s.open /\ ResetSeen(s, e).in = s.in
      /\ ResetSeen(s, e).err[e] = FALSE
      /\ ResetSeen(s, e).err[Peer(e)] = s.err[Peer(e)]
  BY ResetSeenParts
<1>2. \A x \in Ends : x = e \/ x = Peer(e)
  BY DEF Ends, Peer
<1>3. \A x \in Ends : ResetSeen(s, e).err[x] => s.err[x]
  BY <1>1, <1>2, Zenon
<1>. QED
  BY <1>1, <1>3 DEF Fits, Ends

(* What the daemon reads: the command, the identifier to tag, or the       *)
(* derived identifier, of this request.                                    *)
LEMMA DaemonReads ==
  ASSUME NEW s \in Streams(Messages), NEW q, NEW p, NEW r, Fits(s, q, p, r),
         HasData(s, "server")
  PROVE  /\ Consumed(s, "server") \in Streams(Messages)
         /\ Consumed(s, "server").in["client"] = <<>> /\ s.in["client"] = <<>>
         /\ p = "read_cmd" =>
              /\ Data(s, "server").val = r.op
              /\ r.op = "GET" => Fits(Consumed(s, "server"), q, "next_uuid", r)
              /\ r.op # "GET" => Fits(Consumed(s, "server"), q, "write_go1", r)
         /\ p = "read_uuid" =>
              /\ Data(s, "server").val = r.cl_id
              /\ Fits(Consumed(s, "server"), q, "write_go2", r)
         /\ p = "read_derrived" =>
              /\ Data(s, "server").val = r.derrived
              /\ Fits(Consumed(s, "server"), q, "tag_id", r)
<1>1. s.in["server"] # <<>> /\ Data(s, "server") = Head(s.in["server"])
  BY DEF HasData, Data
<1>2. s.in["client"] = <<>> /\ SentToServer(q, p, s.in["server"], r)
  BY <1>1 DEF Fits, InStep
<1>3. PICK m : s.in["server"] = <<m>>
  BY <1>2 DEF SentToServer
<1>4. /\ Consumed(s, "server") \in Streams(Messages)
      /\ Consumed(s, "server").open = s.open /\ Consumed(s, "server").err = s.err
      /\ Consumed(s, "server").in["server"] = <<>>
      /\ Consumed(s, "server").in["client"] = <<>>
      /\ Data(s, "server") = m
  <2>1. Head(s.in["server"]) = m /\ Tail(s.in["server"]) = <<>>
    BY <1>3, OneMessage
  <2>2. /\ Consumed(s, "server") \in Streams(Messages)
        /\ Consumed(s, "server").open = s.open /\ Consumed(s, "server").err = s.err
        /\ Consumed(s, "server").in["server"] = Tail(s.in["server"])
        /\ Consumed(s, "server").in["client"] = s.in["client"]
    BY ServerConsumes
  <2>. QED
    BY <1>1, <1>2, <2>1, <2>2
<1>5. /\ p = "read_cmd" => m = Msg("cmd", r.op) /\ q \in {"read_id", "read_go1", "gone"}
                           /\ (q = "read_id" => r.op = "GET") /\ (q = "read_go1" => r.op # "GET")
      /\ p = "read_uuid" => m = Msg("uuid", r.cl_id) /\ q \in {"read_go2", "gone"}
      /\ p = "read_derrived" => m = Msg("derrived", r.derrived) /\ q \in {"close", "gone"}
  BY <1>2, <1>3, OneMessage DEF SentToServer
<1>6. ASSUME NEW p2, p # "gone", p2 # "gone", NothingSent(q, p2, r)
      PROVE  Fits(Consumed(s, "server"), q, p2, r)
  BY <1>4, <1>6 DEF Fits, InStep
<1>7. p = "read_cmd" => /\ r.op = "GET" => NothingSent(q, "next_uuid", r)
                        /\ r.op # "GET" => NothingSent(q, "write_go1", r)
  BY <1>5 DEF NothingSent
<1>8. /\ p = "read_uuid" => NothingSent(q, "write_go2", r)
      /\ p = "read_derrived" => NothingSent(q, "tag_id", r)
  BY <1>5 DEF NothingSent
<1>. QED
  BY <1>2, <1>4, <1>5, <1>6, <1>7, <1>8 DEF Msg

(* What a client reads, when it waits for an identifier or a continue      *)
(* message: that, and nothing is under way then.                           *)
LEMMA ClientGets ==
  ASSUME NEW s \in Streams(Messages), NEW q, NEW p, NEW r, Fits(s, q, p, r),
         HasData(s, "client")
  PROVE  /\ Consumed(s, "client") \in Streams(Messages)
         /\ Consumed(s, "client").in["client"] = <<>>
         /\ Consumed(s, "client").in["server"] = <<>> /\ s.in["server"] = <<>>
         /\ q = "read_id" =>
              /\ Fits(Consumed(s, "client"), "close", p, r)
              /\ \E id \in AnyId :
                   s.in["client"] = <<Msg("uuid", id)>> /\ Data(s, "client").val = id
         /\ q = "read_go1" => Fits(Consumed(s, "client"), "write_uuid", p, r)
         /\ q = "read_go2" => Fits(Consumed(s, "client"), "write_derrived", p, r)
<1>1. s.in["client"] # <<>> /\ Data(s, "client") = Head(s.in["client"])
  BY DEF HasData, Data
<1>2. s.in["server"] = <<>> /\ SentToClient(q, p, s.in["client"])
  BY <1>1 DEF Fits, InStep
<1>3. PICK m : s.in["client"] = <<m>>
  BY <1>2 DEF SentToClient
<1>4. /\ Consumed(s, "client") \in Streams(Messages)
      /\ Consumed(s, "client").open = s.open /\ Consumed(s, "client").err = s.err
      /\ Consumed(s, "client").in["server"] = <<>>
      /\ Consumed(s, "client").in["client"] = <<>>
      /\ Data(s, "client") = m
  <2>1. Head(s.in["client"]) = m /\ Tail(s.in["client"]) = <<>>
    BY <1>3, OneMessage
  <2>2. /\ Consumed(s, "client") \in Streams(Messages)
        /\ Consumed(s, "client").open = s.open /\ Consumed(s, "client").err = s.err
        /\ Consumed(s, "client").in["client"] = Tail(s.in["client"])
        /\ Consumed(s, "client").in["server"] = s.in["server"]
    BY ClientConsumes
  <2>. QED
    BY <1>1, <1>2, <2>1, <2>2
<1>5. /\ q = "read_id" => /\ p \in {"check_pool", "close", "gone"}
                          /\ \E id \in AnyId : <<m>> = <<Msg("uuid", id)>>
      /\ q = "read_go1" => p \in {"read_uuid", "gone"}
      /\ q = "read_go2" => p \in {"read_derrived", "gone"}
  BY <1>2, <1>3 DEF SentToClient
<1>6. ASSUME NEW q2, q # "gone", q2 # "gone", NothingSent(q2, p, r)
      PROVE  Fits(Consumed(s, "client"), q2, p, r)
  BY <1>4, <1>6 DEF Fits, InStep
<1>7. /\ q = "read_id" => NothingSent("close", p, r)
      /\ q = "read_go1" => NothingSent("write_uuid", p, r)
      /\ q = "read_go2" => NothingSent("write_derrived", p, r)
  BY <1>5 DEF NothingSent
<1>8. q = "read_id" => \E id \in AnyId : <<m>> = <<Msg("uuid", id)>> /\ m.val = id
  BY <1>5, OneMessage DEF Msg
<1>. QED
  BY <1>2, <1>3, <1>4, <1>6, <1>7, <1>8

(* What the daemon writes to a client that is there: what that client is   *)
(* waiting for.                                                            *)
LEMMA DaemonWrites ==
  ASSUME NEW s \in Streams(Messages), NEW q, NEW p, NEW r, NEW m \in Messages, Fits(s, q, p, r),
         ~ Broken(s, "server"), p \in {"write_uuid", "write_go1", "write_go2"}
  PROVE  /\ Written(s, "server", m) \in Streams(Messages) /\ q # "gone"
         /\ s.in["client"] = <<>> /\ Written(s, "server", m).in["client"] = <<m>>
         /\ Written(s, "server", m).in["server"] = <<>>
         /\ p = "write_uuid" /\ (\E id \in AnyId : m = Msg("uuid", id)) =>
              Fits(Written(s, "server", m), q, "check_pool", r)
         /\ p = "write_go1" /\ m = Go => Fits(Written(s, "server", m), q, "read_uuid", r)
         /\ p = "write_go2" =>
              q = "read_go2" /\ (m = Go => Fits(Written(s, "server", m), q, "read_derrived", r))
<1>1. q # "gone"
  BY DEF Broken, Peer, Fits
<1>2. /\ s.in["client"] = <<>> /\ s.in["server"] = <<>>
      /\ p = "write_uuid" => q = "read_id"
      /\ p = "write_go1" => q = "read_go1"
      /\ p = "write_go2" => q = "read_go2"
  BY <1>1 DEF Fits, InStep, NothingSent, SentToClient, SentToServer
<1>3. /\ Written(s, "server", m) \in Streams(Messages)
      /\ Written(s, "server", m).open = s.open
      /\ Written(s, "server", m).in["client"] = <<m>>
      /\ Written(s, "server", m).in["server"] = <<>>
  BY <1>2, ServerWritten, OneMessage
<1>4. Written(s, "server", m).err = s.err
  BY WrittenParts DEF Ends
<1>5. ASSUME NEW p2, p2 # "gone", SentToClient(q, p2, <<m>>)
      PROVE  Fits(Written(s, "server", m), q, p2, r)
  BY <1>1, <1>3, <1>4, <1>5 DEF Fits, InStep
<1>6. /\ p = "write_uuid" /\ (\E id \in AnyId : m = Msg("uuid", id)) =>
           SentToClient(q, "check_pool", <<m>>)
      /\ p = "write_go1" /\ m = Go => SentToClient(q, "read_uuid", <<m>>)
      /\ p = "write_go2" /\ m = Go => SentToClient(q, "read_derrived", <<m>>)
  BY <1>2 DEF SentToClient
<1>. QED
  BY <1>1, <1>2, <1>3, <1>5, <1>6

(* What a client writes to a daemon that is there.                         *)
LEMMA ClientSends ==
  ASSUME NEW s \in Streams(Messages), NEW q, NEW p, NEW r, NEW m \in Messages, Fits(s, q, p, r),
         ~ Broken(s, "client"), q \in {"write_cmd", "write_uuid", "write_derrived"}
  PROVE  /\ Written(s, "client", m) \in Streams(Messages) /\ p # "gone"
         /\ s.in["client"] = <<>> /\ Written(s, "client", m).in["client"] = <<>>
         /\ q = "write_cmd" /\ m = Msg("cmd", r.op) =>
              /\ r.op = "GET" => Fits(Written(s, "client", m), "read_id", p, r)
              /\ r.op # "GET" => Fits(Written(s, "client", m), "read_go1", p, r)
         /\ q = "write_uuid" /\ m = Msg("uuid", r.cl_id) =>
              Fits(Written(s, "client", m), "read_go2", p, r)
         /\ q = "write_derrived" /\ m = Msg("derrived", r.derrived) =>
              Fits(Written(s, "client", m), "close", p, r)
<1>1. p # "gone" /\ q # "gone"
  BY DEF Broken, Peer, Fits
<1>2. /\ s.in["client"] = <<>> /\ s.in["server"] = <<>>
      /\ q = "write_cmd" => p = "read_cmd"
      /\ q = "write_uuid" => p = "read_uuid"
      /\ q = "write_derrived" => p = "read_derrived"
  BY <1>1 DEF Fits, InStep, NothingSent, SentToClient, SentToServer
<1>3. /\ Written(s, "client", m) \in Streams(Messages)
      /\ Written(s, "client", m).open = s.open
      /\ Written(s, "client", m).in["client"] = <<>>
      /\ Written(s, "client", m).in["server"] = <<m>>
  BY <1>2, ClientWritten, OneMessage
<1>4. Written(s, "client", m).err = s.err
  BY WrittenParts DEF Ends
<1>5. ASSUME NEW q2, q2 # "gone", SentToServer(q2, p, <<m>>, r)
      PROVE  Fits(Written(s, "client", m), q2, p, r)
  BY <1>1, <1>3, <1>4, <1>5 DEF Fits, InStep
<1>6. /\ q = "write_cmd" /\ m = Msg("cmd", r.op) =>
           /\ r.op = "GET" => SentToServer("read_id", p, <<m>>, r)
           /\ r.op # "GET" => SentToServer("read_go1", p, <<m>>, r)
      /\ q = "write_uuid" /\ m = Msg("uuid", r.cl_id) => SentToServer("read_go2", p, <<m>>, r)
      /\ q = "write_derrived" /\ m = Msg("derrived", r.derrived) =>
           SentToServer("close", p, <<m>>, r)
  BY <1>2 DEF SentToServer
<1>. QED
  BY <1>1, <1>2, <1>3, <1>5, <1>6

(* A derived identifier of no bytes is sent by sending nothing.            *)
LEMMA NothingToSend ==
  ASSUME NEW s, NEW p, NEW r, Fits(s, "write_derrived", p, r), ~ Broken(s, "client"),
         r.derrived = <<>>
  PROVE  Fits(s, "close", p, r) /\ s.in["client"] = <<>>
  BY DEF Fits, InStep, NothingSent, SentToClient, SentToServer, Broken, Peer

(* The daemon's steps that are neither a read nor a write.                 *)
LEMMA DaemonGoesOn ==
  ASSUME NEW s, NEW q, NEW p, NEW r, Fits(s, q, p, r)
  PROVE  /\ p = "next_uuid" => Fits(s, q, "write_uuid", r)
         /\ p \in {"check_pool", "tag_id"} => Fits(s, q, "close", r)
  BY DEF Fits, InStep, NothingSent, SentToClient, SentToServer

-------------------------------------------------------------------------------
(* The connections as the lemmas above see them.                           *)
LEMMA FitsAll ==
  Ended /\ Protocol <=> \A k \in Calls : Fits(conn[k], ClientAt(k), ServerAt(k), Request(k))
  BY Zenon DEF Ended, Protocol, Fits

(* Facts every step needs.                                                 *)
LEMMA Basics ==
  ASSUME ServiceInv
  PROVE  /\ NoCall \notin Calls
         /\ \A k \in Calls : k = <<k[1], k[2]>> /\ k[1] \in Clients /\ k[2] \in Nat /\ k[2] # 0
         /\ \A k \in Calls : /\ conn[k] \in Streams(Messages)
                             /\ Fits(conn[k], ClientAt(k), ServerAt(k), Request(k))
         /\ \A c \in Clients : cl[c] \in ClientTypes /\ Len(cl[c].reqs) \in Nat
<1>1. \A k \in Calls : k = <<k[1], k[2]>> /\ k[1] \in Clients /\ k[2] \in Nat /\ k[2] # 0
  BY BoundsAssumption DEF Calls
<1>2. NoCall \notin Calls
  BY <1>1 DEF NoCall
<1>3. \A k \in Calls : /\ conn[k] \in Streams(Messages)
                       /\ Fits(conn[k], ClientAt(k), ServerAt(k), Request(k))
  BY FitsAll DEF ServiceInv, Typed
<1>4. \A c \in Clients : cl[c] \in ClientTypes /\ Len(cl[c].reqs) \in Nat
  BY DEF ServiceInv, Typed, ClientTypes
<1>. QED
  BY <1>1, <1>2, <1>3, <1>4

(* The call that a client is in.                                           *)
LEMMA ThisCall ==
  ASSUME ServiceInv, NEW c \in Clients, cl[c].pc \notin {"idle", "dead"}
  PROVE  /\ Call(c) \in Calls /\ Call(c)[1] = c /\ Call(c)[2] = Len(cl[c].reqs)
         /\ ClientAt(Call(c)) = IF cl[c].sock THEN cl[c].pc ELSE "gone"
         /\ Request(Call(c)) = Req(c) /\ Req(c) \in RequestType
         /\ Stream(c) = conn[Call(c)]
<1>1. cl[c].reqs \in Seq(RequestType) /\ cl[c].reqs # <<>> /\ Len(cl[c].reqs) <= MaxCalls
  BY Basics DEF ServiceInv, Applications, ClientTypes
<1>2. Len(cl[c].reqs) \in 1 .. MaxCalls
  BY <1>1, BoundsAssumption, EmptySeq, LenProperties
<1>3. Call(c) \in Calls /\ Call(c)[1] = c /\ Call(c)[2] = Len(cl[c].reqs)
  BY <1>2 DEF Call, Calls
<1>4. Req(c) = cl[c].reqs[Len(cl[c].reqs)] /\ Req(c) \in RequestType
  BY <1>1, <1>2, ElementOfSeq DEF Req, Last
<1>. QED
  BY <1>3, <1>4 DEF ClientAt, Request, Stream

-------------------------------------------------------------------------------
(* A client's record with fields replaced, written out.                    *)
LEMMA ClientRecord ==
  ASSUME NEW e \in ClientTypes, NEW pc
  PROVE  /\ [e EXCEPT !.pc = pc] = [pc |-> pc, reqs |-> e.reqs, sock |-> e.sock, ids |-> e.ids]
         /\ \A sock : [e EXCEPT !.pc = pc, !.sock = sock]
                        = [pc |-> pc, reqs |-> e.reqs, sock |-> sock, ids |-> e.ids]
         /\ \A ids : [e EXCEPT !.ids = ids, !.pc = pc]
                       = [pc |-> pc, reqs |-> e.reqs, sock |-> e.sock, ids |-> ids]
<1>1. ASSUME NEW f, DOMAIN f = DOMAIN e, NEW x
      PROVE /\ [f EXCEPT !.pc = x] = [pc |-> x, reqs |-> f.reqs, sock |-> f.sock, ids |-> f.ids]
            /\ [f EXCEPT !.sock = x] = [pc |-> f.pc, reqs |-> f.reqs, sock |-> x, ids |-> f.ids]
            /\ [f EXCEPT !.ids = x] = [pc |-> f.pc, reqs |-> f.reqs, sock |-> f.sock, ids |-> x]
  BY <1>1 DEF ClientTypes
<1>2. [e EXCEPT !.pc = pc] = [pc |-> pc, reqs |-> e.reqs, sock |-> e.sock, ids |-> e.ids]
  BY <1>1
<1>3. ASSUME NEW sock
      PROVE  [e EXCEPT !.pc = pc, !.sock = sock]
               = [pc |-> pc, reqs |-> e.reqs, sock |-> sock, ids |-> e.ids]
  <2>. DEFINE f == [e EXCEPT !.pc = pc]
  <2>1. DOMAIN f = DOMAIN e /\ f.pc = pc /\ f.reqs = e.reqs /\ f.ids = e.ids
    BY <1>2
  <2>2. [f EXCEPT !.sock = sock] = [pc |-> f.pc, reqs |-> f.reqs, sock |-> sock, ids |-> f.ids]
    BY <1>1, <2>1
  <2>. QED
    BY <2>1, <2>2
<1>4. ASSUME NEW ids
      PROVE  [e EXCEPT !.ids = ids, !.pc = pc]
               = [pc |-> pc, reqs |-> e.reqs, sock |-> e.sock, ids |-> ids]
  <2>. DEFINE f == [e EXCEPT !.ids = ids]
  <2>1. f = [pc |-> e.pc, reqs |-> e.reqs, sock |-> e.sock, ids |-> ids]
    BY <1>1
  <2>2. DOMAIN f = DOMAIN e /\ f.sock = e.sock /\ f.reqs = e.reqs /\ f.ids = ids
    BY <2>1
  <2>3. [f EXCEPT !.pc = pc] = [pc |-> pc, reqs |-> f.reqs, sock |-> f.sock, ids |-> f.ids]
    BY <1>1, <2>2
  <2>. QED
    BY <2>2, <2>3
<1>. QED
  BY <1>2, <1>3, <1>4

LEMMA ClientRequest ==
  ASSUME NEW e \in ClientTypes, NEW pc, NEW reqs
  PROVE  [e EXCEPT !.reqs = reqs, !.pc = pc]
           = [pc |-> pc, reqs |-> reqs, sock |-> e.sock, ids |-> e.ids]
<1>. DEFINE f == [e EXCEPT !.reqs = reqs]
<1>1. f = [pc |-> e.pc, reqs |-> reqs, sock |-> e.sock, ids |-> e.ids]
  BY DEF ClientTypes
<1>2. DOMAIN f = DOMAIN e /\ f.sock = e.sock /\ f.reqs = reqs /\ f.ids = e.ids
  BY <1>1 DEF ClientTypes
<1>3. [f EXCEPT !.pc = pc] = [pc |-> pc, reqs |-> f.reqs, sock |-> f.sock, ids |-> f.ids]
  <2>1. ASSUME NEW g, DOMAIN g = DOMAIN e
        PROVE  [g EXCEPT !.pc = pc] = [pc |-> pc, reqs |-> g.reqs, sock |-> g.sock, ids |-> g.ids]
    BY <2>1 DEF ClientTypes
  <2>. QED
    BY <1>2, <2>1
<1>. QED
  BY <1>2, <1>3

(* What a step of a client's library does, connect() apart: the client     *)
(* goes to pc, with or without its socket, having returned ids; the        *)
(* connection of its call becomes s.                                       *)
WhereOp(r, pc) ==
  /\ pc = "read_id" => r.op = "GET"
  /\ pc \in {"read_go1", "write_uuid", "read_go2", "write_derrived"} => r.op = "TAG"

\* What it returns: nothing; an answer; after a read of nothing, an old one.
Returns(c, ids, s) ==
  \/ ids = cl[c].ids /\ s.in["client"] \in {Stream(c).in["client"], <<>>}
  \/ /\ s.in["client"] = <<>>
     /\ \E id \in AnyId : Carries(Call(c), id) /\ ids = Append(cl[c].ids, id)
  \/ /\ s.in["client"] = Stream(c).in["client"] /\ kills # 0
     /\ \E id \in Returned(c) \cup {NoId} : ids = Append(cl[c].ids, id)

ClientMove(c, pc, sock, ids, s) ==
  /\ cl' = [cl EXCEPT ![c] = [pc |-> pc, reqs |-> cl[c].reqs, sock |-> sock, ids |-> ids]]
  /\ conn' = [conn EXCEPT ![Call(c)] = s]
  /\ UNCHANGED <<clientRest, backlog>> /\ crashes' \in 0 .. MaxCrashes
  /\ cl[c].pc \notin {"idle", "dead"} /\ pc # "connect"
  /\ pc \in {"idle", "dead"} => ~ sock
  /\ WhereOp(Req(c), pc)
  /\ sock => cl[c].sock
  /\ ~ cl[c].sock => s = Stream(c)
  /\ Fits(s, IF sock THEN pc ELSE "gone", ServerAt(Call(c)), Req(c))
  /\ (cl[c].sock /\ ~ sock /\ pc # "dead" /\ ServerAt(Call(c)) = "read_derrived"
        /\ s.in["server"] = <<>>) => Req(c).derrived = <<>>
  /\ pc = "read_id" /\ sock => ServerAt(Call(c)) # "gone"
  /\ Returns(c, ids, s)

ClientMoves(c) ==
  \E pc \in ClientPcs, sock \in BOOLEAN, ids \in Seq(AnyId), s \in Streams(Messages) :
    ClientMove(c, pc, sock, ids, s)

(* A client that shuts its end: at the end of its call, because it dies,   *)
(* or because the daemon has shut the other.                               *)
LEMMA HangsUp ==
  ASSUME ServiceInv, NEW c \in Clients, cl[c].pc \notin {"idle", "dead"},
         NEW next \in ClientPcs \ {"connect"}, HangUp(c, next), WhereOp(Req(c), next),
         UNCHANGED <<clientRest, backlog>>, crashes' \in 0 .. MaxCrashes,
         \/ next = "dead"
         \/ cl[c].pc = "close"
         \/ cl[c].sock => Broken(Stream(c), "client") \/ IsReset(Stream(c), "client")
  PROVE  ClientMoves(c)
<1>1. /\ Call(c) \in Calls /\ Stream(c) = conn[Call(c)] /\ Stream(c) \in Streams(Messages)
      /\ Fits(Stream(c), IF cl[c].sock THEN cl[c].pc ELSE "gone", ServerAt(Call(c)), Req(c))
      /\ cl[c] \in ClientTypes /\ conn \in [Calls -> Streams(Messages)]
  BY ThisCall, Basics DEF ServiceInv, Typed
<1>2. cl' = [cl EXCEPT ![c] = [pc |-> next, reqs |-> cl[c].reqs, sock |-> FALSE, ids |-> cl[c].ids]]
  <2>1. cl' = [cl EXCEPT ![c] = [cl[c] EXCEPT !.pc = next, !.sock = FALSE]]
    BY DEF HangUp
  <2>2. [cl[c] EXCEPT !.pc = next, !.sock = FALSE]
          = [pc |-> next, reqs |-> cl[c].reqs, sock |-> FALSE, ids |-> cl[c].ids]
    BY <1>1, ClientRecord
  <2>. QED
    BY <2>1, <2>2
<1>3. PICK s \in Streams(Messages) :
        /\ conn' = [conn EXCEPT ![Call(c)] = s]
        /\ Fits(s, "gone", ServerAt(Call(c)), Req(c))
        /\ s.in["client"] \in {Stream(c).in["client"], <<>>}
        /\ s.in["server"] = Stream(c).in["server"]
        /\ ~ cl[c].sock => s = Stream(c)
  <2>1. CASE cl[c].sock
    BY <1>1, <2>1, ClientShuts DEF HangUp
  <2>2. CASE ~ cl[c].sock
    <3>1. conn' = [conn EXCEPT ![Call(c)] = Stream(c)]
      BY <1>1, <2>2 DEF HangUp
    <3>. QED
      BY <1>1, <2>2, <3>1
  <2>. QED
    BY <2>1, <2>2
<1>4. ASSUME cl[c].sock, next # "dead", ServerAt(Call(c)) = "read_derrived",
             s.in["server"] = <<>>
      PROVE  Req(c).derrived = <<>>
  <2>1. cl[c].pc = "close"
    BY <1>1, <1>4 DEF Fits, Broken, IsReset, Peer
  <2>. QED
    BY <1>1, <1>3, <1>4, <2>1 DEF Fits, InStep, NothingSent, SentToClient, SentToServer
<1>5. ClientMove(c, next, FALSE, cl[c].ids, s)
  BY <1>1, <1>2, <1>3, <1>4 DEF ClientMove, Returns
<1>. QED
  BY <1>1, <1>5 DEF ClientMoves, ClientTypes

(* A client that goes on.                                                  *)
LEMMA GoesOn ==
  ASSUME ServiceInv, NEW c \in Clients, cl[c].pc \notin {"idle", "dead"}, cl[c].sock,
         NEW pc \in ClientPcs \ {"connect", "idle", "dead"}, WhereOp(Req(c), pc),
         NEW s \in Streams(Messages), NEW ids \in Seq(AnyId), Returns(c, ids, s),
         cl' = [cl EXCEPT ![c] = [pc |-> pc, reqs |-> cl[c].reqs, sock |-> cl[c].sock, ids |-> ids]],
         conn' = [conn EXCEPT ![Call(c)] = s],
         UNCHANGED <<clientRest, backlog, crashes>>,
         Fits(s, pc, ServerAt(Call(c)), Req(c)),
         pc = "read_id" => ServerAt(Call(c)) # "gone"
  PROVE  ClientMoves(c)
<1>1. cl[c] \in ClientTypes /\ crashes \in 0 .. MaxCrashes
  BY Basics DEF ServiceInv, Typed
<1>2. cl[c].sock \in BOOLEAN
  BY <1>1 DEF ClientTypes
<1>3. ClientMove(c, pc, cl[c].sock, ids, s)
  BY <1>1 DEF ClientMove
<1>. QED
  BY <1>2, <1>3 DEF ClientMoves

(* The same for a step of its program counter only. *)
LEMMA StepsOn ==
  ASSUME ServiceInv, NEW c \in Clients, cl[c].pc \notin {"idle", "dead"}, cl[c].sock,
         NEW pc \in ClientPcs \ {"connect", "idle", "dead"}, WhereOp(Req(c), pc),
         NEW s \in Streams(Messages), s.in["client"] \in {Stream(c).in["client"], <<>>},
         Step(c, pc),
         conn' = [conn EXCEPT ![Call(c)] = s],
         UNCHANGED <<clientRest, backlog, crashes>>,
         Fits(s, pc, ServerAt(Call(c)), Req(c)),
         pc = "read_id" => ServerAt(Call(c)) # "gone"
  PROVE  ClientMoves(c)
<1>1. cl[c] \in ClientTypes
  BY Basics
<1>2. cl[c].ids \in Seq(AnyId) /\ Returns(c, cl[c].ids, s)
  BY <1>1 DEF ClientTypes, Returns
<1>3. cl' = [cl EXCEPT ![c] = [pc |-> pc, reqs |-> cl[c].reqs, sock |-> cl[c].sock,
                               ids |-> cl[c].ids]]
  <2>1. cl' = [cl EXCEPT ![c] = [cl[c] EXCEPT !.pc = pc]]
    BY DEF Step
  <2>. QED
    BY <1>1, <2>1, ClientRecord
<1>. QED
  BY <1>2, <1>3, GoesOn

(* The connection of a client that has its socket. *)
LEMMA Talking ==
  ASSUME ServiceInv, NEW c \in Clients, cl[c].pc \notin {"idle", "dead"}
  PROVE  /\ Stream(c) \in Streams(Messages) /\ Stream(c) = conn[Call(c)]
         /\ conn = [conn EXCEPT ![Call(c)] = Stream(c)]
         /\ Req(c).op \in {"GET", "TAG"}
         /\ Req(c).op = "TAG" => Req(c).cl_id \in ClIds /\ Req(c).derrived \in Strings
         /\ cl[c].sock => Fits(Stream(c), cl[c].pc, ServerAt(Call(c)), Req(c))
<1>1. conn \in [Calls -> Streams(Messages)] /\ Call(c) \in Calls /\ Stream(c) = conn[Call(c)]
  BY ThisCall DEF ServiceInv, Typed
<1>2. cl[c].sock => Fits(Stream(c), cl[c].pc, ServerAt(Call(c)), Req(c))
  BY <1>1, ThisCall, Basics
<1>. QED
  BY <1>1, <1>2, ThisCall DEF RequestType

(* A write of a client that fails. *)
LEMMA ClientWriteFails ==
  ASSUME ServiceInv, NEW c \in Clients, NEW here \in ClientPcs \ {"idle", "dead"}, NEW msgs,
         NEW next \in ClientPcs \ {"connect", "idle", "dead"},
         ClientWrites(c, here, msgs, next), Req(c).op = "TAG" => WhereOp(Req(c), next),
         ~ (cl[c].sock /\ ~ Broken(Stream(c), "client"))
  PROVE  ClientMoves(c)
<1>1. cl[c].pc \notin {"idle", "dead"} /\ UNCHANGED <<clientRest, backlog, crashes>>
  BY DEF ClientWrites
<1>2. crashes' \in 0 .. MaxCrashes
  BY <1>1 DEF ServiceInv, Typed
<1>3. CASE (cl[c].sock => Broken(Stream(c), "client")) /\ Fails(c, next)
  <2>1. HangUp(c, IF Req(c).op = "GET" THEN "idle" ELSE next)
    BY <1>3 DEF Fails
  <2>2. (IF Req(c).op = "GET" THEN "idle" ELSE next) \in ClientPcs \ {"connect"}
    BY DEF ClientPcs
  <2>3. WhereOp(Req(c), IF Req(c).op = "GET" THEN "idle" ELSE next)
    BY <1>1, Talking DEF WhereOp
  <2>. QED
    BY <1>1, <1>2, <1>3, <2>1, <2>2, <2>3, HangsUp
<1>4. CASE HangUp(c, "dead")
  <2>1. "dead" \in ClientPcs \ {"connect"} /\ WhereOp(Req(c), "dead")
    BY DEF ClientPcs, WhereOp
  <2>. QED
    BY <1>1, <1>2, <1>4, <2>1, HangsUp
<1>. QED
  BY <1>3, <1>4 DEF ClientWrites

(* A read of a client that fails. *)
LEMMA ClientReadFails ==
  ASSUME ServiceInv, NEW c \in Clients, cl[c].pc \notin {"idle", "dead"},
         NEW next \in ClientPcs \ {"connect", "idle", "dead"},
         UNCHANGED <<clientRest, backlog, crashes>>,
         cl[c].sock => IsReset(Stream(c), "client"), Fails(c, next),
         Req(c).op = "TAG" => WhereOp(Req(c), next)
  PROVE  ClientMoves(c)
<1>1. HangUp(c, IF Req(c).op = "GET" THEN "idle" ELSE next)
  BY DEF Fails
<1>2. (IF Req(c).op = "GET" THEN "idle" ELSE next) \in ClientPcs \ {"connect"}
  BY DEF ClientPcs
<1>3. WhereOp(Req(c), IF Req(c).op = "GET" THEN "idle" ELSE next)
  BY Talking DEF WhereOp
<1>4. crashes' \in 0 .. MaxCrashes
  BY DEF ServiceInv, Typed
<1>. QED
  BY <1>1, <1>2, <1>3, <1>4, HangsUp

(* connect() succeeded: the command is sent. *)
LEMMA CommandSent == ASSUME ServiceInv, NEW c \in Clients, WriteCommand(c) PROVE ClientMoves(c)
<1>. DEFINE op == Req(c).op
            next == IF op = "GET" THEN "read_id" ELSE "read_go1"
            m == Msg("cmd", op)
<1>1. ClientWrites(c, "write_cmd", <<m>>, next)
  BY DEF WriteCommand
<1>2. cl[c].pc = "write_cmd" /\ "write_cmd" \in ClientPcs \ {"idle", "dead"}
  BY <1>1 DEF ClientWrites, ClientPcs
<1>3. /\ op \in {"GET", "TAG"} /\ WhereOp(Req(c), next) /\ m \in Messages
      /\ next \in ClientPcs \ {"connect", "idle", "dead"}
  BY <1>2, Talking DEF WhereOp, Msg, Messages, ClientPcs
<1>. HIDE DEF next, m
<1>4. CASE cl[c].sock /\ ~ Broken(Stream(c), "client")
  <2>1. /\ conn' = [conn EXCEPT ![Call(c)] = Written(Stream(c), "client", m)]
        /\ Step(c, next) /\ UNCHANGED <<clientRest, backlog, crashes>>
    BY <1>1, <1>4, OneMessage DEF ClientWrites, Fails, HangUp, Stream
  <2>2. /\ Stream(c) \in Streams(Messages)
        /\ Fits(Stream(c), "write_cmd", ServerAt(Call(c)), Req(c))
    BY <1>2, <1>4, Talking
  <2>3. /\ Written(Stream(c), "client", m) \in Streams(Messages) /\ ServerAt(Call(c)) # "gone"
        /\ Written(Stream(c), "client", m).in["client"] = <<>>
        /\ Fits(Written(Stream(c), "client", m), next, ServerAt(Call(c)), Req(c))
    BY <1>3, <1>4, <2>2, ClientSends DEF m, next
  <2>. QED
    BY <1>2, <1>3, <1>4, <2>1, <2>3, StepsOn
<1>. QED
  BY <1>1, <1>2, <1>3, <1>4, ClientWriteFails

(* The identifier to tag, once the daemon has asked for it. *)
LEMMA ClIdSent == ASSUME ServiceInv, NEW c \in Clients, WriteClId(c) PROVE ClientMoves(c)
<1>. DEFINE m == Msg("uuid", Req(c).cl_id)
<1>1. ClientWrites(c, "write_uuid", <<m>>, "read_go2")
  BY DEF WriteClId
<1>2. /\ cl[c].pc = "write_uuid" /\ "write_uuid" \in ClientPcs \ {"idle", "dead"}
      /\ "read_go2" \in ClientPcs \ {"connect", "idle", "dead"}
  BY <1>1 DEF ClientWrites, ClientPcs
<1>3. Req(c).op = "TAG" /\ WhereOp(Req(c), "read_go2") /\ Req(c).cl_id \in ClIds
  BY <1>2, Talking DEF WhereOp, ServiceInv, Applications
<1>4. m \in Messages
  BY <1>3 DEF Msg, Messages, AnyId
<1>. HIDE DEF m
<1>5. CASE cl[c].sock /\ ~ Broken(Stream(c), "client")
  <2>1. /\ conn' = [conn EXCEPT ![Call(c)] = Written(Stream(c), "client", m)]
        /\ Step(c, "read_go2") /\ UNCHANGED <<clientRest, backlog, crashes>>
    BY <1>1, <1>5, OneMessage DEF ClientWrites, Fails, HangUp, Stream
  <2>2. /\ Stream(c) \in Streams(Messages)
        /\ Fits(Stream(c), "write_uuid", ServerAt(Call(c)), Req(c))
    BY <1>2, <1>5, Talking
  <2>3. /\ Written(Stream(c), "client", m) \in Streams(Messages)
        /\ Written(Stream(c), "client", m).in["client"] = <<>>
        /\ Fits(Written(Stream(c), "client", m), "read_go2", ServerAt(Call(c)), Req(c))
    BY <1>4, <1>5, <2>2, ClientSends DEF m
  <2>. QED
    BY <1>2, <1>3, <1>5, <2>1, <2>3, StepsOn
<1>. QED
  BY <1>1, <1>2, <1>3, <1>5, ClientWriteFails

(* The derived identifier, if it has any bytes. *)
LEMMA DerrivedSent == ASSUME ServiceInv, NEW c \in Clients, WriteDerrived(c) PROVE ClientMoves(c)
<1>. DEFINE name == Req(c).derrived
            m == Msg("derrived", name)
            msgs == IF name = <<>> THEN <<>> ELSE <<m>>
<1>1. ClientWrites(c, "write_derrived", msgs, "close")
  BY DEF WriteDerrived
<1>2. /\ cl[c].pc = "write_derrived" /\ "write_derrived" \in ClientPcs \ {"idle", "dead"}
      /\ "close" \in ClientPcs \ {"connect", "idle", "dead"}
  BY <1>1 DEF ClientWrites, ClientPcs
<1>3. Req(c).op = "TAG" /\ WhereOp(Req(c), "close") /\ name \in Strings
  BY <1>2, Talking DEF WhereOp, ServiceInv, Applications
<1>4. m \in Messages
  BY <1>3 DEF Msg, Messages
<1>5. name = <<>> <=> msgs = <<>>
  BY OneMessage
<1>6. name # <<>> => msgs[1] = m
  OBVIOUS
<1>. HIDE DEF m, msgs
<1>7. CASE cl[c].sock /\ ~ Broken(Stream(c), "client")
  <2>1. /\ conn' = [conn EXCEPT ![Call(c)] = IF msgs = <<>> THEN Stream(c)
                                             ELSE Written(Stream(c), "client", msgs[1])]
        /\ Step(c, "close") /\ UNCHANGED <<clientRest, backlog, crashes>>
    BY <1>1, <1>7 DEF ClientWrites, Fails, HangUp, Stream
  <2>2. /\ Stream(c) \in Streams(Messages)
        /\ Fits(Stream(c), "write_derrived", ServerAt(Call(c)), Req(c))
    BY <1>2, <1>7, Talking
  <2>3. CASE name = <<>>
    <3>1. /\ Fits(Stream(c), "close", ServerAt(Call(c)), Req(c))
          /\ conn' = [conn EXCEPT ![Call(c)] = Stream(c)]
      BY <1>5, <1>7, <2>1, <2>2, <2>3, NothingToSend
    <3>. QED
      BY <1>2, <1>3, <1>7, <2>1, <2>2, <3>1, StepsOn
  <2>4. CASE name # <<>>
    <3>1. /\ Written(Stream(c), "client", m) \in Streams(Messages)
          /\ Written(Stream(c), "client", m).in["client"] = <<>>
          /\ Fits(Written(Stream(c), "client", m), "close", ServerAt(Call(c)), Req(c))
      BY <1>4, <1>7, <2>2, ClientSends DEF m
    <3>2. conn' = [conn EXCEPT ![Call(c)] = Written(Stream(c), "client", m)]
      BY <1>5, <1>6, <2>1, <2>4
    <3>. QED
      BY <1>2, <1>3, <1>7, <2>1, <3>1, <3>2, StepsOn
  <2>. QED
    BY <2>3, <2>4
<1>. QED
  BY <1>1, <1>2, <1>3, <1>7, ClientWriteFails

(* A continue message, whose absence goes unnoticed. *)
LEMMA GoRead ==
  ASSUME ServiceInv, NEW c \in Clients, NEW here, NEW next,
         \/ here = "read_go1" /\ next = "write_uuid"
         \/ here = "read_go2" /\ next = "write_derrived",
         ReadGo(c, here, next)
  PROVE  ClientMoves(c)
<1>1. /\ cl[c].pc = here /\ here \notin {"idle", "dead"} /\ here \in {"read_go1", "read_go2"}
      /\ next \in ClientPcs \ {"connect", "idle", "dead"}
      /\ UNCHANGED <<clientRest, backlog, crashes>>
  BY DEF ReadGo, ClientReads, ClientPcs
<1>2. Req(c).op = "TAG" /\ WhereOp(Req(c), next)
  BY <1>1, Talking DEF WhereOp, ServiceInv, Applications
<1>3. /\ Stream(c) \in Streams(Messages) /\ conn = [conn EXCEPT ![Call(c)] = Stream(c)]
      /\ cl[c].sock => Fits(Stream(c), here, ServerAt(Call(c)), Req(c))
  BY <1>1, Talking
<1>4. CASE cl[c].sock /\ HasData(Stream(c), "client") /\ Step(c, next)
           /\ conn' = [conn EXCEPT ![Call(c)] = Consumed(Stream(c), "client")]
  <2>1. /\ Consumed(Stream(c), "client") \in Streams(Messages)
        /\ Consumed(Stream(c), "client").in["client"] = <<>>
        /\ Fits(Consumed(Stream(c), "client"), next, ServerAt(Call(c)), Req(c))
    BY <1>3, <1>4, ClientGets
  <2>. QED
    BY <1>1, <1>2, <1>4, <2>1, StepsOn
<1>5. CASE cl[c].sock /\ AtEof(Stream(c), "client") /\ Step(c, next) /\ UNCHANGED conn
  <2>1. Stream(c).in["client"] = <<>> /\ ~ Stream(c).open["server"]
    BY <1>5 DEF AtEof, Broken, Peer
  <2>2. Fits(Stream(c), next, ServerAt(Call(c)), Req(c))
    BY <1>1, <1>3, <1>5, <2>1, CutOff
  <2>. QED
    BY <1>1, <1>2, <1>3, <1>5, <2>2, StepsOn
<1>6. CASE (cl[c].sock => IsReset(Stream(c), "client")) /\ Fails(c, next)
  BY <1>1, <1>2, <1>6, ClientReadFails
<1>. QED
  BY <1>4, <1>5, <1>6 DEF ReadGo, ClientReads, NoGo, Stream

(* The answer of get_new_id. *)
LEMMA IdRead == ASSUME ServiceInv, NEW c \in Clients, ReadId(c) PROVE ClientMoves(c)
<1>. DEFINE Got(id) == cl' = [cl EXCEPT ![c].ids = Append(@, id), ![c].pc = "close"]
<1>1. /\ cl[c].pc = "read_id" /\ UNCHANGED <<clientRest, backlog, crashes>>
      /\ "close" \in ClientPcs \ {"connect", "idle", "dead"}
  BY DEF ReadId, ClientReads, ClientPcs
<1>2. /\ Stream(c) \in Streams(Messages) /\ conn = [conn EXCEPT ![Call(c)] = Stream(c)]
      /\ cl[c].sock => Fits(Stream(c), "read_id", ServerAt(Call(c)), Req(c))
      /\ Req(c).op = "GET" /\ WhereOp(Req(c), "close")
      /\ Call(c) \in Calls /\ Stream(c) = conn[Call(c)]
      /\ cl[c] \in ClientTypes
  BY <1>1, Talking, ThisCall, Basics DEF WhereOp, ServiceInv, Applications
<1>3. ASSUME NEW id \in AnyId, Got(id)
      PROVE  /\ Append(cl[c].ids, id) \in Seq(AnyId)
             /\ cl' = [cl EXCEPT ![c] = [pc |-> "close", reqs |-> cl[c].reqs, sock |-> cl[c].sock,
                                         ids |-> Append(cl[c].ids, id)]]
  <2>1. cl' = [cl EXCEPT ![c] = [cl[c] EXCEPT !.ids = Append(cl[c].ids, id), !.pc = "close"]]
    BY <1>3
  <2>2. cl[c].ids \in Seq(AnyId)
    BY <1>2 DEF ClientTypes
  <2>3. Append(cl[c].ids, id) \in Seq(AnyId)
    BY <2>2, AppendEntry
  <2>4. \A ids : [cl[c] EXCEPT !.ids = ids, !.pc = "close"]
                   = [pc |-> "close", reqs |-> cl[c].reqs, sock |-> cl[c].sock, ids |-> ids]
    <3>1. cl[c] \in ClientTypes
      BY <1>2
    <3>. QED
      BY <3>1, ClientRecord
  <2>5. [cl[c] EXCEPT !.ids = Append(cl[c].ids, id), !.pc = "close"]
          = [pc |-> "close", reqs |-> cl[c].reqs, sock |-> cl[c].sock,
             ids |-> Append(cl[c].ids, id)]
    BY <2>4, Zenon
  <2>. QED
    BY <2>1, <2>3, <2>5, Zenon
<1>4. CASE cl[c].sock /\ HasData(Stream(c), "client") /\ Got(Data(Stream(c), "client").val)
           /\ conn' = [conn EXCEPT ![Call(c)] = Consumed(Stream(c), "client")]
  <2>1. /\ Consumed(Stream(c), "client") \in Streams(Messages)
        /\ Consumed(Stream(c), "client").in["client"] = <<>>
        /\ Fits(Consumed(Stream(c), "client"), "close", ServerAt(Call(c)), Req(c))
    BY <1>2, <1>4, ClientGets
  <2>2. PICK id \in AnyId :
          Stream(c).in["client"] = <<Msg("uuid", id)>> /\ Data(Stream(c), "client").val = id
    BY <1>2, <1>4, ClientGets
  <2>3. Carries(Call(c), id)
    BY <1>2, <2>2 DEF Carries
  <2>4. Returns(c, Append(cl[c].ids, id), Consumed(Stream(c), "client"))
    BY <2>1, <2>3 DEF Returns
  <2>. QED
    BY <1>1, <1>2, <1>3, <1>4, <2>1, <2>2, <2>4, GoesOn
<1>5. CASE cl[c].sock /\ AtEof(Stream(c), "client") /\ UNCHANGED conn
           /\ \E stale \in Range(cl[c].ids) \cup {NoId} : Got(stale)
  <2>1. Stream(c).in["client"] = <<>> /\ ~ Stream(c).open["server"]
    BY <1>5 DEF AtEof, Broken, Peer
  <2>2. /\ Fits(Stream(c), "close", ServerAt(Call(c)), Req(c))
        /\ ServerAt(Call(c)) = "gone"
    BY <1>1, <1>2, <1>5, <2>1, CutOff
  <2>3. ClientAt(Call(c)) = "read_id"
    BY <1>1, <1>5, ThisCall
  <2>4. kills # 0
    BY <1>2, <2>1, <2>2, <2>3 DEF ServiceInv, Answered
  <2>5. PICK stale \in Returned(c) \cup {NoId} : Got(stale)
    BY <1>5 DEF Returned
  <2>6. stale \in AnyId
    <3>1. cl[c].ids \in Seq(AnyId)
      BY <1>2 DEF ClientTypes
    <3>. QED
      BY <3>1 DEF Returned, Range, AnyId
  <2>7. Returns(c, Append(cl[c].ids, stale), Stream(c))
    BY <2>4 DEF Returns
  <2>. QED
    BY <1>1, <1>2, <1>3, <1>5, <2>2, <2>5, <2>6, <2>7, GoesOn
<1>6. CASE (cl[c].sock => IsReset(Stream(c), "client")) /\ Fails(c, "close")
  BY <1>1, <1>2, <1>6, ClientReadFails
<1>. QED
  BY <1>4, <1>5, <1>6 DEF ReadId, ClientReads, Stream

(* The end of a call, and the end of an application. *)
LEMMA CallEnds ==
  ASSUME ServiceInv, NEW c \in Clients, CloseSocket(c) \/ Crash(c)
  PROVE  ClientMoves(c)
<1>1. CASE CloseSocket(c)
  <2>1. "idle" \in ClientPcs \ {"connect"} /\ WhereOp(Req(c), "idle")
    BY DEF ClientPcs, WhereOp
  <2>2. crashes' \in 0 .. MaxCrashes
    BY <1>1 DEF CloseSocket, ServiceInv, Typed
  <2>. QED
    BY <1>1, <2>1, <2>2, HangsUp DEF CloseSocket
<1>2. CASE Crash(c)
  <2>1. "dead" \in ClientPcs \ {"connect"} /\ WhereOp(Req(c), "dead")
    BY DEF ClientPcs, WhereOp
  <2>2. crashes' \in 0 .. MaxCrashes
    BY <1>2, BoundsAssumption DEF Crash, ServiceInv, Typed
  <2>. QED
    BY <1>2, <2>1, <2>2, HangsUp DEF Crash
<1>. QED
  BY <1>1, <1>2

LEMMA ClientSteps ==
  ASSUME ServiceInv, NEW c \in Clients, Library(c) \/ Crash(c), ~ Connect(c)
  PROVE  ClientMoves(c)
  BY CommandSent, ClIdSent, DerrivedSent, GoRead, IdRead, CallEnds DEF Library

-------------------------------------------------------------------------------
(* What a step of a handler does: the daemon goes to pc with uuid and      *)
(* derrived as its locals; the connection it serves becomes s.             *)
Serving == ServerPcs \ {"down", "bind", "accept"}

\* What it sends, and where the identifiers come from.
Sends(pc, uuid, s) ==
  \/ /\ srv.pc = "next_uuid" /\ pc = "write_uuid"
     /\ uuid = Pool!Drawn /\ issued' = Append(issued, uuid)
     /\ s.in["client"] = Served.in["client"]
  \/ /\ pc # "write_uuid" /\ issued' = issued
     /\ \/ s.in["client"] \in {Served.in["client"], <<>>, <<Go>>}
        \/ srv.pc = "write_uuid" /\ s.in["client"] = <<Msg("uuid", srv.uuid)>>

DaemonMove(pc, uuid, derrived, s) ==
  /\ srv.pc \in Serving
  /\ srv' = [pc |-> pc, conn |-> srv.conn, uuid |-> uuid, derrived |-> derrived]
  /\ Serve(s)
  /\ UNCHANGED daemonRest
  /\ Fits(s, ClientAt(srv.conn), pc, Request(srv.conn))
  /\ Knows(srv.conn, pc, uuid, derrived, s)
  /\ Sends(pc, uuid, s)

DaemonMoves ==
  \E pc \in Serving, uuid \in AnyId, derrived \in Seq(Chars), s \in Streams(Messages) :
    DaemonMove(pc, uuid, derrived, s)

(* The daemon's record with fields replaced, written out.                  *)
LEMMA ServerRecord ==
  ASSUME NEW e \in ServerTypes, NEW pc
  PROVE  /\ [e EXCEPT !.pc = pc]
              = [pc |-> pc, conn |-> e.conn, uuid |-> e.uuid, derrived |-> e.derrived]
         /\ \A uuid : [e EXCEPT !.pc = pc, !.uuid = uuid]
                        = [pc |-> pc, conn |-> e.conn, uuid |-> uuid, derrived |-> e.derrived]
         /\ \A k : [e EXCEPT !.pc = pc, !.conn = k]
                     = [pc |-> pc, conn |-> k, uuid |-> e.uuid, derrived |-> e.derrived]
<1>. DEFINE f == [pc |-> pc, conn |-> e.conn, uuid |-> e.uuid, derrived |-> e.derrived]
<1>1. [e EXCEPT !.pc = pc] = f
  BY DEF ServerTypes
<1>2. DOMAIN f = {"pc", "conn", "uuid", "derrived"} /\ f.pc = pc
      /\ f.conn = e.conn /\ f.uuid = e.uuid /\ f.derrived = e.derrived
  OBVIOUS
<1>. HIDE DEF f
<1>3. ASSUME NEW x
      PROVE  /\ [f EXCEPT !.conn = x]
                  = [pc |-> pc, conn |-> x, uuid |-> e.uuid, derrived |-> e.derrived]
             /\ [f EXCEPT !.uuid = x]
                  = [pc |-> pc, conn |-> e.conn, uuid |-> x, derrived |-> e.derrived]
  BY <1>2
<1>4. \A x : /\ [e EXCEPT !.pc = pc, !.conn = x] = [[e EXCEPT !.pc = pc] EXCEPT !.conn = x]
             /\ [e EXCEPT !.pc = pc, !.uuid = x] = [[e EXCEPT !.pc = pc] EXCEPT !.uuid = x]
  BY Zenon
<1>. QED
  BY <1>1, <1>3, <1>4, Zenon DEF f

(* The same for the name alone, as the daemon stores it.                   *)
LEMMA NameInRecord ==
  ASSUME NEW e \in ServerTypes, NEW pc, NEW held
  PROVE  [e EXCEPT !.pc = pc, !.derrived = held]
            = [pc |-> pc, conn |-> e.conn, uuid |-> e.uuid, derrived |-> held]
<1>. DEFINE f == [pc |-> pc, conn |-> e.conn, uuid |-> e.uuid, derrived |-> e.derrived]
<1>1. [e EXCEPT !.pc = pc] = f
  BY ServerRecord
<1>2. DOMAIN f = {"pc", "conn", "uuid", "derrived"} /\ f.pc = pc
      /\ f.conn = e.conn /\ f.uuid = e.uuid /\ f.derrived = e.derrived
  OBVIOUS
<1>. HIDE DEF f
<1>3. [f EXCEPT !.derrived = held]
        = [pc |-> pc, conn |-> e.conn, uuid |-> e.uuid, derrived |-> held]
  BY <1>2
<1>4. [e EXCEPT !.pc = pc, !.derrived = held] = [[e EXCEPT !.pc = pc] EXCEPT !.derrived = held]
  BY Zenon
<1>. QED
  BY <1>1, <1>3, <1>4, Zenon DEF f

(* The connection that is served. *)
LEMMA Serves ==
  ASSUME ServiceInv, srv.pc \in Serving
  PROVE  /\ srv.conn \in Calls /\ srv \in ServerTypes
         /\ Served \in Streams(Messages) /\ Served = conn[srv.conn]
         /\ Serve(Served) <=> UNCHANGED conn
         /\ ServerAt(srv.conn) = srv.pc
         /\ Fits(Served, ClientAt(srv.conn), srv.pc, Request(srv.conn))
         /\ Knows(srv.conn, srv.pc, srv.uuid, srv.derrived, Served)
         /\ Request(srv.conn) \in RequestType
         /\ (srv.pc \notin {"read_cmd", "read_uuid", "read_derrived"} => Served.in["server"] = <<>>)
<1>1. /\ srv.conn \in Calls /\ srv \in ServerTypes
      /\ conn \in [Calls -> Streams(Messages)]
  BY DEF ServiceInv, Typed, Connections, ServerTypes, Serving
<1>2. Served \in Streams(Messages) /\ Served = conn[srv.conn] /\ ServerAt(srv.conn) = srv.pc
  BY <1>1 DEF Served, ServerAt
<1>3. conn' = [conn EXCEPT ![srv.conn] = Served] <=> conn' = conn
  BY <1>1, <1>2
<1>4. Fits(Served, ClientAt(srv.conn), srv.pc, Request(srv.conn))
  BY <1>1, <1>2, Basics
<1>5. Knows(srv.conn, srv.pc, srv.uuid, srv.derrived, Served)
  BY <1>1, <1>2 DEF ServiceInv, Tagging
<1>6. Request(srv.conn) \in RequestType
  <2>. DEFINE c == srv.conn[1]
              n == srv.conn[2]
  <2>1. c \in Clients /\ n \in Nat /\ n # 0 /\ n <= Len(cl[c].reqs)
    BY <1>1, Basics DEF ServiceInv, Connections, InDaemon
  <2>2. cl[c].reqs \in Seq(RequestType)
    BY <2>1, Basics DEF ClientTypes
  <2>3. n \in 1 .. Len(cl[c].reqs)
    BY <2>1, <2>2, LenProperties
  <2>4. cl[c].reqs[n] \in RequestType
    BY <2>2, <2>3, ElementOfSeq
  <2>. QED
    BY <2>4 DEF Request
<1>7. srv.pc \notin {"read_cmd", "read_uuid", "read_derrived"} => Served.in["server"] = <<>>
  BY <1>4 DEF Fits, InStep, SentToServer
<1>. QED
  BY <1>1, <1>2, <1>3, <1>4, <1>5, <1>6, <1>7 DEF Serve

(* A step to a place where nothing has to be known of a tag. *)
Careless == {"next_uuid", "check_pool", "write_go1", "read_uuid", "close"}

LEMMA DaemonGoesTo ==
  ASSUME ServiceInv, srv.pc \in Serving, NEW pc \in Careless, Goto(pc),
         NEW s \in Streams(Messages), Serve(s), UNCHANGED <<daemonRest, issued>>,
         Fits(s, ClientAt(srv.conn), pc, Request(srv.conn)),
         \/ s.in["client"] \in {Served.in["client"], <<>>, <<Go>>}
         \/ srv.pc = "write_uuid" /\ s.in["client"] = <<Msg("uuid", srv.uuid)>>
  PROVE  DaemonMoves
<1>1. srv \in ServerTypes
  BY Serves
<1>2. srv' = [pc |-> pc, conn |-> srv.conn, uuid |-> srv.uuid, derrived |-> srv.derrived]
  BY <1>1, ServerRecord DEF Goto
<1>3. srv.uuid \in AnyId /\ srv.derrived \in Seq(Chars) /\ pc \in Serving /\ pc # "write_uuid"
  BY <1>1 DEF ServerTypes, Careless, Serving, ServerPcs
<1>4. Knows(srv.conn, pc, srv.uuid, srv.derrived, s)
  BY DEF Knows, Careless
<1>5. DaemonMove(pc, srv.uuid, srv.derrived, s)
  BY <1>2, <1>3, <1>4 DEF DaemonMove, Sends
<1>. QED
  BY <1>3, <1>5 DEF DaemonMoves

(* A client that is not there any more: the daemon notices, or does not.   *)
LEMMA DaemonLeftAlone ==
  ASSUME ServiceInv, srv.pc \in Serving, NEW pc \in Careless, Goto(pc),
         Served.in["server"] = <<>>, ~ Served.open["client"] \/ Served.err["server"],
         UNCHANGED conn \/ Serve(ResetSeen(Served, "server")), UNCHANGED <<daemonRest, issued>>
  PROVE  DaemonMoves
<1>1. /\ Served \in Streams(Messages) /\ (Serve(Served) <=> UNCHANGED conn)
      /\ Fits(Served, ClientAt(srv.conn), srv.pc, Request(srv.conn))
  BY Serves
<1>2. srv.pc # "gone" /\ pc # "gone"
  BY DEF Serving, ServerPcs, Careless
<1>3. Fits(Served, ClientAt(srv.conn), pc, Request(srv.conn))
  BY <1>1, <1>2, Deserted
<1>4. /\ ResetSeen(Served, "server") \in Streams(Messages)
      /\ Fits(ResetSeen(Served, "server"), ClientAt(srv.conn), pc, Request(srv.conn))
      /\ ResetSeen(Served, "server").in = Served.in
  BY <1>1, <1>3, ResetIsSeen DEF Ends
<1>. QED
  BY <1>1, <1>3, <1>4, DaemonGoesTo

LEMMA CommandRead == ASSUME ServiceInv, ReadCommand PROVE DaemonMoves
<1>1. srv.pc = "read_cmd" /\ srv.pc \in Serving /\ UNCHANGED <<daemonRest, issued>>
  BY DEF ReadCommand, ServerReads, At, Serving, ServerPcs, poolVars
<1>2. /\ Served \in Streams(Messages) /\ Request(srv.conn) \in RequestType
      /\ Fits(Served, ClientAt(srv.conn), "read_cmd", Request(srv.conn))
  BY <1>1, Serves
<1>3. CASE HasData(Served, "server") /\ Dispatch(Data(Served, "server").val)
           /\ Serve(Consumed(Served, "server"))
  <2>. DEFINE r == Request(srv.conn)
  <2>1. /\ Consumed(Served, "server") \in Streams(Messages)
        /\ Consumed(Served, "server").in["client"] = <<>>
        /\ Data(Served, "server").val = r.op
        /\ r.op = "GET" => Fits(Consumed(Served, "server"), ClientAt(srv.conn), "next_uuid", r)
        /\ r.op # "GET" => Fits(Consumed(Served, "server"), ClientAt(srv.conn), "write_go1", r)
    BY <1>2, <1>3, DaemonReads
  <2>2. r.op \in {"GET", "TAG"}
    BY <1>2 DEF RequestType
  <2>3. CASE r.op = "GET"
    <3>1. Goto("next_uuid") /\ "next_uuid" \in Careless
      BY <1>3, <2>1, <2>3 DEF Dispatch, Careless
    <3>. QED
      BY <1>1, <1>3, <2>1, <2>3, <3>1, DaemonGoesTo
  <2>4. CASE r.op = "TAG"
    <3>1. Goto("write_go1") /\ "write_go1" \in Careless
      BY <1>3, <2>1, <2>4 DEF Dispatch, Careless
    <3>. QED
      BY <1>1, <1>3, <2>1, <2>4, <3>1, DaemonGoesTo
  <2>. QED
    BY <2>2, <2>3, <2>4
<1>4. CASE AtEof(Served, "server") /\ Unread /\ UNCHANGED conn
  <2>1. Served.in["server"] = <<>> /\ ~ Served.open["client"]
    BY <1>4 DEF AtEof, Broken, Peer
  <2>2. \E pc \in Careless : Goto(pc)
    BY <1>4 DEF Unread, Dispatch, Careless
  <2>. QED
    BY <1>1, <1>4, <2>1, <2>2, DaemonLeftAlone
<1>5. CASE IsReset(Served, "server") /\ Goto("close") /\ Serve(ResetSeen(Served, "server"))
  BY <1>1, <1>5, DaemonLeftAlone DEF IsReset, Careless
<1>. QED
  BY <1>3, <1>4, <1>5 DEF ReadCommand, ServerReads

LEMMA UuidDrawn == ASSUME ServiceInv, NextUuid PROVE DaemonMoves
<1>1. srv.pc = "next_uuid" /\ srv.pc \in Serving
  BY DEF NextUuid, At, Serving, ServerPcs
<1>2. /\ Served \in Streams(Messages) /\ srv \in ServerTypes
      /\ Serve(Served) <=> UNCHANGED conn
      /\ Fits(Served, ClientAt(srv.conn), "next_uuid", Request(srv.conn))
  BY <1>1, Serves
<1>3. Serve(Served) /\ UNCHANGED daemonRest /\ issued' = Append(issued, Pool!Drawn)
  BY <1>2 DEF NextUuid, Pool!DrawUuid
<1>4. Pool!Drawn \in AnyId
  <2>1. PoolPhase = "idle"
    BY <1>1 DEF PoolPhase
  <2>2. uuid_list_hd \in Pool!Slots /\ uuid_list \in [Pool!Slots -> 0 .. MaxUuid]
    BY <2>1 DEF ServiceInv, Pool!PoolInv, Pool!NeverDrawFromEmpty, Pool!TypeOK
  <2>. QED
    BY <2>2 DEF Pool!Drawn, AnyId
<1>5. srv' = [pc |-> "write_uuid", conn |-> srv.conn, uuid |-> Pool!Drawn, derrived |-> srv.derrived]
  BY <1>2, ServerRecord DEF NextUuid
<1>6. Fits(Served, ClientAt(srv.conn), "write_uuid", Request(srv.conn))
  BY <1>2, DaemonGoesOn
<1>7. DaemonMove("write_uuid", Pool!Drawn, srv.derrived, Served)
  BY <1>1, <1>3, <1>5, <1>6 DEF DaemonMove, Sends, Knows
<1>8. "write_uuid" \in Serving /\ srv.derrived \in Seq(Chars)
  BY <1>2 DEF Serving, ServerPcs, ServerTypes
<1>. QED
  BY <1>2, <1>4, <1>7, <1>8 DEF DaemonMoves

LEMMA UuidSent == ASSUME ServiceInv, WriteUuid PROVE DaemonMoves
<1>1. /\ srv.pc = "write_uuid" /\ srv.pc \in Serving /\ UNCHANGED <<daemonRest, issued>>
      /\ "check_pool" \in Careless
  BY DEF WriteUuid, ServerWrites, At, Serving, ServerPcs, poolVars, Careless
<1>2. /\ Served \in Streams(Messages) /\ srv \in ServerTypes /\ Served.in["server"] = <<>>
      /\ Fits(Served, ClientAt(srv.conn), "write_uuid", Request(srv.conn))
  BY <1>1, Serves
<1>3. Goto("check_pool")
  BY DEF WriteUuid, ServerWrites, AfterUuid
<1>4. CASE Broken(Served, "server") /\ UNCHANGED conn
  BY <1>1, <1>2, <1>3, <1>4, DaemonLeftAlone DEF Broken, Peer
<1>5. CASE ~ Broken(Served, "server") /\ Serve(Written(Served, "server", Msg("uuid", srv.uuid)))
  <2>. DEFINE s == Written(Served, "server", Msg("uuid", srv.uuid))
  <2>1. srv.uuid \in AnyId
    BY <1>2 DEF ServerTypes
  <2>2. Msg("uuid", srv.uuid) \in Messages /\ \E id \in AnyId : Msg("uuid", srv.uuid) = Msg("uuid", id)
    BY <2>1 DEF Msg, Messages
  <2>3. /\ s \in Streams(Messages) /\ s.in["client"] = <<Msg("uuid", srv.uuid)>>
        /\ Fits(s, ClientAt(srv.conn), "check_pool", Request(srv.conn))
    BY <1>2, <1>5, <2>2, DaemonWrites
  <2>. QED
    BY <1>1, <1>3, <1>5, <2>3, DaemonGoesTo
<1>. QED
  BY <1>4, <1>5 DEF WriteUuid, ServerWrites, Answer

LEMMA PoolChecked == ASSUME ServiceInv, CheckPool \/ TagId PROVE DaemonMoves
<1>1. /\ srv.pc \in {"check_pool", "tag_id"} /\ srv.pc \in Serving
      /\ UNCHANGED <<daemonRest, conn, issued>> /\ Goto("close") /\ "close" \in Careless
  BY DEF CheckPool, TagId, At, Serving, ServerPcs, Pool!CheckPool, poolVars, Careless
<1>2. /\ Served \in Streams(Messages) /\ Serve(Served)
      /\ Fits(Served, ClientAt(srv.conn), srv.pc, Request(srv.conn))
  BY <1>1, Serves
<1>3. Fits(Served, ClientAt(srv.conn), "close", Request(srv.conn))
  BY <1>1, <1>2, DaemonGoesOn
<1>. QED
  BY <1>1, <1>2, <1>3, DaemonGoesTo

(* A continue message, or a client that is not there to get it. *)
LEMMA FirstGoSent == ASSUME ServiceInv, WriteGo("write_go1", "read_uuid") PROVE DaemonMoves
<1>1. /\ srv.pc = "write_go1" /\ srv.pc \in Serving /\ UNCHANGED <<daemonRest, issued>>
      /\ "read_uuid" \in Careless /\ "close" \in Careless
  BY DEF WriteGo, ServerWrites, At, Serving, ServerPcs, poolVars, Careless
<1>2. /\ Served \in Streams(Messages) /\ Served.in["server"] = <<>>
      /\ Fits(Served, ClientAt(srv.conn), "write_go1", Request(srv.conn))
  BY <1>1, Serves
<1>3. CASE Broken(Served, "server") /\ Goto("close") /\ UNCHANGED conn
  BY <1>1, <1>2, <1>3, DaemonLeftAlone DEF Broken, Peer
<1>4. CASE ~ Broken(Served, "server") /\ Goto("read_uuid") /\ Serve(Written(Served, "server", Go))
  <2>1. Go \in Messages
    BY DEF Messages
  <2>2. /\ Written(Served, "server", Go) \in Streams(Messages)
        /\ Written(Served, "server", Go).in["client"] = <<Go>>
        /\ Fits(Written(Served, "server", Go), ClientAt(srv.conn), "read_uuid", Request(srv.conn))
    BY <1>2, <1>4, <2>1, DaemonWrites
  <2>. QED
    BY <1>1, <1>4, <2>2, DaemonGoesTo
<1>. QED
  BY <1>3, <1>4 DEF WriteGo, ServerWrites, GoNotWritten

(* A client that waits for a continue message is tagging. *)
LEMMA WaitsForGo ==
  ASSUME ServiceInv, NEW k \in Calls, ClientAt(k) = "read_go2"
  PROVE  Request(k).op = "TAG"
<1>1. k = Call(k[1]) /\ cl[k[1]].pc = "read_go2" /\ k[1] \in Clients
  BY Basics DEF ClientAt
<1>2. Request(k) = Req(k[1])
  BY <1>1, ThisCall
<1>. QED
  BY <1>1, <1>2 DEF ServiceInv, Applications

LEMMA SecondGoSent == ASSUME ServiceInv, WriteGo("write_go2", "read_derrived") PROVE DaemonMoves
<1>1. /\ srv.pc = "write_go2" /\ srv.pc \in Serving /\ UNCHANGED <<daemonRest, issued>>
      /\ "read_derrived" \in Serving /\ "close" \in Careless
  BY DEF WriteGo, ServerWrites, At, Serving, ServerPcs, poolVars, Careless
<1>2. /\ Served \in Streams(Messages) /\ Served.in["server"] = <<>> /\ srv \in ServerTypes
      /\ Fits(Served, ClientAt(srv.conn), "write_go2", Request(srv.conn))
      /\ Knows(srv.conn, "write_go2", srv.uuid, srv.derrived, Served) /\ srv.conn \in Calls
  BY <1>1, Serves
<1>3. CASE Broken(Served, "server") /\ Goto("close") /\ UNCHANGED conn
  BY <1>1, <1>2, <1>3, DaemonLeftAlone DEF Broken, Peer
<1>4. CASE /\ ~ Broken(Served, "server") /\ Goto("read_derrived")
           /\ Serve(Written(Served, "server", Go))
  <2>. DEFINE s == Written(Served, "server", Go)
  <2>1. Go \in Messages
    BY DEF Messages
  <2>2. /\ s \in Streams(Messages) /\ s.in["client"] = <<Go>>
        /\ ClientAt(srv.conn) = "read_go2"
        /\ Fits(s, ClientAt(srv.conn), "read_derrived", Request(srv.conn))
    BY <1>2, <1>4, <2>1, DaemonWrites
  <2>3. srv.uuid = Request(srv.conn).cl_id /\ Request(srv.conn).op = "TAG"
    BY <1>2, <2>2, WaitsForGo DEF Knows
  <2>. HIDE DEF s
  <2>4. Knows(srv.conn, "read_derrived", srv.uuid, srv.derrived, s)
    BY <2>2, <2>3 DEF Knows
  <2>5. srv' = [pc |-> "read_derrived", conn |-> srv.conn, uuid |-> srv.uuid,
                derrived |-> srv.derrived]
    BY <1>2, <1>4, ServerRecord DEF Goto
  <2>6. DaemonMove("read_derrived", srv.uuid, srv.derrived, s)
    BY <1>1, <1>4, <2>2, <2>4, <2>5 DEF DaemonMove, Sends, s
  <2>7. srv.uuid \in AnyId /\ srv.derrived \in Seq(Chars)
    BY <1>2 DEF ServerTypes
  <2>. QED
    BY <1>1, <2>2, <2>6, <2>7 DEF DaemonMoves
<1>. QED
  BY <1>3, <1>4 DEF WriteGo, ServerWrites, GoNotWritten

(* The identifier to tag; when nothing was read, it is no identifier.      *)
LEMMA UuidRead == ASSUME ServiceInv, ReadUuid PROVE DaemonMoves
<1>1. /\ srv.pc = "read_uuid" /\ srv.pc \in Serving /\ UNCHANGED <<daemonRest, issued>>
      /\ "write_go2" \in Serving /\ srv.pc # "gone"
  BY DEF ReadUuid, ServerReads, At, Serving, ServerPcs, poolVars
<1>2. /\ Served \in Streams(Messages) /\ srv \in ServerTypes
      /\ Request(srv.conn) \in RequestType /\ (Serve(Served) <=> UNCHANGED conn)
      /\ Fits(Served, ClientAt(srv.conn), "read_uuid", Request(srv.conn))
  BY <1>1, Serves
<1>3. ASSUME NEW id \in AnyId, srv' = [srv EXCEPT !.pc = "write_go2", !.uuid = id],
             NEW s \in Streams(Messages), Serve(s),
             s.in["client"] \in {Served.in["client"], <<>>},
             Fits(s, ClientAt(srv.conn), "write_go2", Request(srv.conn)),
             ClientAt(srv.conn) # "gone" => id = Request(srv.conn).cl_id
      PROVE  DaemonMoves
  <2>1. srv' = [pc |-> "write_go2", conn |-> srv.conn, uuid |-> id, derrived |-> srv.derrived]
    BY <1>2, <1>3, ServerRecord
  <2>2. Knows(srv.conn, "write_go2", id, srv.derrived, s)
    BY <1>3 DEF Knows
  <2>3. DaemonMove("write_go2", id, srv.derrived, s)
    BY <1>1, <1>3, <2>1, <2>2 DEF DaemonMove, Sends
  <2>4. srv.derrived \in Seq(Chars)
    BY <1>2 DEF ServerTypes
  <2>. QED
    BY <1>1, <1>3, <2>3, <2>4 DEF DaemonMoves
<1>4. CASE /\ HasData(Served, "server") /\ Serve(Consumed(Served, "server"))
           /\ srv' = [srv EXCEPT !.pc = "write_go2", !.uuid = Data(Served, "server").val]
  <2>1. /\ Consumed(Served, "server") \in Streams(Messages)
        /\ Consumed(Served, "server").in["client"] = <<>>
        /\ Data(Served, "server").val = Request(srv.conn).cl_id
        /\ Fits(Consumed(Served, "server"), ClientAt(srv.conn), "write_go2", Request(srv.conn))
    BY <1>2, <1>4, DaemonReads
  <2>2. Request(srv.conn).cl_id \in AnyId
    BY <1>2 DEF RequestType, AnyId
  <2>. QED
    BY <1>3, <1>4, <2>1, <2>2
<1>5. CASE /\ AtEof(Served, "server") /\ UNCHANGED conn
           /\ srv' = [srv EXCEPT !.pc = "write_go2", !.uuid = NoId]
  <2>1. Served.in["server"] = <<>> /\ ~ Served.open["client"]
    BY <1>5 DEF AtEof, Broken, Peer
  <2>2. /\ ClientAt(srv.conn) = "gone"
        /\ Fits(Served, ClientAt(srv.conn), "write_go2", Request(srv.conn))
    BY <1>1, <1>2, <2>1, Deserted
  <2>3. NoId \in AnyId
    BY DEF AnyId
  <2>. QED
    BY <1>2, <1>3, <1>5, <2>2, <2>3
<1>6. CASE IsReset(Served, "server") /\ Goto("close") /\ Serve(ResetSeen(Served, "server"))
  BY <1>1, <1>6, DaemonLeftAlone DEF IsReset, Careless
<1>. QED
  BY <1>4, <1>5, <1>6 DEF ReadUuid, ServerReads

-------------------------------------------------------------------------------
(* Names are strings over one alphabet; a longer one is cut.               *)
LEMMA NamesAreStrings == ASSUME NEW s \in Strings \cup Residue PROVE s \in Seq(Chars)
<1>1. s \in Seq(Range(s)) /\ Range(s) \subseteq Chars
  BY StringsAssumption DEF Chars
<1>2. Len(s) \in Nat /\ DOMAIN s = 1 .. Len(s) /\ \A i \in 1 .. Len(s) : s[i] \in Range(s)
  BY <1>1, LenProperties DEF Range
<1>3. \A i \in 1 .. Len(s) : s[i] \in Chars
  BY <1>1, <1>2
<1>4. SubSeq(s, 1, Len(s)) \in Seq(Chars) /\ SubSeq(s, 1, Len(s)) = s
  BY <1>1, <1>2, <1>3, SubSeqProperties, SubSeqFull
<1>. QED
  BY <1>4

LEMMA CutToFit ==
  ASSUME NEW S, NEW s \in Seq(S)
  PROVE  /\ Fitting(s) \in Seq(S) /\ Len(Fitting(s)) \in 0 .. DERRIVED_LEN
         /\ Len(s) <= DERRIVED_LEN => Fitting(s) = s
<1>1. Len(s) \in Nat /\ DERRIVED_LEN \in Nat
  BY DerrivedLenAssumption, LenProperties
<1>2. Min({Len(s), DERRIVED_LEN}) = IF Len(s) <= DERRIVED_LEN THEN Len(s) ELSE DERRIVED_LEN
  BY <1>1 DEF Min
<1>3. PICK n \in 0 .. Len(s) : /\ n = Min({Len(s), DERRIVED_LEN}) /\ n <= DERRIVED_LEN
                               /\ Len(s) <= DERRIVED_LEN => n = Len(s)
  BY <1>1, <1>2
<1>4. \A i \in 1 .. n : s[i] \in S
  BY <1>1, ElementOfSeq
<1>5. SubSeq(s, 1, n) \in Seq(S) /\ Len(SubSeq(s, 1, n)) = n
  BY <1>1, <1>4, SubSeqProperties
<1>6. SubSeq(s, 1, Len(s)) = s
  BY SubSeqFull
<1>7. Fitting(s) = SubSeq(s, 1, n)
  BY <1>3 DEF Fitting
<1>8. Len(s) <= DERRIVED_LEN => Fitting(s) = s
  BY <1>3, <1>6, <1>7
<1>9. n \in 0 .. DERRIVED_LEN
  BY <1>1, <1>3
<1>. QED
  BY <1>5, <1>7, <1>8, <1>9

(* What the buffer holds starts with what was read into it.                *)
LEMMA PrefixOfConcat ==
  ASSUME NEW S, NEW s \in Seq(S), NEW t \in Seq(S)
  PROVE  IsPrefix(s, s \o t)
<1>. DEFINE u == s \o t
            n == Len(s)
<1>1. /\ u \in Seq(S) /\ Len(u) = n + Len(t) /\ n \in Nat /\ Len(t) \in Nat
      /\ \A i \in 1 .. n : u[i] = s[i] /\ s[i] \in S
  BY ConcatProperties, LenProperties, ElementOfSeq
<1>2. SubSeq(s, 1, n) = s
  BY SubSeqFull
<1>3. /\ SubSeq(u, 1, n) \in Seq(S) /\ Len(SubSeq(u, 1, n)) = n
      /\ \A i \in 1 .. n : SubSeq(u, 1, n)[i] = s[i]
  BY <1>1, SubSeqProperties
<1>4. SubSeq(u, 1, n) = s
  BY <1>3, SeqEqual
<1>. QED
  BY <1>1, <1>2, <1>4 DEF IsPrefix

(* The derived identifier, and what the stack held behind it.              *)
LEMMA DerrivedRead == ASSUME ServiceInv, ReadDerrived PROVE DaemonMoves
<1>1. /\ srv.pc = "read_derrived" /\ srv.pc \in Serving /\ UNCHANGED <<daemonRest, issued>>
      /\ "tag_id" \in Serving /\ srv.pc # "gone"
  BY DEF ReadDerrived, ServerReads, At, Serving, ServerPcs, poolVars
<1>2. /\ Served \in Streams(Messages) /\ srv \in ServerTypes
      /\ Request(srv.conn) \in RequestType /\ (Serve(Served) <=> UNCHANGED conn)
      /\ Fits(Served, ClientAt(srv.conn), "read_derrived", Request(srv.conn))
      /\ Knows(srv.conn, "read_derrived", srv.uuid, srv.derrived, Served)
  BY <1>1, Serves
<1>2a. \A held : [srv EXCEPT !.pc = "tag_id", !.derrived = held]
                  = [pc |-> "tag_id", conn |-> srv.conn, uuid |-> srv.uuid, derrived |-> held]
  <2>1. srv \in ServerTypes
    BY <1>2
  <2>. QED
    BY <2>1, NameInRecord
<1>3. ASSUME NEW name \in Seq(Chars), NEW junk \in Residue,
             srv' = [srv EXCEPT !.pc = "tag_id", !.derrived = Fitting(name) \o junk],
             NEW s \in Streams(Messages), Serve(s),
             s.in["client"] \in {Served.in["client"], <<>>},
             Fits(s, ClientAt(srv.conn), "tag_id", Request(srv.conn)),
             Alive(srv.conn) => name = Request(srv.conn).derrived
      PROVE  DaemonMoves
  <2>1. srv' = [pc |-> "tag_id", conn |-> srv.conn, uuid |-> srv.uuid,
                derrived |-> Fitting(name) \o junk]
    <3>1. srv' = [srv EXCEPT !.pc = "tag_id", !.derrived = Fitting(name) \o junk]
      BY <1>3
    <3>. QED
      BY <1>2a, <3>1, Zenon
  <2>2. srv.uuid = Request(srv.conn).cl_id /\ Request(srv.conn).op = "TAG"
    BY <1>2 DEF Knows
  <2>3. Knows(srv.conn, "tag_id", srv.uuid, Fitting(name) \o junk, s)
    BY <1>3, <2>2 DEF Knows
  <2>4. DaemonMove("tag_id", srv.uuid, Fitting(name) \o junk, s)
    BY <1>1, <1>3, <2>1, <2>3 DEF DaemonMove, Sends
  <2>5. Fitting(name) \in Seq(Chars) /\ junk \in Seq(Chars)
    BY CutToFit, NamesAreStrings
  <2>6. Fitting(name) \o junk \in Seq(Chars)
    BY <2>5, ConcatProperties
  <2>7. srv.uuid \in AnyId
    BY <1>2 DEF ServerTypes
  <2>. QED
    BY <1>1, <1>3, <2>4, <2>6, <2>7 DEF DaemonMoves
<1>4. CASE HasData(Served, "server") /\ Serve(Consumed(Served, "server"))
           /\ \E junk \in Residue : srv' = [srv EXCEPT !.pc = "tag_id",
                !.derrived = Fitting(Data(Served, "server").val) \o junk]
  <2>1. /\ Consumed(Served, "server") \in Streams(Messages)
        /\ Consumed(Served, "server").in["client"] = <<>>
        /\ Data(Served, "server").val = Request(srv.conn).derrived
        /\ Fits(Consumed(Served, "server"), ClientAt(srv.conn), "tag_id", Request(srv.conn))
    BY <1>2, <1>4, DaemonReads
  <2>2. Request(srv.conn).op = "TAG"
    BY <1>2 DEF Knows
  <2>3. Request(srv.conn).derrived \in Strings
    BY <1>2, <2>2 DEF RequestType
  <2>4. Request(srv.conn).derrived \in Seq(Chars)
    BY <2>3, NamesAreStrings
  <2>. QED
    BY <1>3, <1>4, <2>1, <2>4
<1>5. CASE AtEof(Served, "server") /\ UNCHANGED conn
           /\ \E junk \in Residue : srv' = [srv EXCEPT !.pc = "tag_id",
                !.derrived = Fitting(<<>>) \o junk]
  <2>1. Served.in["server"] = <<>> /\ ~ Served.open["client"]
    BY <1>5 DEF AtEof, Broken, Peer
  <2>2. /\ ClientAt(srv.conn) = "gone"
        /\ Fits(Served, ClientAt(srv.conn), "tag_id", Request(srv.conn))
    BY <1>1, <1>2, <2>1, Deserted
  <2>3. Alive(srv.conn) => Request(srv.conn).derrived = <<>>
    BY <1>2, <2>1, <2>2 DEF Knows
  <2>4. <<>> \in Seq(Chars)
    OBVIOUS
  <2>. QED
    BY <1>2, <1>3, <1>5, <2>2, <2>3, <2>4
<1>6. CASE IsReset(Served, "server") /\ Goto("close") /\ Serve(ResetSeen(Served, "server"))
  BY <1>1, <1>6, DaemonLeftAlone DEF IsReset, Careless
<1>. QED
  BY <1>4, <1>5, <1>6 DEF ReadDerrived, ServerReads

LEMMA DaemonSteps ==
  ASSUME ServiceInv, Daemon, ~ (Bind \/ BindFails \/ Accept \/ CloseConnection)
  PROVE  DaemonMoves
  BY CommandRead, UuidDrawn, UuidSent, PoolChecked, FirstGoSent, UuidRead, SecondGoSent,
    DerrivedRead DEF Daemon

-------------------------------------------------------------------------------
(* UUIDs that were drawn are none of the bytes that are no identifier.     *)
LEMMA DrawnIsProper ==
  ASSUME ServiceInv
  PROVE  /\ NoId \notin Range(issued)
         /\ issued \in Seq(0 .. MaxUuid)
         /\ srv.pc = "next_uuid" => Pool!Drawn \notin Range(issued) /\ Pool!Drawn # NoId
<1>1. /\ issued \in Seq(0 .. MaxUuid) /\ generated \in 0 .. MaxUuid
      /\ \A i \in DOMAIN issued : issued[i] \in 1 .. generated
  BY DEF ServiceInv, Pool!PoolInv, Pool!TypeOK, Pool!DrawnFromClock
<1>2. \A i \in DOMAIN issued : issued[i] # NoId
  BY <1>1, NoIdAssumption, BoundsAssumption
<1>3. ASSUME srv.pc = "next_uuid"
      PROVE  Pool!Drawn \notin Range(issued) /\ Pool!Drawn # NoId
  <2>1. PoolPhase = "idle"
    BY <1>3 DEF PoolPhase
  <2>2. uuid_list_hd \in Pool!Slots
    BY <2>1 DEF ServiceInv, Pool!PoolInv, Pool!NeverDrawFromEmpty
  <2>3. uuid_list_hd \in 0 .. uuid_list_hd
    BY <2>2, BoundsAssumption DEF Pool!Slots
  <2>4. /\ uuid_list[uuid_list_hd] \in 1 .. generated
        /\ \A i \in DOMAIN issued : issued[i] # uuid_list[uuid_list_hd]
    BY <2>1, <2>3 DEF ServiceInv, Pool!PoolInv, Pool!ReadyFresh
  <2>5. uuid_list[uuid_list_hd] # NoId
    BY <1>1, <2>4, NoIdAssumption, BoundsAssumption
  <2>. QED
    BY <2>4, <2>5 DEF Pool!Drawn, Range
<1>. QED
  BY <1>1, <1>2, <1>3 DEF Range

(* A step that sends, returns and draws no identifier.                     *)
LEMMA IdsKept ==
  ASSUME ServiceInv,
         \A k \in Calls, id \in AnyId : Carries(k, id)' => Carries(k, id),
         \A c \in Clients : cl'[c].ids = cl[c].ids,
         issued' = issued,
         srv'.pc = "write_uuid" => srv.pc = "write_uuid" /\ srv'.uuid = srv.uuid,
         srv.uuid \in AnyId,
         kills' = 0 => kills = 0
  PROVE  Identifiers' /\ IdsNotShared'
<1>1. \A c \in Clients : Returned(c)' = Returned(c)
  BY DEF Returned
<1>2. Identifiers'
  BY <1>1 DEF ServiceInv, Identifiers
<1>3. IdsNotShared'
  BY DEF ServiceInv, IdsNotShared, ReturnedIdsFresh
<1>. QED
  BY <1>2, <1>3

(* What a client's step changes in the tables of Fits: its own connection. *)
LEMMA ClientViews ==
  ASSUME ServiceInv, NEW c \in Clients, NEW pc \in ClientPcs, NEW sock \in BOOLEAN,
         NEW ids \in Seq(AnyId), NEW s \in Streams(Messages), ClientMove(c, pc, sock, ids, s)
  PROVE  /\ cl'[c] = [pc |-> pc, reqs |-> cl[c].reqs, sock |-> sock, ids |-> ids]
         /\ cl' \in [Clients -> ClientTypes] /\ conn' \in [Calls -> Streams(Messages)]
         /\ \A d \in Clients : (d # c => cl'[d] = cl[d]) /\ cl'[d].reqs = cl[d].reqs
         /\ \A k \in Calls :
              /\ ServerAt(k)' = ServerAt(k) /\ Request(k)' = Request(k)
              /\ ClientAt(k)' = IF k = Call(c) THEN IF sock THEN pc ELSE "gone" ELSE ClientAt(k)
              /\ conn'[k] = IF k = Call(c) THEN s ELSE conn[k]
              /\ Alive(k)' => Alive(k)
<1>1. /\ cl' = [cl EXCEPT ![c] = [pc |-> pc, reqs |-> cl[c].reqs, sock |-> sock, ids |-> ids]]
      /\ conn' = [conn EXCEPT ![Call(c)] = s]
      /\ UNCHANGED <<srv, backlog>> /\ cl[c].pc \notin {"idle", "dead"}
  BY DEF ClientMove, clientRest
<1>2. /\ cl \in [Clients -> ClientTypes] /\ conn \in [Calls -> Streams(Messages)]
      /\ Call(c) \in Calls /\ \A k \in Calls : k[1] \in Clients
  BY <1>1, ThisCall, Basics DEF ServiceInv, Typed
<1>3. [pc |-> pc, reqs |-> cl[c].reqs, sock |-> sock, ids |-> ids] \in ClientTypes
  BY <1>2 DEF ClientTypes
<1>4. /\ cl'[c] = [pc |-> pc, reqs |-> cl[c].reqs, sock |-> sock, ids |-> ids]
      /\ cl' \in [Clients -> ClientTypes]
      /\ \A d \in Clients : d # c => cl'[d] = cl[d]
  BY <1>1, <1>2, <1>3
<1>5. conn' \in [Calls -> Streams(Messages)]
  BY <1>1, <1>2
<1>6. \A d \in Clients : cl'[d].reqs = cl[d].reqs
  BY <1>4
<1>7. ASSUME NEW k \in Calls
      PROVE  ServerAt(k)' = ServerAt(k) /\ Request(k)' = Request(k)
  BY <1>1, <1>2, <1>6 DEF ServerAt, Request
<1>8. ASSUME NEW k \in Calls
      PROVE  ClientAt(k)' = IF k = Call(c) THEN IF sock THEN pc ELSE "gone" ELSE ClientAt(k)
  <2>1. \A d \in Clients : Call(d)' = Call(d)
    BY <1>6 DEF Call
  <2>2. CASE k = Call(c)
    <3>1. k[1] = c
      BY <1>1, <2>2, ThisCall
    <3>2. ClientAt(k)' = IF sock THEN pc ELSE "gone"
      BY <1>4, <2>1, <2>2, <3>1 DEF ClientAt
    <3>. QED
      BY <2>2, <3>2
  <2>3. CASE k # Call(c)
    <3>1. CASE k[1] = c
      BY <2>1, <2>3, <3>1 DEF ClientAt
    <3>2. CASE k[1] # c
      BY <1>2, <1>4, <2>1, <2>3, <3>2 DEF ClientAt
    <3>. QED
      BY <3>1, <3>2
  <2>. QED
    BY <2>2, <2>3
<1>9. \A k \in Calls : conn'[k] = IF k = Call(c) THEN s ELSE conn[k]
  BY <1>1, <1>2
<1>10. ASSUME NEW k \in Calls PROVE Alive(k)' => Alive(k)
  BY <1>1, <1>2, <1>4 DEF Alive
<1>. QED
  BY <1>4, <1>5, <1>6, <1>7, <1>8, <1>9, <1>10

LEMMA ClientKeepsTables ==
  ASSUME ServiceInv, NEW c \in Clients, NEW pc \in ClientPcs, NEW sock \in BOOLEAN,
         NEW ids \in Seq(AnyId), NEW s \in Streams(Messages), ClientMove(c, pc, sock, ids, s)
  PROVE  Typed' /\ Connections' /\ Applications' /\ (Ended /\ Protocol)' /\ Answered'
<1>1. /\ UNCHANGED <<srv, backlog, sock_file, kills>> /\ crashes' \in 0 .. MaxCrashes
      /\ cl[c].pc \notin {"idle", "dead"} /\ pc # "connect"
      /\ pc \in {"idle", "dead"} => ~ sock
      /\ WhereOp(Req(c), pc)
      /\ Fits(s, IF sock THEN pc ELSE "gone", ServerAt(Call(c)), Req(c))
      /\ pc = "read_id" /\ sock => ServerAt(Call(c)) # "gone"
  BY DEF ClientMove, clientRest
<1>2. /\ cl'[c] = [pc |-> pc, reqs |-> cl[c].reqs, sock |-> sock, ids |-> ids]
      /\ cl' \in [Clients -> ClientTypes] /\ conn' \in [Calls -> Streams(Messages)]
      /\ \A d \in Clients : (d # c => cl'[d] = cl[d]) /\ cl'[d].reqs = cl[d].reqs
  BY ClientViews
<1>3. \A k \in Calls :
        /\ ServerAt(k)' = ServerAt(k) /\ Request(k)' = Request(k)
        /\ ClientAt(k)' = IF k = Call(c) THEN IF sock THEN pc ELSE "gone" ELSE ClientAt(k)
        /\ conn'[k] = IF k = Call(c) THEN s ELSE conn[k]
        /\ Alive(k)' => Alive(k)
  BY ClientViews
<1>4. Typed'
  BY <1>1, <1>2 DEF ServiceInv, Typed
<1>5. Connections'
  <2>1. \A k \in Calls : InDaemon(k)' = InDaemon(k)
    BY <1>1 DEF InDaemon
  <2>2. \A d \in Clients : Call(d)' = Call(d) /\ (cl'[d].pc = "connect" => cl[d].pc = "connect")
    BY <1>1, <1>2 DEF Call
  <2>3. \A k \in Calls : k[1] \in Clients
    BY Basics
  <2>. QED
    BY <1>1, <1>2, <2>1, <2>2, <2>3 DEF ServiceInv, Connections
<1>6. Applications'
  <2>1. \A d \in Clients : Req(d)' = Req(d)
    BY <1>2 DEF Req
  <2>2. ASSUME NEW d \in Clients
        PROVE  /\ cl'[d].pc \in {"idle", "dead", "connect"} => ~ cl'[d].sock
               /\ cl'[d].pc \notin {"idle", "dead"} => cl'[d].reqs # <<>>
               /\ cl'[d].pc = "read_id" => Req(d).op = "GET"
               /\ cl'[d].pc \in {"read_go1", "write_uuid", "read_go2", "write_derrived"}
                    => Req(d).op = "TAG"
    <3>1. CASE d # c
      BY <1>2, <2>2, <3>1 DEF ServiceInv, Applications
    <3>2. CASE d = c
      <4>1. cl'[c].pc = pc /\ cl'[c].sock = sock /\ cl'[c].reqs = cl[c].reqs
        BY <1>2
      <4>2. cl[c].reqs # <<>>
        BY <1>1 DEF ServiceInv, Applications
      <4>. QED
        BY <1>1, <3>2, <4>1, <4>2 DEF WhereOp
    <3>. QED
      BY <3>1, <3>2
  <2>3. \A d \in Clients : Range(cl'[d].reqs) \subseteq Requests[d] /\ Len(cl'[d].reqs) <= MaxCalls
    BY <1>2 DEF ServiceInv, Applications
  <2>. QED
    BY <2>1, <2>2, <2>3 DEF Applications
<1>7. (Ended /\ Protocol)'
  <2>1. ASSUME NEW k \in Calls
        PROVE  Fits(conn'[k], ClientAt(k)', ServerAt(k)', Request(k)')
    <3>1. CASE k = Call(c)
      <4>1. Request(k) = Req(c)
        BY <1>1, <3>1, ThisCall
      <4>. QED
        BY <1>1, <1>3, <3>1, <4>1
    <3>2. CASE k # Call(c)
      BY <1>3, <3>2, Basics
    <3>. QED
      BY <3>1, <3>2
  <2>. QED
    BY <2>1, Zenon DEF Ended, Protocol, Fits
<1>8. Answered'
  <2>1. ASSUME kills' = 0, NEW k \in Calls, ClientAt(k)' = "read_id", ServerAt(k)' = "gone"
        PROVE  conn'[k].in["client"] # <<>>
    <3>1. CASE k = Call(c)
      BY <1>1, <1>3, <2>1, <3>1
    <3>2. CASE k # Call(c)
      BY <1>1, <1>3, <2>1, <3>2 DEF ServiceInv, Answered
    <3>. QED
      BY <3>1, <3>2
  <2>. QED
    BY <2>1 DEF Answered
<1>. QED
  BY <1>4, <1>5, <1>6, <1>7, <1>8

LEMMA ClientKeepsTags ==
  ASSUME ServiceInv, NEW c \in Clients, NEW pc \in ClientPcs, NEW sock \in BOOLEAN,
         NEW ids \in Seq(AnyId), NEW s \in Streams(Messages), ClientMove(c, pc, sock, ids, s)
  PROVE  Tagging'
<1>1. /\ cl[c].pc \notin {"idle", "dead"}
      /\ pc \in {"idle", "dead"} => ~ sock
      /\ sock => cl[c].sock
      /\ ~ cl[c].sock => s = Stream(c)
      /\ (cl[c].sock /\ ~ sock /\ pc # "dead" /\ ServerAt(Call(c)) = "read_derrived"
           /\ s.in["server"] = <<>>) => Req(c).derrived = <<>>
      /\ UNCHANGED srv
  BY DEF ClientMove, clientRest
<1>2. /\ cl'[c] = [pc |-> pc, reqs |-> cl[c].reqs, sock |-> sock, ids |-> ids]
      /\ cl[c] \in ClientTypes
  BY ClientViews, Basics
<1>3. \A k \in Calls :
        /\ ServerAt(k)' = ServerAt(k) /\ Request(k)' = Request(k)
        /\ ClientAt(k)' = IF k = Call(c) THEN IF sock THEN pc ELSE "gone" ELSE ClientAt(k)
        /\ conn'[k] = IF k = Call(c) THEN s ELSE conn[k]
        /\ Alive(k)' => Alive(k)
  BY ClientViews
<1>4. SUFFICES ASSUME NEW k \in Calls, k = srv'.conn
               PROVE  Knows(k, srv.pc, srv.uuid, srv.derrived, conn[k])'
  BY DEF Tagging
<1>5. Knows(k, srv.pc, srv.uuid, srv.derrived, conn[k]) /\ ServerAt(k) = srv.pc
  BY <1>1, <1>4 DEF ServiceInv, Tagging, ServerAt
<1>6. CASE k # Call(c)
  BY <1>1, <1>3, <1>5, <1>6 DEF Knows
<1>7. CASE k = Call(c)
  <2>1. /\ ClientAt(k) = IF cl[c].sock THEN cl[c].pc ELSE "gone"
        /\ Request(k) = Req(c) /\ Stream(c) = conn[k] /\ k[1] = c
    BY <1>1, <1>7, ThisCall
  <2>2. ClientAt(k)' = (IF sock THEN pc ELSE "gone") /\ conn'[k] = s
    BY <1>3, <1>7
  <2>3. cl[c].pc # "gone" /\ pc # "gone"
    BY <1>2 DEF ClientTypes, ClientPcs
  <2>4. ClientAt(k)' # "gone" => ClientAt(k) # "gone"
    BY <1>1, <2>1, <2>2, <2>3
  <2>5. ASSUME srv.pc = "read_derrived", ClientAt(k)' = "gone", s.in["server"] = <<>>, Alive(k)'
        PROVE  Request(k).derrived = <<>>
    <3>1. ~ sock
      BY <2>2, <2>3, <2>5
    <3>2. pc # "dead"
      BY <1>2, <2>1, <2>5 DEF Alive
    <3>3. CASE cl[c].sock
      BY <1>1, <1>5, <1>7, <2>1, <2>5, <3>1, <3>2, <3>3
    <3>4. CASE ~ cl[c].sock
      BY <1>1, <1>3, <1>5, <2>1, <2>5, <3>4 DEF Knows
    <3>. QED
      BY <3>3, <3>4
  <2>6. /\ srv.pc = "write_go2" /\ ClientAt(k)' # "gone" => srv.uuid = Request(k).cl_id
        /\ srv.pc \in {"read_derrived", "tag_id"} =>
             Request(k).op = "TAG" /\ srv.uuid = Request(k).cl_id
        /\ srv.pc = "tag_id" /\ Alive(k)' =>
             \E junk \in Residue : srv.derrived = Fitting(Request(k).derrived) \o junk
    BY <1>3, <1>5, <2>4 DEF Knows
  <2>7. Request(k)' = Request(k)
    BY <1>3
  <2>. QED
    BY <1>1, <2>2, <2>5, <2>6, <2>7 DEF Knows
<1>. QED
  BY <1>6, <1>7

(* An answer moves from the connection to the application; no other has    *)
(* it, or gets it.                                                         *)
LEMMA ClientKeepsIds ==
  ASSUME ServiceInv, NEW c \in Clients, NEW pc \in ClientPcs, NEW sock \in BOOLEAN,
         NEW ids \in Seq(AnyId), NEW s \in Streams(Messages), ClientMove(c, pc, sock, ids, s)
  PROVE  Identifiers' /\ IdsNotShared'
<1>1. /\ UNCHANGED <<srv, issued, kills>> /\ Returns(c, ids, s) /\ cl[c].pc \notin {"idle", "dead"}
  BY DEF ClientMove, clientRest, poolVars
<1>2. /\ cl'[c] = [pc |-> pc, reqs |-> cl[c].reqs, sock |-> sock, ids |-> ids]
      /\ \A d \in Clients : (d # c => cl'[d] = cl[d]) /\ cl'[d].reqs = cl[d].reqs
  BY ClientViews
<1>3. \A k \in Calls :
        /\ ServerAt(k)' = ServerAt(k) /\ Request(k)' = Request(k)
        /\ ClientAt(k)' = IF k = Call(c) THEN IF sock THEN pc ELSE "gone" ELSE ClientAt(k)
        /\ conn'[k] = IF k = Call(c) THEN s ELSE conn[k]
        /\ Alive(k)' => Alive(k)
  BY ClientViews
<1>4. /\ Call(c) \in Calls /\ Stream(c) = conn[Call(c)] /\ cl[c] \in ClientTypes
      /\ cl[c].ids \in Seq(AnyId)
  BY <1>1, ThisCall, Basics DEF ClientTypes
<1>5. cl'[c].ids = ids /\ \A d \in Clients : d # c => cl'[d].ids = cl[d].ids
  BY <1>2
<1>6. ASSUME NEW k \in Calls, NEW id \in AnyId, Carries(k, id)'
      PROVE  Carries(k, id) /\ (k = Call(c) => s.in["client"] # <<>>)
  <2>1. conn'[k].in["client"] = <<Msg("uuid", id)>> /\ <<Msg("uuid", id)>> # <<>>
    BY <1>6, OneMessage DEF Carries
  <2>2. s.in["client"] \in {conn[Call(c)].in["client"], <<>>}
    BY <1>1, <1>4 DEF Returns
  <2>. QED
    BY <1>3, <2>1, <2>2 DEF Carries
<1>7. PICK drawn \in AnyId : drawn = srv.uuid
  BY DEF ServiceInv, Typed, ServerTypes
<1>8. CASE ids = cl[c].ids
  BY <1>1, <1>5, <1>6, <1>7, <1>8, IdsKept
<1>9. ASSUME NEW new \in AnyId, ids = Append(cl[c].ids, new)
      PROVE  /\ Returned(c)' = Returned(c) \cup {new}
             /\ \A d \in Clients : d # c => Returned(d)' = Returned(d)
             /\ \A i \in DOMAIN ids : \/ i \in DOMAIN cl[c].ids /\ ids[i] = cl[c].ids[i]
                                      \/ i = Len(cl[c].ids) + 1 /\ ids[i] = new
  <2>1. /\ DOMAIN Append(cl[c].ids, new) = DOMAIN cl[c].ids \cup {Len(cl[c].ids) + 1}
        /\ \A i \in DOMAIN cl[c].ids : Append(cl[c].ids, new)[i] = cl[c].ids[i]
        /\ Append(cl[c].ids, new)[Len(cl[c].ids) + 1] = new
        /\ Range(Append(cl[c].ids, new)) = Range(cl[c].ids) \cup {new}
    BY <1>4, AppendEntry
  <2>. QED
    BY <1>5, <1>9, <2>1 DEF Returned
<1>10. ASSUME NEW new \in AnyId, Carries(Call(c), new), ids = Append(cl[c].ids, new),
              s.in["client"] = <<>>
       PROVE  Identifiers' /\ IdsNotShared'
  <2>1. /\ new \in Range(issued) /\ \A k \in Calls : Carries(k, new) => k = Call(c)
        /\ \A d \in Clients : new \notin Returned(d)
        /\ srv.pc = "write_uuid" => new # srv.uuid
    BY <1>4, <1>10 DEF ServiceInv, Identifiers
  <2>2. \A k \in Calls : ~ Carries(k, new)'
    BY <1>6, <1>10, <2>1
  <2>3. /\ Returned(c)' = Returned(c) \cup {new}
        /\ \A d \in Clients : d # c => Returned(d)' = Returned(d)
    BY <1>9, <1>10
  <2>4. Identifiers'
    <3>1. \A d \in Clients : Returned(d)' \subseteq Returned(d) \cup {new}
      BY <2>3
    <3>2. srv.pc = "write_uuid" =>
            /\ drawn \in Range(issued)
            /\ \A k \in Calls : ~ Carries(k, drawn)'
            /\ \A d \in Clients : drawn \notin Returned(d)'
      BY <1>6, <1>7, <2>1, <3>1 DEF ServiceInv, Identifiers
    <3>3. ASSUME NEW k \in Calls, NEW id \in AnyId, Carries(k, id)'
          PROVE  /\ id \in Range(issued)
                 /\ \A l \in Calls : Carries(l, id)' => l = k
                 /\ \A d \in Clients : id \notin Returned(d)'
      <4>1. Carries(k, id) /\ \A l \in Calls : Carries(l, id)' => Carries(l, id)
        BY <1>6, <3>3
      <4>2. /\ id \in Range(issued) /\ \A l \in Calls : Carries(l, id) => l = k
            /\ \A d \in Clients : id \notin Returned(d)
        BY <4>1 DEF ServiceInv, Identifiers
      <4>3. id # new
        BY <2>2, <3>3
      <4>. QED
        BY <3>1, <4>1, <4>2, <4>3
    <3>4. \A d \in Clients : Returned(d)' \subseteq Range(issued) \cup {NoId}
      BY <2>1, <3>1 DEF ServiceInv, Identifiers
    <3>. QED
      BY <1>1, <1>7, <3>2, <3>3, <3>4 DEF Identifiers, Carries
  <2>5. ASSUME kills = 0 PROVE ReturnedIdsFresh'
    <3>1. \A d \in Clients : Range(cl'[d].ids) \subseteq Range(issued)
      BY <1>1, <2>1, <2>3, <2>5 DEF ServiceInv, IdsNotShared, ReturnedIdsFresh, Returned
    <3>2. ASSUME NEW d \in Clients, NEW e \in Clients, NEW i \in DOMAIN cl'[d].ids,
                 NEW j \in DOMAIN cl'[e].ids, cl'[d].ids[i] = cl'[e].ids[j]
          PROVE  d = e /\ i = j
      <4>1. \A f \in Clients : \A n \in DOMAIN cl'[f].ids :
              \/ n \in DOMAIN cl[f].ids /\ cl'[f].ids[n] = cl[f].ids[n]
              \/ f = c /\ n = Len(cl[c].ids) + 1 /\ cl'[f].ids[n] = new
        <5>1. \A n \in DOMAIN ids : \/ n \in DOMAIN cl[c].ids /\ ids[n] = cl[c].ids[n]
                                    \/ n = Len(cl[c].ids) + 1 /\ ids[n] = new
          BY <1>9, <1>10
        <5>. QED
          BY <1>5, <5>1
      <4>2. \A f \in Clients : \A n \in DOMAIN cl[f].ids : cl[f].ids[n] # new
        BY <2>1 DEF Returned, Range
      <4>. QED
        BY <2>5, <3>2, <4>1, <4>2 DEF ServiceInv, IdsNotShared, ReturnedIdsFresh
    <3>. QED
      BY <1>1, <3>1, <3>2 DEF ReturnedIdsFresh
  <2>6. \A d, e \in Clients : d # e => Returned(d)' \cap Returned(e)' \subseteq {NoId}
    <3>1. \A d, e \in Clients : d # e => Returned(d) \cap Returned(e) \subseteq {NoId}
      BY DEF ServiceInv, IdsNotShared, Returned
    <3>. QED
      BY <2>1, <2>3, <3>1
  <2>. QED
    BY <1>1, <2>4, <2>5, <2>6 DEF IdsNotShared, Returned
<1>11. ASSUME NEW old \in Returned(c) \cup {NoId}, ids = Append(cl[c].ids, old), kills # 0
       PROVE  Identifiers' /\ IdsNotShared'
  <2>1. old \in AnyId
    BY <1>4 DEF Returned, Range, AnyId
  <2>2. /\ Returned(c)' = Returned(c) \cup {old}
        /\ \A d \in Clients : d # c => Returned(d)' = Returned(d)
    BY <1>9, <1>11, <2>1
  <2>3. \A d \in Clients : Returned(d)' \subseteq Returned(d) \cup {NoId}
    BY <2>2
  <2>4. NoId \notin Range(issued)
    BY DrawnIsProper
  <2>5. Identifiers'
    <3>1. srv.pc = "write_uuid" =>
            /\ drawn \in Range(issued)
            /\ \A k \in Calls : ~ Carries(k, drawn)'
            /\ \A d \in Clients : drawn \notin Returned(d)'
      BY <1>6, <1>7, <2>3, <2>4 DEF ServiceInv, Identifiers
    <3>2. ASSUME NEW k \in Calls, NEW id \in AnyId, Carries(k, id)'
          PROVE  /\ id \in Range(issued)
                 /\ \A l \in Calls : Carries(l, id)' => l = k
                 /\ \A d \in Clients : id \notin Returned(d)'
      <4>1. Carries(k, id) /\ \A l \in Calls : Carries(l, id)' => Carries(l, id)
        BY <1>6, <3>2
      <4>2. /\ id \in Range(issued) /\ \A l \in Calls : Carries(l, id) => l = k
            /\ \A d \in Clients : id \notin Returned(d)
        BY <4>1 DEF ServiceInv, Identifiers
      <4>. QED
        BY <2>3, <2>4, <4>1, <4>2
    <3>3. \A d \in Clients : Returned(d)' \subseteq Range(issued) \cup {NoId}
      BY <2>3 DEF ServiceInv, Identifiers
    <3>. QED
      BY <1>1, <1>7, <3>1, <3>2, <3>3 DEF Identifiers, Carries
  <2>6. \A d, e \in Clients : d # e => Returned(d)' \cap Returned(e)' \subseteq {NoId}
    <3>1. \A d, e \in Clients : d # e => Returned(d) \cap Returned(e) \subseteq {NoId}
      BY DEF ServiceInv, IdsNotShared, Returned
    <3>. QED
      BY <2>3, <3>1
  <2>. QED
    BY <1>1, <1>11, <2>5, <2>6 DEF IdsNotShared, Returned
<1>. QED
  BY <1>1, <1>8, <1>10, <1>11 DEF Returns

LEMMA ClientMovesKeep ==
  ASSUME ServiceInv, Pool!PoolInv', NEW c \in Clients, ClientMoves(c)
  PROVE  ServiceInv'
  BY ClientKeepsTables, ClientKeepsTags, ClientKeepsIds DEF ClientMoves, ServiceInv

-------------------------------------------------------------------------------
(* What a step of a handler changes in the tables of Fits.                 *)
LEMMA DaemonKeepsTables ==
  ASSUME ServiceInv, NEW pc \in Serving, NEW uuid \in AnyId, NEW derrived \in Seq(Chars),
         NEW s \in Streams(Messages), DaemonMove(pc, uuid, derrived, s)
  PROVE  Typed' /\ Connections' /\ Applications' /\ (Ended /\ Protocol)' /\ Tagging' /\ Answered'
<1>1. /\ srv.pc \in Serving
      /\ srv' = [pc |-> pc, conn |-> srv.conn, uuid |-> uuid, derrived |-> derrived]
      /\ conn' = [conn EXCEPT ![srv.conn] = s]
      /\ UNCHANGED <<sock_file, backlog, cl, kills, crashes>>
      /\ Fits(s, ClientAt(srv.conn), pc, Request(srv.conn))
      /\ Knows(srv.conn, pc, uuid, derrived, s)
  BY DEF DaemonMove, Serve, daemonRest
<1>2. PICK k0 \in Calls : k0 = srv.conn
  BY <1>1, Serves
<1>3. /\ conn' \in [Calls -> Streams(Messages)]
      /\ \A k \in Calls : conn'[k] = IF k = k0 THEN s ELSE conn[k]
      /\ srv'.pc = pc /\ srv'.conn = k0 /\ srv'.uuid = uuid /\ srv'.derrived = derrived
      /\ pc \notin {"down", "bind", "accept", "gone"}
  BY <1>1, <1>2 DEF ServiceInv, Typed, Serving, ServerPcs
<1>4. \A k \in Calls :
        /\ ClientAt(k)' = ClientAt(k) /\ Request(k)' = Request(k) /\ Alive(k)' = Alive(k)
        /\ ServerAt(k)' = IF k = k0 THEN pc ELSE ServerAt(k)
        /\ InDaemon(k)' = InDaemon(k)
  BY <1>1, <1>2, <1>3 DEF ClientAt, Call, Request, Alive, ServerAt, InDaemon
<1>5. Typed'
  <2>1. srv' \in ServerTypes
    BY <1>1, <1>2 DEF ServerTypes, Serving
  <2>. QED
    BY <1>1, <1>3, <2>1 DEF ServiceInv, Typed
<1>6. Connections'
  <2>1. \A k \in Calls : Call(k[1])' = Call(k[1])
    BY <1>1 DEF Call
  <2>2. k0 # NoCall
    BY <1>2, Basics
  <2>. QED
    BY <1>1, <1>2, <1>3, <1>4, <2>1, <2>2 DEF ServiceInv, Connections
<1>7. Applications'
  BY <1>1 DEF ServiceInv, Applications, Req
<1>8. (Ended /\ Protocol)'
  <2>1. ASSUME NEW k \in Calls
        PROVE  Fits(conn'[k], ClientAt(k)', ServerAt(k)', Request(k)')
    BY <1>1, <1>2, <1>3, <1>4, Basics
  <2>. QED
    BY <2>1, Zenon DEF Ended, Protocol, Fits
<1>9. Tagging'
  BY <1>1, <1>2, <1>3, <1>4 DEF Tagging, Knows
<1>10. Answered'
  BY <1>1, <1>3, <1>4 DEF ServiceInv, Answered
<1>. QED
  BY <1>5, <1>6, <1>7, <1>8, <1>9, <1>10

(* What was returned stays apart when more UUIDs are drawn.                *)
LEMMA StillNotShared ==
  ASSUME IdsNotShared, UNCHANGED <<cl, kills>>, Range(issued) \subseteq Range(issued')
  PROVE  IdsNotShared'
<1>1. cl' = cl /\ kills' = kills
  OBVIOUS
<1>2. \A c \in Clients : Range(cl[c].ids) \subseteq Range(issued)
                         => Range(cl[c].ids) \subseteq Range(issued')
  BY Zenon
<1>3. ASSUME ReturnedIdsFresh
      PROVE  ReturnedIdsFresh'
  <2>1. \A c \in Clients : Range(cl'[c].ids) \subseteq Range(issued')
    BY <1>1, <1>2, <1>3 DEF ReturnedIdsFresh
  <2>2. \A c, d \in Clients : \A i \in DOMAIN cl'[c].ids, j \in DOMAIN cl'[d].ids :
          cl'[c].ids[i] = cl'[d].ids[j] => c = d /\ i = j
    BY <1>1, <1>3 DEF ReturnedIdsFresh
  <2>. QED
    BY <2>1, <2>2 DEF ReturnedIdsFresh
<1>. QED
  BY <1>1, <1>3, Zenon DEF IdsNotShared

(* A UUID that is drawn is a new one; one that is sent goes one way only.  *)
LEMMA DaemonKeepsIds ==
  ASSUME ServiceInv, NEW pc \in Serving, NEW uuid \in AnyId, NEW derrived \in Seq(Chars),
         NEW s \in Streams(Messages), DaemonMove(pc, uuid, derrived, s)
  PROVE  Identifiers' /\ IdsNotShared'
<1>1. /\ srv.pc \in Serving
      /\ srv' = [pc |-> pc, conn |-> srv.conn, uuid |-> uuid, derrived |-> derrived]
      /\ conn' = [conn EXCEPT ![srv.conn] = s]
      /\ UNCHANGED <<cl, kills>> /\ Sends(pc, uuid, s)
  BY DEF DaemonMove, Serve, daemonRest
<1>2. PICK k0 \in Calls : k0 = srv.conn
  BY <1>1, Serves
<1>3. /\ \A k \in Calls : conn'[k] = IF k = k0 THEN s ELSE conn[k]
      /\ srv'.pc = pc /\ srv'.uuid = uuid /\ Served = conn[k0]
      /\ \A c \in Clients : Returned(c)' = Returned(c) /\ cl'[c].ids = cl[c].ids
  BY <1>1, <1>2 DEF ServiceInv, Typed, Served, Returned
<1>4. PICK drawn \in AnyId : drawn = srv.uuid
  BY DEF ServiceInv, Typed, ServerTypes
<1>5. CASE srv.pc = "next_uuid" /\ pc = "write_uuid" /\ uuid = Pool!Drawn
           /\ issued' = Append(issued, uuid) /\ s.in["client"] = Served.in["client"]
  <2>1. uuid \notin Range(issued) /\ uuid # NoId
    BY <1>5, DrawnIsProper
  <2>2. Range(issued') = Range(issued) \cup {uuid}
    <3>1. uuid \in 0 .. MaxUuid
      <4>1. PoolPhase = "idle"
        BY <1>5 DEF PoolPhase
      <4>2. uuid_list_hd \in Pool!Slots /\ uuid_list \in [Pool!Slots -> 0 .. MaxUuid]
        BY <4>1 DEF ServiceInv, Pool!PoolInv, Pool!NeverDrawFromEmpty, Pool!TypeOK
      <4>. QED
        BY <1>5, <4>2 DEF Pool!Drawn
    <3>2. issued \in Seq(0 .. MaxUuid)
      BY DrawnIsProper
    <3>3. Range(Append(issued, uuid)) = Range(issued) \cup {uuid}
      <4>1. PICK S : issued \in Seq(S) /\ uuid \in S
        BY <3>1, <3>2
      <4>. QED
        BY <4>1, AppendEntry
    <3>. QED
      BY <1>5, <3>3
  <2>3. \A k \in Calls, id \in AnyId : Carries(k, id)' => Carries(k, id)
    BY <1>3, <1>5 DEF Carries
  <2>4. /\ \A k \in Calls : ~ Carries(k, uuid)'
        /\ \A c \in Clients : uuid \notin Returned(c)'
    BY <1>3, <2>1, <2>3 DEF ServiceInv, Identifiers
  <2>5. ASSUME NEW k \in Calls, NEW id \in AnyId, Carries(k, id)'
        PROVE  /\ id \in Range(issued)'
               /\ \A l \in Calls : Carries(l, id)' => l = k
               /\ \A c \in Clients : id \notin Returned(c)'
    BY <1>3, <2>2, <2>3, <2>5 DEF ServiceInv, Identifiers
  <2>6. \A c \in Clients : Returned(c)' \subseteq Range(issued)' \cup {NoId}
    BY <1>3, <2>2 DEF ServiceInv, Identifiers
  <2>7. Identifiers'
    BY <1>3, <2>2, <2>4, <2>5, <2>6 DEF Identifiers, Carries
  <2>8. IdsNotShared'
    <3>1. Range(issued) \subseteq Range(issued')
      BY <2>2
    <3>. QED
      BY <1>1, <3>1, StillNotShared DEF ServiceInv
  <2>. QED
    BY <2>7, <2>8
<1>6. CASE pc # "write_uuid" /\ issued' = issued
           /\ s.in["client"] \in {Served.in["client"], <<>>, <<Go>>}
  <2>1. ASSUME NEW k \in Calls, NEW id \in AnyId, Carries(k, id)' PROVE Carries(k, id)
    <3>1. conn'[k].in["client"] = <<Msg("uuid", id)>>
      BY <2>1 DEF Carries
    <3>2. <<Msg("uuid", id)>> # <<>> /\ <<Msg("uuid", id)>> # <<Go>>
      <4>1. Msg("uuid", id) # Go
        BY DEF Msg, Go
      <4>. QED
        BY <4>1, OneMessage
    <3>. QED
      BY <1>3, <1>6, <3>1, <3>2 DEF Carries
  <2>. QED
    BY <1>1, <1>3, <1>4, <1>6, <2>1, IdsKept
<1>7. CASE pc # "write_uuid" /\ issued' = issued
           /\ srv.pc = "write_uuid" /\ s.in["client"] = <<Msg("uuid", srv.uuid)>>
  <2>1. /\ drawn \in Range(issued)
        /\ \A k \in Calls : ~ Carries(k, drawn)
        /\ \A c \in Clients : drawn \notin Returned(c)
    BY <1>4, <1>7 DEF ServiceInv, Identifiers
  <2>2. ASSUME NEW k \in Calls, NEW id \in AnyId, Carries(k, id)'
        PROVE  IF k = k0 THEN id = drawn ELSE Carries(k, id)
    <3>1. CASE k = k0
      <4>1. <<Msg("uuid", id)>> = <<Msg("uuid", drawn)>>
        BY <1>3, <1>4, <1>7, <2>2, <3>1 DEF Carries
      <4>2. Msg("uuid", id) = Msg("uuid", drawn)
        BY <4>1, OneMessage
      <4>. QED
        BY <3>1, <4>2 DEF Msg
    <3>2. CASE k # k0
      BY <1>3, <2>2, <3>2 DEF Carries
    <3>. QED
      BY <3>1, <3>2
  <2>3. ASSUME NEW k \in Calls, NEW id \in AnyId, Carries(k, id)'
        PROVE  /\ id \in Range(issued)
               /\ \A l \in Calls : Carries(l, id)' => l = k
               /\ \A c \in Clients : id \notin Returned(c)
    <3>1. CASE k = k0
      BY <2>1, <2>2, <2>3, <3>1
    <3>2. CASE k # k0
      <4>1. Carries(k, id) /\ id # drawn
        BY <2>1, <2>2, <2>3, <3>2
      <4>2. /\ id \in Range(issued) /\ \A l \in Calls : Carries(l, id) => l = k
            /\ \A c \in Clients : id \notin Returned(c)
        BY <4>1 DEF ServiceInv, Identifiers
      <4>. QED
        BY <2>2, <4>1, <4>2
    <3>. QED
      BY <3>1, <3>2
  <2>4. Identifiers'
    <3>1. \A c \in Clients : Returned(c)' \subseteq Range(issued) \cup {NoId}
      BY <1>3 DEF ServiceInv, Identifiers
    <3>2. \A k \in Calls, id \in AnyId : Carries(k, id)' =>
            /\ id \in Range(issued)'
            /\ \A l \in Calls : Carries(l, id)' => l = k
            /\ \A c \in Clients : id \notin Returned(c)'
      BY <1>3, <1>7, <2>3
    <3>. QED
      BY <1>3, <1>7, <3>1, <3>2 DEF Identifiers
  <2>5. IdsNotShared'
    <3>1. Range(issued) \subseteq Range(issued')
      BY <1>7
    <3>. QED
      BY <1>1, <3>1, StillNotShared DEF ServiceInv
  <2>. QED
    BY <2>4, <2>5
<1>. QED
  BY <1>1, <1>5, <1>6, <1>7 DEF Sends

LEMMA DaemonMovesKeep ==
  ASSUME ServiceInv, Pool!PoolInv', DaemonMoves
  PROVE  ServiceInv'
  BY DaemonKeepsTables, DaemonKeepsIds DEF DaemonMoves, ServiceInv

-------------------------------------------------------------------------------
(* The daemon's steps that touch no connection.                            *)
LEMMA DaemonKeepsToItself ==
  ASSUME ServiceInv, Pool!PoolInv', UNCHANGED <<conn, cl, kills, crashes, issued>>,
         srv' \in ServerTypes, backlog' \in Seq(Calls), sock_file' \in BOOLEAN, Connections',
         \A k \in Calls : ServerAt(k)' = ServerAt(k),
         srv'.pc # "write_uuid", srv'.conn = NoCall \/ srv'.pc = "read_cmd"
  PROVE  ServiceInv'
<1>1. \A k \in Calls : /\ ClientAt(k)' = ClientAt(k) /\ Request(k)' = Request(k)
                       /\ \A id \in AnyId : Carries(k, id)' = Carries(k, id)
  BY DEF ClientAt, Call, Request, Carries
<1>2. Typed' /\ Applications'
  BY DEF ServiceInv, Typed, Applications, Req
<1>3. (Ended /\ Protocol)'
  BY <1>1 DEF ServiceInv, Ended, Protocol
<1>4. Tagging'
  BY Basics DEF Tagging, Knows
<1>5. Answered'
  BY <1>1 DEF ServiceInv, Answered
<1>6. srv.uuid \in AnyId
  BY DEF ServiceInv, Typed, ServerTypes
<1>7. Identifiers' /\ IdsNotShared'
  BY <1>1, <1>6, IdsKept
<1>. QED
  BY <1>2, <1>3, <1>4, <1>5, <1>7 DEF ServiceInv

LEMMA LaunchKeeps == ASSUME ServiceInv, Pool!PoolInv', Launch PROVE ServiceInv'
<1>1. /\ UNCHANGED <<conn, cl, kills, crashes, issued, backlog, sock_file>>
      /\ srv.pc = "down" /\ srv \in ServerTypes /\ srv' = [srv EXCEPT !.pc = "bind"]
  BY DEF Launch, Pool!Start, ServiceInv, Typed
<1>2. srv.conn = NoCall
  BY <1>1 DEF ServiceInv, Connections
<1>3. /\ srv' \in ServerTypes /\ srv'.pc = "bind" /\ srv'.conn = NoCall
  BY <1>1, <1>2, ServerRecord DEF ServerTypes, ServerPcs
<1>4. \A k \in Calls : ServerAt(k)' = ServerAt(k) /\ InDaemon(k)' = InDaemon(k)
  BY <1>1, <1>2, <1>3, Basics DEF ServerAt, InDaemon
<1>5. Connections'
  BY <1>1, <1>2, <1>3, <1>4 DEF ServiceInv, Connections, Call
<1>. QED
  BY <1>1, <1>3, <1>4, <1>5, DaemonKeepsToItself DEF ServiceInv, Typed

LEMMA BindKeeps == ASSUME ServiceInv, Pool!PoolInv', Bind \/ BindFails PROVE ServiceInv'
<1>1. /\ UNCHANGED <<conn, cl, kills, crashes, issued, backlog>> /\ sock_file' \in BOOLEAN
      /\ srv.pc = "bind" /\ srv' \in {Listening, Down}
  BY DEF Bind, BindFails, Pool!Exit, poolVars
<1>2. srv.conn = NoCall
  BY <1>1 DEF ServiceInv, Connections
<1>3. Listening = [pc |-> "accept", conn |-> NoCall, uuid |-> NoId, derrived |-> <<>>]
  BY DEF Listening, Down
<1>4. srv' \in ServerTypes /\ srv'.pc \in {"accept", "down"} /\ srv'.conn = NoCall
  <2>1. <<>> \in Seq(Chars) /\ NoId \in AnyId /\ NoCall \in Calls \cup {NoCall}
    BY DEF AnyId
  <2>2. [pc |-> "accept", conn |-> NoCall, uuid |-> NoId, derrived |-> <<>>] \in ServerTypes
    BY <2>1 DEF ServerTypes, ServerPcs
  <2>3. [pc |-> "down", conn |-> NoCall, uuid |-> NoId, derrived |-> <<>>] \in ServerTypes
    BY <2>1 DEF ServerTypes, ServerPcs
  <2>. QED
    BY <1>1, <1>3, <2>2, <2>3 DEF Down
<1>5. \A k \in Calls : ServerAt(k)' = ServerAt(k) /\ InDaemon(k)' = InDaemon(k)
  BY <1>1, <1>2, <1>4, Basics DEF ServerAt, InDaemon
<1>6. Connections'
  BY <1>1, <1>2, <1>4, <1>5 DEF ServiceInv, Connections, Call
<1>. QED
  BY <1>1, <1>4, <1>5, <1>6, DaemonKeepsToItself DEF ServiceInv, Typed

LEMMA AcceptKeeps == ASSUME ServiceInv, Pool!PoolInv', Accept PROVE ServiceInv'
<1>1. /\ UNCHANGED <<conn, cl, kills, crashes, issued, sock_file>>
      /\ srv.pc = "accept" /\ srv \in ServerTypes /\ backlog # <<>> /\ backlog \in Seq(Calls)
      /\ srv' = [srv EXCEPT !.pc = "read_cmd", !.conn = Head(backlog)]
      /\ backlog' = Tail(backlog)
  BY DEF Accept, poolVars, ServiceInv, Typed
<1>2. srv.conn = NoCall
  BY <1>1 DEF ServiceInv, Connections
<1>3. /\ Head(backlog) = backlog[1] /\ Head(backlog) \in Calls /\ 1 \in DOMAIN backlog
      /\ Tail(backlog) \in Seq(Calls) /\ Len(backlog) \in Nat \ {0}
      /\ Len(Tail(backlog)) = Len(backlog) - 1
      /\ \A k \in DOMAIN Tail(backlog) :
           k + 1 \in DOMAIN backlog /\ k \in Nat \ {0} /\ Tail(backlog)[k] = backlog[k + 1]
      /\ Range(backlog) = Range(Tail(backlog)) \cup {Head(backlog)}
  BY <1>1, TakeEntry
<1>4. PICK k0 \in Calls : k0 = Head(backlog)
  BY <1>3
<1>5. srv' = [pc |-> "read_cmd", conn |-> k0, uuid |-> srv.uuid, derrived |-> srv.derrived]
  <2>1. srv \in ServerTypes
    BY <1>1
  <2>2. \A k : [srv EXCEPT !.pc = "read_cmd", !.conn = k]
                 = [pc |-> "read_cmd", conn |-> k, uuid |-> srv.uuid, derrived |-> srv.derrived]
    BY <2>1, ServerRecord
  <2>. QED
    BY <1>1, <1>4, <2>2
<1>6. srv' \in ServerTypes /\ srv'.pc = "read_cmd" /\ srv'.conn = k0
  <2>1. srv.uuid \in AnyId /\ srv.derrived \in Seq(Chars) /\ k0 \in Calls \cup {NoCall}
    BY <1>1 DEF ServerTypes
  <2>. QED
    BY <1>5, <2>1 DEF ServerTypes, ServerPcs
<1>7. \A i, j \in DOMAIN backlog : backlog[i] = backlog[j] => i = j
  BY DEF ServiceInv, Connections
<1>8. k0 \notin Range(Tail(backlog))
  <2>1. \A i \in DOMAIN Tail(backlog) : Tail(backlog)[i] # backlog[1]
    <3>1. SUFFICES ASSUME NEW i \in DOMAIN Tail(backlog), Tail(backlog)[i] = backlog[1]
                   PROVE  FALSE
      OBVIOUS
    <3>2. i + 1 \in DOMAIN backlog /\ backlog[i + 1] = backlog[1] /\ i + 1 # 1
      BY <1>3, <3>1
    <3>. QED
      BY <1>3, <1>7, <3>2
  <2>. QED
    BY <1>3, <1>4, <2>1 DEF Range
<1>9. \A k \in Calls : ServerAt(k)' = ServerAt(k) /\ InDaemon(k)' = InDaemon(k)
  BY <1>1, <1>2, <1>3, <1>4, <1>6, <1>8, Basics DEF ServerAt, InDaemon
<1>10. Connections'
  <2>1. ASSUME NEW i \in DOMAIN Tail(backlog), NEW j \in DOMAIN Tail(backlog),
               Tail(backlog)[i] = Tail(backlog)[j]
        PROVE  i = j
    <3>1. i + 1 \in DOMAIN backlog /\ j + 1 \in DOMAIN backlog /\ i \in Nat /\ j \in Nat
          /\ backlog[i + 1] = backlog[j + 1]
      BY <1>3, <2>1
    <3>2. i + 1 = j + 1
      BY <1>7, <3>1
    <3>. QED
      BY <3>1, <3>2
  <2>2. Len(backlog') <= BACKLOG + 1
    BY <1>1, <1>3, BoundsAssumption DEF ServiceInv, Connections
  <2>3. k0 # NoCall
    BY <1>4, Basics
  <2>4. \A k \in Calls : InDaemon(k)' =>
          k[2] <= Len(cl'[k[1]].reqs) /\ (k = Call(k[1])' => cl'[k[1]].pc # "connect")
    BY <1>1, <1>9 DEF ServiceInv, Connections, Call
  <2>. QED
    BY <1>1, <1>6, <1>8, <2>1, <2>2, <2>3, <2>4 DEF Connections
<1>. QED
  BY <1>1, <1>3, <1>6, <1>9, <1>10, DaemonKeepsToItself DEF ServiceInv, Typed

(* The daemon's steps that shut connections.                               *)
LEMMA DaemonShuts ==
  ASSUME ServiceInv, Pool!PoolInv', UNCHANGED <<cl, crashes, issued>>,
         srv' = Listening \/ srv' = Down, sock_file' \in BOOLEAN, kills' \in 0 .. MaxKills,
         kills' = 0 => kills = 0, backlog' = <<>> \/ backlog' = backlog,
         conn' \in [Calls -> Streams(Messages)],
         \A k \in Calls : \/ conn'[k] = conn[k] /\ ServerAt(k)' = ServerAt(k)
                          \/ /\ ServerAt(k)' = "gone"
                             /\ \E abort \in BOOLEAN : conn'[k] = Closed(conn[k], "server", abort),
         Answered'
  PROVE  ServiceInv'
<1>1. Listening = [pc |-> "accept", conn |-> NoCall, uuid |-> NoId, derrived |-> <<>>]
  BY DEF Listening, Down
<1>2. /\ srv' \in ServerTypes /\ srv'.pc \in {"accept", "down"} /\ srv'.conn = NoCall
  <2>1. <<>> \in Seq(Chars) /\ NoId \in AnyId /\ NoCall \in Calls \cup {NoCall}
    BY DEF AnyId
  <2>2. [pc |-> "accept", conn |-> NoCall, uuid |-> NoId, derrived |-> <<>>] \in ServerTypes
    BY <2>1 DEF ServerTypes, ServerPcs
  <2>3. [pc |-> "down", conn |-> NoCall, uuid |-> NoId, derrived |-> <<>>] \in ServerTypes
    BY <2>1 DEF ServerTypes, ServerPcs
  <2>. QED
    BY <1>1, <2>2, <2>3 DEF Down
<1>3. \A k \in Calls : ClientAt(k)' = ClientAt(k) /\ Request(k)' = Request(k)
  BY DEF ClientAt, Call, Request
<1>4. \A k \in Calls :
        /\ Fits(conn'[k], ClientAt(k), ServerAt(k)', Request(k))
        /\ conn'[k].in["client"] = conn[k].in["client"]
  BY Basics, ServerShuts
<1>5. Typed'
  <2>1. <<>> \in Seq(Calls)
    OBVIOUS
  <2>. QED
    BY <1>2, <2>1 DEF ServiceInv, Typed
<1>6. Connections'
  <2>1. \A i, j \in DOMAIN backlog' : backlog'[i] = backlog'[j] => i = j
    BY DEF ServiceInv, Connections
  <2>2. Len(backlog') <= BACKLOG + 1
    BY BoundsAssumption DEF ServiceInv, Connections
  <2>3. NoCall \notin Range(backlog')
    <3>1. \A x \in Range(backlog) : x \in Calls
      BY DEF ServiceInv, Typed, Range
    <3>2. Range(<<>>) = {}
      BY DEF Range
    <3>. QED
      BY <3>1, <3>2, Basics
  <2>4. \A k \in Calls : InDaemon(k)' => InDaemon(k)
    <3>1. Range(<<>>) = {}
      BY DEF Range
    <3>. QED
      BY <1>2, <3>1, Basics DEF InDaemon
  <2>. QED
    BY <1>2, <2>1, <2>2, <2>3, <2>4 DEF ServiceInv, Connections, Call
<1>7. Applications'
  BY DEF ServiceInv, Applications, Req
<1>8. (Ended /\ Protocol)'
  <2>1. \A k \in Calls : Fits(conn'[k], ClientAt(k)', ServerAt(k)', Request(k)')
    BY <1>3, <1>4
  <2>. QED
    BY <2>1, Zenon DEF Ended, Protocol, Fits
<1>9. Tagging'
  BY <1>2, Basics DEF Tagging
<1>10. Identifiers' /\ IdsNotShared'
  <2>1. srv.uuid \in AnyId
    BY DEF ServiceInv, Typed, ServerTypes
  <2>2. \A k \in Calls, id \in AnyId : Carries(k, id)' => Carries(k, id)
    BY <1>4 DEF Carries
  <2>. QED
    BY <1>2, <2>1, <2>2, IdsKept
<1>. QED
  BY <1>5, <1>6, <1>7, <1>8, <1>9, <1>10 DEF ServiceInv

LEMMA CloseKeeps == ASSUME ServiceInv, Pool!PoolInv', CloseConnection PROVE ServiceInv'
<1>1. /\ srv.pc = "close" /\ srv.pc \in Serving /\ srv' = Listening
      /\ UNCHANGED <<sock_file, backlog, cl, kills, crashes, issued>>
      /\ conn' = [conn EXCEPT ![srv.conn] = Closed(Served, "server", FALSE)]
  BY DEF CloseConnection, At, Serving, ServerPcs, Serve, HungUp, daemonRest, poolVars
<1>2. PICK k0 \in Calls : k0 = srv.conn
  BY <1>1, Serves
<1>3. /\ Served = conn[k0] /\ Served \in Streams(Messages)
      /\ Fits(Served, ClientAt(k0), "close", Request(k0))
  BY <1>1, <1>2, Serves
<1>4. /\ Closed(Served, "server", FALSE) \in Streams(Messages)
      /\ Closed(Served, "server", FALSE).in["client"] = Served.in["client"]
  BY <1>3, ServerShuts
<1>5. /\ conn' \in [Calls -> Streams(Messages)]
      /\ \A k \in Calls :
           conn'[k] = IF k = k0 THEN Closed(conn[k0], "server", FALSE) ELSE conn[k]
  BY <1>1, <1>2, <1>3, <1>4 DEF ServiceInv, Typed
<1>6. srv'.conn = NoCall /\ k0 \notin Range(backlog)
  BY <1>1, <1>2 DEF Listening, Down, ServiceInv, Connections
<1>7. \A k \in Calls : ServerAt(k)' = IF k = k0 THEN "gone" ELSE ServerAt(k)
  BY <1>1, <1>2, <1>6, Basics DEF ServerAt
<1>8. Answered'
  <2>1. \A k \in Calls : ClientAt(k)' = ClientAt(k)
    BY <1>1 DEF ClientAt, Call
  <2>2. ClientAt(k0) = "read_id" => Served.in["client"] # <<>>
    BY <1>3, OneMessage DEF Fits, InStep, NothingSent, SentToClient, SentToServer
  <2>3. conn'[k0].in["client"] = Served.in["client"]
    BY <1>3, <1>4, <1>5
  <2>. QED
    BY <1>1, <1>5, <1>7, <2>1, <2>2, <2>3 DEF ServiceInv, Answered
<1>9. kills \in 0 .. MaxKills /\ sock_file \in BOOLEAN
  BY DEF ServiceInv, Typed
<1>10. \A k \in Calls :
         \/ conn'[k] = conn[k] /\ ServerAt(k)' = ServerAt(k)
         \/ /\ ServerAt(k)' = "gone"
            /\ \E abort \in BOOLEAN : conn'[k] = Closed(conn[k], "server", abort)
  BY <1>5, <1>7
<1>. QED
  BY <1>1, <1>5, <1>8, <1>9, <1>10, DaemonShuts

LEMMA QuitKeeps == ASSUME ServiceInv, Pool!PoolInv', Quit PROVE ServiceInv'
<1>1. /\ UNCHANGED <<cl, crashes, issued>> /\ sock_file' \in BOOLEAN
      /\ kills < MaxKills /\ kills' = kills + 1 /\ srv' = Down /\ backlog' = <<>>
      /\ conn' = [k \in Calls |->
                    IF k \in Range(backlog) THEN Closed(conn[k], "server", TRUE)
                    ELSE IF k = srv.conn THEN Closed(conn[k], "server", FALSE)
                    ELSE conn[k]]
  BY DEF Quit, Terminate, AcceptFails, DaemonGone, Pool!Exit, ServiceInv, Typed
<1>2. kills' \in 0 .. MaxKills /\ kills' # 0
  BY <1>1, BoundsAssumption DEF ServiceInv, Typed
<1>3. \A k \in Calls : ServerAt(k)' = "gone"
  <2>1. Range(<<>>) = {}
    BY DEF Range
  <2>. QED
    BY <1>1, <2>1, Basics DEF ServerAt, Down
<1>4. ASSUME NEW k \in Calls
      PROVE  /\ conn'[k] \in Streams(Messages)
             /\ \/ conn'[k] = conn[k] /\ ServerAt(k)' = ServerAt(k)
                \/ /\ ServerAt(k)' = "gone"
                   /\ \E abort \in BOOLEAN : conn'[k] = Closed(conn[k], "server", abort)
  <2>1. conn[k] \in Streams(Messages) /\ Fits(conn[k], ClientAt(k), ServerAt(k), Request(k))
    BY Basics
  <2>2. /\ Closed(conn[k], "server", TRUE) \in Streams(Messages)
        /\ Closed(conn[k], "server", FALSE) \in Streams(Messages)
    BY <2>1, ServerShuts
  <2>3. CASE k \in Range(backlog)
    BY <1>1, <1>3, <2>2, <2>3
  <2>4. CASE k \notin Range(backlog) /\ k = srv.conn
    BY <1>1, <1>3, <2>2, <2>4
  <2>5. CASE k \notin Range(backlog) /\ k # srv.conn
    BY <1>1, <1>3, <2>1, <2>5 DEF ServerAt
  <2>. QED
    BY <2>3, <2>4, <2>5
<1>5. conn' \in [Calls -> Streams(Messages)]
  <2>1. DOMAIN conn' = Calls /\ conn' = [k \in Calls |-> conn'[k]]
    BY <1>1
  <2>. QED
    BY <1>4, <2>1
<1>6. Answered'
  BY <1>2 DEF Answered
<1>. QED
  BY <1>1, <1>2, <1>4, <1>5, <1>6, DaemonShuts

-------------------------------------------------------------------------------
(* A call that is in nobody's hands fits any request.                      *)
LEMMA NotBegun ==
  ASSUME NEW s, NEW r, NEW r2, Fits(s, "gone", "gone", r)
  PROVE  Fits(s, "gone", "gone", r2)
  BY DEF Fits, InStep, NothingSent, SentToClient, SentToServer

(* An application without a socket that begins a call, or gives one up.    *)
LEMMA ClientUnconnected ==
  ASSUME ServiceInv, Pool!PoolInv', NEW c \in Clients, NEW pc \in {"idle", "connect"},
         NEW reqs \in Seq(RequestType), ~ cl[c].sock, cl[c].pc \in {"idle", "connect"},
         cl' = [cl EXCEPT ![c] = [pc |-> pc, reqs |-> reqs, sock |-> cl[c].sock, ids |-> cl[c].ids]],
         UNCHANGED <<clientRest, conn, backlog, crashes>>,
         \/ pc = "idle" /\ reqs = cl[c].reqs
         \/ \E r \in Requests[c] : /\ pc = "connect" /\ reqs = Append(cl[c].reqs, r)
                                   /\ Len(cl[c].reqs) < MaxCalls
  PROVE  ServiceInv'
<1>1. UNCHANGED <<srv, backlog, conn, kills, crashes, sock_file, issued>>
  BY DEF clientRest, poolVars
<1>2. /\ cl \in [Clients -> ClientTypes] /\ cl[c] \in ClientTypes
      /\ cl[c].reqs \in Seq(RequestType) /\ Requests[c] \subseteq RequestType
  BY RequestAssumption DEF ServiceInv, Typed, ClientTypes
<1>3. [pc |-> pc, reqs |-> reqs, sock |-> cl[c].sock, ids |-> cl[c].ids] \in ClientTypes
  BY <1>2 DEF ClientTypes, ClientPcs
<1>4. /\ cl' \in [Clients -> ClientTypes]
      /\ cl'[c].pc = pc /\ cl'[c].reqs = reqs /\ cl'[c].sock = cl[c].sock /\ cl'[c].ids = cl[c].ids
      /\ \A d \in Clients : d # c => cl'[d] = cl[d]
  BY <1>2, <1>3
<1>5. /\ Len(cl[c].reqs) \in Nat /\ Len(reqs) \in Nat /\ Len(cl[c].reqs) <= Len(reqs)
      /\ \A n \in 1 .. Len(cl[c].reqs) : reqs[n] = cl[c].reqs[n]
      /\ pc = "connect" => Len(reqs) = Len(cl[c].reqs) + 1
  <2>1. CASE pc = "idle" /\ reqs = cl[c].reqs
    BY <1>2, <2>1, LenProperties
  <2>2. ASSUME NEW r \in Requests[c], pc = "connect", reqs = Append(cl[c].reqs, r)
        PROVE  /\ Len(cl[c].reqs) \in Nat /\ Len(reqs) = Len(cl[c].reqs) + 1
               /\ \A n \in 1 .. Len(cl[c].reqs) : reqs[n] = cl[c].reqs[n]
    <3>1. r \in RequestType
      BY <1>2
    <3>2. /\ Len(cl[c].reqs) \in Nat /\ Len(Append(cl[c].reqs, r)) = Len(cl[c].reqs) + 1
          /\ DOMAIN cl[c].reqs = 1 .. Len(cl[c].reqs)
          /\ \A n \in DOMAIN cl[c].reqs : Append(cl[c].reqs, r)[n] = cl[c].reqs[n]
      BY <1>2, <3>1, AppendEntry
    <3>. QED
      BY <2>2, <3>2
  <2>. QED
    BY <2>1, <2>2
<1>6. ASSUME NEW k \in Calls
      PROVE  /\ ClientAt(k)' = ClientAt(k) /\ ServerAt(k)' = ServerAt(k)
             /\ InDaemon(k)' = InDaemon(k) /\ (k[1] = c => ClientAt(k) = "gone")
             /\ k[2] <= Len(cl[k[1]].reqs) => Request(k)' = Request(k)
             /\ Alive(k)' => Alive(k)
  <2>1. k[1] \in Clients /\ k[2] \in Nat /\ k[2] # 0
    BY Basics
  <2>2. ServerAt(k)' = ServerAt(k) /\ InDaemon(k)' = InDaemon(k)
    BY <1>1 DEF ServerAt, InDaemon
  <2>3. CASE k[1] = c
    <3>1. ClientAt(k)' = "gone" /\ ClientAt(k) = "gone"
      BY <1>4, <2>3 DEF ClientAt
    <3>2. k[2] <= Len(cl[k[1]].reqs) => Request(k)' = Request(k)
      BY <1>4, <1>5, <2>1, <2>3 DEF Request
    <3>3. Alive(k)
      BY <2>3 DEF Alive
    <3>. QED
      BY <2>2, <3>1, <3>2, <3>3
  <2>4. CASE k[1] # c
    BY <1>4, <2>1, <2>2, <2>4 DEF ClientAt, Call, Request, Alive
  <2>. QED
    BY <2>3, <2>4
<1>7. Typed'
  BY <1>1, <1>4 DEF ServiceInv, Typed
<1>8. Connections'
  <2>1. ASSUME NEW k \in Calls, InDaemon(k)
        PROVE  k[2] <= Len(cl'[k[1]].reqs) /\ (k = Call(k[1])' => cl'[k[1]].pc # "connect")
    <3>1. k[1] \in Clients /\ k[2] \in Nat
      BY Basics
    <3>2. k[2] <= Len(cl[k[1]].reqs) /\ (k = Call(k[1]) => cl[k[1]].pc # "connect")
      BY <2>1 DEF ServiceInv, Connections
    <3>3. CASE k[1] = c
      <4>1. k[2] <= Len(reqs)
        BY <1>5, <3>1, <3>2, <3>3
      <4>2. ASSUME pc = "connect" PROVE k # Call(c)'
        <5>1. Call(c)' = <<c, Len(reqs)>>
          BY <1>4 DEF Call
        <5>. QED
          BY <1>5, <3>1, <3>2, <3>3, <4>2, <5>1
      <4>. QED
        BY <1>4, <3>3, <4>1, <4>2
    <3>4. CASE k[1] # c
      BY <1>4, <3>1, <3>2, <3>4 DEF Call
    <3>. QED
      BY <3>3, <3>4
  <2>. QED
    BY <1>1, <1>6, <2>1 DEF ServiceInv, Connections
<1>9. Applications'
  <2>1. Range(reqs) \subseteq Requests[c] /\ Len(reqs) <= MaxCalls
    <3>1. Range(cl[c].reqs) \subseteq Requests[c] /\ Len(cl[c].reqs) <= MaxCalls
      BY DEF ServiceInv, Applications
    <3>2. ASSUME NEW r \in Requests[c], reqs = Append(cl[c].reqs, r), Len(cl[c].reqs) < MaxCalls
          PROVE  Range(reqs) \subseteq Requests[c] /\ Len(reqs) <= MaxCalls
      <4>1. r \in RequestType
        BY <1>2
      <4>2. /\ Len(Append(cl[c].reqs, r)) = Len(cl[c].reqs) + 1
            /\ Range(Append(cl[c].reqs, r)) = Range(cl[c].reqs) \cup {r}
        BY <1>2, <4>1, AppendEntry
      <4>. QED
        BY <1>5, <3>1, <3>2, <4>2, BoundsAssumption
    <3>. QED
      BY <3>1, <3>2
  <2>2. pc = "connect" => reqs # <<>>
    BY <1>5
  <2>3. \A d \in Clients : d # c => Req(d)' = Req(d)
    BY <1>4 DEF Req
  <2>. QED
    BY <1>4, <2>1, <2>2, <2>3 DEF ServiceInv, Applications
<1>10. (Ended /\ Protocol)'
  <2>1. ASSUME NEW k \in Calls
        PROVE  Fits(conn'[k], ClientAt(k)', ServerAt(k)', Request(k)')
    <3>1. Fits(conn[k], ClientAt(k), ServerAt(k), Request(k)) /\ k[1] \in Clients /\ k[2] \in Nat
      BY Basics
    <3>2. CASE k[2] <= Len(cl[k[1]].reqs)
      BY <1>1, <1>6, <3>1, <3>2
    <3>3. CASE ~ k[2] <= Len(cl[k[1]].reqs)
      <4>1. ~ InDaemon(k)
        BY <3>3 DEF ServiceInv, Connections
      <4>2. ServerAt(k) = "gone"
        BY <4>1 DEF InDaemon, ServerAt
      <4>3. ClientAt(k) = "gone"
        <5>1. k # Call(k[1])
          BY <3>1, <3>3, Basics DEF Call
        <5>. QED
          BY <5>1 DEF ClientAt
      <4>. QED
        BY <1>1, <1>6, <3>1, <4>2, <4>3, NotBegun
    <3>. QED
      BY <3>2, <3>3
  <2>. QED
    BY <2>1, Zenon DEF Ended, Protocol, Fits
<1>11. Tagging'
  <2>1. SUFFICES ASSUME NEW k \in Calls, k = srv'.conn
                 PROVE  Knows(k, srv.pc, srv.uuid, srv.derrived, conn[k])'
    BY DEF Tagging
  <2>2. Knows(k, srv.pc, srv.uuid, srv.derrived, conn[k]) /\ InDaemon(k)
    BY <1>1, <2>1 DEF ServiceInv, Tagging, InDaemon
  <2>3. Request(k)' = Request(k)
    BY <1>6, <2>2 DEF ServiceInv, Connections
  <2>. QED
    BY <1>1, <1>6, <2>2, <2>3 DEF Knows
<1>12. Answered'
  BY <1>1, <1>6 DEF ServiceInv, Answered
<1>13. Identifiers' /\ IdsNotShared'
  <2>1. \A k \in Calls, id \in AnyId : Carries(k, id)' => Carries(k, id)
    BY <1>1 DEF Carries
  <2>2. srv.uuid \in AnyId
    BY DEF ServiceInv, Typed, ServerTypes
  <2>3. \A d \in Clients : cl'[d].ids = cl[d].ids
    BY <1>4
  <2>. QED
    BY <1>1, <2>1, <2>2, <2>3, IdsKept
<1>. QED
  BY <1>7, <1>8, <1>9, <1>10, <1>11, <1>12, <1>13 DEF ServiceInv

LEMMA NewCallKeeps ==
  ASSUME ServiceInv, Pool!PoolInv', NEW c \in Clients, NewCall(c)
  PROVE  ServiceInv'
<1>1. /\ cl[c].pc = "idle" /\ Len(cl[c].reqs) < MaxCalls
      /\ UNCHANGED <<clientRest, backlog, conn, crashes>>
  BY DEF NewCall
<1>2. PICK r \in Requests[c] :
        cl' = [cl EXCEPT ![c] = [cl[c] EXCEPT !.reqs = Append(cl[c].reqs, r), !.pc = "connect"]]
  BY DEF NewCall
<1>3. /\ cl[c] \in ClientTypes /\ ~ cl[c].sock /\ cl[c].reqs \in Seq(RequestType)
      /\ r \in RequestType
  BY <1>1, Basics, RequestAssumption DEF ServiceInv, Applications, ClientTypes
<1>4. Append(cl[c].reqs, r) \in Seq(RequestType)
  BY <1>3, AppendEntry
<1>5. [cl[c] EXCEPT !.reqs = Append(cl[c].reqs, r), !.pc = "connect"]
        = [pc |-> "connect", reqs |-> Append(cl[c].reqs, r), sock |-> cl[c].sock, ids |-> cl[c].ids]
  <2>1. cl[c] \in ClientTypes
    BY <1>3
  <2>. QED
    BY <2>1, ClientRequest
<1>6. cl' = [cl EXCEPT ![c] = [pc |-> "connect", reqs |-> Append(cl[c].reqs, r),
                               sock |-> cl[c].sock, ids |-> cl[c].ids]]
  BY <1>2, <1>5
<1>. QED
  BY <1>1, <1>3, <1>4, <1>6, ClientUnconnected

(* connect() makes a connection that is open at both ends, empty, and in   *)
(* nobody's hands so far.                                                  *)
LEMMA Connected ==
  ASSUME ServiceInv, Pool!PoolInv', NEW c \in Clients, cl[c].pc = "connect",
         Len(backlog) <= BACKLOG,
         conn' = [conn EXCEPT ![Call(c)] = NewStream],
         backlog' = Append(backlog, Call(c)),
         cl' = [cl EXCEPT ![c] = [pc |-> "write_cmd", reqs |-> cl[c].reqs, sock |-> TRUE,
                                  ids |-> cl[c].ids]],
         UNCHANGED <<clientRest, crashes>>
  PROVE  ServiceInv'
<1>1. UNCHANGED <<srv, kills, crashes, sock_file, issued>>
  BY DEF clientRest, poolVars
<1>2. /\ cl \in [Clients -> ClientTypes] /\ conn \in [Calls -> Streams(Messages)]
      /\ backlog \in Seq(Calls) /\ ~ cl[c].sock /\ cl[c] \in ClientTypes
  BY Basics DEF ServiceInv, Typed, Applications
<1>3. PICK k0 \in Calls : k0 = Call(c) /\ k0[1] = c /\ k0[2] = Len(cl[c].reqs) /\ Request(k0) = Req(c)
  BY ThisCall
<1>4. /\ cl' \in [Clients -> ClientTypes] /\ cl'[c].pc = "write_cmd" /\ cl'[c].reqs = cl[c].reqs
      /\ cl'[c].ids = cl[c].ids /\ cl'[c].sock
      /\ \A d \in Clients : d # c => cl'[d] = cl[d]
  <2>1. [pc |-> "write_cmd", reqs |-> cl[c].reqs, sock |-> TRUE, ids |-> cl[c].ids] \in ClientTypes
    BY <1>2 DEF ClientTypes, ClientPcs
  <2>. QED
    BY <1>2, <2>1
<1>5. /\ NewStream \in Streams(Messages)
      /\ \A e \in Ends : NewStream.open[e] /\ NewStream.in[e] = <<>> /\ ~ NewStream.err[e]
  BY NewStreams
<1>6. /\ conn' \in [Calls -> Streams(Messages)]
      /\ \A k \in Calls : conn'[k] = IF k = k0 THEN NewStream ELSE conn[k]
  BY <1>2, <1>3, <1>5
<1>7. /\ backlog' \in Seq(Calls) /\ Len(backlog) \in Nat /\ Len(backlog') = Len(backlog) + 1
      /\ DOMAIN backlog' = DOMAIN backlog \cup {Len(backlog) + 1}
      /\ \A i \in DOMAIN backlog : backlog'[i] = backlog[i] /\ i # Len(backlog) + 1
      /\ backlog'[Len(backlog) + 1] = k0
      /\ Range(backlog') = Range(backlog) \cup {k0}
  BY <1>2, <1>3, AppendEntry
<1>8. ~ InDaemon(k0) /\ ClientAt(k0) = "gone"
  BY <1>2, <1>3 DEF ServiceInv, Connections, ClientAt
<1>9. ASSUME NEW k \in Calls
      PROVE  /\ ClientAt(k)' = IF k = k0 THEN "write_cmd" ELSE ClientAt(k)
             /\ ServerAt(k)' = IF k = k0 THEN "read_cmd" ELSE ServerAt(k)
             /\ InDaemon(k)' <=> k = k0 \/ InDaemon(k)
             /\ Request(k)' = Request(k) /\ (Alive(k)' => Alive(k))
  <2>1. k[1] \in Clients
    BY Basics
  <2>2. \A d \in Clients : Call(d)' = Call(d)
    BY <1>4 DEF Call
  <2>3. ClientAt(k)' = IF k = k0 THEN "write_cmd" ELSE ClientAt(k)
    <3>1. CASE k = k0
      BY <1>3, <1>4, <2>2, <3>1 DEF ClientAt
    <3>2. CASE k # k0 /\ k[1] = c
      BY <1>3, <2>2, <3>2 DEF ClientAt
    <3>3. CASE k[1] # c
      BY <1>3, <1>4, <2>1, <2>2, <3>3 DEF ClientAt
    <3>. QED
      BY <3>1, <3>2, <3>3
  <2>4. /\ ServerAt(k)' = IF k = k0 THEN "read_cmd" ELSE ServerAt(k)
        /\ InDaemon(k)' <=> k = k0 \/ InDaemon(k)
    BY <1>1, <1>7, <1>8 DEF ServerAt, InDaemon
  <2>5. Request(k)' = Request(k) /\ (Alive(k)' => Alive(k))
    BY <1>4, <2>1 DEF Request, Alive
  <2>. QED
    BY <2>3, <2>4, <2>5
<1>10. Typed'
  BY <1>1, <1>4, <1>6, <1>7 DEF ServiceInv, Typed
<1>11. Connections'
  <2>1. srv.conn \notin Range(backlog') /\ \A i \in DOMAIN backlog : backlog[i] # k0
    BY <1>7, <1>8 DEF ServiceInv, Connections, InDaemon, Range
  <2>2. \A i, j \in DOMAIN backlog' : backlog'[i] = backlog'[j] => i = j
    BY <1>7, <2>1 DEF ServiceInv, Connections
  <2>3. Len(backlog') <= BACKLOG + 1
    BY <1>7, BoundsAssumption
  <2>4. ASSUME NEW k \in Calls, InDaemon(k)'
        PROVE  k[2] <= Len(cl'[k[1]].reqs) /\ (k = Call(k[1])' => cl'[k[1]].pc # "connect")
    <3>1. CASE k = k0
      <4>1. k0[2] <= Len(cl[c].reqs)
        BY <1>2, <1>3, LenProperties DEF ClientTypes
      <4>. QED
        BY <1>3, <1>4, <3>1, <4>1
    <3>2. CASE k # k0
      <4>1. k[1] \in Clients /\ InDaemon(k)
        BY <1>9, <2>4, <3>2, Basics
      <4>2. k[2] <= Len(cl[k[1]].reqs) /\ (k = Call(k[1]) => cl[k[1]].pc # "connect")
        BY <4>1 DEF ServiceInv, Connections
      <4>3. Call(k[1])' = Call(k[1]) /\ cl'[k[1]].reqs = cl[k[1]].reqs
        BY <1>4, <4>1 DEF Call
      <4>4. k[1] # c => cl'[k[1]] = cl[k[1]]
        BY <1>4, <4>1
      <4>. QED
        BY <1>4, <4>2, <4>3, <4>4
    <3>. QED
      BY <3>1, <3>2
  <2>. QED
    BY <1>1, <2>1, <2>2, <2>3, <2>4 DEF ServiceInv, Connections
<1>12. Applications'
  <2>1. \A d \in Clients : Req(d)' = Req(d)
    BY <1>4 DEF Req
  <2>. QED
    BY <1>4, <2>1 DEF ServiceInv, Applications
<1>13. (Ended /\ Protocol)'
  <2>1. ASSUME NEW k \in Calls
        PROVE  Fits(conn'[k], ClientAt(k)', ServerAt(k)', Request(k)')
    <3>1. CASE k = k0
      <4>1. Fits(NewStream, "write_cmd", "read_cmd", Request(k))
        BY <1>5 DEF Ends, Fits, InStep, NothingSent
      <4>. QED
        BY <1>6, <1>9, <3>1, <4>1
    <3>2. CASE k # k0
      BY <1>6, <1>9, <3>2, Basics
    <3>. QED
      BY <3>1, <3>2
  <2>. QED
    BY <2>1, Zenon DEF Ended, Protocol, Fits
<1>14. Tagging'
  <2>1. SUFFICES ASSUME NEW k \in Calls, k = srv'.conn
                 PROVE  Knows(k, srv.pc, srv.uuid, srv.derrived, conn[k])'
    BY DEF Tagging
  <2>2. Knows(k, srv.pc, srv.uuid, srv.derrived, conn[k]) /\ k # k0
    BY <1>1, <1>8, <2>1 DEF ServiceInv, Tagging, InDaemon
  <2>. QED
    BY <1>1, <1>6, <1>9, <2>2 DEF Knows
<1>15. Answered'
  BY <1>1, <1>6, <1>9 DEF ServiceInv, Answered
<1>16. Identifiers' /\ IdsNotShared'
  <2>1. ASSUME NEW k \in Calls, NEW id \in AnyId, Carries(k, id)' PROVE Carries(k, id)
    <3>1. conn'[k].in["client"] = <<Msg("uuid", id)>> /\ <<Msg("uuid", id)>> # <<>>
      BY <2>1, OneMessage DEF Carries
    <3>. QED
      BY <1>5, <1>6, <3>1 DEF Carries, Ends
  <2>2. srv.uuid \in AnyId
    BY DEF ServiceInv, Typed, ServerTypes
  <2>3. \A d \in Clients : cl'[d].ids = cl[d].ids
    BY <1>4
  <2>. QED
    BY <1>1, <2>1, <2>2, <2>3, IdsKept
<1>. QED
  BY <1>10, <1>11, <1>12, <1>13, <1>14, <1>15, <1>16 DEF ServiceInv

LEMMA ConnectKeeps ==
  ASSUME ServiceInv, Pool!PoolInv', NEW c \in Clients, Connect(c)
  PROVE  ServiceInv'
<1>1. /\ cl[c].pc = "connect" /\ UNCHANGED <<clientRest, crashes>>
      /\ cl[c] \in ClientTypes /\ cl[c].reqs \in Seq(RequestType)
  BY Basics DEF Connect, ClientTypes
<1>2. CASE /\ Len(backlog) <= BACKLOG
           /\ conn' = [conn EXCEPT ![Call(c)] = NewStream]
           /\ backlog' = Append(backlog, Call(c))
           /\ cl' = [cl EXCEPT ![c].pc = "write_cmd", ![c].sock = TRUE]
  <2>1. cl' = [cl EXCEPT ![c] = [cl[c] EXCEPT !.pc = "write_cmd", !.sock = TRUE]]
    BY <1>2
  <2>2. [cl[c] EXCEPT !.pc = "write_cmd", !.sock = TRUE]
          = [pc |-> "write_cmd", reqs |-> cl[c].reqs, sock |-> TRUE, ids |-> cl[c].ids]
    <3>1. cl[c] \in ClientTypes
      BY <1>1
    <3>. QED
      BY <3>1, ClientRecord
  <2>. QED
    BY <1>1, <1>2, <2>1, <2>2, Connected
<1>3. CASE Step(c, "idle") /\ UNCHANGED <<conn, backlog>>
  <2>1. cl' = [cl EXCEPT ![c] = [cl[c] EXCEPT !.pc = "idle"]]
    BY <1>3 DEF Step
  <2>2. [cl[c] EXCEPT !.pc = "idle"]
          = [pc |-> "idle", reqs |-> cl[c].reqs, sock |-> cl[c].sock, ids |-> cl[c].ids]
    BY <1>1, ClientRecord
  <2>3. ~ cl[c].sock
    BY <1>1 DEF ServiceInv, Applications
  <2>. QED
    BY <1>1, <1>3, <2>1, <2>2, <2>3, ClientUnconnected
<1>. QED
  BY <1>2, <1>3 DEF Connect

-------------------------------------------------------------------------------
(* A step in which nothing happens. *)
LEMMA StutterKeeps == ASSUME ServiceInv, Pool!PoolInv', UNCHANGED vars PROVE ServiceInv'
<1>1. /\ srv' = srv /\ sock_file' = sock_file /\ backlog' = backlog /\ conn' = conn
      /\ cl' = cl /\ issued' = issued /\ kills' = kills /\ crashes' = crashes
  BY DEF vars, poolVars
<1>2. \A k \in Calls : /\ ClientAt(k)' = ClientAt(k) /\ ServerAt(k)' = ServerAt(k)
                       /\ Request(k)' = Request(k) /\ Alive(k)' = Alive(k)
                       /\ InDaemon(k)' = InDaemon(k)
                       /\ \A id : Carries(k, id)' = Carries(k, id)
  BY <1>1, Zenon DEF ClientAt, ServerAt, Request, Alive, InDaemon, Carries, Call
<1>3. \A c \in Clients : Req(c)' = Req(c) /\ Call(c)' = Call(c) /\ Returned(c)' = Returned(c)
  BY <1>1, Zenon DEF Req, Call, Returned
<1>4. Typed'
  BY <1>1, Zenon DEF ServiceInv, Typed
<1>5. Connections'
  BY <1>1, Zenon DEF ServiceInv, Connections, InDaemon, Call
<1>6. Applications'
  BY <1>1, Zenon DEF ServiceInv, Applications, Req
<1>7. Ended' /\ Protocol'
  BY <1>1, <1>2, Zenon DEF ServiceInv, Ended, Protocol
<1>8. Tagging'
  BY <1>1, Zenon DEF ServiceInv, Tagging, Knows, ClientAt, Request, Alive, Call
<1>9. Identifiers'
  BY <1>1, Zenon DEF ServiceInv, Identifiers, Carries, Returned
<1>10. Answered'
  BY <1>1, <1>2, Zenon DEF ServiceInv, Answered
<1>11. IdsNotShared'
  BY <1>1, StillNotShared DEF ServiceInv
<1>. QED
  BY <1>4, <1>5, <1>6, <1>7, <1>8, <1>9, <1>10, <1>11 DEF ServiceInv

(* All of it together.                                                     *)
LEMMA StepKeeps == ServiceInv /\ Pool!PoolInv' /\ [Next]_vars => ServiceInv'
<1>. SUFFICES ASSUME ServiceInv, Pool!PoolInv', [Next]_vars PROVE ServiceInv'
  OBVIOUS
<1>1. CASE Launch
  BY <1>1, LaunchKeeps
<1>2. CASE Daemon
  <2>1. CASE Bind \/ BindFails
    BY <2>1, BindKeeps
  <2>2. CASE Accept
    BY <2>2, AcceptKeeps
  <2>3. CASE CloseConnection
    BY <2>3, CloseKeeps
  <2>4. CASE ~ (Bind \/ BindFails \/ Accept \/ CloseConnection)
    BY <1>2, <2>4, DaemonSteps, DaemonMovesKeep
  <2>. QED
    BY <2>1, <2>2, <2>3, <2>4
<1>3. CASE Quit
  BY <1>3, QuitKeeps
<1>4. ASSUME NEW c \in Clients, NewCall(c) \/ Library(c) \/ Crash(c) PROVE ServiceInv'
  <2>1. CASE NewCall(c)
    BY <2>1, NewCallKeeps
  <2>2. CASE Connect(c)
    BY <2>2, ConnectKeeps
  <2>3. CASE (Library(c) \/ Crash(c)) /\ ~ Connect(c)
    BY <2>3, ClientSteps, ClientMovesKeep
  <2>. QED
    BY <1>4, <2>1, <2>2, <2>3
<1>5. CASE Rest \/ UNCHANGED vars
  BY <1>5, StutterKeeps DEF Rest
<1>. QED
  BY <1>1, <1>2, <1>3, <1>4, <1>5 DEF Next

LEMMA InitHolds == Init => ServiceInv
<1>. SUFFICES ASSUME Init PROVE ServiceInv
  OBVIOUS
<1>1. /\ srv = [pc |-> "down", conn |-> NoCall, uuid |-> NoId, derrived |-> <<>>]
      /\ sock_file = FALSE /\ backlog = <<>> /\ conn = [k \in Calls |-> NoStream]
      /\ cl = [c \in Clients |-> [pc |-> "idle", reqs |-> <<>>, sock |-> FALSE, ids |-> <<>>]]
      /\ kills = 0 /\ crashes = 0
  BY DEF Init, Down, IdleClient
<1>2. Range(<<>>) = {} /\ Len(<<>>) = 0
  BY DEF Range
<1>3. /\ NoStream \in Streams(Messages)
      /\ \A e \in Ends : /\ NoStream.open[e] = FALSE /\ NoStream.in[e] = <<>>
                         /\ NoStream.err[e] = FALSE
  BY NewStreams, Zenon
<1>4. Typed
  <2>1. srv \in ServerTypes
    BY <1>1 DEF ServerTypes, ServerPcs, AnyId
  <2>2. cl \in [Clients -> ClientTypes]
    BY <1>1 DEF ClientTypes, ClientPcs
  <2>3. kills \in 0 .. MaxKills /\ crashes \in 0 .. MaxCrashes
    BY <1>1, BoundsAssumption
  <2>4. conn \in [Calls -> Streams(Messages)]
    BY <1>1, <1>3, Zenon
  <2>5. backlog \in Seq(Calls) /\ sock_file \in BOOLEAN
    <3>1. <<>> \in Seq(Calls)
      OBVIOUS
    <3>. QED
      BY <1>1, <3>1, Zenon
  <2>. QED
    BY <2>1, <2>2, <2>3, <2>4, <2>5 DEF Typed
<1>5. \A k \in Calls : k[1] \in Clients /\ k[2] \in 1 .. MaxCalls /\ k # NoCall
  <2>1. \A k \in Calls : k = <<k[1], k[2]>> /\ k[1] \in Clients /\ k[2] \in 1 .. MaxCalls
    BY DEF Calls
  <2>. QED
    BY <2>1 DEF NoCall
<1>6. \A k \in Calls : ~ InDaemon(k) /\ ServerAt(k) = "gone" /\ ClientAt(k) = "gone"
  BY <1>1, <1>2, <1>5 DEF InDaemon, ServerAt, ClientAt
<1>7. Connections
  BY <1>1, <1>2, <1>6, BoundsAssumption DEF Connections
<1>8. Applications
  BY <1>1, <1>2, BoundsAssumption DEF Applications
<1>9. \A k \in Calls : /\ ~ conn[k].open["client"] /\ ~ conn[k].open["server"]
                       /\ ~ conn[k].err["client"] /\ ~ conn[k].err["server"]
                       /\ conn[k].in["client"] = <<>> /\ conn[k].in["server"] = <<>>
  BY <1>1, <1>3 DEF Ends
<1>10. Ended /\ Protocol
  BY <1>6, <1>9 DEF Ended, Protocol, InStep, NothingSent
<1>11. Tagging
  BY <1>1, <1>5 DEF Tagging
<1>12. Pool!PoolInv
  <2>1. Pool!Init => Pool!PoolInv
    BY PoolBegins
  <2>. QED
    BY <2>1 DEF Init
<1>13. Identifiers
  <2>1. \A k \in Calls : \A id : ~ Carries(k, id)
    BY <1>9, OneMessage DEF Carries
  <2>2. \A c \in Clients : Returned(c) = {}
    BY <1>1, <1>2 DEF Returned
  <2>. QED
    BY <1>1, <2>1, <2>2 DEF Identifiers
<1>14. Answered
  BY <1>6 DEF Answered
<1>15. IdsNotShared
  BY <1>1, <1>2 DEF IdsNotShared, ReturnedIdsFresh
<1>. QED
  BY <1>4, <1>7, <1>8, <1>10, <1>11, <1>12, <1>13, <1>14, <1>15 DEF ServiceInv

(* The inductive invariant holds in every reachable state: nobody is ever  *)
(* outside the table of the protocol.                                      *)
THEOREM Invariance == Spec => []ServiceInv
<1>1. ServiceInv /\ [Next]_vars /\ Pool!PoolInv' => ServiceInv'
  BY StepKeeps
<1>. QED
  BY <1>1, InitHolds, PoolHolds, PTL DEF Spec

-------------------------------------------------------------------------------
(* Descriptors do not pile up, however many calls fail half way: the       *)
(* daemon holds the connection it serves and those it has yet to accept,   *)
(* an application that of its call.                                        *)
THEOREM NoSocketLeaks == Spec => []NoLeakedSocket
<1>1. ASSUME ServiceInv PROVE NoLeakedSocket
  <2>. SUFFICES ASSUME NEW k \in Calls
                PROVE  /\ conn[k].open["server"] <=> k = srv.conn \/ k \in Range(backlog)
                       /\ conn[k].open["client"] <=> cl[k[1]].sock /\ k = Call(k[1])
                       /\ k = Call(k[1]) /\ cl[k[1]].pc \in {"idle", "dead", "connect"}
                            => ~ cl[k[1]].sock
    BY DEF NoLeakedSocket
  <2>1. k[1] \in Clients /\ cl[k[1]] \in ClientTypes /\ srv \in ServerTypes
    BY <1>1, Basics DEF ServiceInv, Typed
  <2>2. cl[k[1]].pc # "gone" /\ srv.pc # "gone"
    BY <2>1 DEF ClientTypes, ClientPcs, ServerTypes, ServerPcs
  <2>3. /\ conn[k].open["client"] <=> ClientAt(k) # "gone"
        /\ conn[k].open["server"] <=> ServerAt(k) # "gone"
    BY <1>1 DEF ServiceInv, Ended
  <2>4. cl[k[1]].pc \in {"idle", "dead", "connect"} => ~ cl[k[1]].sock
    BY <1>1, <2>1 DEF ServiceInv, Applications
  <2>. QED
    BY <2>2, <2>3, <2>4 DEF ClientAt, ServerAt
<1>. QED
  BY <1>1, Invariance, PTL

(* The two sides never get out of step, whoever fails where: at most one   *)
(* message is under way on a connection, and it is the one its reader      *)
(* waits for.                                                              *)
THEOREM NeverOutOfStep == Spec => []LockStep
<1>1. ASSUME ServiceInv PROVE LockStep
  <2>. SUFFICES ASSUME NEW k \in Calls
                PROVE  /\ Len(conn[k].in["client"]) + Len(conn[k].in["server"]) <= 1
                       /\ HasData(conn[k], "client") =>
                            Data(conn[k], "client").kind \in Expected("client", cl[k[1]].pc)
                       /\ HasData(conn[k], "server") =>
                            IF k = srv.conn /\ srv.pc # "read_cmd"
                              THEN Data(conn[k], "server").kind \in Expected("server", srv.pc)
                              ELSE Data(conn[k], "server").kind = "cmd"
    BY DEF LockStep
  <2>. DEFINE toC == conn[k].in["client"]
              toS == conn[k].in["server"]
  <2>1. InStep(ClientAt(k), ServerAt(k), toC, toS, Request(k))
    BY <1>1 DEF ServiceInv, Protocol
  <2>2. toC = <<>> => ~ HasData(conn[k], "client")
    BY DEF HasData
  <2>3. toS = <<>> => ~ HasData(conn[k], "server")
    BY DEF HasData
  <2>4. CASE toC = <<>> /\ toS = <<>>
    BY <2>2, <2>3, <2>4
  <2>5. CASE toS = <<>> /\ SentToClient(ClientAt(k), ServerAt(k), toC)
    <3>1. PICK m : toC = <<m>> /\ m.kind \in Expected("client", ClientAt(k)) /\ ClientAt(k) # "gone"
      BY <2>5 DEF SentToClient, Expected, Msg, Go
    <3>2. ClientAt(k) = cl[k[1]].pc
      BY <3>1 DEF ClientAt
    <3>. QED
      BY <2>3, <2>5, <3>1, <3>2 DEF Data
  <2>6. CASE toC = <<>> /\ SentToServer(ClientAt(k), ServerAt(k), toS, Request(k))
    <3>1. PICK m : /\ toS = <<m>>
                   /\ \/ m.kind = "cmd" /\ ServerAt(k) = "read_cmd"
                      \/ m.kind \in Expected("server", ServerAt(k))
                           /\ ServerAt(k) \in {"read_uuid", "read_derrived"}
      BY <2>6 DEF SentToServer, Expected, Msg
    <3>2. \/ k = srv.conn /\ srv.pc = ServerAt(k)
          \/ k # srv.conn /\ ServerAt(k) \in {"read_cmd", "gone"}
      BY DEF ServerAt
    <3>. QED
      BY <2>2, <2>6, <3>1, <3>2 DEF Data
  <2>. QED
    BY <2>1, <2>4, <2>5, <2>6 DEF InStep
<1>. QED
  BY <1>1, Invariance, PTL

(* Identifiers that get_new_id returned 0 with are UUIDs of the daemon and *)
(* all differ, as long as the daemon lives; and no two applications are    *)
(* ever given the same one, whatever it dies of.                           *)
THEOREM IdsDiffer == Spec => []IdsNotShared
  BY Invariance, PTL DEF ServiceInv

(* A tag is stored under the identifier its client sent, with a derived    *)
(* identifier that starts with as much of what it sent as fits the buffer. *)
THEOREM TagsAreWhatWasSent == Spec => []TagIsWhatWasSent
<1>1. ASSUME ServiceInv PROVE TagIsWhatWasSent
  <2>. DEFINE c == srv.conn[1]
              r == cl[c].reqs[srv.conn[2]]
  <2>. SUFFICES ASSUME srv.pc = "tag_id"
                PROVE  /\ r.op = "TAG"
                       /\ srv.uuid = r.cl_id
                       /\ cl[c].pc # "dead" => IsPrefix(Fitting(r.derrived), srv.derrived)
    BY DEF TagIsWhatWasSent
  <2>1. srv.pc \in Serving
    BY DEF Serving, ServerPcs
  <2>2. r = Request(srv.conn) /\ r \in RequestType
    BY <1>1, <2>1, Serves DEF Request
  <2>3. Knows(srv.conn, srv.pc, srv.uuid, srv.derrived, Served)
    BY <1>1, <2>1, Serves
  <2>4. r.op = "TAG" /\ srv.uuid = r.cl_id
    BY <2>2, <2>3 DEF Knows
  <2>5. ASSUME cl[c].pc # "dead" PROVE IsPrefix(Fitting(r.derrived), srv.derrived)
    <3>1. PICK junk \in Residue : srv.derrived = Fitting(r.derrived) \o junk
      BY <2>2, <2>3, <2>5 DEF Knows, Alive
    <3>2. r.derrived \in Strings
      BY <2>2, <2>4 DEF RequestType
    <3>3. Fitting(r.derrived) \in Seq(Chars) /\ junk \in Seq(Chars)
      BY <3>2, NamesAreStrings, CutToFit
    <3>4. IsPrefix(Fitting(r.derrived), Fitting(r.derrived) \o junk)
      BY <3>3, PrefixOfConcat, Zenon
    <3>. QED
      BY <3>1, <3>4, Zenon
  <2>. QED
    BY <2>4, <2>5
<1>. QED
  BY <1>1, Invariance, PTL

-------------------------------------------------------------------------------
\* The table of tags: what tag_id keeps true of it, and the map it implements.

(* What the table says, as module TagMap sees it; a table as tag_id keeps  *)
(* it; what TagMap may see of a step.                                      *)
Pairs(table) == {<<e.derrived_id, e.cl_id>> : e \in Range(table)}

Sound(table) ==
  /\ table \in Seq(Entries)
  /\ \A i \in DOMAIN table : WellKept(table[i])
  /\ KeysDiffer(table)

Grows(table, after) ==
  \/ Pairs(after) = Pairs(table)
  \/ \E p : /\ p \notin Pairs(table) /\ Pairs(after) = Pairs(table) \cup {p}
           /\ \A q \in Pairs(table) : q[1] # p[1]

(* A key that is stored ends in its array, or runs on into its identifier. *)
LEMMA KeyStored ==
  ASSUME NEW key \in Seq(Chars), NEW cl_id \in AnyId
  PROVE  /\ StoredKey(key, cl_id) \in Seq(Chars \cup AnyId)
         /\ WellKept([derrived_id |-> StoredKey(key, cl_id), cl_id |-> cl_id])
         /\ Len(key) < DERRIVED_LEN => StoredKey(key, cl_id) = key
         /\ Len(key) >= DERRIVED_LEN => Len(StoredKey(key, cl_id)) >= DERRIVED_LEN
<1>. DEFINE S == Chars \cup AnyId
            s == SubSeq(key, 1, DERRIVED_LEN)
<1>1. DERRIVED_LEN \in Nat \ {0} /\ Len(key) \in Nat /\ \A i \in 1 .. Len(key) : key[i] \in S
  BY DerrivedLenAssumption, LenProperties, ElementOfSeq
<1>2. CASE Len(key) < DERRIVED_LEN
  <2>1. key \in Seq(S)
    OBVIOUS
  <2>2. StoredKey(key, cl_id) = key
    BY <1>2 DEF StoredKey
  <2>. QED
    BY <1>1, <1>2, <2>1, <2>2 DEF WellKept
<1>3. CASE Len(key) >= DERRIVED_LEN
  <2>1. s \in Seq(S) /\ Len(s) = DERRIVED_LEN
    <3>1. \A i \in 1 .. DERRIVED_LEN : key[i] \in S
      BY <1>1, <1>3
    <3>. HIDE DEF S
    <3>. QED
      BY <1>1, <3>1, SubSeqProperties
  <2>. HIDE DEF s
  <2>2. Append(s, cl_id) \in Seq(S)
    BY <2>1
  <2>3. Len(Append(s, cl_id)) = DERRIVED_LEN + 1 /\ Append(s, cl_id)[DERRIVED_LEN + 1] = cl_id
    BY <1>1, <2>1
  <2>4. StoredKey(key, cl_id) = Append(s, cl_id)
    BY <1>1, <1>3, <2>1 DEF StoredKey, s
  <2>. QED
    BY <1>1, <1>3, <2>2, <2>3, <2>4 DEF WellKept
<1>. QED
  BY <1>1, <1>2, <1>3

(* What tag_id does to the table: it adds an entry that has no equal, or   *)
(* nothing that TagMap sees.                                               *)
LEMMA TagStored ==
  ASSUME NEW table, Sound(table), NEW key \in Seq(Chars), NEW cl_id \in AnyId,
         NEW after, after = tag_id(table, cl_id, key)
  PROVE  Sound(after) /\ Grows(table, after)
<1>1. CASE IsTagged(table, key)
  BY <1>1 DEF tag_id, Grows
<1>2. CASE ~ IsTagged(table, key)
  <2>. DEFINE k == StoredKey(key, cl_id)
              e == [derrived_id |-> k, cl_id |-> cl_id]
  <2>1. /\ k \in Seq(Chars \cup AnyId) /\ WellKept(e)
        /\ Len(key) < DERRIVED_LEN => k = key
        /\ Len(key) >= DERRIVED_LEN => Len(k) >= DERRIVED_LEN
    BY KeyStored
  <2>. HIDE DEF k
  <2>2. e \in Entries /\ e.derrived_id = k /\ e.cl_id = cl_id
    BY <2>1 DEF Entries
  <2>. HIDE DEF e
  <2>3. after = Append(table, e)
    BY <1>2 DEF tag_id, k, e
  <2>4. /\ after \in Seq(Entries) /\ Len(table) \in Nat
        /\ DOMAIN after = DOMAIN table \cup {Len(table) + 1}
        /\ \A i \in DOMAIN table : after[i] = table[i] /\ i # Len(table) + 1
        /\ after[Len(table) + 1] = e
        /\ Range(after) = Range(table) \cup {e}
    BY <2>2, <2>3, AppendEntry DEF Sound
  <2>5. \A i \in DOMAIN after : WellKept(after[i])
    BY <2>1, <2>4 DEF Sound, e
  <2>6. /\ DERRIVED_LEN \in Nat /\ Len(key) \in Nat /\ Len(k) \in Nat
        /\ \A i \in DOMAIN table : table[i] \in Entries
    BY <2>1, DerrivedLenAssumption DEF Sound
  <2>7. \A i \in DOMAIN table : table[i].derrived_id # key
    BY <1>2 DEF IsTagged
  <2>8. KeysDiffer(after)
    <3>1. ASSUME NEW i \in DOMAIN table, table[i].derrived_id = k PROVE ~ Len(k) < DERRIVED_LEN
      BY <2>1, <2>6, <2>7, <3>1
    <3>. QED
      BY <2>2, <2>4, <3>1 DEF Sound, KeysDiffer
  <2>9. Pairs(after) = Pairs(table) \cup {<<k, cl_id>>}
    BY <2>2, <2>4 DEF Pairs
  <2>10. ASSUME NEW q \in Pairs(table), q[1] = k PROVE <<k, cl_id>> \in Pairs(table)
    <3>1. PICK i \in DOMAIN table : q = <<table[i].derrived_id, table[i].cl_id>>
      BY DEF Pairs, Range
    <3>2. table[i].derrived_id = k /\ Len(k) >= DERRIVED_LEN
      BY <2>1, <2>6, <2>7, <2>10, <3>1
    <3>3. table[i].cl_id = k[DERRIVED_LEN + 1] /\ cl_id = k[DERRIVED_LEN + 1]
      BY <2>1, <2>2, <3>2 DEF Sound, WellKept, e
    <3>4. q = <<k, cl_id>>
      BY <3>1, <3>2, <3>3
    <3>. QED
      BY <3>4
  <2>11. Grows(table, after)
    <3>1. ASSUME NEW A, NEW p, p \in A PROVE A \cup {p} = A
      BY <3>1
    <3>2. CASE <<k, cl_id>> \in Pairs(table)
      BY <2>9, <3>1, <3>2, Zenon DEF Grows
    <3>3. CASE <<k, cl_id>> \notin Pairs(table)
      <4>1. <<k, cl_id>>[1] = k
        OBVIOUS
      <4>2. \A q \in Pairs(table) : q[1] # <<k, cl_id>>[1]
        BY <2>10, <3>3, <4>1, Zenon
      <4>. QED
        BY <2>9, <3>3, <4>2, Zenon DEF Grows
    <3>. QED
      BY <3>2, <3>3
  <2>12. Sound(after)
    BY <2>4, <2>5, <2>8 DEF Sound
  <2>. QED
    BY <2>11, <2>12
<1>. QED
  BY <1>1, <1>2

(* What a step does to the table. *)
LEMMA TableSteps ==
  ASSUME [Next]_vars
  PROVE  \/ UNCHANGED all_tagged_ids
         \/ srv.pc = "tag_id" /\ all_tagged_ids' = tag_id(all_tagged_ids, srv.uuid, srv.derrived)
         \/ all_tagged_ids' = <<>>
<1>1. CASE Launch \/ Quit \/ Rest \/ UNCHANGED vars
  BY <1>1 DEF Launch, Quit, Terminate, AcceptFails, DaemonGone, Rest, vars
<1>2. CASE Daemon
  BY <1>2 DEF Daemon, Bind, BindFails, Accept, ReadCommand, NextUuid, WriteUuid, CheckPool,
    WriteGo, ReadUuid, ReadDerrived, TagId, CloseConnection, ServerReads, ServerWrites,
    Table, Tagged, At
<1>3. CASE \E c \in Clients : NewCall(c) \/ Library(c) \/ Crash(c)
  BY <1>3 DEF NewCall, Library, Connect, WriteCommand, ReadId, ReadGo, WriteClId, WriteDerrived,
    ClientReads, ClientWrites, CloseSocket, Crash, clientRest
<1>. QED
  BY <1>1, <1>2, <1>3 DEF Next

LEMMA TableStep ==
  ASSUME ServiceInv, TableInv, [Next]_vars
  PROVE  /\ TableInv'
         /\ [Tags!Tag \/ Tags!Forget]_(Pairs(all_tagged_ids))
<1>1. CASE UNCHANGED all_tagged_ids
  BY <1>1 DEF TableInv, OneEntryPerKey, Pairs
<1>2. CASE srv.pc = "tag_id" /\ all_tagged_ids' = tag_id(all_tagged_ids, srv.uuid, srv.derrived)
  <2>1. srv.uuid \in AnyId /\ srv.derrived \in Seq(Chars)
    BY DEF ServiceInv, Typed, ServerTypes
  <2>2. Sound(all_tagged_ids)
    BY DEF TableInv, OneEntryPerKey, Sound
  <2>3. Sound(all_tagged_ids') /\ Grows(all_tagged_ids, all_tagged_ids')
    BY <1>2, <2>1, <2>2, TagStored
  <2>4. ASSUME NEW p, p \notin Pairs(all_tagged_ids),
               Pairs(all_tagged_ids') = Pairs(all_tagged_ids) \cup {p},
               \A q \in Pairs(all_tagged_ids) : q[1] # p[1]
        PROVE  Tags!Tag
    BY <2>4 DEF Tags!Tag, Tags!Add, Pairs
  <2>5. [Tags!Tag \/ Tags!Forget]_(Pairs(all_tagged_ids))
    BY <2>3, <2>4 DEF Grows
  <2>. QED
    BY <2>3, <2>5 DEF TableInv, OneEntryPerKey, Sound
<1>3. CASE all_tagged_ids' = <<>>
  <2>1. Range(<<>>) = {} /\ <<>> \in Seq(Entries) /\ DOMAIN <<>> = {}
    BY DEF Range
  <2>2. TableInv'
    BY <1>3, <2>1 DEF TableInv, OneEntryPerKey, KeysDiffer
  <2>3. Tags!Forget
    BY <1>3, <2>1 DEF Tags!Forget
  <2>. QED
    BY <2>2, <2>3
<1>. QED
  BY <1>1, <1>2, <1>3, TableSteps

(* The inductive invariant, of service and table, holds in every reachable *)
(* state.                                                                  *)
THEOREM AllHolds == Spec => []IdInv
<1>1. Init => TableInv
  <2>1. <<>> \in Seq(Entries) /\ DOMAIN <<>> = {}
    OBVIOUS
  <2>. QED
    BY <2>1 DEF Init, TableInv, OneEntryPerKey, KeysDiffer
<1>2. ServiceInv /\ TableInv /\ [Next]_vars => TableInv'
  BY TableStep
<1>. QED
  BY <1>1, <1>2, Invariance, PTL DEF Spec, IdInv

(* A string that ends in its array has one entry in the table at most, so  *)
(* that what HASH_FIND_STR returns for it is not a matter of chance.       *)
THEOREM KeysStayApart == Spec => []OneEntryPerKey
  BY AllHolds, PTL DEF IdInv, TableInv

(* The table implements the map from derived identifiers to identifiers:   *)
(* the first tag of a name stands until the daemon goes away.  That is so  *)
(* for names without a terminator too, although each is added again and    *)
(* again: behind such a name stands its identifier, so that two of them    *)
(* are equal only when their tags are.                                     *)
THEOREM TableIsTagMap == Spec => ImplementsTagMap
<1>1. Init => Tags!Init
  <2>1. Range(<<>>) = {}
    BY DEF Range
  <2>. QED
    BY <2>1 DEF Init, Tags!Init
<1>2. ServiceInv /\ TableInv /\ [Next]_vars => [Tags!Tag \/ Tags!Forget]_(Pairs(all_tagged_ids))
  BY TableStep
<1>. QED
  BY <1>1, <1>2, AllHolds, PTL DEF Spec, IdInv, ImplementsTagMap, Tags!Spec, Pairs

(* Types, the daemon's pool and table included; no more connections wait   *)
(* than the kernel lets wait, no more calls are made than there are.       *)
THEOREM TypeCorrect == Spec => []TypeOK
<1>1. ASSUME ServiceInv, TableInv PROVE TypeOK
  <2>1. srv \in ServerTypes /\ conn \in [Calls -> Streams(Messages)] /\ backlog \in Seq(Calls)
    BY <1>1 DEF ServiceInv, Typed
  <2>2. /\ srv.pc \in ServerPcs /\ srv.conn \in Calls \cup {NoCall} /\ srv.uuid \in AnyId
        /\ DOMAIN conn = Calls /\ Range(backlog) \subseteq Calls
    BY <2>1 DEF ServerTypes, Range
  <2>3. \A c \in Clients :
          /\ cl[c].pc \in ClientPcs
          /\ Range(cl[c].reqs) \subseteq Requests[c] /\ Len(cl[c].reqs) <= MaxCalls
          /\ cl[c].sock \in BOOLEAN
          /\ Range(cl[c].ids) \subseteq AnyId
    <3>1. \A c \in Clients : cl[c] \in ClientTypes
      BY <1>1, Basics
    <3>2. \A c \in Clients : cl[c].pc \in ClientPcs /\ cl[c].sock \in BOOLEAN
                             /\ Range(cl[c].ids) \subseteq AnyId
      BY <3>1 DEF ClientTypes, Range
    <3>. QED
      BY <1>1, <3>2 DEF ServiceInv, Applications
  <2>4. \A i \in DOMAIN all_tagged_ids : all_tagged_ids[i].cl_id \in AnyId
    <3>1. \A i \in DOMAIN all_tagged_ids : all_tagged_ids[i] \in Entries
      BY <1>1 DEF TableInv
    <3>. QED
      BY <3>1 DEF Entries
  <2>5. /\ Pool!TypeOK /\ sock_file \in BOOLEAN /\ Len(backlog) <= BACKLOG + 1
        /\ kills \in 0 .. MaxKills /\ crashes \in 0 .. MaxCrashes
    BY <1>1 DEF ServiceInv, Typed, Connections, Pool!PoolInv
  <2>. QED
    BY <2>2, <2>3, <2>4, <2>5 DEF TypeOK
<1>. QED
  BY <1>1, AllHolds, PTL DEF IdInv
================================================================================
