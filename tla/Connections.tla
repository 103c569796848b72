----------------------------- MODULE Connections -----------------------------
(***************************************************************************)
(* One running node: the goroutines of internal/transport and the loop of  *)
(* internal/app around the peer manager of module PeerManager.             *)
(*                                                                         *)
(*   - one goroutine per TCP connection: handleConn (handshake, then the   *)
(*     request for a row of the table) and, from there on, readLoop;       *)
(*   - the single writeLoop, which every packet of every connection and    *)
(*     every handshake goes through;                                       *)
(*   - App.Run, which takes packets and commands of the user one by one    *)
(*     and runs handleConn itself when a ping has to dial;                 *)
(*   - the peer manager, used here with its own actions.                   *)
(*                                                                         *)
(* They meet in three buffered channels (PeerEventChan, WriteChan,         *)
(* ReadChan) and block on a full one.  The environment is the network: the *)
(* remote end of each connection, datagrams of discovery, and the user.    *)
(***************************************************************************)
EXTENDS Naturals, Sequences, FiniteSets

CONSTANTS
  Peer, Conn, NoConn, NoPeer,
  TableQuery,      \* the response channel of a caller without a deadline
  ListQuery,       \* that of handleGetBlacklist, which has one
  EventChanCap, TrackerChanCap,
  WriteChanCap,    \* WriteChanSize
  ReadChanCap,     \* ReadChanSize
  Command,         \* the commands the user may give
  Incoming,        \* the kinds of packets a remote end may send
  Datagram,        \* the datagrams that may arrive
  Timer            \* the time stamps that may run out

Commands  == {"Ping", "Disconnect", "BlackList", "Peers", "GetBlackList"}
Packets   == {"Ping", "Pong", "Bad"}
Datagrams == {"Discovery", "RemovePeer"}
Timers    == {"LastSeen", "LastActivity"}

ASSUME ConnectionsAssumption ==
  /\ NoConn \notin Conn
  /\ NoPeer \notin Peer
  /\ TableQuery # ListQuery
  /\ EventChanCap \in Nat \ {0}
  /\ TrackerChanCap \in Nat \ {0}
  /\ WriteChanCap \in Nat \ {0}
  /\ ReadChanCap \in Nat \ {0}
  /\ Command \subseteq Commands
  /\ Incoming \subseteq Packets
  /\ Datagram \subseteq Datagrams
  /\ Timer \subseteq Timers

VARIABLES
  peers, conn, connected, stale, idle, blackListPeers,
  peerEventChan, pm, fileTrackerChan, closed, request, owner, caller,
  step,            \* where the goroutine of each connection is
  inbox,           \* the next packet in each connection's socket, if any
  hungUp,          \* connections whose remote end is closed
  wrote,           \* the response channel of each handshake's WriteCommand
  writeChan,       \* transport.WriteChan
  writer,          \* the report writeLoop is about to post, or Idle
  readChan,        \* transport.ReadChan
  app              \* where App.Run is, and its local variables

Query == {TableQuery, ListQuery}

PM == INSTANCE PeerManager WITH TimedQuery <- {ListQuery}

pmVars  == <<peers, conn, connected, stale, idle, blackListPeers,
             peerEventChan, pm, fileTrackerChan, closed, request, owner,
             caller>>
network == <<inbox, hungUp>>
writing == <<wrote, writeChan, writer>>
vars    == <<pmVars, step, network, writing, readChan, app>>

\* What handleConn does before it returns, and what readLoop does.
HandleConnSteps == {"send", "sent", "greet", "ask", "wait"}
ReadLoopSteps   == {"read", "touch", "deliver", "report"}
Steps           == HandleConnSteps \cup ReadLoopSteps \cup {"off", "end"}

None == [type |-> "None", id |-> NoPeer]
Idle == [type |-> "Idle"]

Select == [at |-> "select", cmd |-> "None", peer |-> NoPeer, conn |-> NoConn]

Init ==
  /\ PM!Init
  /\ step = [c \in Conn |-> "off"]
  /\ inbox = [c \in Conn |-> None]
  /\ hungUp = {}
  /\ wrote = [c \in Conn |-> "nothing"]
  /\ writeChan = <<>>
  /\ writer = Idle
  /\ readChan = <<>>
  /\ app = Select

\* PeerEventChan <- e, by a goroutine whose own variables the caller changes.
PostEvent(e) ==
  /\ PM!Post(e)
  /\ UNCHANGED <<peers, conn, connected, stale, idle, blackListPeers, pm,
                 fileTrackerChan, closed, owner>>

-----------------------------------------------------------------------------
(* handleConn                                                              *)

\* performHandshake: WriteChan <- our UUID.
sendHandshake(c) ==
  /\ step[c] = "send"
  /\ Len(writeChan) < WriteChanCap
  /\ writeChan' = Append(writeChan, [type |-> "Handshake", conn |-> c,
                                     id |-> NoPeer])
  /\ step' = [step EXCEPT ![c] = "sent"]
  /\ UNCHANGED <<pmVars, network, wrote, writer, readChan, app>>

(* A name with a suffix after `_' is a faulty variant of the definition that *)
(* follows it; no action uses it.                                            *)

CloseAndEnd_Leak(c) ==
  /\ request' = [request EXCEPT ![c] = "rejected"]
  /\ step' = [step EXCEPT ![c] = "end"]
  /\ UNCHANGED <<peers, conn, connected, stale, idle, blackListPeers,
                 peerEventChan, pm, fileTrackerChan, closed, owner, caller>>

\* conn.Close() of an error return.  The connection will never ask for a row.
CloseAndEnd(c) ==
  /\ closed' = closed \cup {c}
  /\ request' = [request EXCEPT ![c] = "rejected"]
  /\ step' = [step EXCEPT ![c] = "end"]
  /\ UNCHANGED <<peers, conn, connected, stale, idle, blackListPeers,
                 peerEventChan, pm, fileTrackerChan, owner, caller>>

handshakeWritten_Unchecked(c) ==
  /\ step[c] = "sent"
  /\ step' = [step EXCEPT ![c] = "greet"]
  /\ UNCHANGED <<pmVars, network, writing, readChan, app>>

\* The write succeeded; or it failed, or the select takes the timer that ten
\* seconds after the send is ready too, whatever became of the write.
handshakeWritten(c) ==
  /\ step[c] = "sent"
  /\ \/ /\ wrote[c] = "ok"
        /\ step' = [step EXCEPT ![c] = "greet"]
        /\ UNCHANGED pmVars
     \/ CloseAndEnd(c)
  /\ UNCHANGED <<network, writing, readChan, app>>

\* A read gets a whole packet of one of some kinds.
Reads(c, kinds) == c \notin closed /\ inbox[c].type \in kinds

\* It meets an error: the connection is closed here, or its remote end is (and
\* what it sent before may be lost), or what came is no packet.
ReadMayFail(c) == c \in closed \cup hungUp \/ inbox[c].type = "Bad"

readHandshake_Again(c) ==
  /\ step[c] = "greet"
  /\ Reads(c, {"Handshake"})
  /\ step' = [step EXCEPT ![c] = "ask"]
  /\ UNCHANGED <<pmVars, network, writing, readChan, app>>

\* readPacket of the handshake: no deadline, so it waits for the remote end.
readHandshake(c) ==
  /\ step[c] = "greet"
  /\ \/ /\ Reads(c, {"Handshake"})
        /\ step' = [step EXCEPT ![c] = "ask"]
        /\ UNCHANGED pmVars
     \/ /\ ReadMayFail(c) \/ Reads(c, {"Ping", "Pong"})
        /\ CloseAndEnd(c)
  /\ UNCHANGED <<network, writing, readChan, app>>

\* PeerEventChan <- SetConnectionEvent with the UUID just read.
askForRow(c) ==
  /\ step[c] = "ask"
  /\ PostEvent([type |-> "SetConnection", id |-> inbox[c].id, conn |-> c])
  /\ request' = [request EXCEPT ![c] = "pending"]
  /\ inbox' = [inbox EXCEPT ![c] = None]
  /\ step' = [step EXCEPT ![c] = "wait"]
  /\ UNCHANGED <<caller, hungUp, writing, readChan, app>>

rowAnswered_NoReturn(c) ==
  /\ step[c] = "wait"
  /\ request[c] \in {"accepted", "rejected"}
  /\ step' = [step EXCEPT ![c] = "read"]
  /\ UNCHANGED <<pmVars, network, writing, readChan, app>>

\* result := <-resp; then go readLoop, or conn.Close().
rowAnswered(c) ==
  /\ step[c] = "wait"
  /\ \/ /\ request[c] = "accepted"
        /\ step' = [step EXCEPT ![c] = "read"]
        /\ UNCHANGED pmVars
     \/ /\ request[c] = "rejected"
        /\ CloseAndEnd(c)
  /\ UNCHANGED <<network, writing, readChan, app>>

handleConn(c) ==
  \/ sendHandshake(c)
  \/ handshakeWritten(c)
  \/ readHandshake(c)
  \/ askForRow(c)
  \/ rowAnswered(c)

-----------------------------------------------------------------------------
(* readLoop                                                                *)

readPacket(c) ==
  /\ step[c] = "read"
  /\ \/ /\ Reads(c, {"Ping", "Pong"})
        /\ step' = [step EXCEPT ![c] = "touch"]
     \/ /\ ReadMayFail(c)
        /\ step' = [step EXCEPT ![c] = "report"]
  /\ UNCHANGED <<pmVars, network, writing, readChan, app>>

\* PeerEventChan <- SetLastActivity
touchPeer(c) ==
  /\ step[c] = "touch"
  /\ PostEvent([type |-> "SetLastActivity", id |-> owner[c]])
  /\ step' = [step EXCEPT ![c] = "deliver"]
  /\ UNCHANGED <<request, caller, network, writing, readChan, app>>

deliver_Unbounded(c) ==
  /\ step[c] = "deliver"
  /\ readChan' = Append(readChan, [type |-> inbox[c].type, conn |-> c,
                                   id |-> owner[c]])
  /\ inbox' = [inbox EXCEPT ![c] = None]
  /\ step' = [step EXCEPT ![c] = "read"]
  /\ UNCHANGED <<pmVars, hungUp, writing, app>>

\* ReadChan <- the packet
deliver(c) ==
  /\ step[c] = "deliver"
  /\ Len(readChan) < ReadChanCap
  /\ readChan' = Append(readChan, [type |-> inbox[c].type, conn |-> c,
                                   id |-> owner[c]])
  /\ inbox' = [inbox EXCEPT ![c] = None]
  /\ step' = [step EXCEPT ![c] = "read"]
  /\ UNCHANGED <<pmVars, hungUp, writing, app>>

reportLoss_Silent(c) ==
  /\ step[c] = "report"
  /\ step' = [step EXCEPT ![c] = "end"]
  /\ UNCHANGED <<pmVars, network, writing, readChan, app>>

\* PeerEventChan <- RemoveConnectionEvent, and return.
reportLoss(c) ==
  /\ step[c] = "report"
  /\ PostEvent([type |-> "RemoveConnection", id |-> owner[c], conn |-> c])
  /\ step' = [step EXCEPT ![c] = "end"]
  /\ UNCHANGED <<request, caller, network, writing, readChan, app>>

readLoop(c) == readPacket(c) \/ touchPeer(c) \/ deliver(c) \/ reportLoss(c)

-----------------------------------------------------------------------------
(* writeLoop                                                               *)

\* A write fails on a connection closed here, succeeds on an open one, and
\* does either on one whose remote end has gone.
WriteOutcomes(c) ==
  CASE c \in closed                    -> {"err"}
    [] c \notin closed /\ c \in hungUp -> {"ok", "err"}
    [] OTHER                           -> {"ok"}

writePacket_ReportAll ==
  /\ writer = Idle
  /\ writeChan # <<>>
  /\ writeChan' = Tail(writeChan)
  /\ LET cmd == Head(writeChan) IN
     \E result \in WriteOutcomes(cmd.conn) :
       /\ wrote' = IF cmd.type = "Handshake"
                   THEN [wrote EXCEPT ![cmd.conn] = result]
                   ELSE wrote
       /\ writer' = IF result = "err"
                    THEN [type |-> "RemoveConnection", id |-> cmd.id,
                          conn |-> cmd.conn]
                    ELSE [type |-> "SetLastActivity", id |-> cmd.id]
  /\ UNCHANGED <<pmVars, step, network, readChan, app>>

\* Take a command and write it.  A handshake's result goes to its buffered
\* response channel, any other's to the peer manager.
writePacket ==
  /\ writer = Idle
  /\ writeChan # <<>>
  /\ writeChan' = Tail(writeChan)
  /\ LET cmd == Head(writeChan) IN
     \E result \in WriteOutcomes(cmd.conn) :
       IF cmd.type = "Handshake"
       THEN /\ wrote' = [wrote EXCEPT ![cmd.conn] = result]
            /\ UNCHANGED writer
       ELSE /\ writer' = IF result = "err"
                         THEN [type |-> "RemoveConnection", id |-> cmd.id,
                               conn |-> cmd.conn]
                         ELSE [type |-> "SetLastActivity", id |-> cmd.id]
            /\ UNCHANGED wrote
  /\ UNCHANGED <<pmVars, step, network, readChan, app>>

reportWrite ==
  /\ writer # Idle
  /\ PostEvent(writer)
  /\ writer' = Idle
  /\ UNCHANGED <<request, caller, step, network, wrote, writeChan, readChan,
                 app>>

writeLoop == writePacket \/ reportWrite

-----------------------------------------------------------------------------
(* App.Run                                                                 *)

\* case cmd, ok := <-a.transport.ReadChan: a ping is answered on the
\* connection it came from, a pong is logged.
handlePacket ==
  /\ app = Select
  /\ readChan # <<>>
  /\ readChan' = Tail(readChan)
  /\ LET packet == Head(readChan) IN
     app' = IF packet.type = "Ping"
            THEN [at |-> "write", cmd |-> "Pong", peer |-> packet.id,
                  conn |-> packet.conn]
            ELSE Select
  /\ UNCHANGED <<pmVars, step, network, writing>>

\* case cmd := <-a.UiChan.  Bound: the channel of a listing that timed out is
\* not used again (the peer manager stands at its answer from then on).
handleEvent(cmd, p) ==
  /\ app = Select
  /\ cmd = "GetBlackList" => caller[ListQuery] # "gone"
  /\ app' = [at   |-> IF cmd = "BlackList" THEN "post" ELSE "query",
             cmd  |-> cmd,
             peer |-> p,
             conn |-> NoConn]
  /\ UNCHANGED <<pmVars, step, network, writing, readChan>>

Channel == IF app.cmd = "GetBlackList" THEN ListQuery ELSE TableQuery

\* GetPeer, GetPeers, handleGetBlacklist: post the query and wait.
query ==
  /\ app.at = "query"
  /\ PostEvent([type |-> "Query", resp |-> Channel])
  /\ caller' = [caller EXCEPT ![Channel] = "waiting"]
  /\ app' = [app EXCEPT !.at = "answer"]
  /\ UNCHANGED <<request, step, network, writing, readChan>>

\* The peer manager's answer is received, and acted on.  A ping looks twice:
\* it dials a peer without a connection and then looks again.
Acted ==
  LET p == app.peer IN
  CASE app.cmd = "Ping" /\ p \in peers ->
         [app EXCEPT !.at = IF conn[p] = NoConn THEN "dial" ELSE "query",
                     !.cmd = "Again"]
    [] app.cmd = "Again" /\ p \in peers /\ conn[p] # NoConn ->
         [app EXCEPT !.at = "write", !.cmd = "Ping", !.conn = conn[p]]
    [] app.cmd = "Disconnect" /\ p \in peers ->
         [app EXCEPT !.at = "post"]
    [] OTHER -> Select

answer ==
  /\ app.at = "answer"
  /\ pm.type = "Query" /\ pm.resp = Channel
  /\ PM!answerQuery
  /\ app' = Acted
  /\ UNCHANGED <<step, network, writing, readChan>>

\* case <-ctx.Done() of handleGetBlacklist
timeout ==
  /\ app.at = "answer"
  /\ Channel = ListQuery
  /\ caller' = [caller EXCEPT ![ListQuery] = "gone"]
  /\ app' = Select
  /\ UNCHANGED <<peers, conn, connected, stale, idle, blackListPeers,
                 peerEventChan, pm, fileTrackerChan, closed, request, owner>>
  /\ UNCHANGED <<step, network, writing, readChan>>

\* transport.Connect: a connection and its handleConn, run by this goroutine;
\* or three failed attempts.
Connect ==
  /\ app.at = "dial"
  /\ \/ \E c \in Conn :
          /\ step[c] = "off"
          /\ step' = [step EXCEPT ![c] = "send"]
          /\ app' = [app EXCEPT !.at = "handshake", !.conn = c]
     \/ /\ app' = [app EXCEPT !.at = "query"]
        /\ UNCHANGED step
  /\ UNCHANGED <<pmVars, network, writing, readChan>>

handleConnReturned_OnSuccess ==
  /\ app.at = "handshake"
  /\ step[app.conn] \in ReadLoopSteps
  /\ app' = [app EXCEPT !.at = "query", !.conn = NoConn]
  /\ UNCHANGED <<pmVars, step, network, writing, readChan>>

\* handleConn returns, and its outcome is ignored.
handleConnReturned ==
  /\ app.at = "handshake"
  /\ step[app.conn] \notin HandleConnSteps
  /\ app' = [app EXCEPT !.at = "query", !.conn = NoConn]
  /\ UNCHANGED <<pmVars, step, network, writing, readChan>>

\* SendPacket: WriteChan <- the packet.
SendPacket ==
  /\ app.at = "write"
  /\ Len(writeChan) < WriteChanCap
  /\ writeChan' = Append(writeChan, [type |-> app.cmd, conn |-> app.conn,
                                     id |-> app.peer])
  /\ app' = Select
  /\ UNCHANGED <<pmVars, step, network, wrote, writer, readChan>>

\* DisconnectPeer and handleBlacklist: PeerEventChan <- the event.
postCommand ==
  /\ app.at = "post"
  /\ PostEvent([type |-> IF app.cmd = "BlackList" THEN "BlackList"
                         ELSE "RemovePeer",
                id |-> app.peer])
  /\ app' = Select
  /\ UNCHANGED <<request, caller, step, network, writing, readChan>>

AppStep ==
  \/ handlePacket
  \/ query
  \/ answer
  \/ timeout
  \/ Connect
  \/ handleConnReturned
  \/ SendPacket
  \/ postCommand

-----------------------------------------------------------------------------
(* The peer manager, and the environment                                   *)

PeerManagerStep ==
  /\ \/ PM!Receive
     \/ PM!handleDiscoveryEvent
     \/ PM!handleRemovePeerEvent
     \/ PM!notifyFileTracker
     \/ PM!handleSetConnectionEvent
     \/ PM!handleRemoveConnectionEvent
     \/ PM!handleSetLastActivity
     \/ PM!handleBlackListPeer
  /\ UNCHANGED <<step, network, writing, readChan, app>>

Tick ==
  /\ \/ PM!checkPeerTimeouts
     \/ /\ \E p \in Peer : PM!TimePasses(p)
        /\ "LastSeen" \in Timer \/ stale' = stale
        /\ "LastActivity" \in Timer \/ idle' = idle
  /\ UNCHANGED <<step, network, writing, readChan, app>>

fileTracker ==
  /\ PM!TrackerReceive
  /\ UNCHANGED <<step, network, writing, readChan, app>>

\* A Hello or a Bye, or a disconnect that the console posts by itself.
datagram(t, p) ==
  /\ PostEvent([type |-> t, id |-> p])
  /\ UNCHANGED <<request, caller, step, network, writing, readChan, app>>

\* acceptLoop: go t.handleConn(conn)
accept(c) ==
  /\ step[c] = "off"
  /\ step' = [step EXCEPT ![c] = "send"]
  /\ UNCHANGED <<pmVars, network, writing, readChan, app>>

\* The remote end sends its handshake (some peer's UUID) or a packet.
remoteSends(c, packet) ==
  /\ step[c] # "off"
  /\ c \notin hungUp
  /\ inbox[c] = None
  /\ inbox' = [inbox EXCEPT ![c] = packet]
  /\ UNCHANGED <<pmVars, step, hungUp, writing, readChan, app>>

remoteGreets(c) ==
  /\ step[c] \in {"send", "sent", "greet"}
  /\ \E p \in Peer : remoteSends(c, [type |-> "Handshake", id |-> p])

remoteTalks(c) ==
  /\ \E t \in Incoming : remoteSends(c, [type |-> t, id |-> NoPeer])

\* The remote end is closed, or its host or the network is lost for good.
remoteHangsUp(c) ==
  /\ step[c] # "off"
  /\ c \notin hungUp
  /\ hungUp' = hungUp \cup {c}
  /\ UNCHANGED <<pmVars, step, inbox, writing, readChan, app>>

Environment ==
  \/ \E cmd \in Command, p \in Peer : handleEvent(cmd, p)
  \/ \E t \in Datagram, p \in Peer : datagram(t, p)
  \/ \E c \in Conn : accept(c) \/ remoteGreets(c) \/ remoteTalks(c)
                       \/ remoteHangsUp(c)

Next ==
  \/ PeerManagerStep
  \/ Tick
  \/ fileTracker
  \/ \E c \in Conn : handleConn(c) \/ readLoop(c)
  \/ writeLoop
  \/ AppStep
  \/ Environment

Spec == Init /\ [][Next]_vars

-----------------------------------------------------------------------------
(* Fairness.  A goroutine that can run does run.  Those that compete for   *)
(* room in a channel, or for App.Run's select, get it in turn: Go queues   *)
(* blocked senders first in, first out, and select chooses at random.  The *)
(* remote end of a handshake greets or goes away in the end; nothing else  *)
(* is asked of the network or the user.                                    *)

RemoteAnswers(c) == step[c] = "greet" /\ (remoteGreets(c) \/ remoteHangsUp(c))

Fairness ==
  /\ WF_vars(PeerManagerStep)
  /\ WF_vars(fileTracker)
  /\ SF_vars(writeLoop)
  /\ SF_vars(AppStep)
  /\ SF_vars(handlePacket)
  /\ \A c \in Conn : /\ SF_vars(handleConn(c) \/ readLoop(c))
                     /\ WF_vars(RemoteAnswers(c))

FairSpec == Spec /\ Fairness

-----------------------------------------------------------------------------
(* Properties                                                              *)

WriteCommand == [type : {"Handshake"}, conn : Conn, id : {NoPeer}]
                  \cup [type : {"Ping", "Pong"}, conn : Conn, id : Peer]
ReadCommand  == [type : {"Ping", "Pong"}, conn : Conn, id : Peer]

TypeOK ==
  /\ step \in [Conn -> Steps]
  /\ inbox \in [Conn -> [type : {"None", "Handshake"} \cup Packets,
                         id : Peer \cup {NoPeer}]]
  /\ hungUp \subseteq Conn
  /\ wrote \in [Conn -> {"nothing", "ok", "err"}]
  /\ writeChan \in Seq(WriteCommand) /\ Len(writeChan) <= WriteChanCap
  /\ writer \in {Idle} \cup PM!Event
  /\ readChan \in Seq(ReadCommand) /\ Len(readChan) <= ReadChanCap
  /\ app \in [at   : {"select", "query", "answer", "dial", "handshake",
                      "write", "post"},
              cmd  : Commands \cup {"None", "Again", "Pong"},
              peer : Peer \cup {NoPeer},
              conn : Conn \cup {NoConn}]

\* The goroutines of the transport and the application keep the promises that
\* PeerManager's environment makes: every connection asks for a row once,
\* only a granted one is ever reported lost, and under the UUID it was granted
\* for, and no goroutine closes a connection that waits or was granted.
ImplementsPeerManager == PM!Spec

\* A packet for a peer is on a connection that this peer's handshake was read
\* from and ours written to, and a packet from a peer is one that came on such
\* a connection - however the row changes between GetPeer and the write, and
\* while packets of lost connections are still in the channels.
Established(c, p) == owner[c] = p /\ wrote[c] = "ok"

TrafficOfOwner ==
  /\ \A i \in 1..Len(writeChan) :
       writeChan[i].type # "Handshake"
         => Established(writeChan[i].conn, writeChan[i].id)
  /\ \A i \in 1..Len(readChan) :
       Established(readChan[i].conn, readChan[i].id)
  /\ app.at = "write" => Established(app.conn, app.peer)

\* A connection whose goroutine has ended does not stay open for ever: it is
\* closed, or it was granted and the report of its loss is on its way.  Only
\* where the user blacklists peers may its row have been deleted under it, and
\* then nobody closes it.
Reported(c) ==
  \/ pm.type = "RemoveConnection" /\ pm.conn = c
  \/ \E i \in 1..Len(peerEventChan) :
       /\ peerEventChan[i].type = "RemoveConnection"
       /\ peerEventChan[i].conn = c

EndedIsClosed ==
  \A c \in Conn :
    step[c] = "end" /\ c \notin closed
      => /\ request[c] = "accepted"
         /\ \/ Reported(c)
            \/ "BlackList" \in Command /\ conn[owner[c]] # c

-----------------------------------------------------------------------------
(* The inductive invariant behind the safety properties and the refinement: *)
(* what each goroutine knows of its connection, of the packets on their way *)
(* and of the table, at every point of its code.                            *)

\* A goroutine asks for a row once, and goes on to readLoop only when granted.
AsksInTurn ==
  \A c \in Conn :
    /\ step[c] \in {"off", "send", "sent", "greet", "ask"} => request[c] = "new"
    /\ step[c] = "wait" => request[c] \in {"pending", "accepted", "rejected"}
    /\ step[c] \in ReadLoopSteps => request[c] = "accepted"
    /\ step[c] = "end" => request[c] \in {"accepted", "rejected"}
    /\ owner[c] # NoPeer => request[c] = "accepted"

\* What readHandshake and readPacket have read is still at hand.
ReadPacketKept ==
  \A c \in Conn :
    /\ step[c] = "ask" => inbox[c].type = "Handshake"
    /\ inbox[c].type = "Handshake" => inbox[c].id \in Peer
    /\ step[c] \in {"touch", "deliver"} => inbox[c].type \in {"Ping", "Pong"}

\* A handshake is written once; who asks for a row has had it written.
GreetsFirst ==
  \A c \in Conn :
    /\ step[c] \in {"off", "send"} => wrote[c] = "nothing"
    /\ step[c] \in {"greet", "ask", "wait"} \cup ReadLoopSteps
         => wrote[c] = "ok"
    /\ request[c] = "accepted" => wrote[c] = "ok"
    /\ \A i \in 1..Len(writeChan) :
         writeChan[i].type = "Handshake" /\ writeChan[i].conn = c
           => /\ wrote[c] = "nothing"
              /\ step[c] \in {"sent", "end"}
              /\ \A j \in 1..Len(writeChan) :
                   writeChan[j].type = "Handshake" /\ writeChan[j].conn = c
                     => i = j

\* A loss is reported of a granted connection, under the UUID it was granted
\* for; the user's blacklist commands are the only ones.
Truthful(e) ==
  /\ e.type = "RemoveConnection"
       => request[e.conn] = "accepted" /\ owner[e.conn] = e.id
  /\ e.type = "BlackList" => "BlackList" \in Command

ReportsTruthful ==
  /\ Truthful(pm)
  /\ \A i \in 1..Len(peerEventChan) : Truthful(peerEventChan[i])
  /\ writer # Idle => /\ writer.type \in {"RemoveConnection",
                                          "SetLastActivity"}
                      /\ Truthful(writer)

\* App.Run has what its next statement uses, and waits for one answer at most.
AppPrepared ==
  /\ app.at # "select" => app.peer \in Peer
  /\ app.at \in {"handshake", "write"} => app.conn \in Conn
  /\ app.at \in {"dial", "handshake"} => app.cmd = "Again"
  /\ app.at = "write" => app.cmd \in {"Ping", "Pong"}
  /\ app.cmd = "BlackList" => "BlackList" \in Command
  /\ \A q \in Query :
       caller[q] = "waiting" <=> app.at = "answer" /\ q = Channel
  /\ caller[TableQuery] # "gone"
  /\ app.at = "query" => caller[Channel] = "free"

\* An open granted connection is in its row, unless the user blacklists peers.
OpenIsListed ==
  \A c \in Conn :
    request[c] = "accepted" /\ c \notin closed
      => conn[owner[c]] = c \/ "BlackList" \in Command

IndInv ==
  /\ PM!IndInv
  /\ TypeOK
  /\ AsksInTurn
  /\ ReadPacketKept
  /\ GreetsFirst
  /\ ReportsTruthful
  /\ AppPrepared
  /\ TrafficOfOwner
  /\ OpenIsListed
  /\ EndedIsClosed

-----------------------------------------------------------------------------
(* Liveness                                                                *)

\* A handshake ends, for the acceptor and for a ping that dials.
HandshakeEnds ==
  \A c \in Conn : step[c] \in HandleConnSteps ~> step[c] \notin HandleConnSteps

\* The application comes back to its select from every packet and command.
AppReturns == app # Select ~> app = Select

\* A connection whose remote end has gone leaves the table.
LostIsForgotten ==
  \A c \in Conn : c \in hungUp ~> \A p \in Peer : conn[p] # c

=============================================================================
