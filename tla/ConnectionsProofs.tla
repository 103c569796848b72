-------------------------- MODULE ConnectionsProofs --------------------------
(***************************************************************************)
(* Proofs about the node of module Connections, for every set of peers and *)
(* connections, every capacity of the channels and every choice of what    *)
(* the user and the network may do: its inductive invariant, its safety    *)
(* properties, and that it implements PeerManager.  What the peer manager  *)
(* does to its own variables is taken from PeerManagerProofs.              *)
(***************************************************************************)
EXTENDS Connections, TLAPS

PMP == INSTANCE PeerManagerProofs WITH TimedQuery <- {ListQuery}

-----------------------------------------------------------------------------
(* The peer manager inside the node                                        *)

\* The constants are as PeerManager assumes.
LEMMA ManagerAssumption == PMP!PeerManagerAssumption
  BY ConnectionsAssumption
  DEF ConnectionsAssumption, PMP!PeerManagerAssumption, Query

\* The two instances of PeerManager are one specification.
LEMMA SameInit == PMP!Init <=> PM!Init
  BY DEF PM!Init, PMP!Init, PM!Ready, PMP!Ready

LEMMA SameInv == PMP!IndInv <=> PM!IndInv
  BY DEF PM!IndInv, PMP!IndInv, PM!TypeOK, PMP!TypeOK,
         PM!BlackListedHasNoRow, PMP!BlackListedHasNoRow, PM!NoRowNoConn,
         PMP!NoRowNoConn, PM!AcceptedForRow, PMP!AcceptedForRow,
         PM!ConnectedIsOpen, PMP!ConnectedIsOpen, PM!AskedOnce,
         PMP!AskedOnce, PM!AsksFor, PMP!AsksFor, PM!AskingIsOpen,
         PMP!AskingIsOpen, PM!NotifyingIsClosed, PMP!NotifyingIsClosed,
         PM!Event, PMP!Event, PM!PeerEvent, PMP!PeerEvent, PM!ConnEvent,
         PMP!ConnEvent, PM!QueryEvent, PMP!QueryEvent, PM!Ready, PMP!Ready,
         PM!Notifying, PMP!Notifying

LEMMA SameNext == [PMP!Next]_PMP!vars <=> [PM!Next]_PM!vars
  BY DEF PM!Next, PMP!Next, PM!Run, PMP!Run, PM!Receive, PMP!Receive,
         PM!handlePeerEvent, PMP!handlePeerEvent, PM!handleDiscoveryEvent,
         PMP!handleDiscoveryEvent, PM!Welcome, PMP!Welcome,
         PM!handleRemovePeerEvent, PMP!handleRemovePeerEvent, PM!ConnsOf,
         PMP!ConnsOf, PM!notifyFileTracker, PMP!notifyFileTracker,
         PM!TellTracker, PMP!TellTracker, PM!Forget, PMP!Forget,
         PM!Disconnect, PMP!Disconnect, PM!handleSetConnectionEvent,
         PMP!handleSetConnectionEvent, PM!MayConnect, PMP!MayConnect,
         PM!Grant, PMP!Grant, PM!Refuse, PMP!Refuse,
         PM!handleRemoveConnectionEvent, PMP!handleRemoveConnectionEvent,
         PM!HoldsConn, PMP!HoldsConn, PM!handleSetLastActivity,
         PMP!handleSetLastActivity, PM!handleBlackListPeer,
         PMP!handleBlackListPeer, PM!answerQuery, PMP!answerQuery,
         PM!checkPeerTimeouts, PMP!checkPeerTimeouts, PM!Environment,
         PMP!Environment, PM!PostPeerEvent, PMP!PostPeerEvent, PM!Post,
         PMP!Post, PM!PostSetConnection, PMP!PostSetConnection,
         PM!PostRemoveConnection, PMP!PostRemoveConnection, PM!CloseConn,
         PMP!CloseConn, PM!Ask, PMP!Ask, PM!GiveUp, PMP!GiveUp,
         PM!TimePasses, PMP!TimePasses, PM!TrackerReceive,
         PMP!TrackerReceive, PM!vars, PMP!vars, PM!table, PMP!table,
         PM!clients, PMP!clients, PM!Ready, PMP!Ready, PM!Notifying,
         PMP!Notifying

\* So its inductive invariant is kept by all steps that it or its environment
\* takes.
LEMMA ManagerInv ==
  /\ PM!Init => PM!IndInv
  /\ PM!IndInv /\ [PM!Next]_PM!vars => PM!IndInv'
<1>1. PM!Init => PM!IndInv
  BY SameInit, SameInv, PMP!IndInit, ManagerAssumption
<1>2. PMP!IndInv /\ [PMP!Next]_PMP!vars => PMP!IndInv'
  BY PMP!IndStep, ManagerAssumption
<1>3. PMP!IndInv' <=> PM!IndInv'
  BY DEF PM!IndInv, PMP!IndInv, PM!TypeOK, PMP!TypeOK,
         PM!BlackListedHasNoRow, PMP!BlackListedHasNoRow, PM!NoRowNoConn,
         PMP!NoRowNoConn, PM!AcceptedForRow, PMP!AcceptedForRow,
         PM!ConnectedIsOpen, PMP!ConnectedIsOpen, PM!AskedOnce,
         PMP!AskedOnce, PM!AsksFor, PMP!AsksFor, PM!AskingIsOpen,
         PMP!AskingIsOpen, PM!NotifyingIsClosed, PMP!NotifyingIsClosed,
         PM!Event, PMP!Event, PM!PeerEvent, PMP!PeerEvent, PM!ConnEvent,
         PMP!ConnEvent, PM!QueryEvent, PMP!QueryEvent, PM!Ready, PMP!Ready,
         PM!Notifying, PMP!Notifying
<1>4. QED
  BY <1>1, <1>2, <1>3, SameInv, SameNext

\* And a row that takes its connection away closes it, or is blacklisted.
LEMMA ManagerLeaves ==
  ASSUME PM!IndInv, [PM!Next]_PM!vars,
         NEW p \in Peer, conn[p] # NoConn, conn'[p] # conn[p]
  PROVE  \/ conn[p] \in closed'
         \/ p \in blackListPeers' \ blackListPeers
  BY PMP!LeavesClosedStep, ManagerAssumption, SameInv, SameNext

\* The event in hand has the fields its type promises.
LEMMA InHand ==
  ASSUME PM!TypeOK
  PROVE  /\ pm.type \in {"Discovery", "RemovePeer", "SetLastActivity",
                         "BlackList", "SetConnection", "RemoveConnection",
                         "Notifying"}
              => pm.id \in Peer
         /\ pm.type \in {"SetConnection", "RemoveConnection"}
              => pm.conn \in Conn
         /\ pm.type = "Query" => pm.resp \in Query
<1>1. PMP!TypeOK
  BY DEF PM!TypeOK, PMP!TypeOK, PM!Event, PMP!Event, PM!PeerEvent,
         PMP!PeerEvent, PM!ConnEvent, PMP!ConnEvent, PM!QueryEvent,
         PMP!QueryEvent, PM!Ready, PMP!Ready, PM!Notifying, PMP!Notifying
<1>2. QED
  BY <1>1, PMP!InHand, ManagerAssumption

\* So have the events that writeLoop reports, and all others are not Ready.
LEMMA EventFields ==
  ASSUME NEW e \in PM!Event
  PROVE  /\ e.type \in {"Discovery", "RemovePeer", "SetLastActivity",
                        "BlackList", "SetConnection", "RemoveConnection"}
              => e.id \in Peer
         /\ e.type \in {"SetConnection", "RemoveConnection"} => e.conn \in Conn
         /\ e.type # "Ready"
         /\ e = [type |-> "RemoveConnection", id |-> e.id, conn |-> e.conn]
              \/ e.type # "RemoveConnection"
         /\ e = [type |-> "SetLastActivity", id |-> e.id]
              \/ e.type # "SetLastActivity"
  BY DEF PM!Event, PM!PeerEvent, PM!ConnEvent, PM!QueryEvent

-----------------------------------------------------------------------------
(* The node implements the peer manager with its environment               *)

\* Closing a connection at the end of handleConn is what PeerManager lets a
\* goroutine do that was not granted a row.
LEMMA CloseAllowed ==
  ASSUME NEW c \in Conn, request[c] \in {"new", "rejected"}, CloseAndEnd(c)
  PROVE  PM!Next
  BY DEF CloseAndEnd, PM!Next, PM!Environment, PM!CloseConn, PM!table

\* Every step of handleConn is one of PeerManager's environment, or leaves the
\* manager and its clients alone.
LEMMA HandleConnAllowed ==
  ASSUME IndInv, NEW c \in Conn, handleConn(c)
  PROVE  [PM!Next]_PM!vars
<1> USE DEF PM!vars, PM!table, PM!clients, pmVars
<1>0. AsksInTurn /\ ReadPacketKept
  BY DEF IndInv
<1>1. CASE sendHandshake(c)
  BY <1>1 DEF sendHandshake
<1>2. CASE handshakeWritten(c)
  BY <1>0, <1>2, CloseAllowed DEF handshakeWritten, AsksInTurn
<1>3. CASE readHandshake(c)
  BY <1>0, <1>3, CloseAllowed DEF readHandshake, AsksInTurn
<1>4. CASE askForRow(c)
  <2>1. request[c] = "new" /\ inbox[c].id \in Peer
    BY <1>0, <1>4 DEF askForRow, AsksInTurn, ReadPacketKept
  <2>2. PM!PostSetConnection(inbox[c].id, c)
    BY <1>4, <2>1 DEF askForRow, PostEvent, PM!PostSetConnection
  <2>3. QED
    BY <2>1, <2>2 DEF PM!Next, PM!Environment
<1>5. CASE rowAnswered(c)
  BY <1>5, CloseAllowed DEF rowAnswered
<1>6. QED
  BY <1>1, <1>2, <1>3, <1>4, <1>5 DEF handleConn

\* Every step of readLoop is, too.
LEMMA ReadLoopAllowed ==
  ASSUME IndInv, NEW c \in Conn, readLoop(c)
  PROVE  [PM!Next]_PM!vars
<1> USE DEF PM!vars, PM!table, PM!clients, pmVars
<1>0. AsksInTurn /\ PM!TypeOK
  BY DEF IndInv, PM!IndInv
<1>1. CASE readPacket(c) \/ deliver(c)
  BY <1>1 DEF readPacket, deliver
<1>2. CASE touchPeer(c)
  <2>1. owner[c] \in Peer
    BY <1>0, <1>2 DEF touchPeer, AsksInTurn, ReadLoopSteps, PM!TypeOK
  <2>2. PM!PostPeerEvent("SetLastActivity", owner[c])
    BY <1>2 DEF touchPeer, PostEvent, PM!PostPeerEvent
  <2>3. QED
    BY <2>1, <2>2 DEF PM!Next, PM!Environment
<1>3. CASE reportLoss(c)
  <2>1. request[c] = "accepted"
    BY <1>0, <1>3 DEF reportLoss, AsksInTurn, ReadLoopSteps
  <2>2. PM!PostRemoveConnection(c)
    BY <1>3, <2>1 DEF reportLoss, PostEvent, PM!PostRemoveConnection
  <2>3. QED
    BY <2>2 DEF PM!Next, PM!Environment
<1>4. QED
  BY <1>1, <1>2, <1>3 DEF readLoop

\* And every step of writeLoop.
LEMMA WriteLoopAllowed ==
  ASSUME IndInv, writeLoop
  PROVE  [PM!Next]_PM!vars
<1> USE DEF PM!vars, PM!table, PM!clients, pmVars
<1>1. CASE writePacket
  BY <1>1 DEF writePacket
<1>2. CASE reportWrite
  <2>1. /\ writer \in PM!Event
        /\ writer.type \in {"RemoveConnection", "SetLastActivity"}
        /\ Truthful(writer)
    BY <1>2 DEF IndInv, TypeOK, ReportsTruthful, reportWrite
  <2>2. CASE writer.type = "RemoveConnection"
    <3>1. /\ writer = [type |-> "RemoveConnection", id |-> owner[writer.conn],
                       conn |-> writer.conn]
          /\ writer.conn \in Conn
          /\ request[writer.conn] = "accepted"
      BY <2>1, <2>2, EventFields DEF Truthful
    <3>2. PM!PostRemoveConnection(writer.conn)
      BY <1>2, <3>1 DEF reportWrite, PostEvent, PM!PostRemoveConnection
    <3>3. QED
      BY <3>1, <3>2 DEF PM!Next, PM!Environment
  <2>3. CASE writer.type = "SetLastActivity"
    <3>1. /\ writer = [type |-> "SetLastActivity", id |-> writer.id]
          /\ writer.id \in Peer
      BY <2>1, <2>3, EventFields
    <3>2. PM!PostPeerEvent("SetLastActivity", writer.id)
      BY <1>2, <3>1 DEF reportWrite, PostEvent, PM!PostPeerEvent
    <3>3. QED
      BY <3>1, <3>2 DEF PM!Next, PM!Environment
  <2>4. QED
    BY <2>1, <2>2, <2>3
<1>3. QED
  BY <1>1, <1>2 DEF writeLoop

\* And every step of the application loop.
LEMMA AppAllowed ==
  ASSUME IndInv, AppStep
  PROVE  [PM!Next]_PM!vars
<1> USE DEF PM!vars, PM!table, PM!clients, pmVars
<1>0. AppPrepared
  BY DEF IndInv
<1>1. CASE handlePacket \/ Connect \/ handleConnReturned \/ SendPacket
  BY <1>1 DEF handlePacket, Connect, handleConnReturned, SendPacket
<1>2. CASE query
  <2>1. caller[Channel] = "free" /\ Channel \in Query
    BY <1>0, <1>2 DEF query, AppPrepared, Channel, Query
  <2>2. PM!Ask(Channel)
    BY <1>2, <2>1 DEF query, PostEvent, PM!Ask
  <2>3. QED
    BY <2>1, <2>2 DEF PM!Next, PM!Environment
<1>3. CASE answer
  BY <1>3 DEF answer, PM!Next, PM!Run, PM!handlePeerEvent
<1>4. CASE timeout
  <2>1. caller[ListQuery] = "waiting" /\ ListQuery \in Query
    BY <1>0, <1>4 DEF timeout, AppPrepared, Channel, Query
  <2>2. PM!GiveUp(ListQuery)
    BY <1>4, <2>1 DEF timeout, PM!GiveUp
  <2>3. QED
    BY <2>1, <2>2 DEF PM!Next, PM!Environment
<1>5. CASE postCommand
  <2>1. app.peer \in Peer
    BY <1>0, <1>5 DEF postCommand, AppPrepared
  <2>2. \/ PM!PostPeerEvent("BlackList", app.peer)
        \/ PM!PostPeerEvent("RemovePeer", app.peer)
    BY <1>5 DEF postCommand, PostEvent, PM!PostPeerEvent
  <2>3. QED
    BY <2>1, <2>2 DEF PM!Next, PM!Environment
<1>6. QED
  BY <1>1, <1>2, <1>3, <1>4, <1>5 DEF AppStep

\* And the steps of the remote ends, of datagrams and of the user.
LEMMA EnvironmentAllowed ==
  ASSUME IndInv, Environment
  PROVE  [PM!Next]_PM!vars
<1> USE DEF PM!vars, PM!table, PM!clients, pmVars
<1>1. ASSUME NEW cmd \in Command, NEW p \in Peer, handleEvent(cmd, p)
      PROVE  [PM!Next]_PM!vars
  BY <1>1 DEF handleEvent
<1>2. ASSUME NEW t \in Datagram, NEW p \in Peer, datagram(t, p)
      PROVE  [PM!Next]_PM!vars
  <2>1. t \in {"Discovery", "RemovePeer"}
    BY ConnectionsAssumption DEF ConnectionsAssumption, Datagrams
  <2>2. PM!PostPeerEvent(t, p)
    BY <1>2 DEF datagram, PostEvent, PM!PostPeerEvent
  <2>3. QED
    BY <2>1, <2>2 DEF PM!Next, PM!Environment
<1>3. ASSUME NEW c \in Conn,
             \/ accept(c) \/ remoteGreets(c)
             \/ remoteTalks(c) \/ remoteHangsUp(c)
      PROVE  [PM!Next]_PM!vars
  BY <1>3 DEF accept, remoteGreets, remoteTalks, remoteSends, remoteHangsUp
<1>4. QED
  BY <1>1, <1>2, <1>3 DEF Environment

\* So every step of the node is a step of PeerManager, or a stutter of it.
LEMMA StepAllowed == IndInv /\ [Next]_vars => [PM!Next]_PM!vars
<1> SUFFICES ASSUME IndInv, [Next]_vars PROVE [PM!Next]_PM!vars
  OBVIOUS
<1>1. CASE PeerManagerStep
  BY <1>1 DEF PeerManagerStep, PM!Next, PM!Run, PM!handlePeerEvent
<1>2. CASE Tick
  BY <1>2 DEF Tick, PM!Next, PM!Environment
<1>3. CASE fileTracker
  BY <1>3 DEF fileTracker, PM!Next, PM!Environment
<1>4. CASE UNCHANGED vars
  BY <1>4 DEF vars, pmVars, PM!vars, PM!table, PM!clients
<1>5. QED
  BY <1>1, <1>2, <1>3, <1>4, HandleConnAllowed, ReadLoopAllowed,
     WriteLoopAllowed, AppAllowed, EnvironmentAllowed
     DEF Next


-----------------------------------------------------------------------------
(* How a connection's request may change                                   *)

\* What is granted stays granted, to the same peer, and only a grant gives a
\* connection its owner, and its owner's row the connection.
LEMMA GrantsLast ==
  ASSUME PM!IndInv, [PM!Next]_PM!vars, NEW c \in Conn
  PROVE  /\ request[c] = "accepted"
              => request'[c] = "accepted" /\ owner'[c] = owner[c]
         /\ owner'[c] # owner[c] => request'[c] = "accepted"
         /\ request'[c] = "accepted" /\ request[c] # "accepted"
              => conn'[owner'[c]] = c
<1>0. PM!TypeOK /\ PM!AskedOnce
  BY DEF PM!IndInv
<1>1. CASE PM!handleSetConnectionEvent
  <2>1. pm.type = "SetConnection" /\ pm.conn \in Conn
    BY <1>0, <1>1, InHand
       DEF PM!handleSetConnectionEvent, PM!Grant, PM!Refuse
  <2>2. request[pm.conn] = "pending"
    BY <1>0, <2>1 DEF PM!AskedOnce, PM!AsksFor
  <2>3. CASE PM!Grant(pm.id, pm.conn)
    <3>1. pm.id \in Peer
      BY <1>0, <2>1, InHand
    <3>2. QED
      BY <1>0, <2>1, <2>2, <2>3, <3>1 DEF PM!Grant, PM!TypeOK
  <2>4. CASE PM!Refuse(pm.id, pm.conn)
    BY <1>0, <2>1, <2>2, <2>4 DEF PM!Refuse, PM!TypeOK
  <2>5. QED
    BY <1>1, <2>3, <2>4 DEF PM!handleSetConnectionEvent
<1>2. ASSUME NEW p \in Peer, NEW d \in Conn, PM!PostSetConnection(p, d)
      PROVE  /\ request[c] = "accepted" <=> request'[c] = "accepted"
             /\ owner' = owner
  BY <1>0, <1>2 DEF PM!PostSetConnection, PM!TypeOK
<1>3. ASSUME NEW d \in Conn, PM!CloseConn(d)
      PROVE  /\ request[c] = "accepted" <=> request'[c] = "accepted"
             /\ owner' = owner
  BY <1>0, <1>3 DEF PM!CloseConn, PM!TypeOK
<1>4. \/ UNCHANGED <<request, owner>>
      \/ PM!handleSetConnectionEvent
      \/ \E p \in Peer, d \in Conn : PM!PostSetConnection(p, d)
      \/ \E d \in Conn : PM!CloseConn(d)
  BY DEF PM!Next, PM!Run, PM!Receive, PM!handlePeerEvent,
         PM!handleDiscoveryEvent, PM!handleRemovePeerEvent,
         PM!notifyFileTracker, PM!TellTracker, PM!handleRemoveConnectionEvent,
         PM!handleSetLastActivity, PM!handleBlackListPeer, PM!answerQuery,
         PM!checkPeerTimeouts, PM!Environment, PM!PostPeerEvent,
         PM!PostRemoveConnection, PM!Ask, PM!GiveUp, PM!TimePasses,
         PM!TrackerReceive, PM!vars, PM!clients
<1>5. QED
  BY <1>1, <1>2, <1>3, <1>4

\* The manager by itself answers pending requests, and does nothing else to
\* any request.
ManagerActs == PeerManagerStep \/ Tick \/ fileTracker \/ answer

LEMMA ManagerAnswers ==
  ASSUME PM!IndInv, ManagerActs, NEW c \in Conn
  PROVE  /\ UNCHANGED <<step, inbox, hungUp, wrote, writeChan, writer,
                        readChan>>
         /\ \/ request'[c] = request[c]
            \/ request[c] = "pending" /\ request'[c] \in {"accepted", "rejected"}
<1>0. PM!TypeOK /\ PM!AskedOnce
  BY DEF PM!IndInv
<1>1. UNCHANGED <<step, inbox, hungUp, wrote, writeChan, writer, readChan>>
  BY DEF ManagerActs, PeerManagerStep, Tick, fileTracker, answer, network,
         writing
<1>2. CASE PM!handleSetConnectionEvent
  <2>1. pm.type = "SetConnection" /\ pm.conn \in Conn
    BY <1>0, <1>2, InHand
       DEF PM!handleSetConnectionEvent, PM!Grant, PM!Refuse
  <2>2. request[pm.conn] = "pending"
    BY <1>0, <2>1 DEF PM!AskedOnce, PM!AsksFor
  <2>3. QED
    BY <1>0, <1>1, <1>2, <2>1, <2>2
       DEF PM!handleSetConnectionEvent, PM!Grant, PM!Refuse, PM!TypeOK
<1>3. CASE ~PM!handleSetConnectionEvent
  <2>1. request' = request
    BY <1>3
       DEF ManagerActs, PeerManagerStep, Tick, fileTracker, answer,
           PM!Receive, PM!handleDiscoveryEvent, PM!handleRemovePeerEvent,
           PM!notifyFileTracker, PM!TellTracker,
           PM!handleRemoveConnectionEvent, PM!handleSetLastActivity,
           PM!handleBlackListPeer, PM!answerQuery, PM!checkPeerTimeouts,
           PM!TimePasses, PM!TrackerReceive, PM!clients
  <2>2. QED
    BY <1>1, <2>1
<1>4. QED
  BY <1>2, <1>3

-----------------------------------------------------------------------------
(* Types                                                                   *)

\* CloseAndEnd ends the goroutine and refuses the request for good.
LEMMA Ends ==
  ASSUME PM!TypeOK, TypeOK, NEW c \in Conn, CloseAndEnd(c)
  PROVE  /\ step' = [step EXCEPT ![c] = "end"]
         /\ step' \in [Conn -> Steps]
         /\ request' = [request EXCEPT ![c] = "rejected"]
         /\ closed' = closed \cup {c}
         /\ UNCHANGED <<peers, conn, connected, blackListPeers, peerEventChan,
                        pm, fileTrackerChan, owner, caller>>
  BY DEF CloseAndEnd, TypeOK, Steps

\* What the application does with an answer.
LEMMA ActedFields ==
  ASSUME PM!TypeOK, TypeOK, AppPrepared, app.at = "answer"
  PROVE  /\ Acted \in [at   : {"select", "query", "dial", "write", "post"},
                       cmd  : Commands \cup {"None", "Again", "Pong"},
                       peer : Peer \cup {NoPeer},
                       conn : Conn \cup {NoConn}]
         /\ Acted = Select \/ Acted.peer = app.peer
         /\ Acted.at = "write" => /\ Acted.cmd = "Ping"
                                  /\ Acted.conn = conn[app.peer]
                                  /\ app.peer \in peers
                                  /\ conn[app.peer] # NoConn
         /\ Acted.at \in {"dial", "query"}
              => Acted.cmd = "Again" /\ app.cmd = "Ping"
         /\ Acted.cmd = "BlackList" => app.cmd = "BlackList"
<1>1. /\ app \in [at   : {"select", "query", "answer", "dial", "handshake",
                          "write", "post"},
                  cmd  : Commands \cup {"None", "Again", "Pong"},
                  peer : Peer \cup {NoPeer},
                  conn : Conn \cup {NoConn}]
      /\ app.peer \in Peer
      /\ conn[app.peer] \in Conn \cup {NoConn}
  BY DEF TypeOK, AppPrepared, PM!TypeOK
<1>2. CASE app.cmd = "Ping" /\ app.peer \in peers
  <2>1. Acted = [app EXCEPT
                   !.at = IF conn[app.peer] = NoConn THEN "dial" ELSE "query",
                   !.cmd = "Again"]
    BY <1>2 DEF Acted
  <2>2. QED
    BY <1>1, <1>2, <2>1 DEF Commands, Select
<1>3. CASE app.cmd = "Again" /\ app.peer \in peers /\ conn[app.peer] # NoConn
  <2>1. Acted = [app EXCEPT !.at = "write", !.cmd = "Ping",
                            !.conn = conn[app.peer]]
    BY <1>3 DEF Acted
  <2>2. QED
    BY <1>1, <1>3, <2>1 DEF Commands, Select
<1>4. CASE app.cmd = "Disconnect" /\ app.peer \in peers
  <2>1. Acted = [app EXCEPT !.at = "post"]
    BY <1>4 DEF Acted
  <2>2. QED
    BY <1>1, <1>4, <2>1 DEF Commands, Select
<1>5. CASE /\ ~(app.cmd = "Ping" /\ app.peer \in peers)
           /\ ~(/\ app.cmd = "Again" /\ app.peer \in peers
                /\ conn[app.peer] # NoConn)
           /\ ~(app.cmd = "Disconnect" /\ app.peer \in peers)
  <2>1. Acted = Select
    BY <1>5 DEF Acted
  <2>2. QED
    BY <1>1, <2>1 DEF Commands, Select
<1>6. QED
  BY <1>2, <1>3, <1>4, <1>5


\* The goroutines of the connections keep the types.
LEMMA ConnectionTypes ==
  ASSUME IndInv, NEW c \in Conn, handleConn(c) \/ readLoop(c)
  PROVE  TypeOK'
<1>0. PM!TypeOK /\ TypeOK /\ AsksInTurn /\ ReadPacketKept
  BY DEF IndInv, PM!IndInv
<1>s. /\ step \in [Conn -> Steps]
      /\ \A s \in Steps : [step EXCEPT ![c] = s] \in [Conn -> Steps]
      /\ {"sent", "greet", "ask", "wait", "read", "touch", "deliver", "report",
          "end"} \subseteq Steps
  BY <1>0 DEF TypeOK, Steps, HandleConnSteps, ReadLoopSteps
<1> USE DEF TypeOK, network, writing, pmVars
<1>1. CASE sendHandshake(c)
  <2>1. [type |-> "Handshake", conn |-> c, id |-> NoPeer] \in WriteCommand
    BY DEF WriteCommand
  <2>2. writeChan' \in Seq(WriteCommand) /\ Len(writeChan') <= WriteChanCap
    BY <1>0, <1>1, <2>1, PMP!AppendElements, ManagerAssumption,
       ConnectionsAssumption DEF sendHandshake, ConnectionsAssumption
  <2>3. QED
    BY <1>0, <1>s, <1>1, <2>2 DEF sendHandshake
<1>2. CASE handshakeWritten(c)
  BY <1>0, <1>s, <1>2, Ends DEF handshakeWritten
<1>3. CASE readHandshake(c)
  BY <1>0, <1>s, <1>3, Ends DEF readHandshake
<1>4. CASE askForRow(c)
  BY <1>0, <1>s, <1>4 DEF askForRow, None
<1>5. CASE rowAnswered(c)
  BY <1>0, <1>s, <1>5, Ends DEF rowAnswered
<1>6. CASE readPacket(c)
  BY <1>0, <1>s, <1>6 DEF readPacket
<1>7. CASE touchPeer(c)
  BY <1>0, <1>s, <1>7 DEF touchPeer
<1>8. CASE deliver(c)
  <2>1. owner[c] \in Peer /\ inbox[c].type \in {"Ping", "Pong"}
    BY <1>0, <1>8
       DEF deliver, AsksInTurn, ReadLoopSteps, ReadPacketKept, PM!TypeOK
  <2>2. [type |-> inbox[c].type, conn |-> c, id |-> owner[c]] \in ReadCommand
    BY <2>1 DEF ReadCommand
  <2>3. readChan' \in Seq(ReadCommand) /\ Len(readChan') <= ReadChanCap
    BY <1>0, <1>8, <2>2, PMP!AppendElements, ManagerAssumption,
       ConnectionsAssumption DEF deliver, ConnectionsAssumption
  <2>4. QED
    BY <1>0, <1>s, <1>8, <2>3 DEF deliver, None
<1>9. CASE reportLoss(c)
  BY <1>0, <1>s, <1>9 DEF reportLoss
<1>10. QED
  BY <1>1, <1>2, <1>3, <1>4, <1>5, <1>6, <1>7, <1>8, <1>9
     DEF handleConn, readLoop

\* So does writeLoop, whose reports are events of the peer manager.
LEMMA WriterTypes ==
  ASSUME IndInv, writeLoop
  PROVE  TypeOK'
<1>0. TypeOK
  BY DEF IndInv
<1> USE DEF TypeOK, network, writing, pmVars
<1>1. CASE writePacket
  <2>1. /\ Tail(writeChan) \in Seq(WriteCommand)
        /\ Len(Tail(writeChan)) <= WriteChanCap
        /\ Head(writeChan) \in WriteCommand
        /\ Head(writeChan) = writeChan[1] /\ 1 \in 1..Len(writeChan)
    BY <1>0, <1>1, PMP!TailElements, ManagerAssumption, ConnectionsAssumption
       DEF writePacket, ConnectionsAssumption
  <2> DEFINE cmd == Head(writeChan)
  <2>2. PICK result \in {"ok", "err"} :
          IF cmd.type = "Handshake"
          THEN /\ wrote' = [wrote EXCEPT ![cmd.conn] = result]
               /\ UNCHANGED writer
          ELSE /\ writer' = IF result = "err"
                            THEN [type |-> "RemoveConnection", id |-> cmd.id,
                                  conn |-> cmd.conn]
                            ELSE [type |-> "SetLastActivity", id |-> cmd.id]
               /\ UNCHANGED wrote
    BY <1>1 DEF writePacket, WriteOutcomes
  <2>3. cmd.conn \in Conn
    BY <2>1 DEF WriteCommand
  <2>4. CASE cmd.type = "Handshake"
    BY <1>0, <1>1, <2>1, <2>2, <2>3, <2>4 DEF writePacket
  <2>5. CASE cmd.type # "Handshake"
    <3>1. cmd.id \in Peer
      BY <2>1, <2>5 DEF WriteCommand
    <3>2. writer' \in PM!Event
      BY <2>2, <2>3, <2>5, <3>1 DEF PM!Event, PM!PeerEvent, PM!ConnEvent
    <3>3. QED
      BY <1>0, <1>1, <2>1, <2>2, <2>5, <3>2 DEF writePacket
  <2>6. QED
    BY <2>4, <2>5
<1>2. CASE reportWrite
  BY <1>0, <1>2 DEF reportWrite
<1>3. QED
  BY <1>1, <1>2 DEF writeLoop


\* So does the application loop.
LEMMA AppTypes ==
  ASSUME IndInv, AppStep \/ \E cmd \in Command, p \in Peer : handleEvent(cmd, p)
  PROVE  TypeOK'
<1>0. PM!TypeOK /\ TypeOK /\ AppPrepared
  BY DEF IndInv, PM!IndInv
<1> USE DEF TypeOK, network, writing, pmVars
<1>1. CASE handlePacket
  <2>1. /\ Tail(readChan) \in Seq(ReadCommand)
        /\ Len(Tail(readChan)) <= ReadChanCap
        /\ Head(readChan) \in ReadCommand
    BY <1>0, <1>1, PMP!TailElements, ManagerAssumption, ConnectionsAssumption
       DEF handlePacket, ConnectionsAssumption
  <2>2. Head(readChan).conn \in Conn /\ Head(readChan).id \in Peer
    BY <2>1 DEF ReadCommand
  <2>3. app' = Select \/ app' = [at |-> "write", cmd |-> "Pong",
                                peer |-> Head(readChan).id,
                                conn |-> Head(readChan).conn]
    BY <1>1 DEF handlePacket
  <2>4. app' \in [at   : {"select", "query", "answer", "dial", "handshake",
                         "write", "post"},
                 cmd  : Commands \cup {"None", "Again", "Pong"},
                 peer : Peer \cup {NoPeer},
                 conn : Conn \cup {NoConn}]
    BY <2>2, <2>3 DEF Select
  <2>5. QED
    BY <1>0, <1>1, <2>1, <2>4 DEF handlePacket
<1>2. CASE query
  BY <1>0, <1>2 DEF query
<1>3. CASE answer
  BY <1>0, <1>3, ActedFields DEF answer
<1>4. CASE timeout
  BY <1>0, <1>4 DEF timeout, Select
<1>5. CASE Connect
  <2>1. ASSUME NEW c \in Conn
        PROVE  [step EXCEPT ![c] = "send"] \in [Conn -> Steps]
    BY <1>0 DEF Steps, HandleConnSteps
  <2>2. step' \in [Conn -> Steps]
    <3>1. \/ \E c \in Conn : step' = [step EXCEPT ![c] = "send"]
          \/ step' = step
      BY <1>5 DEF Connect
    <3>2. QED
      BY <1>0, <2>1, <3>1
  <2>3. \/ \E c \in Conn : app' = [app EXCEPT !.at = "handshake", !.conn = c]
        \/ app' = [app EXCEPT !.at = "query"]
    BY <1>5 DEF Connect
  <2>4. app' \in [at   : {"select", "query", "answer", "dial", "handshake",
                         "write", "post"},
                 cmd  : Commands \cup {"None", "Again", "Pong"},
                 peer : Peer \cup {NoPeer},
                 conn : Conn \cup {NoConn}]
    BY <1>0, <2>3
  <2>5. QED
    BY <1>0, <1>5, <2>2, <2>4 DEF Connect
<1>6. CASE handleConnReturned
  BY <1>0, <1>6 DEF handleConnReturned
<1>7. CASE SendPacket
  <2>1. [type |-> app.cmd, conn |-> app.conn, id |-> app.peer] \in WriteCommand
    BY <1>0, <1>7 DEF SendPacket, AppPrepared, WriteCommand
  <2>2. writeChan' \in Seq(WriteCommand) /\ Len(writeChan') <= WriteChanCap
    BY <1>0, <1>7, <2>1, PMP!AppendElements, ManagerAssumption,
       ConnectionsAssumption DEF SendPacket, ConnectionsAssumption
  <2>3. QED
    BY <1>0, <1>7, <2>2 DEF SendPacket, Select
<1>8. CASE postCommand
  BY <1>0, <1>8 DEF postCommand, Select
<1>9. ASSUME NEW cmd \in Command, NEW p \in Peer, handleEvent(cmd, p)
      PROVE  TypeOK'
  BY <1>0, <1>9, ConnectionsAssumption DEF handleEvent, ConnectionsAssumption
<1>10. QED
  BY <1>1, <1>2, <1>3, <1>4, <1>5, <1>6, <1>7, <1>8, <1>9 DEF AppStep

\* So do all steps.
LEMMA TypeStep == IndInv /\ [Next]_vars => TypeOK'
<1> SUFFICES ASSUME IndInv, [Next]_vars PROVE TypeOK'
  OBVIOUS
<1>0. TypeOK
  BY DEF IndInv
<1> USE DEF network, writing, pmVars
<1>1. CASE PeerManagerStep \/ Tick \/ fileTracker \/ UNCHANGED vars
  BY <1>0, <1>1 DEF PeerManagerStep, Tick, fileTracker, vars, TypeOK
<1>2. ASSUME NEW t \in Datagram, NEW p \in Peer, datagram(t, p)
      PROVE  TypeOK'
  BY <1>0, <1>2 DEF datagram, TypeOK
<1>3. ASSUME NEW c \in Conn, accept(c) \/ remoteHangsUp(c)
      PROVE  TypeOK'
  BY <1>0, <1>3
     DEF accept, remoteHangsUp, TypeOK, Steps, HandleConnSteps
<1>4. ASSUME NEW c \in Conn, remoteGreets(c) \/ remoteTalks(c)
      PROVE  TypeOK'
  <2>1. Incoming \subseteq Packets
    BY ConnectionsAssumption DEF ConnectionsAssumption
  <2>2. PICK packet \in [type : {"Handshake"} \cup Packets,
                        id : Peer \cup {NoPeer}] : remoteSends(c, packet)
    BY <1>4, <2>1 DEF remoteGreets, remoteTalks
  <2>3. QED
    BY <1>0, <2>2 DEF remoteSends, TypeOK
<1>5. QED
  BY <1>1, <1>2, <1>3, <1>4, ConnectionTypes, WriterTypes, AppTypes
     DEF Next, Environment

-----------------------------------------------------------------------------
(* The goroutines of the connections                                       *)

\* Where a step of a connection's goroutine leads, and what it does to the
\* request.
Moves(c) ==
  \/ /\ \/ step[c] = "send" /\ step'[c] = "sent" /\ sendHandshake(c)
        \/ step[c] = "sent" /\ step'[c] = "greet" /\ wrote[c] = "ok"
        \/ /\ step[c] = "greet" /\ step'[c] = "ask"
           /\ inbox[c].type = "Handshake"
        \/ step[c] = "wait" /\ step'[c] = "read" /\ request[c] = "accepted"
        \/ /\ step[c] = "read" /\ step'[c] = "touch"
           /\ inbox[c].type \in {"Ping", "Pong"}
        \/ step[c] = "read" /\ step'[c] = "report"
        \/ step[c] = "touch" /\ step'[c] = "deliver"
        \/ step[c] = "deliver" /\ step'[c] = "read"
        \/ step[c] = "report" /\ step'[c] = "end" /\ reportLoss(c)
     /\ request'[c] = request[c]
  \/ step[c] = "ask" /\ step'[c] = "wait" /\ request'[c] = "pending"
  \/ /\ \/ step[c] \in {"sent", "greet"}
        \/ step[c] = "wait" /\ request[c] = "rejected"
     /\ step'[c] = "end"
     /\ request'[c] = "rejected"
     /\ c \in closed'

LEMMA GoroutineMoves ==
  ASSUME PM!TypeOK, TypeOK, NEW c \in Conn, handleConn(c) \/ readLoop(c)
  PROVE  /\ Moves(c)
         /\ \A d \in Conn \ {c} : step'[d] = step[d] /\ request'[d] = request[d]
         /\ owner' = owner
<1>1. ASSUME NEW s, step' = [step EXCEPT ![c] = s]
      PROVE  step'[c] = s /\ \A d \in Conn \ {c} : step'[d] = step[d]
  BY <1>1 DEF TypeOK
<1>2. ASSUME NEW r, request' = [request EXCEPT ![c] = r]
      PROVE  /\ request'[c] = r
             /\ \A d \in Conn \ {c} : request'[d] = request[d]
  BY <1>2 DEF PM!TypeOK
<1>3. CASE CloseAndEnd(c) /\ (\/ step[c] \in {"sent", "greet"}
                              \/ step[c] = "wait" /\ request[c] = "rejected")
  BY <1>1, <1>2, <1>3, Ends DEF Moves
<1>4. CASE sendHandshake(c)
  BY <1>1, <1>4 DEF Moves, sendHandshake, pmVars
<1>5. CASE handshakeWritten(c)
  BY <1>1, <1>3, <1>5 DEF handshakeWritten, Moves, pmVars
<1>6. CASE readHandshake(c)
  BY <1>1, <1>3, <1>6 DEF readHandshake, Reads, Moves, pmVars
<1>7. CASE askForRow(c)
  BY <1>1, <1>2, <1>7 DEF askForRow, PostEvent, Moves
<1>8. CASE rowAnswered(c)
  BY <1>1, <1>3, <1>8 DEF rowAnswered, Moves, pmVars
<1>9. CASE readPacket(c)
  BY <1>1, <1>9 DEF readPacket, Reads, Moves, pmVars
<1>10. CASE touchPeer(c)
  BY <1>1, <1>10 DEF touchPeer, PostEvent, Moves
<1>11. CASE deliver(c)
  BY <1>1, <1>11 DEF deliver, Moves, pmVars
<1>12. CASE reportLoss(c)
  BY <1>1, <1>12 DEF Moves, reportLoss, PostEvent
<1>13. QED
  BY <1>4, <1>5, <1>6, <1>7, <1>8, <1>9, <1>10, <1>11, <1>12
     DEF handleConn, readLoop

\* A step of the node, as one connection's goroutine sees it: the manager
\* answers it, it moves itself, it is started, or nothing happens to it.
LEMMA Seen ==
  ASSUME IndInv, [Next]_vars, NEW c \in Conn
  PROVE  \/ ManagerActs
         \/ handleConn(c) \/ readLoop(c)
         \/ /\ step[c] = "off" /\ step'[c] = "send"
            /\ request' = request
            /\ UNCHANGED <<inbox, wrote, writeChan>>
         \/ step'[c] = step[c] /\ request'[c] = request[c]
<1>0. PM!TypeOK /\ TypeOK
  BY DEF IndInv, PM!IndInv
<1> USE DEF network, writing, pmVars
<1>1. ASSUME NEW d \in Conn, handleConn(d) \/ readLoop(d)
      PROVE  \/ handleConn(c) \/ readLoop(c)
             \/ step'[c] = step[c] /\ request'[c] = request[c]
  BY <1>0, <1>1, GoroutineMoves
<1>2. ASSUME NEW d \in Conn, step[d] = "off",
             step' = [step EXCEPT ![d] = "send"]
      PROVE  \/ step[c] = "off" /\ step'[c] = "send"
             \/ step'[c] = step[c]
  BY <1>0, <1>2 DEF TypeOK
<1>3. CASE Connect \/ \E d \in Conn : accept(d)
  BY <1>2, <1>3 DEF Connect, accept
<1>4. CASE writeLoop
  BY <1>4 DEF writeLoop, writePacket, reportWrite
<1>5. CASE AppStep /\ ~Connect /\ ~answer
  BY <1>5
     DEF AppStep, handlePacket, query, timeout, handleConnReturned, SendPacket,
         postCommand
<1>6. CASE Environment /\ ~\E d \in Conn : accept(d)
  BY <1>6 DEF Environment, handleEvent, datagram, remoteGreets, remoteTalks,
              remoteSends, remoteHangsUp
<1>7. CASE UNCHANGED vars
  BY <1>7 DEF vars
<1>8. QED
  BY <1>1, <1>3, <1>4, <1>5, <1>6, <1>7 DEF Next, ManagerActs, AppStep

\* A goroutine keeps its turn whatever the others do.
LEMMA AsksInTurnStep == IndInv /\ [Next]_vars => AsksInTurn'
<1> SUFFICES ASSUME IndInv, [Next]_vars, NEW c \in Conn
             PROVE  AsksInTurn!(c)'
  BY DEF AsksInTurn
<1>0. PM!IndInv /\ PM!TypeOK /\ TypeOK /\ AsksInTurn!(c)
  BY DEF IndInv, PM!IndInv, AsksInTurn
<1>1. owner'[c] # NoPeer => request'[c] = "accepted"
  BY <1>0, StepAllowed, GrantsLast
<1>2. step[c] \in Steps
  BY <1>0 DEF TypeOK
<1> USE DEF Steps, HandleConnSteps, ReadLoopSteps
<1>3. CASE ManagerActs
  BY <1>0, <1>1, <1>2, <1>3, ManagerAnswers
<1>4. CASE handleConn(c) \/ readLoop(c)
  <2>1. Moves(c)
    BY <1>0, <1>4, GoroutineMoves
  <2>2. QED
    BY <1>0, <1>1, <1>2, <2>1 DEF Moves
<1>5. CASE /\ step[c] = "off" /\ step'[c] = "send"
           /\ request' = request
  BY <1>0, <1>1, <1>5
<1>6. CASE step'[c] = step[c] /\ request'[c] = request[c]
  BY <1>0, <1>1, <1>6
<1>7. QED
  BY <1>3, <1>4, <1>5, <1>6, Seen


\* What may happen to the packet in a socket.
LEMMA InboxChanges ==
  ASSUME IndInv, [Next]_vars, NEW c \in Conn
  PROVE  \/ inbox'[c] = inbox[c]
         \/ inbox'[c] = None /\ step'[c] \in {"wait", "read"}
         \/ /\ inbox[c] = None /\ step'[c] = step[c]
            /\ inbox'[c].type = "Handshake" => inbox'[c].id \in Peer
<1>0. TypeOK
  BY DEF IndInv
<1> USE DEF network, writing, pmVars
<1>1. ASSUME NEW d \in Conn, handleConn(d) \/ readLoop(d)
      PROVE  \/ inbox'[c] = inbox[c]
             \/ inbox'[c] = None /\ step'[c] \in {"wait", "read"}
  <2>1. \/ inbox' = inbox
        \/ /\ inbox' = [inbox EXCEPT ![d] = None]
           /\ \/ step' = [step EXCEPT ![d] = "wait"]
              \/ step' = [step EXCEPT ![d] = "read"]
    BY <1>1
       DEF handleConn, sendHandshake, handshakeWritten, readHandshake,
           askForRow, rowAnswered, readLoop, readPacket, touchPeer, deliver,
           reportLoss
  <2>2. QED
    BY <1>0, <2>1 DEF TypeOK
<1>2. ASSUME NEW d \in Conn, remoteGreets(d) \/ remoteTalks(d)
      PROVE  \/ inbox'[c] = inbox[c]
             \/ /\ inbox[c] = None /\ step'[c] = step[c]
                /\ inbox'[c].type = "Handshake" => inbox'[c].id \in Peer
  <2>1. Incoming \subseteq Packets
    BY ConnectionsAssumption DEF ConnectionsAssumption
  <2>2. ASSUME NEW packet, remoteSends(d, packet),
               packet.type = "Handshake" => packet.id \in Peer
        PROVE  \/ inbox'[c] = inbox[c]
               \/ /\ inbox[c] = None /\ step'[c] = step[c]
                  /\ inbox'[c].type = "Handshake" => inbox'[c].id \in Peer
    BY <1>0, <2>2 DEF remoteSends, TypeOK
  <2>3. CASE remoteGreets(d)
    BY <2>2, <2>3 DEF remoteGreets
  <2>4. CASE remoteTalks(d)
    BY <2>1, <2>2, <2>4 DEF remoteTalks, Packets
  <2>5. QED
    BY <1>2, <2>3, <2>4
<1>3. CASE UNCHANGED inbox
  BY <1>3
<1>4. \/ UNCHANGED inbox
      \/ \E d \in Conn : \/ handleConn(d) \/ readLoop(d)
                         \/ remoteGreets(d) \/ remoteTalks(d)
  BY DEF Next, PeerManagerStep, Tick, fileTracker, writeLoop, writePacket,
         reportWrite, AppStep, handlePacket, query, answer, timeout, Connect,
         handleConnReturned, SendPacket, postCommand, Environment,
         handleEvent, datagram, accept, remoteHangsUp, vars
<1>5. QED
  BY <1>1, <1>2, <1>3, <1>4

\* So a packet that was read is there until the goroutine is done with it.
LEMMA ReadPacketKeptStep == IndInv /\ [Next]_vars => ReadPacketKept'
<1> SUFFICES ASSUME IndInv, [Next]_vars, NEW c \in Conn
             PROVE  ReadPacketKept!(c)'
  BY DEF ReadPacketKept
<1>0. PM!IndInv /\ PM!TypeOK /\ TypeOK /\ ReadPacketKept!(c)
  BY DEF IndInv, PM!IndInv, ReadPacketKept
<1>1. \/ step'[c] = step[c]
      \/ step'[c] = "send"
      \/ Moves(c)
  BY <1>0, Seen, GoroutineMoves, ManagerAnswers
<1>2. CASE inbox'[c] = inbox[c]
  BY <1>0, <1>1, <1>2 DEF Moves
<1>3. CASE inbox'[c] = None /\ step'[c] \in {"wait", "read"}
  BY <1>3 DEF None
<1>4. CASE /\ inbox[c] = None /\ step'[c] = step[c]
           /\ inbox'[c].type = "Handshake" => inbox'[c].id \in Peer
  BY <1>0, <1>4 DEF None
<1>5. QED
  BY <1>2, <1>3, <1>4, InboxChanges

-----------------------------------------------------------------------------
(* The handshakes in WriteChan                                             *)

IsHandshakeOf(cmd, c) == cmd.type = "Handshake" /\ cmd.conn = c

\* A handshake is written once, and nobody asks for a row before it is.
LEMMA GreetsFirstStep == IndInv /\ [Next]_vars => GreetsFirst'
<1> SUFFICES ASSUME IndInv, [Next]_vars, NEW c \in Conn
             PROVE  GreetsFirst!(c)'
  BY DEF GreetsFirst
<1>0. /\ PM!IndInv /\ PM!TypeOK /\ TypeOK
      /\ AsksInTurn!(c) /\ GreetsFirst!(c)
  BY DEF IndInv, PM!IndInv, AsksInTurn, GreetsFirst
<1> USE DEF HandleConnSteps, ReadLoopSteps, Steps
<1>1. \/ step'[c] = step[c] /\ request'[c] = request[c]
      \/ step'[c] = step[c] /\ request[c] = "pending"
      \/ /\ step[c] = "off" /\ step'[c] = "send"
         /\ request' = request
      \/ Moves(c)
  BY <1>0, Seen, GoroutineMoves, ManagerAnswers
<1>2. step[c] \in Steps
  BY <1>0 DEF TypeOK
<1>3. CASE UNCHANGED <<wrote, writeChan>>
  <2>1. ~sendHandshake(c)
    <3>1. SUFFICES ASSUME sendHandshake(c) PROVE FALSE
      OBVIOUS
    <3>2. [type |-> "Handshake", conn |-> c, id |-> NoPeer] \in WriteCommand
      BY DEF WriteCommand
    <3>3. Len(writeChan') = Len(writeChan) + 1 /\ Len(writeChan) \in Nat
      BY <1>0, <3>1, <3>2, PMP!AppendElements, ManagerAssumption
         DEF sendHandshake, TypeOK
    <3>4. QED
      BY <1>3, <3>3
  <2>2. QED
    BY <1>0, <1>1, <1>2, <1>3, <2>1 DEF Moves
<1>4. CASE sendHandshake(c)
  <2>1. /\ step[c] = "send" /\ step'[c] = "sent"
        /\ UNCHANGED <<request, wrote>>
    BY <1>0, <1>4 DEF sendHandshake, TypeOK, pmVars
  <2>2. \A i \in 1..Len(writeChan) : ~IsHandshakeOf(writeChan[i], c)
    BY <1>0, <2>1 DEF IsHandshakeOf
  <2>3. [type |-> "Handshake", conn |-> c, id |-> NoPeer] \in WriteCommand
    BY DEF WriteCommand
  <2>4. /\ Len(writeChan) \in Nat /\ Len(writeChan') = Len(writeChan) + 1
        /\ \A i \in 1..Len(writeChan) : writeChan'[i] = writeChan[i]
    BY <1>0, <1>4, <2>3, PMP!AppendElements, ManagerAssumption
       DEF sendHandshake, TypeOK
  <2>5. \A i \in 1..Len(writeChan') :
          IsHandshakeOf(writeChan'[i], c) => i = Len(writeChan) + 1
    BY <2>2, <2>4
  <2>6. QED
    BY <1>0, <2>1, <2>5 DEF IsHandshakeOf
<1>5. ASSUME NEW cmd \in WriteCommand, ~IsHandshakeOf(cmd, c),
             writeChan' = Append(writeChan, cmd), UNCHANGED wrote,
             step'[c] = step[c], request'[c] = request[c]
      PROVE  GreetsFirst!(c)'
  <2>1. /\ Len(writeChan) \in Nat /\ Len(writeChan') = Len(writeChan) + 1
        /\ \A i \in 1..Len(writeChan) : writeChan'[i] = writeChan[i]
        /\ writeChan'[Len(writeChan) + 1] = cmd
    BY <1>0, <1>5, PMP!AppendElements, ManagerAssumption DEF TypeOK
  <2>2. \A i \in 1..Len(writeChan') :
          IsHandshakeOf(writeChan'[i], c)
            => i \in 1..Len(writeChan) /\ IsHandshakeOf(writeChan[i], c)
    BY <1>5, <2>1
  <2>3. QED
    BY <1>0, <1>5, <2>2 DEF IsHandshakeOf
<1>6. CASE \E d \in Conn \ {c} : sendHandshake(d)
  <2>1. PICK d \in Conn \ {c} : sendHandshake(d)
    BY <1>6
  <2>2. step'[c] = step[c] /\ request'[c] = request[c]
    BY <1>0, <2>1, GoroutineMoves DEF handleConn
  <2>3. [type |-> "Handshake", conn |-> d, id |-> NoPeer] \in WriteCommand
    BY DEF WriteCommand
  <2>4. QED
    BY <1>5, <2>1, <2>2, <2>3 DEF sendHandshake, IsHandshakeOf
<1>7. CASE SendPacket
  <2>1. [type |-> app.cmd, conn |-> app.conn, id |-> app.peer] \in WriteCommand
    BY <1>0, <1>7
       DEF SendPacket, IndInv, AppPrepared, TypeOK, WriteCommand
  <2>2. app.cmd # "Handshake"
    BY <1>7 DEF SendPacket, IndInv, AppPrepared
  <2>3. QED
    BY <1>5, <1>7, <2>1, <2>2 DEF SendPacket, IsHandshakeOf, pmVars
<1>8. CASE writePacket
  <2>1. step' = step /\ request' = request
    BY <1>8 DEF writePacket, pmVars
  <2>2. /\ Head(writeChan) \in WriteCommand /\ Head(writeChan) = writeChan[1]
        /\ Len(writeChan) \in Nat \ {0}
        /\ Len(writeChan') = Len(writeChan) - 1
        /\ \A i \in 1..Len(writeChan') : writeChan'[i] = writeChan[i + 1]
    BY <1>0, <1>8, PMP!TailElements, ManagerAssumption DEF writePacket, TypeOK
  <2>3. \A i \in 1..Len(writeChan') :
          i + 1 \in 1..Len(writeChan) /\ i + 1 # 1
    BY <2>2
  <2>4. 1 \in 1..Len(writeChan)
    BY <2>2
  <2>5. CASE IsHandshakeOf(Head(writeChan), c)
    <3>1. step[c] \in {"sent", "end"} /\ wrote[c] = "nothing"
      BY <1>0, <2>2, <2>4, <2>5 DEF IsHandshakeOf
    <3>2. \A i \in 1..Len(writeChan') : ~IsHandshakeOf(writeChan'[i], c)
      <4>1. SUFFICES ASSUME NEW i \in 1..Len(writeChan'),
                            IsHandshakeOf(writeChan'[i], c)
                     PROVE  FALSE
        OBVIOUS
      <4>2. IsHandshakeOf(writeChan[i + 1], c)
        BY <2>2, <4>1
      <4>3. i + 1 = 1
        BY <1>0, <2>2, <2>3, <2>4, <2>5, <4>2 DEF IsHandshakeOf
      <4>4. QED
        BY <2>3, <4>3
    <3>3. QED
      BY <1>0, <2>1, <3>1, <3>2 DEF IsHandshakeOf
  <2>6. CASE ~IsHandshakeOf(Head(writeChan), c)
    <3>1. wrote'[c] = wrote[c]
      BY <1>0, <1>8, <2>2, <2>6 DEF writePacket, IsHandshakeOf, TypeOK
    <3>2. \A i, j \in 1..Len(writeChan') : i + 1 = j + 1 => i = j
      OBVIOUS
    <3>3. \A i \in 1..Len(writeChan') :
            IsHandshakeOf(writeChan'[i], c)
              => /\ wrote[c] = "nothing"
                 /\ step[c] \in {"sent", "end"}
                 /\ \A j \in 1..Len(writeChan') :
                      IsHandshakeOf(writeChan'[j], c) => i = j
      BY <1>0, <2>2, <2>3, <3>2 DEF IsHandshakeOf
    <3>4. QED
      BY <1>0, <2>1, <3>1, <3>3 DEF IsHandshakeOf
  <2>7. QED
    BY <2>5, <2>6
<1>9. \/ UNCHANGED <<wrote, writeChan>>
      \/ \E d \in Conn : sendHandshake(d)
      \/ SendPacket
      \/ writePacket
  BY DEF Next, PeerManagerStep, Tick, fileTracker, handleConn,
         handshakeWritten, readHandshake, askForRow, rowAnswered, readLoop,
         readPacket, touchPeer, deliver, reportLoss, writeLoop, reportWrite,
         AppStep, handlePacket, query, answer, timeout, Connect,
         handleConnReturned, postCommand, Environment, handleEvent, datagram,
         accept, remoteGreets, remoteTalks, remoteSends, remoteHangsUp,
         writing, vars
<1>10. QED
  BY <1>3, <1>4, <1>6, <1>7, <1>8, <1>9

-----------------------------------------------------------------------------
(* The events on their way to the manager                                  *)

\* What ReportsTruthful asks of an event, after the step.
StaysTruthful(e) ==
  /\ e.type = "RemoveConnection"
       => request'[e.conn] = "accepted" /\ owner'[e.conn] = e.id
  /\ e.type = "BlackList" => "BlackList" \in Command

\* A report that was true when it was made is true when it arrives.
LEMMA TruthLasts ==
  ASSUME IndInv, [Next]_vars, NEW e \in PM!Event, Truthful(e)
  PROVE  StaysTruthful(e)
<1>1. e.type = "RemoveConnection" => e.conn \in Conn
  BY EventFields
<1>2. QED
  BY <1>1, StepAllowed, GrantsLast DEF IndInv, Truthful, StaysTruthful

\* The channel of events: nothing happens to it, the manager takes its first
\* event, or somebody posts a true one.
LEMMA EventsMove ==
  ASSUME IndInv, [Next]_vars
  PROVE  \/ UNCHANGED peerEventChan
         \/ PM!Receive
         \/ /\ pm' = pm
            /\ \E e \in PM!Event : /\ PM!Post(e) /\ Truthful(e)
                                   /\ e.type = "RemoveConnection"
                                        => UNCHANGED <<request, owner>>
<1>0. PM!TypeOK /\ TypeOK
  BY DEF IndInv, PM!IndInv
<1> DEFINE P == \/ UNCHANGED peerEventChan
                \/ PM!Receive
                \/ /\ pm' = pm
                   /\ \E e \in PM!Event :
                        /\ PM!Post(e) /\ Truthful(e)
                        /\ e.type = "RemoveConnection"
                             => UNCHANGED <<request, owner>>
<1>1. ASSUME NEW t \in {"Discovery", "RemovePeer", "SetLastActivity"},
             NEW p \in Peer, PM!Post([type |-> t, id |-> p]), pm' = pm
      PROVE  P
  <2>1. [type |-> t, id |-> p] \in PM!Event
    BY DEF PM!Event, PM!PeerEvent
  <2>2. Truthful([type |-> t, id |-> p])
    BY DEF Truthful
  <2>3. QED
    BY <1>1, <2>1, <2>2
<1>2. ASSUME NEW c \in Conn, handleConn(c) \/ readLoop(c)
      PROVE  P
  <2>1. CASE askForRow(c)
    <3>1. inbox[c].id \in Peer
      BY <2>1 DEF askForRow, IndInv, ReadPacketKept
    <3> DEFINE e == [type |-> "SetConnection", id |-> inbox[c].id, conn |-> c]
    <3>2. e \in PM!Event /\ Truthful(e) /\ e.type # "RemoveConnection"
      BY <3>1 DEF PM!Event, PM!ConnEvent, Truthful
    <3>3. QED
      BY <2>1, <3>2 DEF askForRow, PostEvent
  <2>2. CASE touchPeer(c)
    <3>1. owner[c] \in Peer
      BY <1>0, <2>2
         DEF touchPeer, IndInv, AsksInTurn, ReadLoopSteps, PM!TypeOK
    <3>2. QED
      BY <1>1, <2>2, <3>1 DEF touchPeer, PostEvent
  <2>3. CASE reportLoss(c)
    <3>1. request[c] = "accepted" /\ owner[c] \in Peer
      BY <1>0, <2>3
         DEF reportLoss, IndInv, AsksInTurn, ReadLoopSteps, PM!TypeOK
    <3> DEFINE e == [type |-> "RemoveConnection", id |-> owner[c], conn |-> c]
    <3>2. e \in PM!Event /\ Truthful(e)
      BY <3>1 DEF PM!Event, PM!ConnEvent, Truthful
    <3>3. QED
      BY <2>3, <3>2 DEF reportLoss, PostEvent
  <2>4. CASE ~askForRow(c) /\ ~touchPeer(c) /\ ~reportLoss(c)
    BY <1>2, <2>4
       DEF handleConn, sendHandshake, handshakeWritten, CloseAndEnd,
           readHandshake, rowAnswered, readLoop, readPacket, deliver, pmVars
  <2>5. QED
    BY <2>1, <2>2, <2>3, <2>4
<1>3. CASE writeLoop
  <2>1. CASE reportWrite
    <3>1. writer \in PM!Event /\ Truthful(writer)
      BY <1>0, <2>1 DEF reportWrite, IndInv, ReportsTruthful, TypeOK
    <3>2. QED
      BY <2>1, <3>1 DEF reportWrite, PostEvent
  <2>2. QED
    BY <1>3, <2>1 DEF writeLoop, writePacket, pmVars
<1>4. CASE AppStep
  <2>1. CASE query
    <3>1. [type |-> "Query", resp |-> Channel] \in PM!Event
      BY DEF PM!Event, PM!QueryEvent, Channel, Query
    <3>2. Truthful([type |-> "Query", resp |-> Channel])
      BY DEF Truthful
    <3>3. QED
      BY <2>1, <3>1, <3>2 DEF query, PostEvent
  <2>2. CASE postCommand
    <3>1. /\ app.peer \in Peer
          /\ app.cmd = "BlackList" => "BlackList" \in Command
      BY <2>2 DEF postCommand, IndInv, AppPrepared
    <3>2. CASE app.cmd = "BlackList"
      <4>1. [type |-> "BlackList", id |-> app.peer] \in PM!Event
        BY <3>1 DEF PM!Event, PM!PeerEvent
      <4>2. Truthful([type |-> "BlackList", id |-> app.peer])
        BY <3>1, <3>2 DEF Truthful
      <4>3. QED
        BY <2>2, <3>2, <4>1, <4>2 DEF postCommand, PostEvent
    <3>3. CASE app.cmd # "BlackList"
      BY <1>1, <2>2, <3>1, <3>3 DEF postCommand, PostEvent
    <3>4. QED
      BY <3>2, <3>3
  <2>3. CASE ~query /\ ~postCommand
    BY <1>4, <2>3
       DEF AppStep, handlePacket, answer, PM!answerQuery, timeout, Connect,
           handleConnReturned, SendPacket, pmVars
  <2>4. QED
    BY <2>1, <2>2, <2>3
<1>5. ASSUME NEW t \in Datagram, NEW p \in Peer, datagram(t, p)
      PROVE  P
  <2>1. t \in {"Discovery", "RemovePeer"}
    BY ConnectionsAssumption DEF ConnectionsAssumption, Datagrams
  <2>2. QED
    BY <1>1, <1>5, <2>1 DEF datagram, PostEvent
<1>6. CASE PeerManagerStep \/ Tick \/ fileTracker
  BY <1>6
     DEF PeerManagerStep, Tick, fileTracker, PM!handleDiscoveryEvent,
         PM!handleRemovePeerEvent, PM!notifyFileTracker, PM!TellTracker,
         PM!handleSetConnectionEvent, PM!handleRemoveConnectionEvent,
         PM!handleSetLastActivity, PM!handleBlackListPeer,
         PM!checkPeerTimeouts, PM!TimePasses, PM!TrackerReceive
<1>7. CASE UNCHANGED vars
  BY <1>7 DEF vars, pmVars
<1>8. QED
  BY <1>2, <1>3, <1>4, <1>5, <1>6, <1>7
     DEF Next, Environment, handleEvent, accept, remoteGreets, remoteTalks,
         remoteSends, remoteHangsUp, pmVars

\* The manager is between two events, goes on with the one it has, or takes
\* the next.
LEMMA HandMoves ==
  ASSUME [PM!Next]_PM!vars
  PROVE  \/ pm' = pm \/ pm' = PM!Ready
         \/ pm' = PM!Notifying(pm.id)
         \/ PM!Receive
  BY DEF PM!Next, PM!Run, PM!handlePeerEvent, PM!handleDiscoveryEvent,
         PM!handleRemovePeerEvent, PM!notifyFileTracker, PM!TellTracker,
         PM!handleSetConnectionEvent, PM!handleRemoveConnectionEvent,
         PM!handleSetLastActivity, PM!handleBlackListPeer, PM!answerQuery,
         PM!checkPeerTimeouts, PM!Environment, PM!PostPeerEvent,
         PM!PostSetConnection, PM!PostRemoveConnection, PM!CloseConn, PM!Ask,
         PM!GiveUp, PM!TimePasses, PM!TrackerReceive, PM!vars

\* Every report in hand, in the channel or about to be posted stays true.
LEMMA ReportsTruthfulStep == IndInv /\ [Next]_vars => ReportsTruthful'
<1> SUFFICES ASSUME IndInv, [Next]_vars PROVE ReportsTruthful'
  OBVIOUS
<1>0. PM!TypeOK /\ TypeOK /\ ReportsTruthful /\ TrafficOfOwner
  BY DEF IndInv, PM!IndInv
<1>1. \A i \in 1..Len(peerEventChan) :
        peerEventChan[i] \in PM!Event /\ StaysTruthful(peerEventChan[i])
  <2>1. \A i \in 1..Len(peerEventChan) : peerEventChan[i] \in PM!Event
    BY <1>0 DEF PM!TypeOK
  <2>2. QED
    BY <1>0, <2>1, TruthLasts DEF ReportsTruthful
<1>2. PM!Receive => /\ StaysTruthful(pm')
                    /\ \A i \in 1..Len(peerEventChan') :
                         StaysTruthful(peerEventChan'[i])
  <2>1. SUFFICES ASSUME PM!Receive
                 PROVE  /\ StaysTruthful(pm')
                        /\ \A i \in 1..Len(peerEventChan') :
                             StaysTruthful(peerEventChan'[i])
    OBVIOUS
  <2>2. /\ pm' = peerEventChan[1] /\ 1 \in 1..Len(peerEventChan)
        /\ \A i \in 1..Len(peerEventChan') :
             /\ peerEventChan'[i] = peerEventChan[i + 1]
             /\ i + 1 \in 1..Len(peerEventChan)
    BY <1>0, <2>1, PMP!TailElements, ManagerAssumption
       DEF PM!Receive, PM!TypeOK
  <2>3. QED
    BY <1>1, <2>2
<1>3. StaysTruthful(pm')
  <2>1. CASE pm' = pm
    <3>1. CASE pm \in PM!Event
      BY <1>0, <2>1, <3>1, TruthLasts DEF ReportsTruthful
    <3>2. CASE pm \notin PM!Event
      BY <1>0, <2>1, <3>2
         DEF PM!TypeOK, PM!Ready, PM!Notifying, StaysTruthful
    <3>3. QED
      BY <3>1, <3>2
  <2>2. CASE pm' = PM!Ready \/ pm' = PM!Notifying(pm.id)
    BY <2>2 DEF PM!Ready, PM!Notifying, StaysTruthful
  <2>3. QED
    BY <1>2, <2>1, <2>2, StepAllowed, HandMoves
<1>4. \A i \in 1..Len(peerEventChan') : StaysTruthful(peerEventChan'[i])
  <2>1. CASE UNCHANGED peerEventChan
    BY <1>1, <2>1
  <2>2. ASSUME NEW e \in PM!Event, PM!Post(e), Truthful(e)
        PROVE  \A i \in 1..Len(peerEventChan') :
                 StaysTruthful(peerEventChan'[i])
    <3>1. /\ Len(peerEventChan) \in Nat
          /\ Len(peerEventChan') = Len(peerEventChan) + 1
          /\ \A i \in 1..Len(peerEventChan) :
               peerEventChan'[i] = peerEventChan[i]
          /\ peerEventChan'[Len(peerEventChan) + 1] = e
      BY <1>0, <2>2, PMP!AppendElements, ManagerAssumption
         DEF PM!Post, PM!TypeOK
    <3>2. StaysTruthful(e)
      BY <2>2, TruthLasts
    <3>3. \A i \in 1..Len(peerEventChan') :
            i \in 1..Len(peerEventChan) \/ i = Len(peerEventChan) + 1
      BY <3>1
    <3>4. QED
      BY <1>1, <3>1, <3>2, <3>3
  <2>3. QED
    BY <1>2, <2>1, <2>2, EventsMove
<1>5. writer' # Idle => /\ writer'.type \in {"RemoveConnection",
                                            "SetLastActivity"}
                        /\ StaysTruthful(writer')
  <2>1. CASE writePacket /\ writer' # writer
    <3>1. /\ Head(writeChan) = writeChan[1] /\ 1 \in 1..Len(writeChan)
          /\ Head(writeChan) \in WriteCommand
      BY <1>0, <2>1, PMP!TailElements, ManagerAssumption
         DEF writePacket, TypeOK
    <3> DEFINE cmd == writeChan[1]
    <3>2. cmd.type # "Handshake"
      BY <2>1, <3>1 DEF writePacket
    <3>3. cmd.conn \in Conn /\ cmd.id \in Peer
      BY <3>1, <3>2 DEF WriteCommand
    <3>4. Established(cmd.conn, cmd.id)
      BY <1>0, <3>1, <3>2 DEF TrafficOfOwner
    <3>5. request[cmd.conn] = "accepted" /\ owner[cmd.conn] = cmd.id
      BY <3>3, <3>4, ConnectionsAssumption
         DEF Established, IndInv, AsksInTurn, ConnectionsAssumption
    <3>6. request' = request /\ owner' = owner
      BY <2>1 DEF writePacket, pmVars
    <3>7. \/ writer' = [type |-> "RemoveConnection", id |-> cmd.id,
                       conn |-> cmd.conn]
          \/ writer' = [type |-> "SetLastActivity", id |-> cmd.id]
      BY <2>1, <3>1, <3>2 DEF writePacket
    <3>8. QED
      BY <3>5, <3>6, <3>7 DEF StaysTruthful
  <2>2. CASE writer' = writer
    BY <1>0, <2>2, TruthLasts DEF ReportsTruthful, TypeOK
  <2>3. CASE writer' = Idle
    BY <2>3
  <2>4. writer' = writer \/ writer' = Idle \/ writePacket
    BY DEF Next, PeerManagerStep, Tick, fileTracker, handleConn,
           sendHandshake, handshakeWritten, readHandshake, askForRow,
           rowAnswered, readLoop, readPacket, touchPeer, deliver, reportLoss,
           writeLoop, reportWrite, AppStep, handlePacket, query, answer,
           timeout, Connect, handleConnReturned, SendPacket, postCommand,
           Environment, handleEvent, datagram, accept, remoteGreets,
           remoteTalks, remoteSends, remoteHangsUp, writing, vars
  <2>5. QED
    BY <2>1, <2>2, <2>3, <2>4
<1>6. QED
  BY <1>3, <1>4, <1>5 DEF ReportsTruthful, StaysTruthful, Truthful


-----------------------------------------------------------------------------
(* The application loop                                                    *)

\* App.Run has what it needs at every point, whatever it waits for.
LEMMA AppPreparedStep == IndInv /\ [Next]_vars => AppPrepared'
<1> SUFFICES ASSUME IndInv, [Next]_vars PROVE AppPrepared'
  OBVIOUS
<1>0. PM!TypeOK /\ TypeOK /\ AppPrepared
  BY DEF IndInv, PM!IndInv
<1>1. /\ app \in [at   : {"select", "query", "answer", "dial", "handshake",
                          "write", "post"},
                  cmd  : Commands \cup {"None", "Again", "Pong"},
                  peer : Peer \cup {NoPeer},
                  conn : Conn \cup {NoConn}]
      /\ caller \in [Query -> {"free", "waiting", "gone"}]
  BY <1>0 DEF TypeOK, PM!TypeOK
<1>q. Query = {TableQuery, ListQuery} /\ TableQuery # ListQuery
  BY ConnectionsAssumption DEF ConnectionsAssumption, Query
<1> USE DEF pmVars, Select
<1>2. CASE UNCHANGED <<app, caller>>
  BY <1>0, <1>2 DEF AppPrepared, Channel
<1>3. CASE handlePacket
  <2>1. /\ Head(readChan).conn \in Conn /\ Head(readChan).id \in Peer
    <3>1. Head(readChan) \in ReadCommand
      BY <1>0, <1>3, PMP!TailElements, ManagerAssumption
         DEF handlePacket, TypeOK
    <3>2. QED
      BY <3>1 DEF ReadCommand
  <2>2. \/ app' = Select
        \/ app' = [at |-> "write", cmd |-> "Pong",
                   peer |-> Head(readChan).id, conn |-> Head(readChan).conn]
    BY <1>3 DEF handlePacket
  <2>3. app.at = "select" /\ caller' = caller
    BY <1>3 DEF handlePacket
  <2>4. QED
    BY <1>0, <1>1, <1>q, <2>1, <2>2, <2>3 DEF AppPrepared, Channel
<1>4. CASE query
  <2>1. /\ app.at = "query" /\ app' = [app EXCEPT !.at = "answer"]
        /\ caller' = [caller EXCEPT ![Channel] = "waiting"]
    BY <1>4 DEF query
  <2>2. Channel' = Channel
    BY <1>1, <2>1 DEF Channel
  <2>3. QED
    BY <1>0, <1>1, <1>q, <2>1, <2>2 DEF AppPrepared, Channel
<1>5. CASE answer
  <2>1. /\ app.at = "answer" /\ app' = Acted
        /\ caller' = [caller EXCEPT ![Channel] = "free"]
        /\ caller[Channel] = "waiting"
    BY <1>5 DEF answer, PM!answerQuery
  <2>2. /\ app'.at \in {"select", "query", "dial", "write", "post"}
        /\ app' = Select \/ app'.peer = app.peer
        /\ app'.at = "write" => app'.cmd = "Ping" /\ app'.conn \in Conn
        /\ app'.at \in {"dial", "query"}
             => app'.cmd = "Again" /\ app.cmd = "Ping"
        /\ app'.cmd = "BlackList" => app.cmd = "BlackList"
    <3>1. app.at = "answer" => conn[app.peer] \in Conn \cup {NoConn}
      BY <1>0 DEF AppPrepared, PM!TypeOK
    <3>2. QED
      BY <1>0, <2>1, <3>1, ActedFields
  <2>3. \A q \in Query : caller'[q] # "waiting"
    BY <1>0, <1>1, <2>1 DEF AppPrepared
  <2>4. caller'[TableQuery] # "gone"
    BY <1>0, <1>1, <1>q, <2>1 DEF AppPrepared
  <2>5. app'.at = "query" => Channel' = TableQuery
    BY <2>2 DEF Channel
  <2>6. caller'[TableQuery] = "free"
    BY <1>1, <1>q, <2>1, <2>3, <2>4
  <2>7. app'.at # "select" => app'.peer \in Peer
    BY <1>0, <2>1, <2>2 DEF AppPrepared
  <2>8. QED
    BY <1>0, <2>1, <2>2, <2>3, <2>5, <2>6, <2>7 DEF AppPrepared
<1>6. CASE timeout
  BY <1>0, <1>1, <1>q, <1>6 DEF timeout, AppPrepared, Channel
<1>7. CASE Connect
  <2>1. /\ app.at = "dial" /\ caller' = caller
        /\ \/ \E c \in Conn : app' = [app EXCEPT !.at = "handshake",
                                                 !.conn = c]
           \/ app' = [app EXCEPT !.at = "query"]
    BY <1>7 DEF Connect
  <2>2. /\ app.cmd = "Again" /\ app.peer \in Peer
        /\ \A q \in Query : caller[q] # "waiting"
    BY <1>0, <2>1 DEF AppPrepared
  <2>3. caller[TableQuery] = "free"
    BY <1>0, <1>1, <1>q, <2>2 DEF AppPrepared
  <2>4. /\ app'.at \in {"handshake", "query"}
        /\ app'.at = "handshake" => app'.conn \in Conn
        /\ app'.cmd = "Again" /\ app'.peer = app.peer
    BY <1>1, <2>1, <2>2
  <2>5. Channel' = TableQuery
    BY <2>4 DEF Channel
  <2>6. QED
    BY <2>1, <2>2, <2>3, <2>4, <2>5 DEF AppPrepared
<1>8. CASE handleConnReturned
  <2>1. /\ app.at = "handshake" /\ caller' = caller
        /\ app' = [app EXCEPT !.at = "query", !.conn = NoConn]
    BY <1>8 DEF handleConnReturned
  <2>2. /\ app.cmd = "Again" /\ app.peer \in Peer
        /\ \A q \in Query : caller[q] # "waiting"
    BY <1>0, <2>1 DEF AppPrepared
  <2>3. caller[TableQuery] = "free"
    BY <1>0, <1>1, <1>q, <2>2 DEF AppPrepared
  <2>4. app'.at = "query" /\ app'.cmd = "Again" /\ app'.peer = app.peer
    BY <1>1, <2>1, <2>2
  <2>5. Channel' = TableQuery
    BY <2>4 DEF Channel
  <2>6. QED
    BY <2>1, <2>2, <2>3, <2>4, <2>5 DEF AppPrepared
<1>9. CASE SendPacket
  BY <1>0, <1>1, <1>q, <1>9 DEF SendPacket, AppPrepared, Channel
<1>10. CASE postCommand
  BY <1>0, <1>1, <1>q, <1>10 DEF postCommand, PostEvent, AppPrepared, Channel
<1>11. ASSUME NEW cmd \in Command, NEW p \in Peer, handleEvent(cmd, p)
       PROVE  AppPrepared'
  <2>1. /\ app.at = "select" /\ caller' = caller
        /\ app' = [at   |-> IF cmd = "BlackList" THEN "post" ELSE "query",
                   cmd  |-> cmd,
                   peer |-> p,
                   conn |-> NoConn]
        /\ cmd = "GetBlackList" => caller[ListQuery] # "gone"
    BY <1>11 DEF handleEvent
  <2>2. \A q \in Query : caller[q] # "waiting"
    BY <1>0, <2>1 DEF AppPrepared
  <2>3. caller[TableQuery] = "free"
    BY <1>0, <1>1, <1>q, <2>2 DEF AppPrepared
  <2>4. cmd = "GetBlackList" => caller[ListQuery] = "free"
    BY <1>1, <1>q, <2>1, <2>2
  <2>5. /\ app'.at \in {"post", "query"} /\ app'.cmd = cmd /\ app'.peer = p
        /\ Channel' = IF cmd = "GetBlackList" THEN ListQuery ELSE TableQuery
    BY <2>1 DEF Channel
  <2>6. QED
    BY <2>1, <2>2, <2>3, <2>4, <2>5 DEF AppPrepared
<1>12. CASE PeerManagerStep \/ Tick \/ fileTracker \/ UNCHANGED vars
  <2>1. UNCHANGED <<app, caller>>
    BY <1>12
       DEF PeerManagerStep, PM!Receive, PM!handleDiscoveryEvent,
           PM!handleRemovePeerEvent, PM!notifyFileTracker,
           PM!handleSetConnectionEvent, PM!handleRemoveConnectionEvent,
           PM!handleSetLastActivity, PM!handleBlackListPeer, PM!clients,
           Tick, PM!checkPeerTimeouts, PM!TimePasses, fileTracker,
           PM!TrackerReceive, vars
  <2>2. QED
    BY <1>2, <2>1
<1>13. ASSUME NEW c \in Conn,
              \/ handleConn(c) \/ readLoop(c) \/ accept(c)
              \/ remoteGreets(c) \/ remoteTalks(c) \/ remoteHangsUp(c)
       PROVE  AppPrepared'
  <2>1. UNCHANGED <<app, caller>>
    BY <1>13
       DEF handleConn, sendHandshake, handshakeWritten, CloseAndEnd,
           readHandshake, askForRow, rowAnswered, readLoop, readPacket,
           touchPeer, deliver, reportLoss, accept, remoteGreets, remoteTalks,
           remoteSends, remoteHangsUp
  <2>2. QED
    BY <1>2, <2>1
<1>14. CASE writeLoop \/ \E t \in Datagram, p \in Peer : datagram(t, p)
  BY <1>2, <1>14 DEF writeLoop, writePacket, reportWrite, datagram
<1>15. QED
  BY <1>3, <1>4, <1>5, <1>6, <1>7, <1>8, <1>9, <1>10, <1>11, <1>12, <1>13,
     <1>14 DEF Next, AppStep, Environment

-----------------------------------------------------------------------------
(* The traffic                                                             *)

\* A connection that was read from and written to stays its peer's.
LEMMA EstablishedLasts ==
  ASSUME IndInv, [Next]_vars, NEW c \in Conn, NEW p \in Peer, Established(c, p)
  PROVE  owner'[c] = p /\ wrote'[c] = "ok"
<1>0. PM!IndInv /\ TypeOK
  BY DEF IndInv
<1>1. request[c] = "accepted" /\ wrote[c] = "ok" /\ owner[c] = p
  BY ConnectionsAssumption
     DEF ConnectionsAssumption, Established, IndInv, AsksInTurn
<1>2. owner'[c] = p
  BY <1>0, <1>1, StepAllowed, GrantsLast
<1>3. wrote'[c] = "ok"
  <2>1. GreetsFirst' /\ AsksInTurn'
    BY GreetsFirstStep, AsksInTurnStep
  <2>2. request'[c] = "accepted"
    BY <1>0, <1>1, StepAllowed, GrantsLast
  <2>3. QED
    BY <2>1, <2>2 DEF GreetsFirst
<1>4. QED
  BY <1>2, <1>3

\* What goes to a peer goes on a connection of that peer, and what comes from
\* one came on such a connection.
LEMMA TrafficStep == IndInv /\ [Next]_vars => TrafficOfOwner'
<1> SUFFICES ASSUME IndInv, [Next]_vars PROVE TrafficOfOwner'
  OBVIOUS
<1> DEFINE Lasts(c, p) == owner'[c] = p /\ wrote'[c] = "ok"
<1>0. PM!TypeOK /\ TypeOK /\ TrafficOfOwner /\ AppPrepared
  BY DEF IndInv, PM!IndInv
<1>1. ASSUME NEW c \in Conn, NEW p \in Peer, Established(c, p)
      PROVE  Lasts(c, p)
  BY <1>1, EstablishedLasts
<1>2. \A i \in 1..Len(writeChan) :
        /\ writeChan[i] \in WriteCommand
        /\ writeChan[i].type # "Handshake"
             => Lasts(writeChan[i].conn, writeChan[i].id)
  <2>1. \A i \in 1..Len(writeChan) : writeChan[i] \in WriteCommand
    BY <1>0 DEF TypeOK
  <2>2. \A cmd \in WriteCommand :
          cmd.type # "Handshake" => cmd.conn \in Conn /\ cmd.id \in Peer
    BY DEF WriteCommand
  <2>3. QED
    BY <1>0, <1>1, <2>1, <2>2 DEF TrafficOfOwner
<1>3. \A i \in 1..Len(readChan) :
        /\ readChan[i] \in ReadCommand
        /\ Lasts(readChan[i].conn, readChan[i].id)
  <2>1. \A i \in 1..Len(readChan) : readChan[i] \in ReadCommand
    BY <1>0 DEF TypeOK
  <2>2. \A cmd \in ReadCommand : cmd.conn \in Conn /\ cmd.id \in Peer
    BY DEF ReadCommand
  <2>3. QED
    BY <1>0, <1>1, <2>1, <2>2 DEF TrafficOfOwner
<1>4. app.at = "write" => Lasts(app.conn, app.peer)
  BY <1>0, <1>1 DEF TrafficOfOwner, AppPrepared
<1>5. \A i \in 1..Len(writeChan') :
        writeChan'[i].type # "Handshake"
          => Lasts(writeChan'[i].conn, writeChan'[i].id)
  <2>1. ASSUME NEW cmd \in WriteCommand, writeChan' = Append(writeChan, cmd),
               cmd.type # "Handshake" => Lasts(cmd.conn, cmd.id)
        PROVE  \A i \in 1..Len(writeChan') :
                 writeChan'[i].type # "Handshake"
                   => Lasts(writeChan'[i].conn, writeChan'[i].id)
    <3>1. /\ Len(writeChan) \in Nat /\ Len(writeChan') = Len(writeChan) + 1
          /\ \A i \in 1..Len(writeChan) : writeChan'[i] = writeChan[i]
          /\ writeChan'[Len(writeChan) + 1] = cmd
      BY <1>0, <2>1, PMP!AppendElements, ManagerAssumption DEF TypeOK
    <3>2. \A i \in 1..Len(writeChan') :
            i \in 1..Len(writeChan) \/ i = Len(writeChan) + 1
      BY <3>1
    <3>3. QED
      BY <1>2, <2>1, <3>1, <3>2
  <2>2. ASSUME NEW c \in Conn, sendHandshake(c)
        PROVE  \A i \in 1..Len(writeChan') :
                 writeChan'[i].type # "Handshake"
                   => Lasts(writeChan'[i].conn, writeChan'[i].id)
    <3>1. [type |-> "Handshake", conn |-> c, id |-> NoPeer] \in WriteCommand
      BY DEF WriteCommand
    <3>2. QED
      BY <2>1, <2>2, <3>1 DEF sendHandshake
  <2>3. CASE SendPacket
    <3>1. [type |-> app.cmd, conn |-> app.conn, id |-> app.peer]
            \in WriteCommand
      BY <1>0, <2>3 DEF SendPacket, AppPrepared, WriteCommand
    <3>2. QED
      BY <1>4, <2>1, <2>3, <3>1 DEF SendPacket
  <2>4. CASE writePacket
    <3>1. \A i \in 1..Len(writeChan') :
            /\ writeChan'[i] = writeChan[i + 1]
            /\ i + 1 \in 1..Len(writeChan)
      BY <1>0, <2>4, PMP!TailElements, ManagerAssumption
         DEF writePacket, TypeOK
    <3>2. QED
      BY <1>2, <3>1
  <2>5. CASE UNCHANGED writeChan
    BY <1>2, <2>5
  <2>6. \/ UNCHANGED writeChan
        \/ \E c \in Conn : sendHandshake(c)
        \/ SendPacket
        \/ writePacket
    BY DEF Next, PeerManagerStep, Tick, fileTracker, handleConn,
           handshakeWritten, readHandshake, askForRow, rowAnswered, readLoop,
           readPacket, touchPeer, deliver, reportLoss, writeLoop, reportWrite,
           AppStep, handlePacket, query, answer, timeout, Connect,
           handleConnReturned, postCommand, Environment, handleEvent,
           datagram, accept, remoteGreets, remoteTalks, remoteSends,
           remoteHangsUp, writing, vars
  <2>7. QED
    BY <2>2, <2>3, <2>4, <2>5, <2>6
<1>6. \A i \in 1..Len(readChan') :
        Lasts(readChan'[i].conn, readChan'[i].id)
  <2>1. ASSUME NEW c \in Conn, deliver(c)
        PROVE  \A i \in 1..Len(readChan') :
                 Lasts(readChan'[i].conn, readChan'[i].id)
    <3>1. owner[c] \in Peer /\ wrote[c] = "ok"
      BY <1>0, <2>1
         DEF deliver, IndInv, AsksInTurn, GreetsFirst, ReadLoopSteps, PM!TypeOK
    <3>2. Lasts(c, owner[c])
      BY <1>1, <3>1 DEF Established
    <3> DEFINE cmd == [type |-> inbox[c].type, conn |-> c, id |-> owner[c]]
    <3>3. cmd \in ReadCommand
      BY <2>1, <3>1 DEF deliver, IndInv, ReadPacketKept, ReadCommand
    <3>4. /\ Len(readChan) \in Nat /\ Len(readChan') = Len(readChan) + 1
          /\ \A i \in 1..Len(readChan) : readChan'[i] = readChan[i]
          /\ readChan'[Len(readChan) + 1] = cmd
      BY <1>0, <2>1, <3>3, PMP!AppendElements, ManagerAssumption
         DEF deliver, TypeOK
    <3>5. \A i \in 1..Len(readChan') :
            i \in 1..Len(readChan) \/ i = Len(readChan) + 1
      BY <3>4
    <3>6. QED
      BY <1>3, <3>2, <3>4, <3>5
  <2>2. CASE handlePacket
    <3>1. \A i \in 1..Len(readChan') :
            /\ readChan'[i] = readChan[i + 1]
            /\ i + 1 \in 1..Len(readChan)
      BY <1>0, <2>2, PMP!TailElements, ManagerAssumption
         DEF handlePacket, TypeOK
    <3>2. QED
      BY <1>3, <3>1
  <2>3. CASE UNCHANGED readChan
    BY <1>3, <2>3
  <2>4. \/ UNCHANGED readChan
        \/ \E c \in Conn : deliver(c)
        \/ handlePacket
    BY DEF Next, PeerManagerStep, Tick, fileTracker, handleConn,
           sendHandshake, handshakeWritten, readHandshake, askForRow,
           rowAnswered, readLoop, readPacket, touchPeer, reportLoss,
           writeLoop, writePacket, reportWrite, AppStep, query, answer,
           timeout, Connect, handleConnReturned, SendPacket, postCommand,
           Environment, handleEvent, datagram, accept, remoteGreets,
           remoteTalks, remoteSends, remoteHangsUp, vars
  <2>5. QED
    BY <2>1, <2>2, <2>3, <2>4
<1>7. app'.at = "write" => Lasts(app'.conn, app'.peer)
  <2>1. CASE handlePacket
    <3>1. Head(readChan) = readChan[1] /\ 1 \in 1..Len(readChan)
      BY <1>0, <2>1, PMP!TailElements, ManagerAssumption
         DEF handlePacket, TypeOK
    <3>2. \/ app' = Select
          \/ app' = [at |-> "write", cmd |-> "Pong",
                     peer |-> Head(readChan).id, conn |-> Head(readChan).conn]
      BY <2>1 DEF handlePacket
    <3>3. QED
      BY <1>3, <3>1, <3>2 DEF Select
  <2>2. CASE answer
    <3>1. app' = Acted /\ app.at = "answer"
      BY <2>2 DEF answer
    <3>2. SUFFICES ASSUME Acted.at = "write"
                   PROVE  Lasts(Acted.conn, Acted.peer)
      BY <3>1
    <3> DEFINE p == app.peer
    <3>3. /\ Acted.conn = conn[p] /\ conn[p] # NoConn /\ Acted.peer = p
          /\ p \in Peer
      BY <1>0, <3>1, <3>2, ActedFields DEF AppPrepared, Select
    <3>4. /\ conn[p] \in Conn
          /\ request[conn[p]] = "accepted" /\ owner[conn[p]] = p
      BY <1>0, <3>3 DEF IndInv, PM!IndInv, PM!AcceptedForRow, PM!TypeOK
    <3>5. Established(conn[p], p)
      BY <3>4 DEF Established, IndInv, GreetsFirst
    <3>6. QED
      BY <1>1, <3>3, <3>4, <3>5
  <2>3. app' = app \/ app'.at # "write" \/ handlePacket \/ answer
    <3>1. CASE query \/ Connect \/ handleConnReturned
      <4>1. \/ app' = [app EXCEPT !.at = "answer"]
            \/ app' = [app EXCEPT !.at = "query"]
            \/ app' = [app EXCEPT !.at = "query", !.conn = NoConn]
            \/ \E c \in Conn : app' = [app EXCEPT !.at = "handshake",
                                                 !.conn = c]
        BY <3>1 DEF query, Connect, handleConnReturned
      <4>2. QED
        BY <1>0, <4>1 DEF TypeOK
    <3>2. CASE timeout \/ SendPacket \/ postCommand
      BY <3>2 DEF timeout, SendPacket, postCommand, Select
    <3>3. ASSUME NEW cmd \in Command, NEW p \in Peer, handleEvent(cmd, p)
          PROVE  app'.at # "write"
      BY <3>3 DEF handleEvent
    <3>4. \/ app' = app
          \/ AppStep
          \/ \E cmd \in Command, p \in Peer : handleEvent(cmd, p)
      BY DEF Next, PeerManagerStep, Tick, fileTracker, handleConn,
             sendHandshake, handshakeWritten, readHandshake, askForRow,
             rowAnswered, readLoop, readPacket, touchPeer, deliver,
             reportLoss, writeLoop, writePacket, reportWrite, Environment,
             datagram, accept, remoteGreets, remoteTalks, remoteSends,
             remoteHangsUp, vars
    <3>5. QED
      BY <3>1, <3>2, <3>3, <3>4 DEF AppStep
  <2>4. QED
    BY <1>4, <2>1, <2>2, <2>3
<1>8. QED
  BY <1>5, <1>6, <1>7 DEF TrafficOfOwner, Established


-----------------------------------------------------------------------------
(* Connections that end                                                    *)

\* Nobody opens a connection again.
LEMMA ClosedGrows ==
  ASSUME [PM!Next]_PM!vars
  PROVE  closed \subseteq closed'
  BY DEF PM!Next, PM!Run, PM!Receive, PM!handlePeerEvent,
         PM!handleDiscoveryEvent, PM!handleRemovePeerEvent,
         PM!notifyFileTracker, PM!TellTracker, PM!handleSetConnectionEvent,
         PM!handleRemoveConnectionEvent, PM!handleSetLastActivity,
         PM!handleBlackListPeer, PM!answerQuery, PM!checkPeerTimeouts,
         PM!Environment, PM!PostPeerEvent, PM!PostSetConnection,
         PM!PostRemoveConnection, PM!CloseConn, PM!Ask, PM!GiveUp,
         PM!TimePasses, PM!TrackerReceive, PM!vars

\* What a step of the manager and its environment may do to a connection, a
\* row and the report in hand.
LEMMA TableMoves ==
  ASSUME PM!IndInv, [PM!Next]_PM!vars, NEW c \in Conn, NEW p \in Peer
  PROVE  /\ conn'[p] = c /\ conn[p] # c => request[c] = "pending"
         /\ p \in blackListPeers' \ blackListPeers => pm.type = "BlackList"
         /\ pm.type = "RemoveConnection"
              => pm' = pm \/ PM!handleRemoveConnectionEvent
<1>0. PM!TypeOK /\ PM!AskedOnce
  BY DEF PM!IndInv
<1>t. conn \in [Peer -> Conn \cup {NoConn}] /\ NoConn \notin Conn
  BY <1>0, ConnectionsAssumption DEF PM!TypeOK, ConnectionsAssumption
<1>1. CASE PM!handleSetConnectionEvent
  <2>1. /\ pm.type = "SetConnection" /\ pm.conn \in Conn /\ pm.id \in Peer
        /\ blackListPeers' = blackListPeers
    BY <1>0, <1>1, InHand
       DEF PM!handleSetConnectionEvent, PM!Grant, PM!Refuse
  <2>2. request[pm.conn] = "pending"
    BY <1>0, <2>1 DEF PM!AskedOnce, PM!AsksFor
  <2>3. CASE PM!Grant(pm.id, pm.conn)
    BY <1>0, <1>t, <2>1, <2>2, <2>3 DEF PM!Grant, PM!TypeOK
  <2>4. CASE PM!Refuse(pm.id, pm.conn)
    BY <1>0, <2>1, <2>2, <2>4 DEF PM!Refuse, PM!TypeOK
  <2>5. QED
    BY <1>1, <2>3, <2>4 DEF PM!handleSetConnectionEvent
<1>2. CASE PM!handleRemoveConnectionEvent
  BY <1>0, <1>t, <1>2
     DEF PM!handleRemoveConnectionEvent, PM!Disconnect, PM!clients
<1>3. CASE PM!handleBlackListPeer
  BY <1>0, <1>t, <1>3
     DEF PM!handleBlackListPeer, PM!Forget, PM!Disconnect, PM!clients
<1>4. CASE PM!notifyFileTracker
  BY <1>0, <1>t, <1>4
     DEF PM!notifyFileTracker, PM!TellTracker, PM!Forget, PM!clients
<1>5. CASE PM!checkPeerTimeouts
  BY <1>0, <1>t, <1>5
     DEF PM!checkPeerTimeouts, PM!Forget, PM!clients
<1>6. ASSUME NEW d \in Conn, PM!CloseConn(d)
      PROVE  UNCHANGED <<conn, blackListPeers, pm>>
  BY <1>0, <1>6 DEF PM!CloseConn, PM!table, PM!TypeOK
<1>7. ASSUME NEW q \in Peer, NEW d \in Conn, PM!PostSetConnection(q, d)
      PROVE  UNCHANGED <<conn, blackListPeers, pm>>
  BY <1>0, <1>7 DEF PM!PostSetConnection, PM!table, PM!TypeOK
<1>8. CASE PM!Receive
  BY <1>8 DEF PM!Receive, PM!table, PM!clients, PM!Ready
<1>9. CASE PM!handleRemovePeerEvent
  BY <1>9 DEF PM!handleRemovePeerEvent, PM!table, PM!clients
<1>10. CASE \/ PM!handleDiscoveryEvent \/ PM!handleSetLastActivity
            \/ PM!answerQuery
  BY <1>10 DEF PM!handleDiscoveryEvent, PM!handleSetLastActivity,
               PM!answerQuery, PM!table, PM!clients
<1>11. CASE \/ \E q \in Peer, t \in {"Discovery", "RemovePeer",
                                     "SetLastActivity", "BlackList"} :
                 PM!PostPeerEvent(t, q)
            \/ \E d \in Conn : PM!PostRemoveConnection(d)
            \/ \E q \in Query : PM!Ask(q) \/ PM!GiveUp(q)
            \/ \E q \in Peer : PM!TimePasses(q)
            \/ PM!TrackerReceive
            \/ UNCHANGED PM!vars
  BY <1>11 DEF PM!PostPeerEvent, PM!PostRemoveConnection, PM!Ask, PM!GiveUp,
               PM!TimePasses, PM!TrackerReceive, PM!vars, PM!table, PM!clients
<1>12. QED
  BY <1>1, <1>2, <1>3, <1>4, <1>5, <1>6, <1>7, <1>8, <1>9, <1>10, <1>11
     DEF PM!Next, PM!Run, PM!handlePeerEvent, PM!Environment

\* A granted connection leaves its row closed.
LEMMA OpenIsListedStep == IndInv /\ [Next]_vars => OpenIsListed'
<1> SUFFICES ASSUME IndInv, [Next]_vars, NEW c \in Conn,
                    request'[c] = "accepted", c \notin closed',
                    "BlackList" \notin Command
             PROVE  conn'[owner'[c]] = c
  BY DEF OpenIsListed
<1>0. /\ PM!IndInv /\ PM!TypeOK /\ [PM!Next]_PM!vars
      /\ ReportsTruthful /\ AsksInTurn /\ OpenIsListed
  BY StepAllowed DEF IndInv, PM!IndInv
<1>1. CASE request[c] = "accepted"
  <2>1. owner[c] \in Peer /\ owner'[c] = owner[c]
    BY <1>0, <1>1, GrantsLast DEF PM!TypeOK
  <2>2. c \notin closed
    BY <1>0, ClosedGrows
  <2>3. conn[owner[c]] = c /\ c # NoConn
    BY <1>0, <1>1, <2>2, ConnectionsAssumption
       DEF OpenIsListed, ConnectionsAssumption
  <2>4. SUFFICES ASSUME conn'[owner[c]] # c PROVE FALSE
    BY <2>1
  <2>5. \/ c \in closed'
        \/ owner[c] \in blackListPeers' \ blackListPeers
    BY <1>0, <2>1, <2>3, <2>4, ManagerLeaves
  <2>6. pm.type = "BlackList"
    BY <1>0, <2>1, <2>5, TableMoves
  <2>7. QED
    BY <1>0, <2>6 DEF ReportsTruthful, Truthful
<1>2. CASE request[c] # "accepted"
  BY <1>0, <1>2, GrantsLast
<1>3. QED
  BY <1>1, <1>2


\* A goroutine ends with its connection closed, or with a report of its loss,
\* which is on its way until the connection is closed or has lost its row.
LEMMA EndedIsClosedStep == IndInv /\ [Next]_vars => EndedIsClosed'
<1> SUFFICES ASSUME IndInv, [Next]_vars, NEW c \in Conn,
                    step'[c] = "end", c \notin closed'
             PROVE  /\ request'[c] = "accepted"
                    /\ \/ Reported(c)'
                       \/ "BlackList" \in Command /\ conn'[owner'[c]] # c
  BY DEF EndedIsClosed
<1>0. /\ PM!IndInv /\ PM!TypeOK /\ TypeOK /\ [PM!Next]_PM!vars
      /\ ReportsTruthful /\ AsksInTurn /\ OpenIsListed /\ EndedIsClosed
  BY StepAllowed DEF IndInv, PM!IndInv
<1>1. CASE step[c] # "end"
  <2>1. reportLoss(c)
    BY <1>0, <1>1, Seen, GoroutineMoves, ManagerAnswers DEF Moves
  <2>2. request[c] = "accepted" /\ owner[c] \in Peer /\ request' = request
    BY <1>0, <2>1
       DEF reportLoss, AsksInTurn, ReadLoopSteps, PM!TypeOK
  <2> DEFINE e == [type |-> "RemoveConnection", id |-> owner[c], conn |-> c]
  <2>3. e \in PM!Event
    BY <2>2 DEF PM!Event, PM!ConnEvent
  <2>4. peerEventChan' = Append(peerEventChan, e)
    BY <2>1 DEF reportLoss, PostEvent, PM!Post
  <2>5. /\ Len(peerEventChan) + 1 \in 1..Len(peerEventChan')
        /\ peerEventChan'[Len(peerEventChan) + 1] = e
    BY <1>0, <2>3, <2>4, PMP!AppendElements, ManagerAssumption DEF PM!TypeOK
  <2>6. QED
    BY <2>2, <2>5 DEF Reported
<1>2. CASE step[c] = "end"
  <2>1. request[c] = "accepted"
    <3>1. c \notin closed
      BY <1>0, ClosedGrows
    <3>2. QED
      BY <1>0, <1>2, <3>1 DEF EndedIsClosed, AsksInTurn, PM!TypeOK
  <2>2. /\ owner[c] \in Peer
        /\ request'[c] = "accepted" /\ owner'[c] = owner[c]
    BY <1>0, <2>1, GrantsLast DEF PM!TypeOK
  <2>3. c \notin closed
    BY <1>0, ClosedGrows
  <2>4. CASE "BlackList" \in Command /\ conn[owner[c]] # c
    BY <1>0, <2>1, <2>2, <2>4, TableMoves
  <2>5. CASE pm.type = "RemoveConnection" /\ pm.conn = c
    <3>1. CASE pm' = pm
      BY <2>2, <2>5, <3>1 DEF Reported
    <3>2. CASE PM!handleRemoveConnectionEvent
      <4>1. pm.id = owner[c]
        BY <1>0, <2>5 DEF ReportsTruthful, Truthful
      <4>2. c # NoConn
        BY ConnectionsAssumption DEF ConnectionsAssumption
      <4>3. ~PM!HoldsConn(pm.id, pm.conn)
        BY <2>5, <3>2, <4>2
           DEF PM!handleRemoveConnectionEvent, PM!HoldsConn, PM!ConnsOf
      <4>4. conn[owner[c]] # c /\ conn' = conn
        BY <1>0, <2>2, <2>5, <3>2, <4>1, <4>2, <4>3
           DEF PM!handleRemoveConnectionEvent, PM!HoldsConn, PM!IndInv,
               PM!NoRowNoConn
      <4>5. "BlackList" \in Command
        BY <1>0, <2>1, <2>3, <4>4 DEF OpenIsListed
      <4>6. QED
        BY <2>2, <4>4, <4>5
    <3>3. QED
      BY <1>0, <2>2, <2>5, <3>1, <3>2, TableMoves
  <2>6. ASSUME NEW i \in 1..Len(peerEventChan),
               peerEventChan[i].type = "RemoveConnection",
               peerEventChan[i].conn = c
        PROVE  Reported(c)'
    <3>1. CASE UNCHANGED peerEventChan
      BY <2>6, <3>1 DEF Reported
    <3>2. CASE PM!Receive
      <4>1. /\ Len(peerEventChan) \in Nat
            /\ pm' = peerEventChan[1]
            /\ Len(peerEventChan') = Len(peerEventChan) - 1
            /\ \A k \in 1..Len(peerEventChan') :
                 peerEventChan'[k] = peerEventChan[k + 1]
        BY <1>0, <3>2, PMP!TailElements, ManagerAssumption
           DEF PM!Receive, PM!TypeOK
      <4>2. CASE i = 1
        BY <2>6, <4>1, <4>2 DEF Reported
      <4>3. CASE i # 1
        <5>1. i - 1 \in 1..Len(peerEventChan') /\ (i - 1) + 1 = i
          BY <4>1, <4>3
        <5>2. peerEventChan'[i - 1] = peerEventChan[i]
          BY <4>1, <5>1
        <5>3. QED
          BY <2>6, <5>1, <5>2 DEF Reported
      <4>4. QED
        BY <4>2, <4>3
    <3>3. ASSUME NEW e \in PM!Event, PM!Post(e)
          PROVE  Reported(c)'
      <4>1. /\ i \in 1..Len(peerEventChan')
            /\ peerEventChan'[i] = peerEventChan[i]
        BY <1>0, <3>3, PMP!AppendElements, ManagerAssumption
           DEF PM!Post, PM!TypeOK
      <4>2. QED
        BY <2>6, <4>1 DEF Reported
    <3>4. QED
      BY <3>1, <3>2, <3>3, EventsMove
  <2>7. QED
    BY <1>0, <1>2, <2>2, <2>3, <2>4, <2>5, <2>6 DEF EndedIsClosed, Reported
<1>3. QED
  BY <1>1, <1>2

-----------------------------------------------------------------------------
(* The theorems                                                            *)

\* The inductive invariant of the node holds in every reachable state.
THEOREM Inductive == Spec => []IndInv
<1>1. Init => IndInv
  <2> SUFFICES ASSUME Init PROVE IndInv
    OBVIOUS
  <2>1. PM!IndInv
    BY ManagerInv DEF Init
  <2>2. TypeOK
    BY ConnectionsAssumption
       DEF ConnectionsAssumption, Init, TypeOK, Steps, None, Select
  <2>3. AsksInTurn /\ ReadPacketKept /\ GreetsFirst
    BY DEF Init, PM!Init, AsksInTurn, ReadPacketKept, GreetsFirst, None,
           HandleConnSteps, ReadLoopSteps
  <2>4. ReportsTruthful /\ TrafficOfOwner /\ OpenIsListed /\ EndedIsClosed
    BY DEF Init, PM!Init, PM!Ready, ReportsTruthful, Truthful,
           TrafficOfOwner, OpenIsListed, EndedIsClosed, Select
  <2>5. AppPrepared
    BY DEF Init, PM!Init, AppPrepared, Select, Query
  <2>6. QED
    BY <2>1, <2>2, <2>3, <2>4, <2>5 DEF IndInv
<1>2. IndInv /\ [Next]_vars => IndInv'
  <2>1. IndInv /\ [Next]_vars => PM!IndInv'
    BY StepAllowed, ManagerInv DEF IndInv
  <2>2. QED
    BY <2>1, TypeStep, AsksInTurnStep, ReadPacketKeptStep, GreetsFirstStep,
       ReportsTruthfulStep, AppPreparedStep, TrafficStep, OpenIsListedStep,
       EndedIsClosedStep DEF IndInv
<1>3. QED
  BY <1>1, <1>2, PTL DEF Spec

\* The channels, the goroutines and the application loop hold what they are
\* meant to.
THEOREM TypeCorrect == Spec => []TypeOK
<1>1. IndInv => TypeOK
  BY DEF IndInv
<1>2. QED
  BY <1>1, Inductive, PTL

\* The transport and the application keep every promise that PeerManager's
\* environment makes: a behaviour of the node is one of PeerManager.
THEOREM Implementation == Spec => ImplementsPeerManager
<1>1. Init => PM!Init
  BY DEF Init
<1>2. IndInv /\ [Next]_vars => [PM!Next]_PM!vars
  BY StepAllowed
<1>3. QED
  BY <1>1, <1>2, Inductive, PTL DEF Spec, ImplementsPeerManager, PM!Spec

\* A packet for a peer goes on a connection of that peer, and a packet from a
\* peer came on one, however the row changes in between.
THEOREM TrafficSafe == Spec => []TrafficOfOwner
<1>1. IndInv => TrafficOfOwner
  BY DEF IndInv
<1>2. QED
  BY <1>1, Inductive, PTL

\* No connection is left open with nobody behind it, unless the user
\* blacklists its peer.
THEOREM EndsClosed == Spec => []EndedIsClosed
<1>1. IndInv => EndedIsClosed
  BY DEF IndInv
<1>2. QED
  BY <1>1, Inductive, PTL


-----------------------------------------------------------------------------
(* What the peer manager promises holds of the node                        *)

\* The table of the running node: no blacklisted peer has a row, a peer shown as
\* connected has an open connection that its own handshake was read from, and
\* every connection in the table was granted, to one row only - with the
\* goroutines of transport and application as they are, in place of the
\* environment that PeerManager assumes.
THEOREM NodeTableSafe ==
  Spec => []( /\ PM!BlackListedHasNoRow
              /\ PM!ConnectedIsOpen
              /\ PM!OnlyAcceptedInTable )
<1>1. IndInv => /\ PM!BlackListedHasNoRow
                /\ PM!ConnectedIsOpen
                /\ PM!OnlyAcceptedInTable
  BY DEF IndInv, PM!IndInv, PM!AcceptedForRow, PM!OnlyAcceptedInTable
<1>2. QED
  BY <1>1, Inductive, PTL

LEMMA ManagerSpec == PM!Spec => PMP!Spec
  BY SameInit, SameNext, PTL DEF PM!Spec, PMP!Spec

\* In the running node a connection that leaves its row is closed, or its peer
\* was blacklisted: pings that dial, late reports of lost connections and Byes
\* leave no connection open without a row.
THEOREM NodeLeavesClosed == Spec => PM!LeavesTableClosed
<1>1. PMP!LeavesTableClosed => PM!LeavesTableClosed
  BY DEF PMP!LeavesTableClosed, PM!LeavesTableClosed, PMP!vars, PM!vars,
         PMP!table, PM!table, PMP!clients, PM!clients
<1>2. PMP!Spec => PMP!LeavesTableClosed
  BY PMP!LeavesClosed, ManagerAssumption
<1> QED BY <1>1, <1>2, ManagerSpec, Implementation, PTL DEF ImplementsPeerManager


\* In the running node a granted connection is closed for a report about itself,
\* a removal of its peer, or its peer's silence: never for the late report about
\* the connection it replaced.
THEOREM NodeClosesForCause == Spec => PM!ClosedForCause
<1>1. PMP!ClosedForCause => PM!ClosedForCause
  BY DEF PMP!ClosedForCause, PM!ClosedForCause, PMP!vars, PM!vars, PMP!table,
         PM!table, PMP!clients, PM!clients, PMP!Ready, PM!Ready
<1>2. PMP!Spec => PMP!ClosedForCause
  BY PMP!ClosesForCause, ManagerAssumption
<1> QED BY <1>1, <1>2, ManagerSpec, Implementation, PTL DEF ImplementsPeerManager

\* In the running node every row that a Bye or a disconnect deletes is announced
\* to the file tracker in the same step.
THEOREM NodeAnnounces == Spec => PM!RemovalAnnounced
<1>1. PMP!RemovalAnnounced => PM!RemovalAnnounced
  BY DEF PMP!RemovalAnnounced, PM!RemovalAnnounced, PMP!vars, PM!vars,
         PMP!table, PM!table, PMP!clients, PM!clients
<1>2. PMP!Spec => PMP!RemovalAnnounced
  BY PMP!Announced, ManagerAssumption
<1> QED BY <1>1, <1>2, ManagerSpec, Implementation, PTL DEF ImplementsPeerManager


=============================================================================
