-------------------------- MODULE PeerManagerProofs --------------------------
(***************************************************************************)
(* Proofs, for every set of peers, connections and callers and every       *)
(* channel capacity, of the safety properties of the peer manager.  All    *)
(* of them rest on the inductive invariant IndInv.                         *)
(***************************************************************************)
EXTENDS PeerManager, TLAPS

-----------------------------------------------------------------------------
(* Channels and events                                                     *)

\* What a send on a channel adds: one message, at the end.
LEMMA AppendElements ==
  ASSUME NEW S, NEW q \in Seq(S), NEW e \in S
  PROVE  /\ Append(q, e) \in Seq(S)
         /\ Len(q) \in Nat
         /\ Len(Append(q, e)) = Len(q) + 1
         /\ \A i \in 1..Len(q) : Append(q, e)[i] = q[i]
         /\ Append(q, e)[Len(q) + 1] = e
  OBVIOUS

\* What a receive on a channel takes away: the first message.
LEMMA TailElements ==
  ASSUME NEW S, NEW q \in Seq(S), q # <<>>
  PROVE  /\ Tail(q) \in Seq(S)
         /\ Len(q) \in Nat \ {0}
         /\ Len(Tail(q)) = Len(q) - 1
         /\ Head(q) \in S
         /\ Head(q) = q[1]
         /\ \A i \in 1..Len(Tail(q)) : Tail(q)[i] = q[i + 1]
  OBVIOUS

\* The fields that an event has are those its type promises.
LEMMA EventFields ==
  ASSUME NEW e \in Event
  PROVE  /\ e.type \in {"Discovery", "RemovePeer", "SetLastActivity",
                        "BlackList", "SetConnection", "RemoveConnection"}
              => e.id \in Peer
         /\ e.type \in {"SetConnection", "RemoveConnection"} => e.conn \in Conn
         /\ e.type = "Query" => e.resp \in Query
         /\ e.type # "Notifying"
         /\ e # Ready
  BY DEF Event, PeerEvent, ConnEvent, QueryEvent, Ready

\* The same of the event in hand.
LEMMA InHand ==
  ASSUME TypeOK
  PROVE  /\ pm.type \in {"Discovery", "RemovePeer", "SetLastActivity",
                         "BlackList", "SetConnection", "RemoveConnection",
                         "Notifying"}
              => pm.id \in Peer
         /\ pm.type \in {"SetConnection", "RemoveConnection"}
              => pm.conn \in Conn
         /\ pm.type = "Query" => pm.resp \in Query
         /\ pm.type = "Notifying" => pm = Notifying(pm.id)
<1>1. CASE pm \in Event
  BY <1>1, EventFields
<1>2. CASE pm = Ready
  BY <1>2 DEF Ready
<1>3. CASE pm \in {Notifying(p) : p \in Peer}
  BY <1>3 DEF Notifying
<1>4. QED
  BY <1>1, <1>2, <1>3 DEF TypeOK

-----------------------------------------------------------------------------
(* The table                                                               *)

\* Rows hold connections.
LEMMA ConnsOfType ==
  ASSUME TypeOK, NEW group \in SUBSET Peer
  PROVE  ConnsOf(group) \in SUBSET Conn
  BY DEF TypeOK, ConnsOf

\* Resetting the Connected flag of a group of rows, or deleting them, leaves
\* functions of the peers behind.
LEMMA RowTypes ==
  ASSUME TypeOK, NEW group
  PROVE  /\ Disconnect(group) => connected' \in [Peer -> BOOLEAN]
         /\ Forget(group) => /\ conn' \in [Peer -> Conn \cup {NoConn}]
                             /\ peers' \subseteq Peer
                             /\ stale' \subseteq peers'
                             /\ idle' \subseteq peers'
  BY DEF TypeOK, Disconnect, Forget

-----------------------------------------------------------------------------
(* Type correctness                                                        *)

\* Every step of the event loop, of the timer and of the senders keeps the
\* table, the channels and the callers within their types, the channel of
\* events within its capacity, and time stamps to the rows there are.
LEMMA TypeStep == TypeOK /\ [Next]_vars => TypeOK'
<1> SUFFICES ASSUME TypeOK, [Next]_vars PROVE TypeOK'
  OBVIOUS
<1> USE DEF TypeOK
<1>1. CASE Receive
  <2>1. /\ Head(peerEventChan) \in Event
        /\ Tail(peerEventChan) \in Seq(Event)
        /\ Len(Tail(peerEventChan)) <= EventChanCap
    BY <1>1, TailElements, PeerManagerAssumption
       DEF Receive, PeerManagerAssumption
  <2>2. QED
    BY <1>1, <2>1 DEF Receive, table, clients
<1>2. CASE handleDiscoveryEvent
  BY <1>2, InHand DEF handleDiscoveryEvent, Welcome, clients
<1>3. CASE handleRemovePeerEvent
  BY <1>3, InHand, ConnsOfType DEF handleRemovePeerEvent, table, clients
<1>4. CASE notifyFileTracker
  BY <1>4, InHand, AppendElements, RowTypes
     DEF notifyFileTracker, TellTracker, clients
<1>5. CASE handleSetConnectionEvent
  <2>1. pm.id \in Peer /\ pm.conn \in Conn
    BY <1>5, InHand DEF handleSetConnectionEvent, Grant, Refuse
  <2>2. CASE MayConnect(pm.id)
    <3>1. /\ owner' = [owner EXCEPT ![pm.conn] = pm.id]
          /\ request' = [request EXCEPT ![pm.conn] = "accepted"]
      BY <1>5, <2>2 DEF handleSetConnectionEvent, Grant, Refuse
    <3>2. \A c \in Conn : request'[c] = "accepted" => owner'[c] # NoPeer
      BY <2>1, <3>1, PeerManagerAssumption DEF PeerManagerAssumption
    <3>3. QED
      BY <1>5, <2>1, <2>2, <3>2 DEF handleSetConnectionEvent, Grant, Refuse
  <2>3. CASE ~MayConnect(pm.id)
    BY <1>5, <2>1, <2>3 DEF handleSetConnectionEvent, Grant, Refuse
  <2>4. QED
    BY <2>2, <2>3
<1>6. CASE handleRemoveConnectionEvent
  <2>1. pm.id \in Peer /\ pm.conn \in Conn
    BY <1>6, InHand DEF handleRemoveConnectionEvent
  <2>2. CASE HoldsConn(pm.id, pm.conn)
    BY <1>6, <2>1, <2>2, ConnsOfType, RowTypes
       DEF handleRemoveConnectionEvent, clients
  <2>3. CASE ~HoldsConn(pm.id, pm.conn)
    BY <1>6, <2>1, <2>3 DEF handleRemoveConnectionEvent, clients
  <2>4. QED
    BY <2>2, <2>3
<1>7. CASE handleSetLastActivity
  BY <1>7, InHand DEF handleSetLastActivity, clients
<1>8. CASE handleBlackListPeer
  BY <1>8, InHand, RowTypes DEF handleBlackListPeer, clients
<1>9. CASE answerQuery
  BY <1>9, InHand DEF answerQuery, table
<1>10. CASE checkPeerTimeouts
  BY <1>10, ConnsOfType, RowTypes DEF checkPeerTimeouts, clients
<1>11. ASSUME NEW p \in Peer,
              NEW t \in {"Discovery", "RemovePeer", "SetLastActivity",
                         "BlackList"},
              PostPeerEvent(t, p)
       PROVE  TypeOK'
  <2>1. [type |-> t, id |-> p] \in Event
    BY DEF Event, PeerEvent
  <2>2. QED
    BY <1>11, <2>1, AppendElements, PeerManagerAssumption
       DEF PostPeerEvent, Post, table, clients, PeerManagerAssumption
<1>12. ASSUME NEW p \in Peer, NEW c \in Conn, PostSetConnection(p, c)
       PROVE  TypeOK'
  <2>1. [type |-> "SetConnection", id |-> p, conn |-> c] \in Event
    BY DEF Event, ConnEvent
  <2>2. QED
    BY <1>12, <2>1, AppendElements, PeerManagerAssumption
       DEF PostSetConnection, Post, table, PeerManagerAssumption
<1>13. ASSUME NEW c \in Conn, PostRemoveConnection(c)
       PROVE  TypeOK'
  <2>1. [type |-> "RemoveConnection", id |-> owner[c], conn |-> c] \in Event
    BY <1>13 DEF PostRemoveConnection, Event, ConnEvent
  <2>2. QED
    BY <1>13, <2>1, AppendElements, PeerManagerAssumption
       DEF PostRemoveConnection, Post, table, clients, PeerManagerAssumption
<1>14. ASSUME NEW c \in Conn, CloseConn(c)
       PROVE  TypeOK'
  BY <1>14 DEF CloseConn, table
<1>15. ASSUME NEW q \in Query, Ask(q)
       PROVE  TypeOK'
  <2>1. [type |-> "Query", resp |-> q] \in Event
    BY DEF Event, QueryEvent
  <2>2. QED
    BY <1>15, <2>1, AppendElements, PeerManagerAssumption
       DEF Ask, Post, table, PeerManagerAssumption
<1>16. ASSUME NEW q \in Query, GiveUp(q)
       PROVE  TypeOK'
  BY <1>16 DEF GiveUp, table
<1>17. ASSUME NEW p \in Peer, TimePasses(p)
       PROVE  TypeOK'
  BY <1>17 DEF TimePasses, clients
<1>18. CASE TrackerReceive
  BY <1>18, TailElements DEF TrackerReceive, table, clients
<1>19. CASE UNCHANGED vars
  BY <1>19 DEF vars, table, clients
<1>20. QED
  BY <1>1, <1>2, <1>3, <1>4, <1>5, <1>6, <1>7, <1>8, <1>9, <1>10, <1>11,
     <1>12, <1>13, <1>14, <1>15, <1>16, <1>17, <1>18, <1>19
     DEF Next, Run, handlePeerEvent, Environment


\* The types hold in every reachable state.
THEOREM TypeCorrect == Spec => []TypeOK
<1>1. Init => TypeOK
  BY PeerManagerAssumption
     DEF Init, TypeOK, PeerManagerAssumption, Ready
<1>2. QED
  BY <1>1, TypeStep, PTL DEF Spec

-----------------------------------------------------------------------------
(* The requests of the handleConns                                         *)

\* A step that sends nothing, ends with no request in hand and leaves every
\* request but the one in hand as it was, keeps each request unique.
LEMMA AskedOnceKept ==
  ASSUME AskedOnce,
         peerEventChan' = peerEventChan,
         pm'.type # "SetConnection",
         \A c \in Conn :
           request[c] = "pending" /\ ~AsksFor(pm, c) => request'[c] = "pending"
  PROVE  AskedOnce'
  BY DEF AskedOnce, AsksFor

\* So does a send of any other event.
LEMMA AskedOncePost ==
  ASSUME TypeOK, AskedOnce, NEW e \in Event, Post(e),
         e.type # "SetConnection",
         pm' = pm, request' = request
  PROVE  AskedOnce'
<1>1. /\ Len(peerEventChan) \in Nat
      /\ Len(peerEventChan') = Len(peerEventChan) + 1
      /\ \A i \in 1..Len(peerEventChan) : peerEventChan'[i] = peerEventChan[i]
      /\ peerEventChan'[Len(peerEventChan) + 1] = e
  BY AppendElements DEF TypeOK, Post
<1>2. ASSUME NEW c \in Conn, NEW i \in 1..Len(peerEventChan'),
             AsksFor(peerEventChan'[i], c)
      PROVE  i \in 1..Len(peerEventChan) /\ AsksFor(peerEventChan[i], c)
  BY <1>1, <1>2 DEF AsksFor
<1>3. ASSUME NEW c \in Conn
      PROVE  /\ AsksFor(pm', c) => request'[c] = "pending"
             /\ \A i \in 1..Len(peerEventChan') :
                  AsksFor(peerEventChan'[i], c)
                    => /\ request'[c] = "pending"
                       /\ ~AsksFor(pm', c)
                       /\ \A j \in 1..Len(peerEventChan') :
                            AsksFor(peerEventChan'[j], c) => i = j
  <2>1. AsksFor(pm', c) => request'[c] = "pending"
    BY DEF AskedOnce
  <2>2. ASSUME NEW i \in 1..Len(peerEventChan'),
               AsksFor(peerEventChan'[i], c)
        PROVE  /\ request'[c] = "pending"
               /\ ~AsksFor(pm', c)
               /\ \A j \in 1..Len(peerEventChan') :
                    AsksFor(peerEventChan'[j], c) => i = j
    BY <1>2, <2>2 DEF AskedOnce
  <2>3. QED
    BY <2>1, <2>2
<1>4. QED
  BY <1>3 DEF AskedOnce, AsksFor

\* Each connection asks once, whatever step is taken.
LEMMA AskedOnceStep == IndInv /\ [Next]_vars => AskedOnce'
<1> SUFFICES ASSUME IndInv, [Next]_vars PROVE AskedOnce'
  OBVIOUS
<1>0. TypeOK /\ AskedOnce
  BY DEF IndInv
<1>1. CASE Receive
  <2> DEFINE n == Len(peerEventChan)
  <2>1. /\ n \in Nat \ {0}
        /\ Len(peerEventChan') = n - 1
        /\ pm' = peerEventChan[1]
        /\ \A i \in 1..Len(peerEventChan') :
             /\ peerEventChan'[i] = peerEventChan[i + 1]
             /\ i + 1 \in 1..n
    <3>1. peerEventChan # <<>> /\ peerEventChan \in Seq(Event)
      BY <1>0, <1>1 DEF Receive, TypeOK
    <3>2. QED
      BY <1>1, <3>1, TailElements DEF Receive
  <2>2. request' = request
    BY <1>1 DEF Receive, clients
  <2>3. 1 \in 1..n
    BY <2>1
  <2> HIDE DEF n
  <2>4. ASSUME NEW c \in Conn
        PROVE  /\ AsksFor(pm', c) => request'[c] = "pending"
               /\ \A i \in 1..Len(peerEventChan') :
                    AsksFor(peerEventChan'[i], c)
                      => /\ request'[c] = "pending"
                         /\ ~AsksFor(pm', c)
                         /\ \A j \in 1..Len(peerEventChan') :
                              AsksFor(peerEventChan'[j], c) => i = j
    <3>1. AsksFor(pm', c) => request'[c] = "pending"
      BY <1>0, <2>1, <2>2, <2>3 DEF AskedOnce, n
    <3>2. ASSUME NEW i \in 1..Len(peerEventChan'),
                 AsksFor(peerEventChan'[i], c)
          PROVE  /\ request'[c] = "pending"
                 /\ ~AsksFor(pm', c)
                 /\ \A j \in 1..Len(peerEventChan') :
                      AsksFor(peerEventChan'[j], c) => i = j
      <4>1. AsksFor(peerEventChan[i + 1], c) /\ i + 1 \in 1..n /\ i + 1 # 1
        BY <2>1, <3>2
      <4>2. request[c] = "pending"
        BY <1>0, <4>1 DEF AskedOnce, n
      <4>3. \A k \in 1..n : AsksFor(peerEventChan[k], c) => i + 1 = k
        BY <1>0, <4>1 DEF AskedOnce, n
      <4>4. ~AsksFor(pm', c)
        BY <2>1, <2>3, <4>1, <4>3
      <4>5. \A j \in 1..Len(peerEventChan') :
              AsksFor(peerEventChan'[j], c) => i = j
        BY <2>1, <4>3
      <4>6. QED
        BY <2>2, <4>2, <4>4, <4>5
    <3>3. QED
      BY <3>1, <3>2
  <2>5. QED
    BY <2>4 DEF AskedOnce, AsksFor
<1>2. CASE handlePeerEvent
  <2>1. CASE handleSetConnectionEvent
    <3>1. \A c \in Conn :
            request[c] = "pending" /\ ~AsksFor(pm, c)
              => request'[c] = "pending"
      BY <1>0, <2>1, InHand
         DEF handleSetConnectionEvent, Grant, Refuse, AsksFor, TypeOK
    <3>2. QED
      BY <1>0, <2>1, <3>1, AskedOnceKept
         DEF handleSetConnectionEvent, Grant, Refuse, Ready
  <2>2. CASE ~handleSetConnectionEvent
    <3>1. peerEventChan' = peerEventChan /\ request' = request
      BY <1>2, <2>2
         DEF handlePeerEvent, handleDiscoveryEvent, handleRemovePeerEvent,
             notifyFileTracker, TellTracker, handleRemoveConnectionEvent,
             handleSetLastActivity, handleBlackListPeer, answerQuery, clients
    <3>2. pm'.type # "SetConnection"
      BY <1>2, <2>2
         DEF handlePeerEvent, handleDiscoveryEvent, handleRemovePeerEvent,
             notifyFileTracker, TellTracker, handleRemoveConnectionEvent,
             handleSetLastActivity, handleBlackListPeer, answerQuery,
             Ready, Notifying
    <3>3. QED
      BY <1>0, <3>1, <3>2, AskedOnceKept
  <2>3. QED
    BY <2>1, <2>2
<1>3. CASE checkPeerTimeouts
  BY <1>0, <1>3, AskedOnceKept DEF checkPeerTimeouts, Ready, clients
<1>4. ASSUME NEW p \in Peer,
             NEW t \in {"Discovery", "RemovePeer", "SetLastActivity",
                        "BlackList"},
             PostPeerEvent(t, p)
      PROVE  AskedOnce'
  <2>1. [type |-> t, id |-> p] \in Event
    BY DEF Event, PeerEvent
  <2>2. QED
    BY <1>0, <1>4, <2>1, AskedOncePost DEF PostPeerEvent, clients
<1>5. ASSUME NEW p \in Peer, NEW c \in Conn, PostSetConnection(p, c)
      PROVE  AskedOnce'
  <2> DEFINE e == [type |-> "SetConnection", id |-> p, conn |-> c]
             n == Len(peerEventChan)
  <2>1. e \in Event
    BY DEF Event, ConnEvent
  <2>2. /\ n \in Nat
        /\ Len(peerEventChan') = n + 1
        /\ \A i \in 1..n : peerEventChan'[i] = peerEventChan[i]
        /\ peerEventChan'[n + 1] = e
    BY <1>0, <1>5, <2>1, AppendElements DEF PostSetConnection, Post, TypeOK
  <2>3. /\ pm' = pm
        /\ request[c] = "new"
        /\ request'[c] = "pending"
        /\ \A d \in Conn \ {c} : request'[d] = request[d]
    BY <1>0, <1>5 DEF PostSetConnection, TypeOK
  <2>4. ~AsksFor(pm, c) /\ \A i \in 1..n : ~AsksFor(peerEventChan[i], c)
    BY <1>0, <2>3 DEF AskedOnce
  <2>5. AsksFor(e, c) /\ \A d \in Conn \ {c} : ~AsksFor(e, d)
    BY DEF AsksFor
  <2> HIDE DEF e, n
  <2>6. \A i \in 1..Len(peerEventChan') : i \in 1..n \/ i = n + 1
    BY <2>2
  <2>7. ASSUME NEW d \in Conn
        PROVE  /\ AsksFor(pm', d) => request'[d] = "pending"
               /\ \A i \in 1..Len(peerEventChan') :
                    AsksFor(peerEventChan'[i], d)
                      => /\ request'[d] = "pending"
                         /\ ~AsksFor(pm', d)
                         /\ \A j \in 1..Len(peerEventChan') :
                              AsksFor(peerEventChan'[j], d) => i = j
    <3>1. CASE d = c
      BY <2>2, <2>3, <2>4, <2>6, <3>1
    <3>2. CASE d # c
      <4>1. \A i \in 1..Len(peerEventChan') :
              AsksFor(peerEventChan'[i], d)
                => i \in 1..n /\ AsksFor(peerEventChan[i], d)
        BY <2>2, <2>5, <2>6, <3>2
      <4>2. request'[d] = request[d]
        BY <2>3, <3>2
      <4>3. QED
        BY <1>0, <2>3, <4>1, <4>2 DEF AskedOnce, n
    <3>3. QED
      BY <3>1, <3>2
  <2>8. QED
    BY <2>7 DEF AskedOnce, AsksFor
<1>6. ASSUME NEW c \in Conn, PostRemoveConnection(c)
      PROVE  AskedOnce'
  <2>1. [type |-> "RemoveConnection", id |-> owner[c], conn |-> c] \in Event
    BY <1>0, <1>6 DEF PostRemoveConnection, Event, ConnEvent, TypeOK
  <2>2. QED
    BY <1>0, <1>6, <2>1, AskedOncePost DEF PostRemoveConnection, clients
<1>7. ASSUME NEW c \in Conn, CloseConn(c)
      PROVE  AskedOnce'
  <2>1. \A d \in Conn : request[d] = "pending" => request'[d] = "pending"
    BY <1>0, <1>7 DEF CloseConn, TypeOK
  <2>2. QED
    BY <1>0, <1>7, <2>1 DEF CloseConn, AskedOnce, AsksFor
<1>8. ASSUME NEW q \in Query, Ask(q)
      PROVE  AskedOnce'
  <2>1. [type |-> "Query", resp |-> q] \in Event
    BY DEF Event, QueryEvent
  <2>2. QED
    BY <1>0, <1>8, <2>1, AskedOncePost DEF Ask
<1>9. CASE \/ \E q \in Query : GiveUp(q)
           \/ \E p \in Peer : TimePasses(p)
           \/ TrackerReceive
           \/ UNCHANGED vars
  <2>1. UNCHANGED <<peerEventChan, pm, request>>
    BY <1>9 DEF GiveUp, TimePasses, TrackerReceive, vars, clients
  <2>2. QED
    BY <1>0, <2>1 DEF AskedOnce, AsksFor
<1>10. QED
  BY <1>1, <1>2, <1>3, <1>4, <1>5, <1>6, <1>7, <1>8, <1>9
     DEF Next, Run, Environment

-----------------------------------------------------------------------------
(* The table, the connections and the blacklist                            *)

RowInv ==
  /\ BlackListedHasNoRow
  /\ NoRowNoConn
  /\ AcceptedForRow
  /\ ConnectedIsOpen
  /\ AskingIsOpen
  /\ NotifyingIsClosed

\* What the rows, the blacklist and the open connections promise each other
\* survives every step.
LEMMA RowStep == IndInv /\ [Next]_vars => RowInv'
<1> SUFFICES ASSUME IndInv, [Next]_vars PROVE RowInv'
  OBVIOUS
<1>0. /\ TypeOK /\ AskedOnce /\ BlackListedHasNoRow /\ NoRowNoConn
      /\ AcceptedForRow /\ ConnectedIsOpen /\ AskingIsOpen
      /\ NotifyingIsClosed
  BY DEF IndInv
<1> USE DEF RowInv, BlackListedHasNoRow, NoRowNoConn, AcceptedForRow,
            ConnectedIsOpen, AskingIsOpen, NotifyingIsClosed
<1>1. CASE Receive
  <2>1. pm'.type # "Notifying" /\ pm = Ready
    <3>1. peerEventChan # <<>> /\ peerEventChan \in Seq(Event)
      BY <1>0, <1>1 DEF Receive, TypeOK
    <3>2. QED
      BY <1>1, <3>1, TailElements, EventFields DEF Receive
  <2>2. \A p \in Peer : pm # Notifying(p)
    BY <2>1 DEF Ready, Notifying
  <2>3. QED
    BY <1>0, <1>1, <2>1, <2>2 DEF Receive, table, clients
<1>2. CASE handleDiscoveryEvent
  <2>1. pm.id \in Peer /\ (\A p \in Peer : pm # Notifying(p))
    BY <1>0, <1>2, InHand DEF handleDiscoveryEvent, Notifying
  <2>2. QED
    BY <1>0, <1>2, <2>1 DEF handleDiscoveryEvent, Welcome, Ready, clients
<1>3. CASE handleRemovePeerEvent
  <2>1. pm.id \in Peer /\ (\A p \in Peer : pm # Notifying(p))
    BY <1>0, <1>3, InHand DEF handleRemovePeerEvent, Notifying
  <2>2. UNCHANGED <<peers, conn, connected, blackListPeers, request, owner>>
    BY <1>3 DEF handleRemovePeerEvent, table, clients
  <2>3. CASE pm.id \in peers
    <3>1. closed' = closed \cup ConnsOf({pm.id}) /\ pm' = Notifying(pm.id)
      BY <1>3, <2>3 DEF handleRemovePeerEvent
    <3>2. conn[pm.id] \in closed' \cup {NoConn} /\ closed \subseteq closed'
      BY <3>1 DEF ConnsOf
    <3>3. \A c \in closed' \ closed : c = conn[pm.id] /\ c # NoConn
      BY <3>1 DEF ConnsOf
    <3>4. AskingIsOpen'
      BY <1>0, <2>1, <2>2, <3>3
    <3>5. NotifyingIsClosed'
      BY <2>2, <3>1, <3>2 DEF Notifying
    <3>6. ConnectedIsOpen'
      <4>1. ASSUME NEW p \in Peer, connected[p], conn[p] \in closed'
            PROVE  p = pm.id
        BY <1>0, <2>1, <3>3, <4>1
      <4>2. QED
        BY <1>0, <2>1, <2>2, <3>1, <4>1
    <3>7. QED
      BY <1>0, <2>2, <3>4, <3>5, <3>6
  <2>4. CASE pm.id \notin peers
    BY <1>0, <2>1, <2>2, <2>4, <1>3 DEF handleRemovePeerEvent, Ready
  <2>5. QED
    BY <2>3, <2>4
<1>4. CASE notifyFileTracker
  <2>1. pm.id \in Peer /\ pm = Notifying(pm.id)
    BY <1>0, <1>4, InHand DEF notifyFileTracker, TellTracker
  <2>2. \A p \in Peer : p # pm.id => pm # Notifying(p)
    BY <2>1 DEF Notifying
  <2>3. QED
    BY <1>0, <1>4, <2>1, <2>2
       DEF notifyFileTracker, TellTracker, Forget, Disconnect, Ready, clients,
           TypeOK
<1>5. CASE handleSetConnectionEvent
  <2>1. /\ pm.id \in Peer /\ pm.conn \in Conn
        /\ \A p \in Peer : pm # Notifying(p)
    BY <1>0, <1>5, InHand
       DEF handleSetConnectionEvent, Grant, Refuse, Notifying
  <2>2. request[pm.conn] = "pending"
    BY <1>0, <1>5, <2>1
       DEF handleSetConnectionEvent, Grant, Refuse, AskedOnce, AsksFor
  <2>3. pm.conn \notin closed /\ \A p \in Peer : conn[p] # pm.conn
    BY <1>0, <2>1, <2>2, PeerManagerAssumption DEF PeerManagerAssumption
  <2>4. /\ UNCHANGED <<peers, blackListPeers, closed>>
        /\ pm' = Ready
        /\ \A c \in Conn : c # pm.conn => request'[c] = request[c]
        /\ \A c \in Conn : c # pm.conn => owner'[c] = owner[c]
        /\ request'[pm.conn] # "pending"
        /\ closed \subseteq Conn
    BY <1>0, <1>5, <2>1 DEF handleSetConnectionEvent, Grant, Refuse, TypeOK
  <2>5. AskingIsOpen' /\ NotifyingIsClosed' /\ BlackListedHasNoRow'
    BY <1>0, <2>3, <2>4 DEF Ready
  <2>6. \A p \in Peer : conn[p] # NoConn =>
          /\ request'[conn[p]] = "accepted"
          /\ owner'[conn[p]] = p
    BY <1>0, <2>3, <2>4 DEF TypeOK
  <2>7. CASE MayConnect(pm.id)
    <3>1. /\ pm.id \in peers
          /\ conn'[pm.id] = pm.conn
          /\ request'[pm.conn] = "accepted"
          /\ owner'[pm.conn] = pm.id
          /\ \A p \in Peer : p # pm.id => /\ conn'[p] = conn[p]
                                          /\ connected'[p] = connected[p]
      BY <1>0, <1>5, <2>1, <2>7
         DEF handleSetConnectionEvent, Grant, Refuse, MayConnect, TypeOK
    <3>2. NoRowNoConn' /\ AcceptedForRow'
      BY <1>0, <2>4, <2>6, <3>1
    <3>3. ConnectedIsOpen'
      BY <1>0, <2>1, <2>3, <2>4, <2>6, <3>1, PeerManagerAssumption
         DEF PeerManagerAssumption
    <3>4. QED
      BY <2>5, <3>2, <3>3
  <2>8. CASE ~MayConnect(pm.id)
    <3>1. conn' = conn /\ connected' = connected
      BY <1>5, <2>8 DEF handleSetConnectionEvent, Grant, Refuse
    <3>2. QED
      BY <1>0, <2>1, <2>4, <2>5, <2>6, <3>1
  <2>9. QED
    BY <2>7, <2>8
<1>6. CASE handleRemoveConnectionEvent
  <2>1. /\ pm.id \in Peer /\ pm.conn \in Conn
        /\ \A p \in Peer : pm # Notifying(p)
    BY <1>0, <1>6, InHand DEF handleRemoveConnectionEvent, Notifying
  <2>2. UNCHANGED <<peers, blackListPeers, request, owner>> /\ pm' = Ready
    BY <1>6 DEF handleRemoveConnectionEvent, clients
  <2>3. CASE HoldsConn(pm.id, pm.conn)
    <3>0. /\ conn[pm.id] = pm.conn /\ pm.conn # NoConn
          /\ closed' = closed \cup ConnsOf({pm.id})
          /\ conn' = [conn EXCEPT ![pm.id] = NoConn]
          /\ connected' = [p \in Peer |-> connected[p] /\ p \notin {pm.id}]
      BY <1>6, <2>1, <2>3, PeerManagerAssumption
         DEF handleRemoveConnectionEvent, HoldsConn, Disconnect,
             PeerManagerAssumption
    <3>1. /\ conn[pm.id] = pm.conn /\ pm.conn # NoConn
          /\ closed' = closed \cup {pm.conn}
          /\ conn'[pm.id] = NoConn /\ ~connected'[pm.id]
          /\ \A p \in Peer : p # pm.id => /\ conn'[p] = conn[p]
                                          /\ connected'[p] => connected[p]
      <4>1. ConnsOf({pm.id}) = {pm.conn}
        BY <3>0 DEF ConnsOf
      <4>2. ~connected'[pm.id] /\ \A p \in Peer : connected'[p] => connected[p]
        BY <2>1, <3>0
      <4>3. conn \in [Peer -> Conn \cup {NoConn}]
        BY <1>0 DEF TypeOK
      <4>4. /\ conn'[pm.id] = NoConn
            /\ \A p \in Peer : p # pm.id => conn'[p] = conn[p]
        BY <2>1, <3>0, <4>3
      <4>5. QED
        BY <3>0, <4>1, <4>2, <4>4
    <3>2. \A p \in Peer : p # pm.id => conn[p] # pm.conn
      BY <1>0, <2>1, <3>1
    <3>3. AskingIsOpen' /\ NotifyingIsClosed' /\ BlackListedHasNoRow'
      BY <1>0, <2>1, <2>2, <3>1 DEF Ready
    <3>4. NoRowNoConn' /\ AcceptedForRow' /\ ConnectedIsOpen'
      BY <1>0, <2>1, <2>2, <3>1, <3>2
    <3>5. QED
      BY <3>3, <3>4
  <2>4. CASE ~HoldsConn(pm.id, pm.conn)
    BY <1>0, <1>6, <2>1, <2>2, <2>4 DEF handleRemoveConnectionEvent, Ready
  <2>5. QED
    BY <2>3, <2>4
<1>7. CASE handleSetLastActivity \/ answerQuery
  <2>1. \A p \in Peer : pm # Notifying(p)
    BY <1>7 DEF handleSetLastActivity, answerQuery, Notifying
  <2>2. QED
    BY <1>0, <1>7, <2>1
       DEF handleSetLastActivity, answerQuery, Ready, table, clients
<1>8. CASE handleBlackListPeer
  <2>1. pm.id \in Peer /\ (\A p \in Peer : pm # Notifying(p))
    BY <1>0, <1>8, InHand DEF handleBlackListPeer, Notifying
  <2>2. UNCHANGED <<closed, request, owner>> /\ pm' = Ready
    BY <1>8 DEF handleBlackListPeer, clients
  <2>3. CASE pm.id \in blackListPeers
    BY <1>0, <1>8, <2>1, <2>2, <2>3 DEF handleBlackListPeer, Ready
  <2>4. CASE pm.id \notin blackListPeers
    <3>1. /\ blackListPeers' = blackListPeers \cup {pm.id}
          /\ Forget({pm.id})
          /\ Disconnect({pm.id})
      BY <1>8, <2>4 DEF handleBlackListPeer
    <3>2. /\ peers' = peers \ {pm.id}
          /\ conn'[pm.id] = NoConn /\ ~connected'[pm.id]
          /\ \A p \in Peer : p # pm.id => /\ conn'[p] = conn[p]
                                          /\ connected'[p] => connected[p]
      BY <1>0, <2>1, <3>1 DEF Forget, Disconnect, TypeOK
    <3>3. QED
      BY <1>0, <2>1, <2>2, <3>1, <3>2 DEF Ready
  <2>5. QED
    BY <2>3, <2>4
<1>9. CASE checkPeerTimeouts
  <2> DEFINE expired == peers \cap stale
             quiet == {p \in (peers \ stale) \cap idle :
                         connected[p] /\ conn[p] # NoConn}
             hit == expired \cup quiet
  <2>1. /\ UNCHANGED <<blackListPeers, request, owner, pm>>
        /\ pm = Ready
        /\ closed' = closed \cup ConnsOf(hit)
        /\ Forget(expired)
        /\ Disconnect(hit)
    BY <1>9 DEF checkPeerTimeouts, clients
  <2>2. hit \subseteq peers /\ expired \subseteq hit /\ peers \subseteq Peer
    BY <1>0 DEF TypeOK
  <2> HIDE DEF expired, quiet, hit
  <2>3. /\ peers' = peers \ expired
        /\ \A p \in Peer : conn'[p] = IF p \in expired THEN NoConn ELSE conn[p]
        /\ \A p \in Peer : connected'[p] => connected[p] /\ p \notin hit
    BY <1>0, <2>1 DEF Forget, Disconnect, TypeOK
  <2>4. \A c \in closed' \ closed : c # NoConn /\ \E p \in hit : c = conn[p]
    BY <2>1 DEF ConnsOf
  <2>5. \A p \in Peer : pm # Notifying(p)
    BY <2>1 DEF Ready, Notifying
  <2>6. AskingIsOpen'
    BY <1>0, <2>1, <2>2, <2>4
  <2>7. NotifyingIsClosed' /\ BlackListedHasNoRow' /\ NoRowNoConn'
        /\ AcceptedForRow'
    BY <1>0, <2>1, <2>2, <2>3 DEF Ready
  <2>8. ConnectedIsOpen'
    <3>1. ASSUME NEW p \in Peer, connected'[p]
          PROVE  /\ p \in peers' /\ conn'[p] # NoConn /\ owner'[conn'[p]] = p
                 /\ conn'[p] \notin closed'
      <4>1. /\ connected[p] /\ p \notin hit /\ p \notin expired
            /\ conn'[p] = conn[p] /\ p \in peers /\ conn[p] # NoConn
            /\ owner[conn[p]] = p /\ conn[p] \notin closed
        BY <1>0, <2>2, <2>3, <2>5, <3>1
      <4>2. \A q \in hit : conn[q] # NoConn => owner[conn[q]] = q
        BY <1>0, <2>2
      <4>3. conn[p] \notin closed'
        BY <2>4, <4>1, <4>2
      <4>4. QED
        BY <2>1, <2>3, <4>1, <4>3
    <3>2. QED
      BY <3>1
  <2>9. QED
    BY <2>6, <2>7, <2>8
<1>10. ASSUME NEW p \in Peer, NEW c \in Conn, PostSetConnection(p, c)
       PROVE  RowInv'
  <2>1. /\ UNCHANGED <<table, pm, closed, owner>>
        /\ request[c] = "new" /\ request'[c] = "pending"
        /\ \A d \in Conn : d # c => request'[d] = request[d]
    BY <1>0, <1>10 DEF PostSetConnection, TypeOK
  <2>2. c \notin closed
    BY <1>0, <1>10, <2>1
  <2>3. QED
    BY <1>0, <2>1, <2>2 DEF table, TypeOK
<1>11. ASSUME NEW c \in Conn, CloseConn(c)
       PROVE  RowInv'
  <2>1. /\ UNCHANGED <<table, pm, owner>>
        /\ closed' = closed \cup {c}
        /\ request[c] \in {"new", "rejected"} /\ request'[c] = "rejected"
        /\ \A d \in Conn : d # c => request'[d] = request[d]
    BY <1>0, <1>11 DEF CloseConn, TypeOK
  <2>2. \A p \in Peer : conn[p] # c
    BY <1>0, <1>11, <2>1, PeerManagerAssumption DEF PeerManagerAssumption
  <2>3. QED
    BY <1>0, <2>1, <2>2 DEF table, TypeOK
<1>12. CASE \/ \E p \in Peer : \E t \in {"Discovery", "RemovePeer",
                                         "SetLastActivity", "BlackList"} :
                 PostPeerEvent(t, p)
            \/ \E c \in Conn : PostRemoveConnection(c)
            \/ \E q \in Query : Ask(q) \/ GiveUp(q)
            \/ \E p \in Peer : TimePasses(p)
            \/ TrackerReceive
            \/ UNCHANGED vars
  <2>1. UNCHANGED <<peers, conn, connected, blackListPeers, pm, closed,
                    request, owner>>
    BY <1>12 DEF PostPeerEvent, PostRemoveConnection, Ask, GiveUp, TimePasses,
                 TrackerReceive, vars, table, clients
  <2>2. QED
    BY <1>0, <2>1
<1>13. QED
  BY <1>1, <1>2, <1>3, <1>4, <1>5, <1>6, <1>7, <1>8, <1>9, <1>10, <1>11, <1>12
     DEF Next, Run, handlePeerEvent, Environment

-----------------------------------------------------------------------------
(* The theorems                                                            *)

\* It holds at the start.
LEMMA IndInit == Init => IndInv
<1>1. Init => TypeOK
  BY PeerManagerAssumption
     DEF Init, TypeOK, PeerManagerAssumption, Ready
<1>2. Init => RowInv /\ AskedOnce
  BY DEF Init, RowInv, BlackListedHasNoRow, NoRowNoConn, AcceptedForRow,
         ConnectedIsOpen, AskingIsOpen, NotifyingIsClosed, AskedOnce,
         AsksFor, Ready
<1>3. QED
  BY <1>1, <1>2 DEF IndInv, RowInv

\* It is kept by every step.
LEMMA IndStep == IndInv /\ [Next]_vars => IndInv'
  BY TypeStep, AskedOnceStep, RowStep DEF IndInv, RowInv

\* The inductive invariant holds in every reachable state.
THEOREM Inductive == Spec => []IndInv
  BY IndInit, IndStep, PTL DEF Spec

\* A blacklisted peer never has a row of the table: no order of Hellos, Byes,
\* toggles and connection requests in the channel makes one.
THEOREM BlackListSafe == Spec => []BlackListedHasNoRow
<1>1. IndInv => BlackListedHasNoRow
  BY DEF IndInv
<1>2. QED
  BY <1>1, Inductive, PTL

\* A peer shown as connected has an open connection that its own handshake
\* was read from.
THEOREM ConnectedSafe == Spec => []ConnectedIsOpen
<1>1. IndInv => ConnectedIsOpen
  BY DEF IndInv
<1>2. QED
  BY <1>1, Inductive, PTL

\* Every connection in the table was granted, and to one row only.
THEOREM TableSafe == Spec => []OnlyAcceptedInTable
<1>1. IndInv => OnlyAcceptedInTable
  BY DEF IndInv, AcceptedForRow, OnlyAcceptedInTable
<1>2. QED
  BY <1>1, Inductive, PTL

\* A row that takes its connection away closes it, or is blacklisted.
LEMMA LeavesClosedStep ==
  ASSUME IndInv, [Next]_vars,
         NEW p \in Peer, conn[p] # NoConn, conn'[p] # conn[p]
  PROVE  \/ conn[p] \in closed'
         \/ p \in blackListPeers' \ blackListPeers
<1>0. TypeOK /\ NotifyingIsClosed
  BY DEF IndInv
<1>1. conn \in [Peer -> Conn \cup {NoConn}] /\ conn' # conn
  BY <1>0 DEF TypeOK
<1>2. CASE notifyFileTracker
  <2>1. p = pm.id
    BY <1>2, <1>1 DEF notifyFileTracker, TellTracker, Forget
  <2>2. QED
    BY <1>0, <1>2, <2>1
       DEF notifyFileTracker, TellTracker, NotifyingIsClosed, clients
<1>3. CASE handleSetConnectionEvent
  BY <1>1, <1>3 DEF handleSetConnectionEvent, Grant, Refuse, MayConnect
<1>4. CASE handleRemoveConnectionEvent
  <2>1. closed' = closed \cup ConnsOf({pm.id}) /\ p = pm.id
    BY <1>1, <1>4 DEF handleRemoveConnectionEvent
  <2>2. QED
    BY <2>1 DEF ConnsOf
<1>5. CASE handleBlackListPeer
  BY <1>1, <1>5 DEF handleBlackListPeer, Forget
<1>6. CASE checkPeerTimeouts
  <2>1. /\ closed' = closed \cup
             ConnsOf((peers \cap stale) \cup
                     {q \in (peers \ stale) \cap idle :
                        connected[q] /\ conn[q] # NoConn})
        /\ p \in peers \cap stale
    BY <1>1, <1>6 DEF checkPeerTimeouts, Forget
  <2>2. QED
    BY <2>1 DEF ConnsOf
<1>7. CASE /\ ~notifyFileTracker /\ ~handleSetConnectionEvent
           /\ ~handleRemoveConnectionEvent /\ ~handleBlackListPeer
           /\ ~checkPeerTimeouts
  BY <1>1, <1>7
     DEF Next, Run, Receive, handlePeerEvent, handleDiscoveryEvent,
         handleRemovePeerEvent, handleSetLastActivity, answerQuery,
         Environment, PostPeerEvent, PostSetConnection,
         PostRemoveConnection, CloseConn, Ask, GiveUp, TimePasses,
         TrackerReceive, vars, table
<1>8. QED
  BY <1>2, <1>3, <1>4, <1>5, <1>6, <1>7

\* A connection that loses its row is closed, except by the blacklist.
THEOREM LeavesClosed == Spec => LeavesTableClosed
<1> DEFINE A == \A p \in Peer :
                  conn[p] # NoConn /\ conn'[p] # conn[p]
                    => \/ conn[p] \in closed'
                       \/ p \in blackListPeers' \ blackListPeers
<1>1. IndInv /\ [Next]_vars => [A]_vars
  BY LeavesClosedStep
<1>2. QED
  BY <1>1, Inductive, PTL DEF Spec, LeavesTableClosed

\* A granted connection is closed for a reason that names it or its peer.
THEOREM ClosesForCause == Spec => ClosedForCause
<1> DEFINE A == \A c \in closed' \ closed :
                  request[c] = "accepted"
                    => \/ pm.type = "RemoveConnection" /\ pm.conn = c
                       \/ pm.type = "RemovePeer" /\ pm.id = owner[c]
                       \/ pm = Ready /\ owner[c] \in stale \cup idle
<1>1. IndInv /\ [Next]_vars => [A]_vars
  <2> SUFFICES ASSUME IndInv, [Next]_vars,
                      NEW c \in closed', c \notin closed,
                      request[c] = "accepted"
               PROVE  \/ pm.type = "RemoveConnection" /\ pm.conn = c
                      \/ pm.type = "RemovePeer" /\ pm.id = owner[c]
                      \/ pm = Ready /\ owner[c] \in stale \cup idle
    OBVIOUS
  <2>0. TypeOK /\ AcceptedForRow
    BY DEF IndInv
  <2>1. CASE handleRemovePeerEvent
    <3>1. pm.id \in Peer /\ pm.type = "RemovePeer"
      BY <2>0, <2>1, InHand DEF handleRemovePeerEvent
    <3>2. c = conn[pm.id] /\ c # NoConn
      BY <2>1 DEF handleRemovePeerEvent, ConnsOf
    <3>3. QED
      BY <2>0, <3>1, <3>2 DEF AcceptedForRow
  <2>2. CASE handleRemoveConnectionEvent
    BY <2>2 DEF handleRemoveConnectionEvent, HoldsConn, ConnsOf
  <2>3. CASE checkPeerTimeouts
    <3>1. /\ pm = Ready
          /\ c \in ConnsOf((peers \cap stale) \cup
                           {q \in (peers \ stale) \cap idle :
                              connected[q] /\ conn[q] # NoConn})
      BY <2>3 DEF checkPeerTimeouts
    <3>2. PICK p \in peers \cap (stale \cup idle) :
                 c = conn[p] /\ c # NoConn
      BY <3>1 DEF ConnsOf
    <3>3. p \in Peer
      BY <2>0, <3>2 DEF TypeOK
    <3>4. QED
      BY <2>0, <3>1, <3>2, <3>3 DEF AcceptedForRow
  <2>4. ASSUME NEW d \in Conn, CloseConn(d)
        PROVE  FALSE
    BY <2>4 DEF CloseConn
  <2>5. CASE /\ ~handleRemovePeerEvent /\ ~handleRemoveConnectionEvent
             /\ ~checkPeerTimeouts
    BY <2>4, <2>5
       DEF Next, Run, Receive, handlePeerEvent, handleDiscoveryEvent,
           notifyFileTracker, TellTracker,
           handleSetConnectionEvent, Grant, Refuse,
           handleSetLastActivity, handleBlackListPeer, answerQuery,
           Environment, PostPeerEvent, PostSetConnection,
           PostRemoveConnection, Ask, GiveUp, TimePasses, TrackerReceive, vars
  <2>6. QED
    BY <2>1, <2>2, <2>3, <2>5
<1>2. QED
  BY <1>1, Inductive, PTL DEF Spec, ClosedForCause

\* A removed peer is announced to the file tracker in the same step, whatever
\* the capacity and the load of that channel.
THEOREM Announced == Spec => RemovalAnnounced
<1> DEFINE A == \A p \in peers \ peers' :
                  \/ Len(fileTrackerChan') > Len(fileTrackerChan)
                       /\ fileTrackerChan'[Len(fileTrackerChan')] = p
                  \/ p \in stale
                  \/ p \in blackListPeers'
<1>1. IndInv /\ [Next]_vars => [A]_vars
  <2> SUFFICES ASSUME IndInv, [Next]_vars, NEW p \in peers, p \notin peers'
               PROVE  \/ Len(fileTrackerChan') > Len(fileTrackerChan)
                           /\ fileTrackerChan'[Len(fileTrackerChan')] = p
                      \/ p \in stale
                      \/ p \in blackListPeers'
    OBVIOUS
  <2>0. TypeOK
    BY DEF IndInv
  <2>1. CASE notifyFileTracker
    <3>1. p = pm.id /\ pm.id \in Peer
      BY <2>0, <2>1, InHand DEF notifyFileTracker, TellTracker, Forget
    <3>2. fileTrackerChan' = Append(fileTrackerChan, p)
      BY <2>1, <3>1 DEF notifyFileTracker, TellTracker
    <3>3. fileTrackerChan \in Seq(Peer)
      BY <2>0 DEF TypeOK
    <3>4. QED
      BY <3>1, <3>2, <3>3, AppendElements
  <2>2. CASE handleBlackListPeer
    BY <2>2 DEF handleBlackListPeer, Forget
  <2>3. CASE checkPeerTimeouts
    BY <2>3 DEF checkPeerTimeouts, Forget
  <2>4. CASE /\ ~notifyFileTracker /\ ~handleBlackListPeer
             /\ ~checkPeerTimeouts
    BY <2>4
       DEF Next, Run, Receive, handlePeerEvent, handleDiscoveryEvent,
           handleRemovePeerEvent, handleSetConnectionEvent, Grant, Refuse,
           handleRemoveConnectionEvent, handleSetLastActivity, answerQuery,
           Environment, PostPeerEvent, PostSetConnection,
           PostRemoveConnection, CloseConn, Ask, GiveUp, TimePasses,
           TrackerReceive, vars, table
  <2>5. QED
    BY <2>1, <2>2, <2>3, <2>4
<1>2. QED
  BY <1>1, Inductive, PTL DEF Spec, RemovalAnnounced

=============================================================================
