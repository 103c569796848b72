----------------------------- MODULE PeerManager -----------------------------
(***************************************************************************)
(* The peer manager of internal/peer/peer.go: one goroutine that owns the  *)
(* table of discovered peers and the blacklist, takes events from the      *)
(* buffered PeerEventChan one at a time, and on every tick of its timer    *)
(* throws out peers that went silent.                                      *)
(*                                                                         *)
(* A row of the map pm.Peers is spread over functions of the peer: the key *)
(* set is `peers', the fields Conn and Connected are `conn' and            *)
(* `connected'.  The two time stamps are kept as what checkPeerTimeouts    *)
(* asks of them: `stale' is the set of peers whose LastSeen is older than  *)
(* peerTimeOut, `idle' those whose LastActivity is older than              *)
(* peerConnectionTimeOut.                                                  *)
(*                                                                         *)
(* The senders (discovery, transport, the application) are the environment *)
(* of this module: they may post any event they ever post, whenever the    *)
(* channel has room.  Module Connections replaces them by the goroutines   *)
(* of the transport.                                                       *)
(***************************************************************************)
EXTENDS Naturals, Sequences, FiniteSets

CONSTANTS
  Peer,            \* UUIDs of remote nodes
  Conn,            \* TCP connections, each used at most once
  Query,           \* response channels of callers that only read the table
  TimedQuery,      \* those whose caller stops waiting (handleGetBlacklist)
  NoConn,          \* the nil net.Conn
  NoPeer,          \* owner of a connection that no row was given to
  EventChanCap,    \* PeerEventChanSize
  TrackerChanCap   \* buffer of FileTrackerChan

ASSUME PeerManagerAssumption ==
  /\ NoConn \notin Conn
  /\ NoPeer \notin Peer
  /\ TimedQuery \subseteq Query
  /\ EventChanCap \in Nat \ {0}
  /\ TrackerChanCap \in Nat \ {0}

VARIABLES
  peers,           \* keys of pm.Peers
  conn,            \* PeerInfo.Conn
  connected,       \* PeerInfo.Connected
  stale,           \* peers not seen for peerTimeOut
  idle,            \* peers without activity for peerConnectionTimeOut
  blackListPeers,  \* keys of pm.BlackListPeers
  peerEventChan,   \* buffered channel of events
  pm,              \* the event the goroutine is working on, or Ready
  fileTrackerChan, \* RemovePeerEvents for the file tracker
  closed,          \* connections this node has called Close on
  request,         \* each connection's SetConnection request: not made,
                   \* unanswered, granted, or refused (or never to be made)
  owner,           \* UUID each accepted connection was accepted for
  caller           \* state of each reading caller

table   == <<peers, conn, connected, stale, idle, blackListPeers>>
clients == <<request, owner, caller>>
vars    == <<table, peerEventChan, pm, fileTrackerChan, closed, clients>>

-----------------------------------------------------------------------------
(* Events                                                                  *)

PeerEvent  == [type : {"Discovery", "RemovePeer", "SetLastActivity",
                       "BlackList"}, id : Peer]
ConnEvent  == [type : {"SetConnection", "RemoveConnection"},
               id : Peer, conn : Conn]
QueryEvent == [type : {"Query"}, resp : Query]
Event      == PeerEvent \cup ConnEvent \cup QueryEvent

\* Ready: the goroutine is in the select of Run.  Notifying: it is inside
\* handleRemovePeerEvent, sending to the file tracker.
Ready        == [type |-> "Ready"]
Notifying(p) == [type |-> "Notifying", id |-> p]

Init ==
  /\ peers = {}
  /\ conn = [p \in Peer |-> NoConn]
  /\ connected = [p \in Peer |-> FALSE]
  /\ stale = {}
  /\ idle = {}
  /\ blackListPeers = {}
  /\ peerEventChan = <<>>
  /\ pm = Ready
  /\ fileTrackerChan = <<>>
  /\ closed = {}
  /\ request = [c \in Conn |-> "new"]
  /\ owner = [c \in Conn |-> NoPeer]
  /\ caller = [q \in Query |-> "free"]

-----------------------------------------------------------------------------
(***************************************************************************)
(* Helpers.  A name with a suffix after `_' is a variant of the definition *)
(* named before it, with the slip of a programmer in it: no action uses    *)
(* it, and every property below fails when one of them takes the place of  *)
(* the original.                                                           *)
(***************************************************************************)

\* The time stamps outlive the row.
Forget_RowOnly(gone) ==
  /\ peers' = peers \ gone
  /\ conn' = [p \in Peer |-> IF p \in gone THEN NoConn ELSE conn[p]]
  /\ UNCHANGED <<stale, idle>>

Forget_KeepRows(gone) == UNCHANGED <<peers, conn, stale, idle>>

\* delete(pm.Peers, p) for every p of a set
Forget(gone) ==
  /\ peers' = peers \ gone
  /\ conn' = [p \in Peer |-> IF p \in gone THEN NoConn ELSE conn[p]]
  /\ stale' = stale \ gone
  /\ idle' = idle \ gone

\* The connections that the rows of a set of peers hold.
ConnsOf(group) == {conn[p] : p \in group} \ {NoConn}

\* peer.Connected = false
Disconnect_Nobody(group) == UNCHANGED connected

Disconnect(group) ==
  connected' = [p \in Peer |-> connected[p] /\ p \notin group]

\* The tests on which handlers ignore an event or answer with an error.
Welcome_Everyone(p) == TRUE

Welcome(p) == p \notin blackListPeers

MayConnect_Twice(p) == p \in peers

MayConnect(p) == p \in peers /\ conn[p] = NoConn

HoldsConn_Any(p, c) == p \in peers

HoldsConn(p, c) == p \in peers /\ conn[p] = c

\* The row is given to the connection; the waiting handleConn is told success.
Grant(p, c) ==
  /\ conn' = [conn EXCEPT ![p] = c]
  /\ connected' = [connected EXCEPT ![p] = TRUE]
  /\ request' = [request EXCEPT ![c] = "accepted"]
  /\ owner' = [owner EXCEPT ![c] = p]

\* The row was written before the tests, or handleConn gets no answer.
Refuse_AfterWrite(p, c) ==
  /\ conn' = IF p \in peers THEN [conn EXCEPT ![p] = c] ELSE conn
  /\ request' = [request EXCEPT ![c] = "rejected"]
  /\ UNCHANGED <<connected, owner>>

Refuse_Silently(p, c) == UNCHANGED <<conn, connected, request, owner>>

\* It is told "peer not found" or "duplicate connection".
Refuse(p, c) ==
  /\ request' = [request EXCEPT ![c] = "rejected"]
  /\ UNCHANGED <<conn, connected, owner>>

\* The send in a select with a default
TellTracker_TrySend(p) ==
  fileTrackerChan' = IF Len(fileTrackerChan) < TrackerChanCap
                     THEN Append(fileTrackerChan, p)
                     ELSE fileTrackerChan

\* pm.FileTrackerChan <- RemovePeerEvent
TellTracker(p) ==
  /\ Len(fileTrackerChan) < TrackerChanCap
  /\ fileTrackerChan' = Append(fileTrackerChan, p)

\* ch <- event on a buffered channel: possible only while it has room.
Post(e) ==
  /\ Len(peerEventChan) < EventChanCap
  /\ peerEventChan' = Append(peerEventChan, e)

-----------------------------------------------------------------------------
(* The event loop                                                          *)

\* case event := <-pm.PeerEventChan
Receive ==
  /\ pm = Ready
  /\ peerEventChan # <<>>
  /\ pm' = Head(peerEventChan)
  /\ peerEventChan' = Tail(peerEventChan)
  /\ UNCHANGED <<table, fileTrackerChan, closed, clients>>

\* A Hello of a blacklisted peer is ignored; that of a known peer refreshes
\* LastSeen only; that of an unknown peer makes a row with a fresh
\* LastActivity.
handleDiscoveryEvent ==
  /\ pm.type = "Discovery"
  /\ IF Welcome(pm.id)
     THEN /\ peers' = peers \cup {pm.id}
          /\ stale' = stale \ {pm.id}
     ELSE UNCHANGED <<peers, stale>>
  /\ pm' = Ready
  /\ UNCHANGED <<conn, connected, idle, blackListPeers>>
  /\ UNCHANGED <<peerEventChan, fileTrackerChan, closed, clients>>

\* First half: close the connection.  The row is deleted only after the send
\* to the file tracker, which blocks the goroutine while that channel is full.
handleRemovePeerEvent ==
  /\ pm.type = "RemovePeer"
  /\ IF pm.id \in peers
     THEN /\ closed' = closed \cup ConnsOf({pm.id})
          /\ pm' = Notifying(pm.id)
     ELSE /\ pm' = Ready
          /\ UNCHANGED closed
  /\ UNCHANGED <<table, peerEventChan, fileTrackerChan, clients>>

\* Second half: tell the file tracker, then delete the row.
notifyFileTracker ==
  /\ pm.type = "Notifying"
  /\ TellTracker(pm.id)
  /\ Forget({pm.id})
  /\ Disconnect({pm.id})
  /\ pm' = Ready
  /\ UNCHANGED <<blackListPeers, peerEventChan, closed, clients>>

handleSetConnectionEvent ==
  /\ pm.type = "SetConnection"
  /\ IF MayConnect(pm.id)
     THEN Grant(pm.id, pm.conn)
     ELSE Refuse(pm.id, pm.conn)
  /\ pm' = Ready
  /\ UNCHANGED <<peers, stale, idle, blackListPeers>>
  /\ UNCHANGED <<peerEventChan, fileTrackerChan, closed, caller>>

\* Every sender names its connection, so a row that has moved on to another
\* connection is left alone; a row without one is set to nil again.
handleRemoveConnectionEvent ==
  /\ pm.type = "RemoveConnection"
  /\ IF HoldsConn(pm.id, pm.conn)
     THEN /\ closed' = closed \cup ConnsOf({pm.id})
          /\ conn' = [conn EXCEPT ![pm.id] = NoConn]
          /\ Disconnect({pm.id})
     ELSE UNCHANGED <<closed, conn, connected>>
  /\ pm' = Ready
  /\ UNCHANGED <<peers, stale, idle, blackListPeers>>
  /\ UNCHANGED <<peerEventChan, fileTrackerChan, clients>>

handleSetLastActivity ==
  /\ pm.type = "SetLastActivity"
  /\ idle' = idle \ {pm.id}
  /\ pm' = Ready
  /\ UNCHANGED <<peers, conn, connected, stale, blackListPeers>>
  /\ UNCHANGED <<peerEventChan, fileTrackerChan, closed, clients>>

\* A toggle: a listed peer is taken off the list, any other peer is listed
\* and its row deleted.  The connection in that row is not closed.
handleBlackListPeer ==
  /\ pm.type = "BlackList"
  /\ IF pm.id \in blackListPeers
     THEN /\ blackListPeers' = blackListPeers \ {pm.id}
          /\ UNCHANGED <<peers, conn, connected, stale, idle>>
     ELSE /\ blackListPeers' = blackListPeers \cup {pm.id}
          /\ Forget({pm.id})
          /\ Disconnect({pm.id})
  /\ pm' = Ready
  /\ UNCHANGED <<peerEventChan, fileTrackerChan, closed, clients>>

\* handleGetPeers, handleGetPeer, handleGetConnectionCount,
\* handleCheckBlackListPeer and handleGetBlackListPeer read the table and send
\* on an unbuffered response channel: the goroutine stays here until the
\* caller receives, for ever when the caller has stopped waiting.
answerQuery ==
  /\ pm.type = "Query"
  /\ caller[pm.resp] = "waiting"
  /\ caller' = [caller EXCEPT ![pm.resp] = "free"]
  /\ pm' = Ready
  /\ UNCHANGED <<table, peerEventChan, fileTrackerChan, closed>>
  /\ UNCHANGED <<request, owner>>

\* case <-ticker.C: silent peers are closed and deleted, without a word to the
\* file tracker; a connected peer without activity is closed and keeps its row
\* and its (closed) connection until the reader reports the error.
checkPeerTimeouts ==
  /\ pm = Ready
  /\ LET expired == peers \cap stale
         quiet   == {p \in (peers \ stale) \cap idle :
                       connected[p] /\ conn[p] # NoConn}
     IN /\ closed' = closed \cup ConnsOf(expired \cup quiet)
        /\ Forget(expired)
        /\ Disconnect(expired \cup quiet)
  /\ UNCHANGED <<blackListPeers, peerEventChan, pm, fileTrackerChan, clients>>

handlePeerEvent ==
  \/ handleDiscoveryEvent
  \/ handleRemovePeerEvent
  \/ notifyFileTracker
  \/ handleSetConnectionEvent
  \/ handleRemoveConnectionEvent
  \/ handleSetLastActivity
  \/ handleBlackListPeer
  \/ answerQuery

Run == Receive \/ handlePeerEvent

-----------------------------------------------------------------------------
(* The environment                                                         *)

\* A Hello or Bye datagram, a disconnect, a blacklist command, a packet read
\* or written.
PostPeerEvent(t, p) ==
  /\ Post([type |-> t, id |-> p])
  /\ UNCHANGED <<table, pm, fileTrackerChan, closed, clients>>

\* handleConn that asks again while it waits
PostSetConnection_Again(p, c) ==
  /\ request[c] \in {"new", "pending"}
  /\ Post([type |-> "SetConnection", id |-> p, conn |-> c])
  /\ request' = [request EXCEPT ![c] = "pending"]
  /\ UNCHANGED <<table, pm, fileTrackerChan, closed, owner, caller>>

\* handleConn has read the UUID p from connection c and asks for the row.
PostSetConnection(p, c) ==
  /\ request[c] = "new"
  /\ Post([type |-> "SetConnection", id |-> p, conn |-> c])
  /\ request' = [request EXCEPT ![c] = "pending"]
  /\ UNCHANGED <<table, pm, fileTrackerChan, closed, owner, caller>>

\* The reader or the writer of an established connection met an error.
PostRemoveConnection(c) ==
  /\ request[c] = "accepted"
  /\ Post([type |-> "RemoveConnection", id |-> owner[c], conn |-> c])
  /\ UNCHANGED <<table, pm, fileTrackerChan, closed, clients>>

\* handleConn gives a connection up: its handshake failed, or its request was
\* rejected.
CloseConn(c) ==
  /\ request[c] \in {"new", "rejected"}
  /\ request' = [request EXCEPT ![c] = "rejected"]
  /\ closed' = closed \cup {c}
  /\ UNCHANGED <<table, peerEventChan, pm, fileTrackerChan, owner, caller>>

Ask(q) ==
  /\ caller[q] = "free"
  /\ Post([type |-> "Query", resp |-> q])
  /\ caller' = [caller EXCEPT ![q] = "waiting"]
  /\ UNCHANGED <<table, pm, fileTrackerChan, closed, request, owner>>

\* case <-ctx.Done() of handleGetBlacklist
GiveUp(q) ==
  /\ q \in TimedQuery
  /\ caller[q] = "waiting"
  /\ caller' = [caller EXCEPT ![q] = "gone"]
  /\ UNCHANGED <<table, peerEventChan, pm, fileTrackerChan, closed>>
  /\ UNCHANGED <<request, owner>>

\* The clock passes peerTimeOut or peerConnectionTimeOut for a peer.
TimePasses(p) ==
  /\ p \in peers
  /\ \/ stale' = stale \cup {p} /\ UNCHANGED idle
     \/ idle' = idle \cup {p} /\ UNCHANGED stale
  /\ UNCHANGED <<peers, conn, connected, blackListPeers>>
  /\ UNCHANGED <<peerEventChan, pm, fileTrackerChan, closed, clients>>

\* case event := <-f.FilePeerManagerChan in FileTracker.Run
TrackerReceive ==
  /\ fileTrackerChan # <<>>
  /\ fileTrackerChan' = Tail(fileTrackerChan)
  /\ UNCHANGED <<table, peerEventChan, pm, closed, clients>>

Environment ==
  \/ \E p \in Peer : \E t \in {"Discovery", "RemovePeer", "SetLastActivity",
                               "BlackList"} : PostPeerEvent(t, p)
  \/ \E p \in Peer, c \in Conn : PostSetConnection(p, c)
  \/ \E c \in Conn : PostRemoveConnection(c) \/ CloseConn(c)
  \/ \E q \in Query : Ask(q) \/ GiveUp(q)
  \/ \E p \in Peer : TimePasses(p)
  \/ TrackerReceive

Next == Run \/ checkPeerTimeouts \/ Environment

Spec == Init /\ [][Next]_vars

\* The manager and the file tracker are goroutines: a step one of them can
\* take stays possible until it takes it.  Nobody is obliged to post.
FairSpec == Spec /\ WF_vars(Run) /\ WF_vars(TrackerReceive)

-----------------------------------------------------------------------------
(* Properties                                                              *)

TypeOK ==
  /\ peers \subseteq Peer
  /\ conn \in [Peer -> Conn \cup {NoConn}]
  /\ connected \in [Peer -> BOOLEAN]
  /\ stale \subseteq peers
  /\ idle \subseteq peers
  /\ blackListPeers \subseteq Peer
  /\ peerEventChan \in Seq(Event)
  /\ Len(peerEventChan) <= EventChanCap
  /\ pm \in Event \cup {Ready} \cup {Notifying(p) : p \in Peer}
  /\ fileTrackerChan \in Seq(Peer)
  /\ closed \subseteq Conn
  /\ request \in [Conn -> {"new", "pending", "accepted", "rejected"}]
  /\ owner \in [Conn -> Peer \cup {NoPeer}]
  /\ \A c \in Conn : request[c] = "accepted" => owner[c] # NoPeer
  /\ caller \in [Query -> {"free", "waiting", "gone"}]

\* A blacklisted peer has no row, so no Hello of it can be listed and no
\* connection of it can be accepted, however discovery, disconnects and the
\* toggle of handleBlackListPeer interleave in the channel.
BlackListedHasNoRow == blackListPeers \cap peers = {}

\* What the "Connected" column shows is true: the row holds a connection that
\* this node has not closed, and it is a connection whose handshake delivered
\* this very peer.  Only in the middle of handleRemovePeerEvent, while the
\* manager waits for the file tracker, is the row behind the connection.
ConnectedIsOpen ==
  \A p \in Peer :
    connected[p] => /\ p \in peers
                    /\ conn[p] # NoConn
                    /\ owner[conn[p]] = p
                    /\ conn[p] \in closed => pm = Notifying(p)

\* A handleConn that was told no, or that has not been answered, has no row:
\* so closing its connection (which it does on an error) takes down nobody
\* else's, and no two rows share a connection.
OnlyAcceptedInTable ==
  \A p \in Peer :
    conn[p] # NoConn => /\ request[conn[p]] = "accepted"
                        /\ \A q \in Peer \ {p} : conn[q] # conn[p]

\* A connection leaves its row closed.  The one way out for an open
\* connection is handleBlackListPeer, which deletes the row and closes nothing.
LeavesTableClosed ==
  [][\A p \in Peer :
       conn[p] # NoConn /\ conn'[p] # conn[p]
         => \/ conn[p] \in closed'
            \/ p \in blackListPeers' \ blackListPeers]_vars

\* An accepted connection is closed for a cause of its own: a report about
\* this very connection (never the late report about the one it replaced), a
\* disconnect or Bye of its peer, or its peer's silence.
ClosedForCause ==
  [][\A c \in closed' \ closed :
       request[c] = "accepted"
         => \/ pm.type = "RemoveConnection" /\ pm.conn = c
            \/ pm.type = "RemovePeer" /\ pm.id = owner[c]
            \/ pm = Ready /\ owner[c] \in stale \cup idle]_vars

\* A peer that a Bye or a disconnect removes is announced to the file tracker
\* before its row is gone, in one step with it; only silence and the blacklist
\* remove rows unannounced.
RemovalAnnounced ==
  [][\A p \in peers \ peers' :
       \/ Len(fileTrackerChan') > Len(fileTrackerChan)
            /\ fileTrackerChan'[Len(fileTrackerChan')] = p
       \/ p \in stale
       \/ p \in blackListPeers']_vars

-----------------------------------------------------------------------------
(* The inductive invariant behind the safety properties.  It says in       *)
(* addition that each connection asks for a row at most once, that it is   *)
(* open until it is answered or given up, that a row's connection was      *)
(* accepted for that row, and that a row being removed has its connection  *)
(* closed already.                                                         *)

NoRowNoConn ==
  \A p \in Peer \ peers : conn[p] = NoConn /\ ~connected[p]

AcceptedForRow ==
  \A p \in Peer :
    conn[p] # NoConn => request[conn[p]] = "accepted" /\ owner[conn[p]] = p

AsksFor(e, c) == e.type = "SetConnection" /\ e.conn = c

AskedOnce ==
  \A c \in Conn :
    /\ AsksFor(pm, c) => request[c] = "pending"
    /\ \A i \in 1..Len(peerEventChan) :
         AsksFor(peerEventChan[i], c)
           => /\ request[c] = "pending"
              /\ ~AsksFor(pm, c)
              /\ \A j \in 1..Len(peerEventChan) :
                   AsksFor(peerEventChan[j], c) => i = j

AskingIsOpen == \A c \in closed : request[c] \in {"accepted", "rejected"}

NotifyingIsClosed ==
  pm.type = "Notifying" => conn[pm.id] \in closed \cup {NoConn}

IndInv ==
  /\ TypeOK
  /\ BlackListedHasNoRow
  /\ NoRowNoConn
  /\ AcceptedForRow
  /\ ConnectedIsOpen
  /\ AskedOnce
  /\ AskingIsOpen
  /\ NotifyingIsClosed

-----------------------------------------------------------------------------
(* Liveness                                                                *)

\* Every handleConn is answered and every caller without a deadline too,
\* unless some caller with a deadline has left: then the manager may stand for
\* ever at the response nobody receives.
SomeoneLeft == \E q \in TimedQuery : caller[q] = "gone"

RequestsAnswered ==
  /\ \A c \in Conn : request[c] = "pending"
                       ~> request[c] # "pending" \/ SomeoneLeft
  /\ \A q \in Query : caller[q] = "waiting"
                        ~> caller[q] # "waiting" \/ SomeoneLeft

\* A disconnect is carried out: the row goes, however full the file tracker's
\* channel was when the manager got there.
RemovalCompletes ==
  \A p \in Peer : pm = Notifying(p) ~> p \notin peers

\* peer.go:16 explains the blacklist by "the user dont want to connect to that
\* peer": while a peer is blacklisted no accepted connection of it is open.
BlackListedIsDisconnected ==
  \A c \in Conn : request[c] = "accepted" /\ owner[c] \in blackListPeers
                    => c \in closed

=============================================================================
