-------------------------- MODULE FileTrackerProofs --------------------------
(***************************************************************************)
(* Proofs, for every set of files, peers and callers and every channel     *)
(* capacity, that the two indexes of the file tracker agree and that it    *)
(* implements the relation of module Hosts.                                *)
(***************************************************************************)
EXTENDS FileTracker, TLAPS

-----------------------------------------------------------------------------
(* Channels                                                                *)

\* What a send on a channel adds: one message, at the end.
LEMMA Sent ==
  ASSUME NEW S, NEW q \in Seq(S), NEW e \in S
  PROVE  /\ Append(q, e) \in Seq(S)
         /\ Len(q) \in Nat
         /\ Len(Append(q, e)) = Len(q) + 1
         /\ \A i \in 1..Len(q) : Append(q, e)[i] = q[i]
         /\ Append(q, e)[Len(q) + 1] = e
  OBVIOUS

\* What a receive on a channel takes away: the first message.
LEMMA Received ==
  ASSUME NEW S, NEW q \in Seq(S), q # <<>>
  PROVE  /\ Tail(q) \in Seq(S)
         /\ Len(q) \in Nat \ {0}
         /\ Len(Tail(q)) = Len(q) - 1
         /\ Head(q) \in S
         /\ Head(q) = q[1]
         /\ \A i \in 1..Len(Tail(q)) : Tail(q)[i] = q[i + 1]
  OBVIOUS

-----------------------------------------------------------------------------
(* Type correctness                                                        *)

\* An answer about the file a caller has asked for is an answer.
LEMMA AnswerType ==
  ASSUME TypeOK, NEW q \in Caller, NEW group \in SUBSET Peer
  PROVE  H!Answer(asked[q], group) \in H!Answers
  BY DEF TypeOK, H!Answer, H!Answers

\* Every step of the tracker's loop and of those who use it keeps the indexes,
\* the channels, and the answers within their types.
LEMMA TypeStep == TypeOK /\ [Next]_vars => TypeOK'
<1> SUFFICES ASSUME TypeOK, [Next]_vars PROVE TypeOK'
  OBVIOUS
<1> USE DEF TypeOK
<1>1. CASE GetPeerWithFile
  <2>1. /\ Head(fileTrackerChan) \in Query
        /\ Tail(fileTrackerChan) \in Seq(Query)
        /\ Len(Tail(fileTrackerChan)) <= QueryChanCap
    BY <1>1, Received, FileTrackerAssumption
       DEF GetPeerWithFile, FileTrackerAssumption
  <2>2. tracker' \in [at : {"answer"}, resp : Caller, file : File,
                      hosts : SUBSET Peer]
    BY <1>1, <2>1 DEF GetPeerWithFile, Sending, Query
  <2>3. QED
    BY <1>1, <2>1, <2>2 DEF GetPeerWithFile, indexes, clients
<1>2. CASE respond
  <2>1. tracker.resp \in Caller /\ tracker.hosts \in SUBSET Peer
    BY <1>2 DEF respond, Select, Stopped
  <2>2. H!Answer(asked[tracker.resp], tracker.hosts) \in H!Answers
    BY <2>1, AnswerType
  <2>3. QED
    BY <1>2, <2>1, <2>2 DEF respond, indexes, channels
<1>3. CASE expire
  <2>1. tracker.resp \in Caller
    BY <1>3 DEF expire, Select, Stopped
  <2>2. H!Answer(asked[tracker.resp], {}) \in H!Answers
    BY <2>1, AnswerType
  <2>3. /\ caller' \in [Caller -> {"free", "waiting", "gone"}]
        /\ answer' \in [Caller -> H!Answers]
    <3>1. CASE Unheard(tracker.resp)
      BY <3>1 DEF Unheard
    <3>2. CASE /\ caller' = [caller EXCEPT ![tracker.resp] = "free"]
               /\ answer' = [answer EXCEPT ![tracker.resp] =
                               H!Answer(asked[tracker.resp], {})]
      BY <2>1, <2>2, <3>2
    <3>3. QED
      BY <1>3, <3>1, <3>2 DEF expire
  <2>4. QED
    BY <1>3, <2>3 DEF expire, indexes, channels
<1>4. CASE RemovePeerFromFileToPeer
  <2>1. /\ Head(filePeerManagerChan) \in Peer
        /\ Tail(filePeerManagerChan) \in Seq(Peer)
        /\ Len(Tail(filePeerManagerChan)) <= RemovalChanCap
    BY <1>4, Received, FileTrackerAssumption
       DEF RemovePeerFromFileToPeer, FileTrackerAssumption
  <2>2. QED
    BY <1>4, <2>1
       DEF RemovePeerFromFileToPeer, updatedPeers, forgetFiles, clients
<1>5. CASE return
  BY <1>5 DEF return, indexes, channels, clients
<1>6. CASE Stop
  BY <1>6 DEF Stop, indexes, channels, clients
<1>7. ASSUME NEW f \in File, NEW p \in Peer, AddFile(f, p) PROVE TypeOK'
  BY <1>7 DEF AddFile, channels, clients
<1>8. ASSUME NEW p \in Peer, notifyRemoval(p) PROVE TypeOK'
  BY <1>8, Sent, FileTrackerAssumption
     DEF notifyRemoval, Room, indexes, clients, FileTrackerAssumption
<1>9. ASSUME NEW q \in Caller, leave(q) PROVE TypeOK'
  BY <1>9 DEF leave, indexes, channels
<1>10. ASSUME NEW q \in Caller, NEW f \in File, ask(q, f) PROVE TypeOK'
  <2>1. [file |-> f, resp |-> q] \in Query
    BY DEF Query
  <2>2. /\ fileTrackerChan' \in Seq(Query)
        /\ Len(fileTrackerChan') <= QueryChanCap
    BY <1>10, <2>1, Sent, FileTrackerAssumption
       DEF ask, Room, FileTrackerAssumption
  <2>3. QED
    BY <1>10, <2>2 DEF ask, MayAsk, indexes
<1>11. CASE UNCHANGED vars
  BY <1>11 DEF vars, indexes, channels, clients
<1> HIDE DEF TypeOK
<1>12. QED
  BY <1>1, <1>2, <1>3, <1>4, <1>5, <1>6, <1>7, <1>8, <1>9, <1>10, <1>11
     DEF Next, Run

\* The maps of a new tracker are empty.
LEMMA TypeInit == Init => TypeOK
<1> SUFFICES ASSUME Init PROVE TypeOK
  OBVIOUS
<1>1. /\ fileTrackerChan \in Seq(Query) /\ Len(fileTrackerChan) <= QueryChanCap
      /\ filePeerManagerChan \in Seq(Peer)
      /\ Len(filePeerManagerChan) <= RemovalChanCap
  BY FileTrackerAssumption DEF Init, FileTrackerAssumption
<1>2. answer \in [Caller -> H!Answers]
  BY DEF Init, H!Answers
<1>3. /\ fileToPeer \in [File -> [Peer -> Nat]]
      /\ peerToFiles \in [Peer -> SUBSET File]
  BY DEF Init
<1>4. QED
  BY <1>1, <1>2, <1>3 DEF Init, TypeOK

\* Every reachable state of the tracker is well typed: no slice is shorter than
\* empty, no channel holds more than its buffer.
THEOREM TypeCorrect == Spec => []TypeOK
<1>1. Init => TypeOK
  BY TypeInit
<1>2. TypeOK /\ [Next]_vars => TypeOK'
  BY TypeStep
<1>3. QED
  BY <1>1, <1>2, PTL DEF Spec

-----------------------------------------------------------------------------
(* The indexes                                                             *)

\* AddFile and RemovePeerFromFileToPeer edit both indexes alike.
LEMMA AgreeStep == TypeOK /\ IndexesAgree /\ [Next]_vars => IndexesAgree'
<1> SUFFICES ASSUME TypeOK, IndexesAgree, [Next]_vars PROVE IndexesAgree'
  OBVIOUS
<1>1. CASE RemovePeerFromFileToPeer
  <2> DEFINE p == Head(filePeerManagerChan)
  <2>1. p \in Peer
    BY <1>1, Received DEF RemovePeerFromFileToPeer, TypeOK
  <2>2. /\ updatedPeers(p)
        /\ peerToFiles' = [peerToFiles EXCEPT ![p] = {}]
    BY <1>1 DEF RemovePeerFromFileToPeer, forgetFiles
  <2> HIDE DEF p
  <2>3. QED
    BY <2>1, <2>2 DEF updatedPeers, IndexesAgree, TypeOK
<1>2. ASSUME NEW f \in File, NEW p \in Peer, AddFile(f, p)
      PROVE  IndexesAgree'
  BY <1>2 DEF AddFile, InSlice, IndexesAgree, TypeOK
<1>3. CASE UNCHANGED indexes
  BY <1>3 DEF indexes, IndexesAgree
<1>4. QED
  BY <1>1, <1>2, <1>3
     DEF Next, Run, GetPeerWithFile, respond, expire, return, Stop,
         notifyRemoval, leave, ask, vars

\* Whatever is registered and removed, the two indexes of the tracker say the
\* same, so that a removal finds all it has to take out.
THEOREM Agreement == Spec => []IndexesAgree
<1>1. Init => TypeOK /\ IndexesAgree
  BY TypeInit DEF Init, IndexesAgree
<1>2. TypeOK /\ IndexesAgree /\ [Next]_vars => TypeOK' /\ IndexesAgree'
  BY TypeStep, AgreeStep
<1>3. QED
  BY <1>1, <1>2, PTL DEF Spec

-----------------------------------------------------------------------------
(* Queries and answers                                                     *)

\* Taking a query out of the channel moves the others up by one place.
LEMMA QueuedAfterTake ==
  ASSUME TypeOK, GetPeerWithFile, NEW q \in Caller
  PROVE  /\ \A i \in Queued(q)' : /\ i + 1 \in Queued(q)
                                  /\ i \in Nat \ {0}
                                  /\ fileTrackerChan'[i]
                                       = fileTrackerChan[i + 1]
         /\ fileTrackerChan[1].resp = q => 1 \in Queued(q)
  BY Received DEF TypeOK, GetPeerWithFile, Queued

\* Asking adds a query of this caller behind the others.
LEMMA QueuedAfterAsk ==
  ASSUME TypeOK, NEW c \in Caller, NEW f \in File, ask(c, f),
         NEW q \in Caller
  PROVE  /\ q # c => Queued(q)' = Queued(q)
         /\ Queued(c)' = Queued(c) \cup {Len(fileTrackerChan) + 1}
         /\ \A i \in Queued(q) : fileTrackerChan'[i] = fileTrackerChan[i]
         /\ fileTrackerChan'[Len(fileTrackerChan) + 1]
              = [file |-> f, resp |-> c]
<1>1. [file |-> f, resp |-> c] \in Query
  BY DEF Query
<1>2. QED
  BY <1>1, Sent DEF TypeOK, ask, Queued

\* A caller with no query has none that could be for another file; any other
\* query moves from the channel into the tracker's hand, and out of it.
LEMMA QueryStep ==
  TypeOK /\ OneQueryEach /\ AsAsked /\ [Next]_vars
    => OneQueryEach' /\ AsAsked'
<1> SUFFICES ASSUME TypeOK, OneQueryEach, AsAsked, [Next]_vars,
                    NEW q \in Caller
             PROVE  /\ \A i, j \in Queued(q)' : i = j
                    /\ InHand(q)' => Queued(q)' = {}
                    /\ caller'[q] = "free"
                         => ~InHand(q)' /\ Queued(q)' = {}
                    /\ \A i \in Queued(q)' :
                         fileTrackerChan'[i].file = asked'[q]
                    /\ InHand(q)' => tracker'.file = asked'[q]
  BY DEF OneQueryEach, AsAsked
<1>0. /\ \A i, j \in Queued(q) : i = j
      /\ InHand(q) => Queued(q) = {}
      /\ caller[q] = "free" => ~InHand(q) /\ Queued(q) = {}
      /\ \A i \in Queued(q) : fileTrackerChan[i].file = asked[q]
      /\ InHand(q) => tracker.file = asked[q]
  BY DEF OneQueryEach, AsAsked
<1>1. CASE GetPeerWithFile
  <2>1. /\ tracker' = Sending(fileTrackerChan[1].resp,
                              fileTrackerChan[1].file, tracker'.hosts)
        /\ caller' = caller
        /\ asked' = asked
    BY <1>1, Received DEF GetPeerWithFile, Sending, clients, TypeOK
  <2>2. InHand(q)' <=> fileTrackerChan[1].resp = q
    BY <2>1 DEF InHand, Sending
  <2>3. \A i \in Queued(q)' : ~InHand(q)'
    BY <1>0, <1>1, <2>2, QueuedAfterTake
  <2>4. InHand(q)' => tracker'.file = asked[q]
    BY <1>0, <1>1, <2>1, <2>2, QueuedAfterTake DEF Sending
  <2>5. \A i, j \in Queued(q)' : i = j
    BY <1>0, <1>1, QueuedAfterTake
  <2>6. \A i \in Queued(q)' : fileTrackerChan'[i].file = asked[q]
    BY <1>0, <1>1, QueuedAfterTake
  <2>7. caller[q] = "free" => ~InHand(q)' /\ Queued(q)' = {}
    BY <1>0, <1>1, <2>2, QueuedAfterTake
  <2>8. QED
    BY <2>1, <2>3, <2>4, <2>5, <2>6, <2>7
<1>2. CASE respond \/ expire
  <2>1. /\ tracker' = Select
        /\ fileTrackerChan' = fileTrackerChan
        /\ asked' = asked
        /\ caller'[q] = "free" => caller[q] = "free" \/ InHand(q)
    BY <1>2 DEF respond, expire, Unheard, channels, InHand, TypeOK
  <2>2. Queued(q)' = Queued(q) /\ ~InHand(q)'
    BY <2>1 DEF Queued, InHand, Select
  <2>3. QED
    BY <1>0, <2>1, <2>2
<1>3. ASSUME NEW c \in Caller, NEW f \in File, ask(c, f)
      PROVE  /\ \A i, j \in Queued(q)' : i = j
             /\ InHand(q)' => Queued(q)' = {}
             /\ caller'[q] = "free" => ~InHand(q)' /\ Queued(q)' = {}
             /\ \A i \in Queued(q)' : fileTrackerChan'[i].file = asked'[q]
             /\ InHand(q)' => tracker'.file = asked'[q]
  <2>1. /\ InHand(q)' <=> InHand(q)
        /\ tracker' = tracker
        /\ caller[c] = "free"
        /\ caller' = [caller EXCEPT ![c] = "waiting"]
        /\ asked' = [asked EXCEPT ![c] = f]
    BY <1>3 DEF ask, MayAsk, InHand
  <2>2. /\ asked'[c] = f /\ caller'[c] = "waiting"
        /\ q # c => asked'[q] = asked[q] /\ caller'[q] = caller[q]
    BY <2>1 DEF TypeOK
  <2>3. CASE q = c
    <3>1. ~InHand(q) /\ Queued(q) = {} /\ caller'[q] # "free"
      BY <1>0, <2>2, <2>1, <2>3
    <3>2. Queued(q)' = {Len(fileTrackerChan) + 1}
      BY <1>3, <2>3, <3>1, QueuedAfterAsk
    <3>3. fileTrackerChan'[Len(fileTrackerChan) + 1].file = asked'[q]
      <4>1. fileTrackerChan'[Len(fileTrackerChan) + 1]
              = [file |-> f, resp |-> c]
        BY <1>3, QueuedAfterAsk
      <4>2. QED
        BY <2>2, <2>3, <4>1
    <3>4. QED
      BY <2>1, <3>1, <3>2, <3>3
  <2>4. CASE q # c
    <3>1. Queued(q)' = Queued(q)
      BY <1>3, <2>4, QueuedAfterAsk
    <3>2. \A i \in Queued(q) : fileTrackerChan'[i] = fileTrackerChan[i]
      BY <1>3, QueuedAfterAsk
    <3>3. QED
      BY <1>0, <2>2, <2>1, <2>4, <3>1, <3>2
  <2>5. QED
    BY <2>3, <2>4
<1>4. CASE return
  <2>1. /\ fileTrackerChan' = fileTrackerChan /\ caller' = caller
        /\ asked' = asked /\ tracker' = Stopped
    BY <1>4 DEF return, channels, clients
  <2>2. Queued(q)' = Queued(q) /\ ~InHand(q)'
    BY <2>1 DEF Queued, InHand, Stopped
  <2>3. QED
    BY <1>0, <2>1, <2>2
<1>5. CASE /\ UNCHANGED <<fileTrackerChan, asked, tracker>>
           /\ caller'[q] = "free" => caller[q] = "free"
  <2>1. Queued(q)' = Queued(q) /\ (InHand(q)' <=> InHand(q))
    BY <1>5 DEF Queued, InHand
  <2>2. QED
    BY <1>0, <1>5, <2>1
<1>6. \/ GetPeerWithFile \/ respond \/ expire \/ return
      \/ \E c \in Caller, f \in File : ask(c, f)
      \/ /\ UNCHANGED <<fileTrackerChan, asked, tracker>>
         /\ caller'[q] = "free" => caller[q] = "free"
  BY DEF Next, Run, RemovePeerFromFileToPeer, Stop, AddFile, notifyRemoval,
         leave, vars, channels, clients, TypeOK
<1>7. QED
  BY <1>1, <1>2, <1>3, <1>4, <1>5, <1>6

\* The indexes stand still while an answer is in hand.
LEMMA CurrentStep == AnswerIsCurrent /\ [Next]_vars => AnswerIsCurrent'
<1> SUFFICES ASSUME AnswerIsCurrent, [Next]_vars PROVE AnswerIsCurrent'
  OBVIOUS
<1>1. CASE GetPeerWithFile
  BY <1>1 DEF GetPeerWithFile, AnswerIsCurrent, Sending, InSlice, indexes
<1>2. CASE UNCHANGED <<tracker, fileToPeer>>
  BY <1>2 DEF AnswerIsCurrent, InSlice
<1>3. CASE tracker' \in {Select, Stopped}
  BY <1>3 DEF AnswerIsCurrent, Select, Stopped
<1>4. QED
  BY <1>1, <1>2, <1>3
     DEF Next, Run, respond, expire, RemovePeerFromFileToPeer, return, Stop,
         AddFile, notifyRemoval, leave, ask, vars, indexes

\* The inductive invariant, from which a caller may conclude that what it is
\* told is about its own question and true at that moment.
THEOREM Inductive == Spec => []IndInv
<1>1. Init => IndInv
  <2> SUFFICES ASSUME Init PROVE IndInv
    OBVIOUS
  <2>1. TypeOK
    BY TypeInit
  <2>2. IndexesAgree
    BY DEF Init, IndexesAgree
  <2>3. \A q \in Caller : Queued(q) = {} /\ ~InHand(q)
    BY DEF Init, Queued, InHand, Select
  <2>4. OneQueryEach /\ AsAsked
    BY <2>3 DEF OneQueryEach, AsAsked
  <2>5. AnswerIsCurrent
    BY DEF Init, AnswerIsCurrent, Select
  <2>6. QED
    BY <2>1, <2>2, <2>4, <2>5 DEF IndInv
<1>2. IndInv /\ [Next]_vars => IndInv'
  BY TypeStep, AgreeStep, QueryStep, CurrentStep DEF IndInv
<1>3. QED
  BY <1>1, <1>2, PTL DEF Spec

-----------------------------------------------------------------------------
(* Refinement                                                              *)

\* The relation of module Hosts, seen through the slices.
LEMMA ListedPair ==
  ASSUME NEW f \in File, NEW p \in Peer
  PROVE  <<f, p>> \in Listed <=> InSlice(f, p)
  BY DEF Listed, InSlice

\* The hosts of a file are the peers in its slice.
LEMMA ListedHosts ==
  ASSUME NEW f \in File
  PROVE  H!HostsOf(f) = {p \in Peer : InSlice(f, p)}
  BY ListedPair DEF H!HostsOf

\* What AddFile does to the slices is the registration of one pair.
LEMMA AddFileRegisters ==
  ASSUME TypeOK, NEW f \in File, NEW p \in Peer, AddFile(f, p)
  PROVE  H!Register(f, p)
<1>1. fileToPeer' = [fileToPeer EXCEPT ![f][p] = @ + 1]
  BY DEF AddFile
<1>2. ASSUME NEW g \in File, NEW q \in Peer
      PROVE  <<g, q>> \in Listed' <=> <<g, q>> \in Listed \cup {<<f, p>>}
  BY <1>1, <1>2 DEF Listed, TypeOK
<1>3. Listed' = Listed \cup {<<f, p>>}
  BY <1>2 DEF Listed
<1>4. QED
  BY <1>3 DEF AddFile, H!Register, clients

\* A removal takes the peer out of every slice: by the agreement of the indexes
\* its files are all that has it.
LEMMA RemovalDrops ==
  ASSUME TypeOK, IndexesAgree, RemovePeerFromFileToPeer
  PROVE  \E p \in Peer : H!Drop(p)
<1> DEFINE p == Head(filePeerManagerChan)
<1>1. p \in Peer /\ updatedPeers(p)
  BY Received DEF RemovePeerFromFileToPeer, TypeOK
<1> HIDE DEF p
<1>2. ASSUME NEW g \in File, NEW q \in Peer
      PROVE  fileToPeer'[g][q] > 0 <=> fileToPeer[g][q] > 0 /\ q # p
  BY <1>1, <1>2 DEF updatedPeers, IndexesAgree, TypeOK
<1>3. Listed' = {h \in Listed : h[2] # p}
  BY <1>2 DEF Listed
<1>4. H!Drop(p)
  BY <1>3 DEF RemovePeerFromFileToPeer, H!Drop, clients
<1>5. QED
  BY <1>1, <1>4

\* An answer received is the hosts of the file asked for, or an error.
LEMMA ReplyTells ==
  ASSUME IndInv, respond \/ expire
  PROVE  H!Next \/ UNCHANGED H!vars
<1> DEFINE q == tracker.resp
           f == asked[tracker.resp]
<1>1. q \in Caller /\ f \in File /\ InHand(q)
  BY DEF respond, expire, IndInv, TypeOK, Select, Stopped, InHand
<1>2. Listed' = Listed
  BY DEF respond, expire, indexes, Listed
<1>3. CASE respond
  <2>1. tracker.hosts = {p \in Peer : InSlice(f, p)}
    BY <1>1, <1>3 DEF respond, IndInv, AnswerIsCurrent, AsAsked
  <2>2. answer' = [answer EXCEPT ![q] = H!Answer(f, H!HostsOf(f))]
    BY <1>1, <1>3, <2>1, ListedHosts DEF respond
  <2>3. H!Tell(q, f)
    BY <1>2, <2>2 DEF H!Tell
  <2>4. QED
    BY <1>1, <2>3 DEF H!Next
<1>4. CASE expire
  <2>1. CASE answer' = [answer EXCEPT ![q] = H!Answer(f, {})]
    <3>1. H!Fail(q, f)
      BY <1>2, <2>1 DEF H!Fail
    <3>2. QED
      BY <1>1, <3>1 DEF H!Next
  <2>2. CASE UNCHANGED answer
    BY <1>2, <2>2 DEF H!vars
  <2>3. QED
    BY <1>4, <2>1, <2>2 DEF expire, Unheard
<1>5. QED
  BY <1>3, <1>4

\* The tracker, its channels and its deadline implement the plain relation:
\* every caller is told the hosts of its file at that moment, or an error.
THEOREM Implementation == Spec => ImplementsHosts
<1>1. Init => H!Init
  BY DEF Init, H!Init, Listed
<1>2. IndInv /\ [Next]_vars => [H!Next]_(H!vars)
  <2> SUFFICES ASSUME IndInv, [Next]_vars
               PROVE  H!Next \/ UNCHANGED H!vars
    OBVIOUS
  <2>1. TypeOK /\ IndexesAgree
    BY DEF IndInv
  <2>2. CASE respond \/ expire
    BY <2>2, ReplyTells
  <2>3. CASE RemovePeerFromFileToPeer
    BY <2>1, <2>3, RemovalDrops DEF H!Next
  <2>4. ASSUME NEW f \in File, NEW p \in Peer, AddFile(f, p)
        PROVE  H!Next
    BY <2>1, <2>4, AddFileRegisters DEF H!Next
  <2>5. CASE UNCHANGED <<fileToPeer, answer>>
    BY <2>5 DEF H!vars, Listed
  <2>6. QED
    BY <2>2, <2>3, <2>4, <2>5
       DEF Next, Run, GetPeerWithFile, return, Stop, notifyRemoval, leave,
           ask, vars, indexes, clients
<1>3. QED
  BY <1>1, <1>2, Inductive, PTL DEF Spec, ImplementsHosts, H!Spec

=============================================================================
