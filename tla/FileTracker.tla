----------------------------- MODULE FileTracker -----------------------------
(***************************************************************************)
(* The file tracker of internal/fileTracker: one goroutine that owns two   *)
(* indexes, from a file to the peers that host it and back, takes queries  *)
(* and the peer manager's removals from two channels, and can be stopped.  *)
(*                                                                         *)
(* A slice of the map fileToPeer is kept as how often each peer is in it;  *)
(* its order decides nothing.  A key that is missing from a map is one     *)
(* with nothing in it: the code deletes what becomes empty.                *)
(*                                                                         *)
(* AddFile has no caller and no lock.  It is taken to run in the goroutine *)
(* of Run, between two events, as the other users of the maps do.          *)
(***************************************************************************)
EXTENDS Naturals, Sequences, FiniteSets

CONSTANTS
  File,            \* names of files
  Peer,            \* UUIDs
  Caller,          \* unbuffered response channels of those who ask
  QueryChanCap,    \* FileTrackerChanSize
  RemovalChanCap   \* buffer of FilePeerManagerChan

ASSUME FileTrackerAssumption ==
  /\ QueryChanCap \in Nat \ {0}
  /\ RemovalChanCap \in Nat \ {0}

VARIABLES
  fileToPeer,          \* how often a peer is in a file's slice
  peerToFiles,         \* the set of files of each peer
  fileTrackerChan,     \* queries: the file and the response channel
  filePeerManagerChan, \* RemovePeerEvents
  tracker,             \* Select, Stopped, or the answer being sent
  quit,                \* the channel quit is closed
  caller,              \* each caller is free, waiting, or gone
  asked,               \* the file each caller has asked for
  answer               \* the last answer each caller has had

indexes  == <<fileToPeer, peerToFiles>>
channels == <<fileTrackerChan, filePeerManagerChan>>
clients  == <<caller, asked, answer>>
vars     == <<indexes, channels, tracker, quit, clients>>

Select  == [at |-> "select"]
Stopped == [at |-> "stopped"]
Sending(q, f, group) ==
  [at |-> "answer", resp |-> q, file |-> f, hosts |-> group]

Listed  == {h \in File \X Peer : fileToPeer[h[1]][h[2]] > 0}

H == INSTANCE Hosts WITH hosts <- Listed

Init ==
  /\ fileToPeer = [f \in File |-> [p \in Peer |-> 0]]
  /\ peerToFiles = [p \in Peer |-> {}]
  /\ fileTrackerChan = <<>>
  /\ filePeerManagerChan = <<>>
  /\ tracker = Select
  /\ quit = FALSE
  /\ caller = [q \in Caller |-> "free"]
  /\ asked \in [Caller -> File]
  /\ answer = [q \in Caller |-> H!NoAnswer]

-----------------------------------------------------------------------------
(* Helpers.  A name with a suffix after `_' is a faulty variant of the     *)
(* definition that follows it; no action uses it.                          *)

InSlice(f, p) == fileToPeer[f][p] > 0

\* updatedPeers: the slices of a peer's files without the peer.
updatedPeers_DeleteKey(p) ==
  fileToPeer' = [f \in File |-> IF f \in peerToFiles[p]
                                THEN [q \in Peer |-> 0] ELSE fileToPeer[f]]

updatedPeers(p) ==
  fileToPeer' = [f \in File |-> IF f \in peerToFiles[p]
                                THEN [fileToPeer[f] EXCEPT ![p] = 0]
                                ELSE fileToPeer[f]]

\* delete(f.peerToFiles, peerID)
forgetFiles_Never(p) == UNCHANGED peerToFiles

forgetFiles(p) == peerToFiles' = [peerToFiles EXCEPT ![p] = {}]

\* There is room in a buffered channel.
Room_OneMore(chan, cap) == Len(chan) <= cap

Room(chan, cap) == Len(chan) < cap

\* The send after the deadline, without a default: it waits for the caller.
Unheard_Wait(q) == FALSE

\* Nobody receives the error: the default is taken.
Unheard(q) == UNCHANGED <<caller, answer>>

-----------------------------------------------------------------------------
(* Run                                                                     *)

AddFile(f, p) ==
  /\ tracker = Select
  /\ ~InSlice(f, p)
  /\ fileToPeer' = [fileToPeer EXCEPT ![f][p] = @ + 1]
  /\ peerToFiles' = [peerToFiles EXCEPT ![p] = @ \cup {f}]
  /\ UNCHANGED <<channels, tracker, quit, clients>>

\* case event := <-f.FileTrackerChan: copy the hosts, if any, for the answer.
GetPeerWithFile ==
  /\ tracker = Select
  /\ fileTrackerChan # <<>>
  /\ LET query == Head(fileTrackerChan) IN
     tracker' = Sending(query.resp, query.file,
                        {p \in Peer : InSlice(query.file, p)})
  /\ fileTrackerChan' = Tail(fileTrackerChan)
  /\ UNCHANGED <<indexes, filePeerManagerChan, quit, clients>>

\* case event.Response <- resp
respond ==
  /\ tracker.at = "answer"
  /\ caller[tracker.resp] = "waiting"
  /\ caller' = [caller EXCEPT ![tracker.resp] = "free"]
  /\ answer' = [answer EXCEPT ![tracker.resp] =
                  H!Answer(asked[tracker.resp], tracker.hosts)]
  /\ tracker' = Select
  /\ UNCHANGED <<indexes, channels, quit, asked>>

\* case <-ctx.Done(): the caller hears of the deadline if it is there.
expire ==
  /\ tracker.at = "answer"
  /\ \/ /\ caller[tracker.resp] = "waiting"
        /\ caller' = [caller EXCEPT ![tracker.resp] = "free"]
        /\ answer' = [answer EXCEPT ![tracker.resp] =
                        H!Answer(asked[tracker.resp], {})]
     \/ Unheard(tracker.resp)
  /\ tracker' = Select
  /\ UNCHANGED <<indexes, channels, quit, asked>>

\* case event := <-f.FilePeerManagerChan
RemovePeerFromFileToPeer ==
  /\ tracker = Select
  /\ filePeerManagerChan # <<>>
  /\ updatedPeers(Head(filePeerManagerChan))
  /\ forgetFiles(Head(filePeerManagerChan))
  /\ filePeerManagerChan' = Tail(filePeerManagerChan)
  /\ UNCHANGED <<fileTrackerChan, tracker, quit, clients>>

\* case <-f.quit: return, which is what Stop waits for.
return ==
  /\ tracker = Select
  /\ quit
  /\ tracker' = Stopped
  /\ UNCHANGED <<indexes, channels, quit, clients>>

Run == GetPeerWithFile \/ respond \/ expire \/ RemovePeerFromFileToPeer
         \/ return

Stop ==
  /\ ~quit
  /\ quit' = TRUE
  /\ UNCHANGED <<indexes, channels, tracker, clients>>

-----------------------------------------------------------------------------
(* The peer manager and those who ask                                      *)

notifyRemoval(p) ==
  /\ Room(filePeerManagerChan, RemovalChanCap)
  /\ filePeerManagerChan' = Append(filePeerManagerChan, p)
  /\ UNCHANGED <<indexes, fileTrackerChan, tracker, quit, clients>>

\* A response channel is used for one query at a time.
MayAsk_Again(q) == caller[q] \in {"free", "waiting"}

MayAsk(q) == caller[q] = "free"

ask(q, f) ==
  /\ MayAsk(q)
  /\ Room(fileTrackerChan, QueryChanCap)
  /\ fileTrackerChan' = Append(fileTrackerChan, [file |-> f, resp |-> q])
  /\ caller' = [caller EXCEPT ![q] = "waiting"]
  /\ asked' = [asked EXCEPT ![q] = f]
  /\ UNCHANGED <<indexes, filePeerManagerChan, tracker, quit, answer>>

\* The caller's own context ends: it does not receive any more.
leave(q) ==
  /\ caller[q] = "waiting"
  /\ caller' = [caller EXCEPT ![q] = "gone"]
  /\ UNCHANGED <<indexes, channels, tracker, quit, asked, answer>>

Next ==
  \/ Run
  \/ Stop
  \/ \E f \in File, p \in Peer : AddFile(f, p)
  \/ \E p \in Peer : notifyRemoval(p)
  \/ \E q \in Caller : leave(q) \/ \E f \in File : ask(q, f)

Spec == Init /\ [][Next]_vars

\* The goroutine goes on, its deadline of a minute comes, and select, which
\* chooses at random, takes each of its cases in the end.
FairSpec ==
  /\ Spec
  /\ WF_vars(Run)
  /\ SF_vars(RemovePeerFromFileToPeer)
  /\ SF_vars(return)

-----------------------------------------------------------------------------
(* Properties                                                              *)

Query == [file : File, resp : Caller]

TypeOK ==
  /\ fileToPeer \in [File -> [Peer -> Nat]]
  /\ peerToFiles \in [Peer -> SUBSET File]
  /\ fileTrackerChan \in Seq(Query)
  /\ Len(fileTrackerChan) <= QueryChanCap
  /\ filePeerManagerChan \in Seq(Peer)
  /\ Len(filePeerManagerChan) <= RemovalChanCap
  /\ tracker \in {Select, Stopped}
                   \cup [at : {"answer"}, resp : Caller, file : File,
                         hosts : SUBSET Peer]
  /\ quit \in BOOLEAN
  /\ caller \in [Caller -> {"free", "waiting", "gone"}]
  /\ asked \in [Caller -> File]
  /\ answer \in [Caller -> H!Answers]

\* The two indexes say the same, and no slice holds a peer twice: so a removal,
\* which finds its files in the one, takes the peer out of the other for good.
IndexesAgree ==
  \A f \in File, p \in Peer :
    fileToPeer[f][p] = IF f \in peerToFiles[p] THEN 1 ELSE 0

\* The inductive invariant: in addition, each caller has one query at most,
\* in the channel or in hand, and none while it is free; that query is for the
\* file it has asked for, and the answer in hand is the hosts of that file.
Queued(q) == {i \in 1..Len(fileTrackerChan) : fileTrackerChan[i].resp = q}
InHand(q) == tracker.at = "answer" /\ tracker.resp = q

OneQueryEach ==
  \A q \in Caller :
    /\ \A i, j \in Queued(q) : i = j
    /\ InHand(q) => Queued(q) = {}
    /\ caller[q] = "free" => ~InHand(q) /\ Queued(q) = {}

AsAsked ==
  \A q \in Caller :
    /\ \A i \in Queued(q) : fileTrackerChan[i].file = asked[q]
    /\ InHand(q) => tracker.file = asked[q]

AnswerIsCurrent ==
  tracker.at = "answer"
    => tracker.hosts = {p \in Peer : InSlice(tracker.file, p)}

IndInv == TypeOK /\ IndexesAgree /\ OneQueryEach /\ AsAsked /\ AnswerIsCurrent

\* The tracker implements the relation of module Hosts: what a caller is told
\* is the hosts at that moment of the file it asked for, however long its query
\* and the removals before and after it have waited in their channels.
ImplementsHosts == H!Spec

\* A removal is carried out unless the tracker is stopped: no caller that has
\* gone away keeps the tracker, and with it the peer manager, from going on.
RemovalsCarriedOut ==
  \A p \in Peer :
    (\E i \in 1..Len(filePeerManagerChan) : filePeerManagerChan[i] = p)
      ~> peerToFiles[p] = {} \/ quit

\* Stop, which waits for the goroutine, returns.
StopReturns == quit ~> tracker = Stopped

=============================================================================
