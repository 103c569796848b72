------------------------------ MODULE FileIndex ------------------------------
(***************************************************************************)
(* The index of the shared files and everybody who asks it                 *)
(* (internal/fileManager/fileManager.go, and the reading commands of       *)
(* internal/app/file_app.go): the goroutine of fileEventLoop with its      *)
(* three maps, the seeds that post additions and removals, the commands    *)
(* that wait for an answer until a deadline, and the readers of chunks,    *)
(* which wait without one.                                                 *)
(*                                                                         *)
(* Each AddFileEvent makes a FileInfo of its own, which the maps point to. *)
(* A pointer is the number of the FileInfo, in the order they were made.   *)
(* The order inside a slice of searchIndex is left out: a slice is how     *)
(* often each pointer is in it.                                            *)
(*                                                                         *)
(* This is the manager as Initialize starts it, with one fileEventLoop;    *)
(* module Seeding has the second loop that App.Start adds.                 *)
(***************************************************************************)
EXTENDS Terms, Chunks, FiniteSets

CONSTANTS
  Hash,            \* SHA-256 hashes
  Path,
  Share,           \* the ShareMetadata of the files that are seeded
  Query,           \* the texts that are searched for
  Caller,          \* goroutines that ask: App.Run, and readers of chunks
  Response,        \* response channels (those not referred to are made anew)
  Index,           \* chunk indexes asked for
  Size,            \* sizes that the file read from may have
  SeededSize,      \* the one it had when it was seeded
  FileEventChanCap,
  MaxFiles         \* bound on the FileInfos made

ASSUME FileIndexAssumption ==
  /\ Share \subseteq [path : Path, hash : Hash, terms : Seq(Text)]
  /\ Query \subseteq Text
  /\ Index \subseteq Int
  /\ Size \subseteq Nat
  /\ SeededSize \in Size
  /\ 2 * SeededSize < WordSize
  /\ FileEventChanCap \in Nat \ {0}
  /\ MaxFiles \in Nat \ {0}

VARIABLES
  state,           \* fm.state
  files,           \* every FileInfo made so far
  filesByHash, localSeededFiles, searchIndex,
  fileEventChan,
  eventLoop,       \* the event fileEventLoop is working on, or Idle
  response,        \* what is in the buffer (of one) of each response channel
  caller           \* where each caller is, and its local variables

maps == <<files, filesByHash, localSeededFiles, searchIndex>>
vars == <<state, maps, fileEventChan, eventLoop, response, caller>>

-----------------------------------------------------------------------------
(* Data                                                                    *)

FileInfo == 1..MaxFiles
Nil      == 0

\* filesByHash is a map of strings: hashes in hex, or the bytes themselves.
Hex(h) == <<"hex", h>>
Raw(h) == <<"raw", h>>
HashKey == {"hex", "raw"} \X Hash

\* Where the terms of a file (display name, file name, keywords) come to a key.
Entries(f, k) == UNION {{i} \X Places(f.terms[i], k) : i \in 1..Len(f.terms)}
Uses(f, k)    == Cardinality(Entries(f, k))

KeysOf(f) == UNION {{normalize(f.terms[i])}
                      \cup {Token(w) : w \in WordsOf(f.terms[i])}
                    : i \in 1..Len(f.terms)}
Key == UNION {KeysOf(f) : f \in Share}

AddFile    == [type : {"AddFile"}, file : Share]
RemoveFile == [type : {"RemoveFile"}, hash : Hash]
Request    == [type : {"GetFiles"}] \cup [type : {"GetFile"}, hash : Hash]
                \cup [type : {"Search"}, text : Query]
Asking     == [type : {"Request"}, request : Request, response : Response]
Event      == AddFile \cup RemoveFile \cup Asking

Idle  == [type |-> "Idle"]
Empty == [is |-> "Empty"]
\* A FileEventResponse; `to' says which request it was made for.
Answer(q, found) == [is |-> "Answer", to |-> q, files |-> found]

Free == [at |-> "free"]

Init ==
  /\ state = "initializing"
  /\ files = <<>>
  /\ filesByHash = [k \in HashKey |-> Nil]
  /\ localSeededFiles = {}
  /\ searchIndex = [k \in Key |-> [p \in FileInfo |-> 0]]
  /\ fileEventChan = <<>>
  /\ eventLoop = Idle
  /\ response = [r \in Response |-> Empty]
  /\ caller = [c \in Caller |-> Free]

-----------------------------------------------------------------------------
(* The maps.  A name with a suffix after `_' is a faulty variant of the    *)
(* definition that follows it; no action uses it.                          *)

At(c, place) == caller[c].at = place

Listed(p) == \E k \in HashKey : filesByHash[k] = p

Post_OneMore(e) ==
  /\ Len(fileEventChan) <= FileEventChanCap
  /\ fileEventChan' = Append(fileEventChan, e)

\* FileEventChan <- e
Post(e) ==
  /\ Len(fileEventChan) < FileEventChanCap
  /\ fileEventChan' = Append(fileEventChan, e)

registerFile_FirstWins(f) ==
  LET p == Len(files) + 1 IN
  /\ files' = Append(files, f)
  /\ filesByHash' = [filesByHash EXCEPT ![Hex(f.hash)] =
                       IF @ = Nil THEN p ELSE @]
  /\ localSeededFiles' = localSeededFiles \cup {f.path}
  /\ searchIndex' = [k \in Key |->
                       [searchIndex[k] EXCEPT ![p] = @ + Uses(f, k)]]

\* registerFile and addSearchTerm, of a FileInfo made for f.
registerFile(f) ==
  LET p == Len(files) + 1 IN
  /\ files' = Append(files, f)
  /\ filesByHash' = [filesByHash EXCEPT ![Hex(f.hash)] = p]
  /\ localSeededFiles' = localSeededFiles \cup {f.path}
  /\ searchIndex' = [k \in Key |->
                       [searchIndex[k] EXCEPT ![p] = @ + Uses(f, k)]]

removeSearchTerm_Once(p, k) ==
  IF Uses(files[p], k) = 0 \/ searchIndex[k][p] = 0
  THEN searchIndex[k][p]
  ELSE searchIndex[k][p] - 1

\* removeSearchTerm for every term: at each place where registerFile came to
\* the key, removeFileFromSlice takes one pointer out if there is one.
removeSearchTerm(p, k) ==
  LET n == searchIndex[k][p] IN
  IF n <= Uses(files[p], k) THEN 0 ELSE n - Uses(files[p], k)

removeFormMap_KeepPath(h) ==
  LET p == filesByHash[Hex(h)] IN
  /\ IF p = Nil
     THEN UNCHANGED <<filesByHash, searchIndex>>
     ELSE /\ filesByHash' = [filesByHash EXCEPT ![Hex(h)] = Nil]
          /\ searchIndex' = [k \in Key |->
               [searchIndex[k] EXCEPT ![p] = removeSearchTerm(p, k)]]
  /\ UNCHANGED <<files, localSeededFiles>>

\* removeFormMap: what it removes is what the hash leads to now.
removeFormMap(h) ==
  LET p == filesByHash[Hex(h)] IN
  /\ IF p = Nil
     THEN UNCHANGED <<filesByHash, localSeededFiles, searchIndex>>
     ELSE /\ filesByHash' = [filesByHash EXCEPT ![Hex(h)] = Nil]
          /\ localSeededFiles' = localSeededFiles \ {files[p].path}
          /\ searchIndex' = [k \in Key |->
               [searchIndex[k] EXCEPT ![p] = removeSearchTerm(p, k)]]
  /\ UNCHANGED files

-----------------------------------------------------------------------------
(* Start-up: Initialize                                                    *)

\* loadMetaDataFile registers a file before any goroutine runs.
loadMetaDataFile(f) ==
  /\ state = "initializing"
  /\ Len(files) < MaxFiles
  /\ registerFile(f)
  /\ UNCHANGED <<state, fileEventChan, eventLoop, response, caller>>

\* fm.Run(); fm.setState(StateReady)
Initialize ==
  /\ state = "initializing"
  /\ state' = "ready"
  /\ UNCHANGED <<maps, fileEventChan, eventLoop, response, caller>>

-----------------------------------------------------------------------------
(* fileEventLoop                                                           *)

\* Take an event; addToMap and removeFormMap begin with setState.
takeEvent ==
  /\ state # "initializing"
  /\ eventLoop = Idle
  /\ fileEventChan # <<>>
  /\ eventLoop' = Head(fileEventChan)
  /\ fileEventChan' = Tail(fileEventChan)
  /\ state' = IF eventLoop'.type = "Request" THEN state ELSE "update"
  /\ UNCHANGED <<maps, response, caller>>

addToMap ==
  /\ eventLoop.type = "AddFile"
  /\ registerFile(eventLoop.file)
  /\ state' = "ready"
  /\ eventLoop' = Idle
  /\ UNCHANGED <<fileEventChan, response, caller>>

removeFile_NotDeferred ==
  /\ eventLoop.type = "RemoveFile"
  /\ removeFormMap(eventLoop.hash)
  /\ state' = IF filesByHash[Hex(eventLoop.hash)] = Nil THEN state
              ELSE "ready"
  /\ eventLoop' = Idle
  /\ UNCHANGED <<fileEventChan, response, caller>>

\* removeFormMap, and the deferred setState.
removeFile ==
  /\ eventLoop.type = "RemoveFile"
  /\ removeFormMap(eventLoop.hash)
  /\ state' = "ready"
  /\ eventLoop' = Idle
  /\ UNCHANGED <<fileEventChan, response, caller>>

\* Pointers found under any of the keys of a query.
Hits(q) == {p \in FileInfo : \E k \in Variations(q) \cap Key :
                               searchIndex[k][p] > 0}

\* appendUniqueFile: of the pointers with one path the first that turns up.
OnePerPath(hits) ==
  {found \in SUBSET hits :
     /\ \A p \in hits : \E q \in found : files[q].path = files[p].path
     /\ \A p, q \in found : files[p].path = files[q].path => p = q}

Found(k) == {filesByHash[k]} \ {Nil}

\* getFiles, getFile and SearchFile.  getFile looks up string(fileHash).  That
\* SearchFile also takes a hash is left out: nothing sends it one.
Answers(q) ==
  CASE q.type = "GetFiles" -> {{filesByHash[k] : k \in HashKey} \ {Nil}}
    [] q.type = "GetFile"  -> {Found(Raw(q.hash))}
    [] q.type = "Search"   -> OnePerPath(Hits(q.text))

\* Somebody is at the other end of the channel.  What is in the others is
\* left out.
Awaited(r) == \E c \in Caller : At(c, "answer") /\ caller[c].response = r

Send_IfFound(r, q, found) ==
  response' = IF Awaited(r) /\ found # {}
              THEN [response EXCEPT ![r] = Answer(q, found)] ELSE response

\* resp <- the answer; SearchFile does without if there is no room.
Send(r, q, found) ==
  /\ response[r] = Empty \/ q.type = "Search"
  /\ response' = IF Awaited(r) /\ response[r] = Empty
                 THEN [response EXCEPT ![r] = Answer(q, found)] ELSE response

answerRequest ==
  /\ eventLoop.type = "Request"
  /\ \E found \in Answers(eventLoop.request) :
       Send(eventLoop.response, eventLoop.request, found)
  /\ eventLoop' = Idle
  /\ UNCHANGED <<state, maps, fileEventChan, caller>>

fileEventLoop == takeEvent \/ addToMap \/ removeFile \/ answerRequest

-----------------------------------------------------------------------------
(* Seeds: the posts of localSeed and removeSeed                            *)

\* FileInfos made, and the one the loop is about to make.
Made == Len(files) + (IF eventLoop.type = "AddFile" THEN 1 ELSE 0)

\* Bound: an addition is posted only while MaxFiles leaves room for it and for
\* all that is before it in the channel.
announce(f) ==
  /\ state # "initializing"
  /\ Made + Len(fileEventChan) < MaxFiles
  /\ Post([type |-> "AddFile", file |-> f])
  /\ UNCHANGED <<state, maps, eventLoop, response, caller>>

\* A removal names a file that some answer contained, however long ago.
announceRemoval(p) ==
  /\ state # "initializing"
  /\ Post([type |-> "RemoveFile", hash |-> files[p].hash])
  /\ UNCHANGED <<state, maps, eventLoop, response, caller>>

-----------------------------------------------------------------------------
(* Callers: the reading commands of App.Run                                *)

Goto(c, there) == caller' = [caller EXCEPT ![c] = there]

\* handleSearchForAFile turns a search down while the state is not Ready; the
\* other commands do not look.
command(c, q) ==
  /\ At(c, "free")
  /\ state # "initializing"
  /\ q.type = "Search" => state = "ready"
  /\ Goto(c, [at |-> "queue", request |-> q, deadline |-> TRUE, index |-> 0])
  /\ UNCHANGED <<state, maps, fileEventChan, eventLoop, response>>

\* The requests that an answer will be sent to.
Asked == {e \in {eventLoop} \cup {fileEventChan[i] : i \in 1..Len(fileEventChan)}
          : e.type = "Request"}

MakeChannel_Shared(r) == ~Awaited(r)

\* make(chan FileEventResponse, 1): nobody else has it.
MakeChannel(r) == ~Awaited(r) /\ \A e \in Asked : e.response # r

\* FileEventChan <- the request with its response channel
ask(c) ==
  /\ At(c, "queue")
  /\ \E r \in Response :
       /\ MakeChannel(r)
       /\ Post([type |-> "Request", request |-> caller[c].request,
                response |-> r])
       /\ Goto(c, [at |-> "answer", request |-> caller[c].request,
                   deadline |-> caller[c].deadline,
                   index |-> caller[c].index, response |-> r])
  /\ UNCHANGED <<state, maps, eventLoop, response>>

\* case <-ctx.Done(), before the request is queued or after
timeout(c) ==
  /\ At(c, "queue") \/ At(c, "answer")
  /\ caller[c].deadline
  /\ Goto(c, Free)
  /\ response' = [r \in Response |->
       IF At(c, "answer") /\ caller[c].response = r THEN Empty ELSE response[r]]
  /\ UNCHANGED <<state, maps, fileEventChan, eventLoop>>

\* case result := <-resp.  A command passes the files on; a reader takes the
\* path of the first and gives up when there is none.
receive(c) ==
  /\ At(c, "answer")
  /\ LET r == caller[c].response IN
     /\ response[r] # Empty
     /\ Goto(c, IF caller[c].deadline \/ response[r].files = {} THEN Free
                ELSE [at |-> "stat", index |-> caller[c].index])
     /\ response' = [response EXCEPT ![r] = Empty]
  /\ UNCHANGED <<state, maps, fileEventChan, eventLoop>>

-----------------------------------------------------------------------------
(* Callers: SendFilePacket, with ReadFileChunks and ReadChunkFile, and     *)
(* ReadChunk, which is the same up to the read.  The file is read while    *)
(* its owner may edit it: each call meets some size, and the content as it *)
(* was seeded or another.                                                  *)

NoWait(c) == UNCHANGED <<state, maps, fileEventChan, eventLoop, response>>

\* Called with a path, or with a hash to look the path up by.
SendFilePacket(c, i) ==
  /\ At(c, "free")
  /\ state # "initializing"
  /\ \/ Goto(c, [at |-> "stat", index |-> i])
     \/ \E h \in Hash :
          Goto(c, [at |-> "queue", request |-> [type |-> "GetFile", hash |-> h],
                   deadline |-> FALSE, index |-> i])
  /\ NoWait(c)

\* os.Stat, and the offset checked against the size; or an error.
stat(c) ==
  /\ At(c, "stat")
  /\ \/ \E n \in Size :
          LET offset == ChunkOffset(caller[c].index) IN
          /\ InFile(offset, n)
          /\ \E same \in {n = SeededSize, FALSE} :
               Goto(c, [at |-> "read", index |-> caller[c].index,
                        offset |-> offset, wanted |-> ReadSize(offset, n),
                        same |-> same])
     \/ Goto(c, Free)
  /\ NoWait(c)

\* os.Open, Seek and io.ReadFull; or an error.  ReadChunk returns here.
read(c) ==
  /\ At(c, "read")
  /\ \/ \E n \in Size :
          LET from == caller[c].offset IN
          \E same \in {n = SeededSize /\ caller[c].same, FALSE} :
            Goto(c, [at |-> "digest", index |-> caller[c].index,
                     from |-> from, same |-> same,
                     length |-> BytesRead(from, caller[c].wanted, n)])
     \/ Goto(c, Free)
  /\ NoWait(c)

\* ReadChunkFile: the digest of the chunk as it was seeded; or an error.
readDigest(c) ==
  /\ At(c, "digest")
  /\ \/ /\ DigestThere(caller[c].index, SeededSize)
        /\ Goto(c, [at |-> "packet", index |-> caller[c].index,
                    from |-> caller[c].from, length |-> caller[c].length,
                    same |-> caller[c].same,
                    digest |-> DigestOf(caller[c].index)])
     \/ Goto(c, Free)
  /\ NoWait(c)

\* The packet is built and handed over.
sendPacket(c) ==
  /\ At(c, "packet")
  /\ Goto(c, Free)
  /\ NoWait(c)

-----------------------------------------------------------------------------

callerStep(c) == receive(c) \/ stat(c) \/ read(c) \/ readDigest(c) \/ sendPacket(c)

Next ==
  \/ \E f \in Share : loadMetaDataFile(f) \/ announce(f)
  \/ Initialize
  \/ fileEventLoop
  \/ \E p \in 1..Len(files) : announceRemoval(p)
  \/ \E c \in Caller :
       \/ \E q \in Request : command(c, q)
       \/ \E i \in Index : SendFilePacket(c, i)
       \/ ask(c)
       \/ timeout(c)
       \/ callerStep(c)

Spec == Init /\ [][Next]_vars

\* The event loop is one goroutine that nothing ends.  A sender waits in the
\* queue of a full channel and is served in turn, though others post as well.
\* No deadline has to pass, no user to act, no seed to end.
FairSpec ==
  /\ Spec
  /\ WF_vars(fileEventLoop)
  /\ \A c \in Caller : SF_vars(ask(c)) /\ WF_vars(callerStep(c))

-----------------------------------------------------------------------------
(* Properties                                                              *)

Place ==
       [at : {"free"}]
  \cup [at : {"queue"}, request : Request, deadline : BOOLEAN, index : Int]
  \cup [at : {"answer"}, request : Request, deadline : BOOLEAN, index : Int,
        response : Response]
  \cup [at : {"stat"}, index : Int]
  \cup [at : {"read"}, index : Int, offset : Int, wanted : Int, same : BOOLEAN]
  \cup [at : {"digest"}, index : Int, from : Int, length : Int, same : BOOLEAN]
  \cup [at : {"packet"}, index : Int, from : Int, length : Int, same : BOOLEAN,
        digest : Int]

\* Each variable has the values its declaration in the code admits.
TypeOK ==
  /\ state \in {"initializing", "ready", "update"}
  /\ files \in Seq(Share)
  /\ filesByHash \in [HashKey -> FileInfo \cup {Nil}]
  /\ localSeededFiles \subseteq Path
  /\ searchIndex \in [Key -> [FileInfo -> Nat]]
  /\ fileEventChan \in Seq(Event)
  /\ Len(fileEventChan) <= FileEventChanCap
  /\ Made <= MaxFiles
  /\ \A i \in 1..Len(fileEventChan) :
       fileEventChan[i].type = "AddFile" => Made + i <= MaxFiles
  /\ eventLoop \in Event \cup {Idle}
  /\ response \in [Response -> {Empty}
       \cup [is : {"Answer"}, to : Request, files : SUBSET FileInfo]]
  /\ caller \in [Caller -> Place]

Indexed(p) == \A k \in Key : searchIndex[k][p] = Uses(files[p], k)
Unindexed(p) == \A k \in Key : searchIndex[k][p] = 0

\* Three maps agree: a file that a hash leads to has that hash and is in the
\* index exactly as often as its terms put it there, and every other file is
\* either still wholly in the index or, its every entry taken back, wholly out
\* of it.  (Removal walks the terms again and must undo addSearchTerm entry by
\* entry, the words two terms share included.)
IndexExact ==
  /\ \A h \in Hash : filesByHash[Raw(h)] = Nil
  /\ \A h \in Hash : LET p == filesByHash[Hex(h)] IN
       p # Nil => p <= Len(files) /\ files[p].hash = h /\ Indexed(p)
  /\ \A p \in FileInfo :
       IF p <= Len(files) THEN Indexed(p) \/ Unindexed(p) ELSE Unindexed(p)

\* A file that is listed is found by every query that has a word in common with
\* its names and keywords, however either is spaced and in whatever case, and
\* a search finds nothing else.
Searchable ==
  \A q \in Query :
    /\ \A p \in FileInfo : Listed(p) /\ ShareAWord(files[p], q) => p \in Hits(q)
    /\ \A p \in Hits(q) : p <= Len(files) /\ ShareAWord(files[p], q)

\* A later registration of the same content took its place in filesByHash.
Displaced(p) == \E q \in p + 1..Len(files) : files[q].hash = files[p].hash

\* What removals leave behind: an entry of the index, and a path taken for
\* seeded, is that of a listed file, or of one that another file of the same
\* content has displaced and no removal reaches any more.
TracesOfListed ==
  /\ \A p \in FileInfo, k \in Key :
       searchIndex[k][p] > 0 => p <= Len(files) /\ (Listed(p) \/ Displaced(p))
  /\ \A path \in localSeededFiles : \E p \in 1..Len(files) :
       files[p].path = path /\ (Listed(p) \/ Displaced(p))

\* Searches are turned down because of an update only while one is going on.
UpdateEnds ==
  state = "update" => eventLoop.type \in {"AddFile", "RemoveFile"}

\* Whoever waits for an answer gets that of the request it made, never the late
\* one of a request it gave up.
AnswersOwnRequest ==
  \A c \in Caller : At(c, "answer") =>
    \/ response[caller[c].response] = Empty
    \/ response[caller[c].response].to = caller[c].request

\* The packet of a file that was not edited meanwhile has one whole chunk of it
\* and the digest of that chunk, even where the products of the index wrap.
PacketIsChunk ==
  \A c \in Caller : At(c, "packet") /\ caller[c].same =>
    LET from == caller[c].from IN
    /\ InFile(from, SeededSize)
    /\ from = caller[c].digest * ChunkSize
    /\ caller[c].length = Smaller(ChunkSize, SeededSize - from)

\* A response channel belongs to one request: two callers never wait on one, an
\* event that has it is of the request its caller made, and it is empty when
\* nobody waits.
ChannelsApart ==
  /\ \A c, d \in Caller :
       At(c, "answer") /\ At(d, "answer")
         /\ caller[c].response = caller[d].response => c = d
  /\ \A c \in Caller, e \in Asked :
       At(c, "answer") /\ caller[c].response = e.response
         => e.request = caller[c].request
  /\ \A r \in Response : response[r] = Empty \/ Awaited(r)

\* What a reader has in hand is what the index it was given asks for.
OnCourse(c) ==
  LET here == caller[c] IN
  /\ At(c, "read") =>
       /\ here.offset = ChunkOffset(here.index)
       /\ here.same => /\ InFile(here.offset, SeededSize)
                       /\ here.wanted = ReadSize(here.offset, SeededSize)
  /\ At(c, "digest") \/ At(c, "packet") =>
       /\ here.from = ChunkOffset(here.index)
       /\ here.same => /\ InFile(here.from, SeededSize)
                       /\ here.length = ReadSize(here.from, SeededSize)
  /\ At(c, "packet") =>
       /\ DigestThere(here.index, SeededSize)
       /\ here.digest = DigestOf(here.index)

\* Until Initialize has loaded what is on the disk nobody else is there.
AloneAtFirst ==
  state = "initializing" =>
    /\ fileEventChan = <<>>
    /\ eventLoop = Idle
    /\ \A c \in Caller : At(c, "free")

\* The invariant behind the others, inductive with TypeOK.
IndInv ==
  /\ AloneAtFirst
  /\ IndexExact
  /\ TracesOfListed
  /\ UpdateEnds
  /\ ChannelsApart
  /\ AnswersOwnRequest
  /\ \A c \in Caller : OnCourse(c)

-----------------------------------------------------------------------------
(* What this implements                                                    *)

listedFiles   == {p \in FileInfo : Listed(p)}
findableFiles == {p \in FileInfo : ~Unindexed(p)}

\* Who asks has done so from the command on, wherever the request is, and has
\* been told when there is an answer in its response channel.
Asks(c) == At(c, "queue") \/ At(c, "answer")
HasAnswer(c) == At(c, "answer") /\ response[caller[c].response] # Empty

heard(c) ==
  IF HasAnswer(c)
  THEN [has |-> "answer", request |-> caller[c].request,
        files |-> response[caller[c].response].files]
  ELSE IF Asks(c) THEN [has |-> "asked", request |-> caller[c].request]
  ELSE [has |-> "nothing"]

L == INSTANCE Library WITH
  made     <- files,
  listed   <- listedFiles,
  findable <- findableFiles,
  asked    <- [c \in Caller |-> heard(c)]

\* Behind the queue, the three maps and the response channels there is one index
\* that changes in one step: an answer is exact at a moment between the question
\* and its receipt, whatever additions and removals stand in the queue, however
\* late it is and whoever gave up before.
ImplementsLibrary == L!Spec

-----------------------------------------------------------------------------
(* Liveness                                                                *)

\* Whoever asks comes back, the readers without a deadline included.
CallersReturn ==
  \A c \in Caller : caller[c].at # "free" ~> caller[c].at = "free"

=============================================================================
