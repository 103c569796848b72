------------------------------- MODULE Seeding -------------------------------
(***************************************************************************)
(* Sharing local files (internal/fileManager, and handleSeedLocalFile of   *)
(* internal/app): the goroutines that seed and unseed, the two directories *)
(* they keep on disk, the maps that the event loop keeps in memory, and    *)
(* what a restart makes of the directories.                                *)
(*                                                                         *)
(* A file on disk is Absent, Partial (created and not wholly written), or  *)
(* whole, and then known by what it was made from.  The Size and           *)
(* ModifiedAt of a source are its version: every change of a source is     *)
(* taken to show in one of the two.                                        *)
(*                                                                         *)
(* App.Start calls Initialize, which calls Run, and then calls Run itself: *)
(* there are two seedLoops on SeedChan and two fileEventLoops on           *)
(* FileEventChan, which share the maps without a lock.                     *)
(***************************************************************************)
EXTENDS Naturals, Sequences, FiniteSets

CONSTANTS
  Path,            \* paths given in seed requests
  Name,            \* their base names
  Content,         \* contents of files, one for each SHA-256 hash
  Seeder,          \* goroutines running localSeed (bound on those at once)
  SeedLoop,        \* goroutines running seedLoop
  EventLoop,       \* goroutines running fileEventLoop
  Base,            \* filepath.Base
  Abs,             \* filepath.Abs: two paths may name one file
  Request,         \* the types of requests that are made
  Fault,           \* the kinds of system calls that may fail
  SeedChanCap,     \* buffer of SeedChan
  FileEventChanCap,\* buffer of FileEventChan
  MaxVersion,      \* bound on the changes of one source
  MaxCopies        \* bound on the entries of one file in the search index

Requests == {"LocalSeed", "RemoveSeed", "ReSeed"}
Faults   == {"read", "write", "remove"}

Gone == "Gone"   \* the content of a source that is not there

ASSUME SeedingAssumption ==
  /\ Base \in [Path -> Name]
  /\ Abs \in [Path -> Path]
  /\ \A p \in Path : Abs[Abs[p]] = Abs[p] /\ Base[Abs[p]] = Base[p]
  /\ Request \subseteq Requests
  /\ Fault \subseteq Faults
  /\ Gone \notin Content
  /\ SeedChanCap \in Nat \ {0}
  /\ FileEventChanCap \in Nat \ {0}
  /\ MaxVersion \in Nat
  /\ MaxCopies \in Nat \ {0}

VARIABLES
  source,           \* the user's files, by absolute path
  chunks,           \* chunks/<name>.bgchunk
  meta,             \* metadata/<name>.bgmeta
  seedChan,
  seedLoop,         \* the request each seedLoop is at, and where
  seeder,           \* where each localSeed is, and the metadata it gathers
  linked,           \* seeders whose open file is still in its directory
  fileEventChan,
  eventLoop,        \* the event each fileEventLoop has taken
  filesByHash,
  localSeededFiles,
  searchIndex       \* how often each file is listed under its terms

disk   == <<chunks, meta>>
memory == <<filesByHash, localSeededFiles, searchIndex>>
vars   == <<source, disk, seedChan, seedLoop, seeder, linked, fileEventChan,
            eventLoop, memory>>

Absent  == [is |-> "Absent"]
Partial == [is |-> "Partial"]
NoFile  == [is |-> "NoFile"]

\* FileInfo: what a map entry and an event say of a file.
FileInfo == [is : {"File"}, path : Path, hash : Content]
File(p, h) == [is |-> "File", path |-> p, hash |-> h]

ChunkFile == [is : {"Chunks"}, of : Content]
MetaFile  == [is : {"Meta"}, path : Path, version : 0..MaxVersion,
              hash : Content, chunkFile : ChunkFile \cup {Partial}]

Free == [at |-> "free"]
Idle == [at |-> "idle"]
Took(e) == [at |-> "took", event |-> e]

Init ==
  /\ source \in [Path -> [content : Content, version : {0}]]
  /\ chunks = [n \in Name |-> Absent]
  /\ meta = [n \in Name |-> Absent]
  /\ seedChan = <<>>
  /\ seedLoop = [l \in SeedLoop |-> Idle]
  /\ seeder = [s \in Seeder |-> Free]
  /\ linked = {}
  /\ fileEventChan = <<>>
  /\ eventLoop = [l \in EventLoop |-> Idle]
  /\ filesByHash = [h \in Content |-> NoFile]
  /\ localSeededFiles = {}
  /\ searchIndex = [f \in FileInfo |-> 0]

-----------------------------------------------------------------------------
(* Requests                                                                *)

Exists(p) == source[Abs[p]].content # Gone

\* getFiles and SearchFile: the entries the event loop returns.
getFiles == {filesByHash[h] : h \in Content} \ {NoFile}
SearchResults == {f \in FileInfo : searchIndex[f] > 0}

\* SeedChan <- a request; on a full channel it is dropped.
PostRequest(type, p, f) ==
  /\ type \in Request
  /\ Len(seedChan) < SeedChanCap
  /\ seedChan' = Append(seedChan, [type |-> type, path |-> p, file |-> f])
  /\ UNCHANGED <<source, disk, seedLoop, seeder, linked, fileEventChan,
                 eventLoop, memory>>

\* A file is seeded from the console if it is there.
handleSeedLocalFile(p) == Exists(p) /\ PostRequest("LocalSeed", p, NoFile)

\* Whoever holds the manager may remove or renew what it lists.
requestOther(f) ==
  \/ PostRequest("RemoveSeed", f.path, f)
  \/ PostRequest("ReSeed", f.path, f)

\* go fm.localSeed(req)
Spawn(p) ==
  \E s \in Seeder :
    /\ seeder[s] = Free
    /\ seeder' = [seeder EXCEPT ![s] = [at |-> "stat", path |-> p]]

\* for req := range fm.SeedChan
takeRequest(l) ==
  /\ seedLoop[l] = Idle
  /\ seedChan # <<>>
  /\ seedChan' = Tail(seedChan)
  /\ LET req == Head(seedChan) IN
     IF req.type = "LocalSeed"
     THEN Spawn(req.path) /\ UNCHANGED seedLoop
     ELSE /\ seedLoop' = [seedLoop EXCEPT ![l] =
                            [at |-> "meta", file |-> req.file,
                             again |-> req.type = "ReSeed"]]
          /\ UNCHANGED seeder
  /\ UNCHANGED <<source, disk, linked, fileEventChan, eventLoop, memory>>

-----------------------------------------------------------------------------
(* Files.  A name with a suffix after `_' is a faulty variant of the       *)
(* definition that follows it; no action uses it.                          *)

NameOf(s) == Base[seeder[s].path]

\* os.Remove of one file: who has it open writes to nothing from now on.
Unlink(dir, n) == [dir EXCEPT ![n] = Absent]
StillLinked(n, step) ==
  {s \in linked : ~(seeder[s].at = step /\ NameOf(s) = n)}

removeChunkFile(n) ==
  /\ chunks' = Unlink(chunks, n)
  /\ linked' = StillLinked(n, "writeChunks")

removeMetaFile(n) ==
  /\ meta' = Unlink(meta, n)
  /\ linked' = StillLinked(n, "writeMeta")

\* Whoever has written its file closes it.
Close_Never(s) == UNCHANGED linked

Close(s) == linked' = linked \ {s}

MayFail(call) == call \in Fault

-----------------------------------------------------------------------------
(* localSeed                                                               *)

Goto(s, step) == seeder' = [seeder EXCEPT ![s].at = step]

Return(s) ==
  /\ seeder' = [seeder EXCEPT ![s] = Free]
  /\ UNCHANGED linked

\* The file must be there and not listed as seeded.
statSource(s) ==
  /\ seeder[s].at = "stat"
  /\ LET p == seeder[s].path IN
     IF Exists(p) /\ Abs[p] \notin localSeededFiles
     THEN /\ seeder' = [seeder EXCEPT ![s] =
                          [at |-> "name", path |-> p,
                           version |-> source[Abs[p]].version]]
          /\ UNCHANGED linked
     ELSE Return(s)
  /\ UNCHANGED <<source, disk, seedChan, seedLoop, fileEventChan, eventLoop,
                 memory>>

checkName_Never(s) ==
  /\ seeder[s].at = "name"
  /\ Goto(s, "hash")
  /\ UNCHANGED <<source, disk, linked, seedChan, seedLoop, fileEventChan,
                 eventLoop, memory>>

\* "check if same name file exist or not"
checkName(s) ==
  /\ seeder[s].at = "name"
  /\ IF meta[NameOf(s)] = Absent
     THEN Goto(s, "hash") /\ UNCHANGED linked
     ELSE Return(s)
  /\ UNCHANGED <<source, disk, seedChan, seedLoop, fileEventChan, eventLoop,
                 memory>>

\* What reading the source may give: a source changed since it was looked at
\* may be read in part before and in part after the change.
Reading(s) ==
  LET now == source[Abs[seeder[s].path]] IN
  IF now.version = seeder[s].version THEN {now.content} ELSE Content

\* populateFileHash.  From here on an error runs the deferred removal.
populateFileHash(s) ==
  /\ seeder[s].at = "hash"
  /\ \/ /\ Exists(seeder[s].path)
        /\ \E h \in Reading(s) :
             seeder' = [seeder EXCEPT ![s] =
                          [at |-> "create", path |-> seeder[s].path,
                           version |-> seeder[s].version, hash |-> h]]
     \/ /\ ~Exists(seeder[s].path) \/ MayFail("read")
        /\ Goto(s, "undoChunks")
  /\ UNCHANGED <<source, disk, linked, seedChan, seedLoop, fileEventChan,
                 eventLoop, memory>>

\* createChunkFile: open the source, create or truncate the chunk file.
createChunkFile(s) ==
  /\ seeder[s].at = "create"
  /\ \/ /\ Exists(seeder[s].path)
        /\ chunks' = [chunks EXCEPT ![NameOf(s)] = Partial]
        /\ linked' = linked \cup {s}
        /\ Goto(s, "writeChunks")
     \/ /\ ~Exists(seeder[s].path) \/ MayFail("write")
        /\ Goto(s, "undoChunks")
        /\ UNCHANGED <<chunks, linked>>
  /\ UNCHANGED <<source, meta, seedChan, seedLoop, fileEventChan, eventLoop,
                 memory>>

\* The hash of every block of the source, which stays readable while it is
\* open.  On an error createChunkFile removes the file by its name.
writeChunks(s) ==
  /\ seeder[s].at = "writeChunks"
  /\ \/ /\ \E c \in Reading(s) :
             chunks' = IF s \in linked
                       THEN [chunks EXCEPT ![NameOf(s)] =
                               [is |-> "Chunks", of |-> c]]
                       ELSE chunks
        /\ Close(s)
        /\ Goto(s, "chunkInfo")
     \/ /\ MayFail("read") \/ MayFail("write")
        /\ removeChunkFile(NameOf(s))
        /\ Goto(s, "undoChunks")
  /\ UNCHANGED <<source, meta, seedChan, seedLoop, fileEventChan, eventLoop,
                 memory>>

chunkInfo_StampAgain(s) ==
  /\ seeder[s].at = "chunkInfo"
  /\ chunks[NameOf(s)] # Absent
  /\ seeder' = [seeder EXCEPT ![s] =
                  [at |-> "createMeta", path |-> seeder[s].path,
                   version |-> source[Abs[seeder[s].path]].version,
                   hash |-> seeder[s].hash,
                   chunkFile |-> chunks[NameOf(s)]]]
  /\ UNCHANGED <<source, disk, linked, seedChan, seedLoop, fileEventChan,
                 eventLoop, memory>>

\* The rest of populateChunkMetadata: size, time and hash of the chunk file.
chunkInfo(s) ==
  /\ seeder[s].at = "chunkInfo"
  /\ LET there == chunks[NameOf(s)] IN
     \/ /\ there # Absent
        /\ seeder' = [seeder EXCEPT ![s] =
                        [at |-> "createMeta", path |-> seeder[s].path,
                         version |-> seeder[s].version,
                         hash |-> seeder[s].hash,
                         chunkFile |-> there]]
     \/ /\ there = Absent \/ MayFail("read")
        /\ Goto(s, "undoChunks")
  /\ UNCHANGED <<source, disk, linked, seedChan, seedLoop, fileEventChan,
                 eventLoop, memory>>

\* writeMetadataFile: os.WriteFile creates the file and then writes it.  When
\* it fails the file is removed and the seed goes on as if it had not.
writeMetadataFailed(s) ==
  /\ MayFail("write")
  /\ removeMetaFile(NameOf(s))
  /\ Goto(s, "announce")

createMeta(s) ==
  /\ seeder[s].at = "createMeta"
  /\ \/ /\ meta' = [meta EXCEPT ![NameOf(s)] = Partial]
        /\ linked' = linked \cup {s}
        /\ Goto(s, "writeMeta")
     \/ writeMetadataFailed(s)
  /\ UNCHANGED <<source, chunks, seedChan, seedLoop, fileEventChan, eventLoop,
                 memory>>

\* Written over what another seeder wrote into the same file, it may leave the
\* end of the other's text behind.
writeMeta(s) ==
  /\ seeder[s].at = "writeMeta"
  /\ LET mine == [is |-> "Meta", path |-> seeder[s].path,
                  version |-> seeder[s].version, hash |-> seeder[s].hash,
                  chunkFile |-> seeder[s].chunkFile]
         n == NameOf(s) IN
     \/ /\ meta' \in {[meta EXCEPT ![n] = written] : written \in
                       (CASE s \notin linked    -> {meta[n]}
                          [] meta[n] = Partial -> {mine}
                          [] OTHER             -> {mine, Partial})}
        /\ Close(s)
        /\ Goto(s, "announce")
     \/ writeMetadataFailed(s)
  /\ UNCHANGED <<source, chunks, seedChan, seedLoop, fileEventChan, eventLoop,
                 memory>>

PostEvent_OrDrop(type, f) ==
  fileEventChan' = IF Len(fileEventChan) < FileEventChanCap
                   THEN Append(fileEventChan, [type |-> type, file |-> f])
                   ELSE fileEventChan

\* fm.FileEventChan <- AddFileEvent, which blocks while the channel is full.
PostEvent(type, f) ==
  /\ Len(fileEventChan) < FileEventChanCap
  /\ fileEventChan' = Append(fileEventChan, [type |-> type, file |-> f])

announce(s) ==
  /\ seeder[s].at = "announce"
  /\ PostEvent("AddFile", File(seeder[s].path, seeder[s].hash))
  /\ Return(s)
  /\ UNCHANGED <<source, disk, seedChan, seedLoop, eventLoop, memory>>

\* The deferred removal of a seed that failed.
undoChunks(s) ==
  /\ seeder[s].at = "undoChunks"
  /\ removeChunkFile(NameOf(s))
  /\ Goto(s, "undoMeta")
  /\ UNCHANGED <<source, meta, seedChan, seedLoop, fileEventChan, eventLoop,
                 memory>>

undoMeta(s) ==
  /\ seeder[s].at = "undoMeta"
  /\ meta' = Unlink(meta, NameOf(s))
  /\ linked' = StillLinked(NameOf(s), "writeMeta")
  /\ seeder' = [seeder EXCEPT ![s] = Free]
  /\ UNCHANGED <<source, chunks, seedChan, seedLoop, fileEventChan, eventLoop,
                 memory>>

localSeed(s) ==
  \/ statSource(s)
  \/ checkName(s)
  \/ populateFileHash(s)
  \/ createChunkFile(s)
  \/ writeChunks(s)
  \/ chunkInfo(s)
  \/ createMeta(s)
  \/ writeMeta(s)
  \/ announce(s)
  \/ undoChunks(s)
  \/ undoMeta(s)

-----------------------------------------------------------------------------
(* seedLoop: removeSeed                                                    *)

Removing(l, step) == seedLoop[l].at = step
RemovedName(l) == Base[seedLoop[l].file.path]

\* What is left of a ReSeed once removeSeed has returned.
Removed(l) ==
  seedLoop' = [seedLoop EXCEPT ![l] =
                 IF seedLoop[l].again
                 THEN [at |-> "spawn", file |-> seedLoop[l].file]
                 ELSE Idle]

RemoveGoto(l, step) == seedLoop' = [seedLoop EXCEPT ![l].at = step]

removeMeta(l) ==
  /\ Removing(l, "meta")
  /\ \/ removeMetaFile(RemovedName(l)) /\ RemoveGoto(l, "chunks")
     \/ MayFail("remove") /\ Removed(l) /\ UNCHANGED <<meta, linked>>
  /\ UNCHANGED <<source, chunks, seedChan, seeder, fileEventChan, eventLoop,
                 memory>>

removeChunks(l) ==
  /\ Removing(l, "chunks")
  /\ \/ removeChunkFile(RemovedName(l)) /\ RemoveGoto(l, "send")
     \/ MayFail("remove") /\ Removed(l) /\ UNCHANGED <<chunks, linked>>
  /\ UNCHANGED <<source, meta, seedChan, seeder, fileEventChan, eventLoop,
                 memory>>

sendRemove(l) ==
  /\ Removing(l, "send")
  /\ PostEvent("RemoveFile", seedLoop[l].file)
  /\ Removed(l)
  /\ UNCHANGED <<source, disk, seedChan, seeder, linked, eventLoop, memory>>

\* case ReSeed: the removal, then go fm.localSeed(req).
reSeed(l) ==
  /\ Removing(l, "spawn")
  /\ Spawn(seedLoop[l].file.path)
  /\ seedLoop' = [seedLoop EXCEPT ![l] = Idle]
  /\ UNCHANGED <<source, disk, seedChan, linked, fileEventChan, eventLoop,
                 memory>>

removeSeed(l) == removeMeta(l) \/ removeChunks(l) \/ sendRemove(l)

-----------------------------------------------------------------------------
(* fileEventLoop                                                           *)

takeEvent(l) ==
  /\ eventLoop[l] = Idle
  /\ fileEventChan # <<>>
  /\ eventLoop' = [eventLoop EXCEPT ![l] = Took(Head(fileEventChan))]
  /\ fileEventChan' = Tail(fileEventChan)
  /\ UNCHANGED <<source, disk, seedChan, seedLoop, seeder, linked, memory>>

\* registerFile: an entry of the same hash is overwritten.
registerFile(f) ==
  /\ filesByHash' = [filesByHash EXCEPT ![f.hash] = f]
  /\ localSeededFiles' = localSeededFiles \cup {f.path}

\* removeFormMap goes by hash: what it removes is the entry found there.
removeFormMap(f) ==
  LET found == filesByHash[f.hash] IN
  /\ filesByHash' = [filesByHash EXCEPT ![f.hash] = NoFile]
  /\ localSeededFiles' = IF found = NoFile THEN localSeededFiles
                         ELSE localSeededFiles \ {found.path}

\* The search index after an event: one more pointer under each term of an
\* added file, or one less to the entry found.
Indexed(e) ==
  LET found == filesByHash[e.file.hash] IN
  CASE e.type = "AddFile" ->
         [searchIndex EXCEPT ![e.file] = @ + 1]
    [] e.type = "RemoveFile" /\ found # NoFile ->
         [searchIndex EXCEPT ![found] = IF @ = 0 THEN 0 ELSE @ - 1]
    [] OTHER -> searchIndex

\* The other loop is in its handler too.  The race on the maps stops the
\* program (the run time notices it: see restart), does no harm, or loses this
\* loop's change of the search index to the other's.
Raced(l) == \E k \in EventLoop \ {l} : eventLoop[k] # Idle

handleEvent(l) ==
  /\ eventLoop[l] # Idle
  /\ LET e == eventLoop[l].event IN
     /\ \/ e.type = "AddFile" /\ registerFile(e.file)
        \/ e.type = "RemoveFile" /\ removeFormMap(e.file)
     /\ \/ searchIndex' = Indexed(e)
        \/ Raced(l) /\ UNCHANGED searchIndex
  /\ \A f \in FileInfo : searchIndex'[f] <= MaxCopies
  /\ eventLoop' = [eventLoop EXCEPT ![l] = Idle]
  /\ UNCHANGED <<source, disk, seedChan, seedLoop, seeder, linked,
                 fileEventChan>>

fileEventLoop(l) == takeEvent(l) \/ handleEvent(l)

-----------------------------------------------------------------------------
(* The user, and the end of the process                                    *)

\* A shared file is edited, deleted, or put back.
changeSource(p) ==
  /\ p = Abs[p]
  /\ source[p].version < MaxVersion
  /\ \E c \in Content \cup {Gone} :
       source' = [source EXCEPT ![p] = [content |-> c,
                                        version |-> source[p].version + 1]]
  /\ UNCHANGED <<disk, seedChan, seedLoop, seeder, linked, fileEventChan,
                 eventLoop, memory>>

\* loadMetaDataFile accepts a whole metadata file whose source and chunk file
\* are what it says.
Loadable(n) ==
  /\ meta[n].is = "Meta"
  /\ Exists(meta[n].path)
  /\ source[Abs[meta[n].path]].version = meta[n].version
  /\ chunks[n] = meta[n].chunkFile

Loaded == {File(meta[n].path, meta[n].hash) : n \in {m \in Name : Loadable(m)}}

\* The process ends at any moment (the console's exit is os.Exit), and a new
\* one loads the metadata directory before its goroutines start.  Of files
\* with one hash the last in the directory stays in filesByHash.
restart ==
  /\ seedChan' = <<>>
  /\ seedLoop' = [l \in SeedLoop |-> Idle]
  /\ seeder' = [s \in Seeder |-> Free]
  /\ linked' = {}
  /\ fileEventChan' = <<>>
  /\ eventLoop' = [l \in EventLoop |-> Idle]
  /\ filesByHash' \in [Content -> Loaded \cup {NoFile}]
  /\ \A h \in Content :
       LET same == {f \in Loaded : f.hash = h} IN
       filesByHash'[h] \in IF same = {} THEN {NoFile} ELSE same
  /\ localSeededFiles' = {f.path : f \in Loaded}
  /\ searchIndex' = [f \in FileInfo |-> IF f \in Loaded THEN 1 ELSE 0]
  /\ UNCHANGED <<source, disk>>

Next ==
  \/ \E p \in Path : handleSeedLocalFile(p) \/ changeSource(p)
  \/ \E f \in getFiles \cup SearchResults : requestOther(f)
  \/ \E l \in SeedLoop : takeRequest(l) \/ removeSeed(l) \/ reSeed(l)
  \/ \E s \in Seeder : localSeed(s)
  \/ \E l \in EventLoop : fileEventLoop(l)
  \/ restart

Spec == Init /\ [][Next]_vars

FairSpec ==
  /\ Spec
  /\ \A l \in SeedLoop : WF_vars(takeRequest(l) \/ removeSeed(l) \/ reSeed(l))
  /\ \A s \in Seeder : SF_vars(localSeed(s))
  /\ \A l \in EventLoop : WF_vars(fileEventLoop(l))

-----------------------------------------------------------------------------
(* Properties                                                              *)

Whole(n) == meta[n].is = "Meta"

\* Where a seed may be, and what it has gathered by then.
Looking == [at : {"name", "hash", "undoChunks", "undoMeta"}, path : Path,
            version : 0..MaxVersion]
Hashed  == [at : {"create", "writeChunks", "chunkInfo", "undoChunks",
                  "undoMeta"}, path : Path, version : 0..MaxVersion,
            hash : Content]
Noted   == [at : {"createMeta", "writeMeta", "announce"}, path : Path,
            version : 0..MaxVersion, hash : Content,
            chunkFile : ChunkFile \cup {Partial}]
Seeds   == {Free} \cup [at : {"stat"}, path : Path]
             \cup Looking \cup Hashed \cup Noted

Removals == [at : {"meta", "chunks", "send"}, file : FileInfo, again : BOOLEAN]
              \cup [at : {"spawn"}, file : FileInfo]
Requested == [type : {"LocalSeed"}, path : Path, file : {NoFile}]
               \cup [type : {"RemoveSeed", "ReSeed"}, path : Path,
                     file : FileInfo]
FileEvents == [type : {"AddFile", "RemoveFile"}, file : FileInfo]
Taken == [at : {"took"}, event : FileEvents]

TypeOK ==
  /\ source \in [Path -> [content : Content \cup {Gone},
                          version : 0..MaxVersion]]
  /\ chunks \in [Name -> {Absent, Partial} \cup ChunkFile]
  /\ meta \in [Name -> {Absent, Partial} \cup MetaFile]
  /\ seedChan \in Seq(Requested) /\ Len(seedChan) <= SeedChanCap
  /\ seedLoop \in [SeedLoop -> {Idle} \cup Removals]
  /\ seeder \in [Seeder -> Seeds]
  /\ linked \subseteq Seeder
  /\ \A s \in linked : seeder[s].at \in {"writeChunks", "writeMeta"}
  /\ fileEventChan \in Seq(FileEvents)
  /\ Len(fileEventChan) <= FileEventChanCap
  /\ eventLoop \in [EventLoop -> {Idle} \cup Taken]
  /\ filesByHash \in [Content -> FileInfo \cup {NoFile}]
  /\ \A h \in Content : filesByHash[h] # NoFile => filesByHash[h].hash = h
  /\ localSeededFiles \subseteq Path
  /\ searchIndex \in [FileInfo -> 0..MaxCopies]

\* What a restart accepts, it may serve: the hash it lists is that of the file
\* as it is, and the chunk hashes beside it are of the same content - wherever
\* the process was stopped, whichever write failed, and however the file was
\* edited while it was read.
Sound(n) ==
  Loadable(n) =>
    /\ source[Abs[meta[n].path]].content = meta[n].hash
    /\ chunks[n] = [is |-> "Chunks", of |-> meta[n].hash]

LoadableIsSound == \A n \in Name : Sound(n)

\* "On failure, removes any partially created files": a seed that fails takes
\* away nothing that is complete.  A whole metadata file goes only by a request
\* to remove it.
GoesByRequest(n) ==
  Whole(n) /\ ~Whole(n)'
    => \E l \in SeedLoop : Removing(l, "meta") /\ RemovedName(l) = n

FailureKeepsSeeds == [][\A n \in Name : GoesByRequest(n)]_vars

\* What is listed now, or found by a search, is loaded by a restart, unless the
\* user has changed the file: its metadata is then there, of another version.
\* That is so as long as nothing is removed, and the console has no command
\* that removes.
Outdated(f) ==
  LET n == Base[f.path] IN
  /\ Whole(n) /\ meta[n].path = f.path /\ meta[n].hash = f.hash
  /\ source[Abs[f.path]].version # meta[n].version

ListedSurvives ==
  \A f \in getFiles \cup SearchResults : f \in Loaded \/ Outdated(f)

\* localSeed's comment lists its effects: "Creates the chunk-hash file",
\* "Creates the metadata file", "Sends an AddFileEvent" and "On failure, removes any
\* partially created files".  What it announces has both files.
AnnouncedHasBothFiles ==
  \A s \in Seeder :
    seeder[s].at = "announce" => /\ meta[NameOf(s)] # Absent
                                 /\ chunks[NameOf(s)] # Absent

\* A complete seed is listed in the end, or the user has changed or removed
\* the file: neither a full channel nor a stop of the process loses it.
SeedIsListed ==
  \A n \in Name, p \in Path :
    Whole(n) /\ meta[n].path = p
      ~> p \in localSeededFiles \/ ~Loadable(n)

-----------------------------------------------------------------------------
(* The invariant behind LoadableIsSound and FailureKeepsSeeds.  Both rest   *)
(* on the one thing that checkName cannot see to: that no two seeds of one  *)
(* name run at the same time.                                               *)

OneSeedOf(n) ==
  \A s, t \in Seeder :
    /\ seeder[s] # Free /\ NameOf(s) = n
    /\ seeder[t] # Free /\ NameOf(t) = n
    => s = t

OneSeedPerName == \A n \in Name : OneSeedOf(n)

\* The steps at which a seed has looked at its source, has its hash, and has
\* what its metadata says of the chunk file.
HasLooked == {"name", "hash", "create", "writeChunks", "chunkInfo",
              "createMeta", "writeMeta", "announce", "undoChunks", "undoMeta"}
HasHash   == {"create", "writeChunks", "chunkInfo", "createMeta", "writeMeta"}
HasChunks == {"createMeta", "writeMeta"}

Unchanged(s) == seeder[s].version = source[Abs[seeder[s].path]].version

\* The hash a seed has is that of its source, unless that has changed.
HashIsTrue ==
  \A s \in Seeder :
    /\ seeder[s].at \in HasLooked
         => seeder[s].version <= source[Abs[seeder[s].path]].version
    /\ seeder[s].at \in HasHash /\ Unchanged(s)
         => source[Abs[seeder[s].path]].content = seeder[s].hash

\* The chunk file of a seed is its own, or was removed under it, and has the
\* content that the hash is of unless the source has changed.
OwnChunks(s) ==
  /\ seeder[s].at = "writeChunks"
       => chunks[NameOf(s)] = IF s \in linked THEN Partial ELSE Absent
  /\ seeder[s].at = "chunkInfo" /\ chunks[NameOf(s)] # Absent
       => /\ chunks[NameOf(s)] \in ChunkFile
          /\ Unchanged(s) => chunks[NameOf(s)].of = seeder[s].hash
  /\ seeder[s].at \in HasChunks /\ Unchanged(s)
       => seeder[s].chunkFile = [is |-> "Chunks", of |-> seeder[s].hash]

ChunksAreOwn == \A s \in Seeder : OwnChunks(s)

\* A whole metadata file was true of its source when that was looked at.
TrueMeta(n) ==
  Whole(n) =>
    /\ meta[n].version <= source[Abs[meta[n].path]].version
    /\ meta[n].version = source[Abs[meta[n].path]].version
         => /\ source[Abs[meta[n].path]].content = meta[n].hash
            /\ meta[n].chunkFile = [is |-> "Chunks", of |-> meta[n].hash]

MetaIsTrue == \A n \in Name : TrueMeta(n)

\* Between checkName and the end of writeMetadataFile, and while it undoes what
\* it did, a seed has no whole metadata file of its name beside it.
NoMeta(s) ==
  seeder[s].at \in HasLooked \ {"name", "announce"} => ~Whole(NameOf(s))

NoMetaYet == \A s \in Seeder : NoMeta(s)

\* While no two seeds of one name run: what a seed has gathered, its chunk file
\* and every whole metadata file are true of the sources they were made from,
\* and a seed that may still fail has no whole metadata file beside it.
SeedInv == HashIsTrue /\ ChunksAreOwn /\ MetaIsTrue /\ NoMetaYet

\* The same of one name.
SeedInvOf(n) ==
  /\ TrueMeta(n)
  /\ \A s \in Seeder :
       seeder[s] # Free /\ NameOf(s) = n => OwnChunks(s) /\ NoMeta(s)

-----------------------------------------------------------------------------
(* The invariant behind ListedSurvives, while all requests are to seed and *)
(* writes do not fail: the two files behind an entry are there from before *)
(* its AddFile event is sent.                                              *)

\* The files of the directories say what the entry says.
Recorded(f) ==
  LET n == Base[f.path] IN
  /\ Whole(n) /\ meta[n].path = f.path /\ meta[n].hash = f.hash
  /\ chunks[n] = meta[n].chunkFile

\* No goroutine removes an entry or is asked to.
NothingRemoved ==
  /\ \A i \in 1..Len(seedChan) : seedChan[i].type = "LocalSeed"
  /\ \A l \in SeedLoop : seedLoop[l] = Idle
  /\ \A i \in 1..Len(fileEventChan) : fileEventChan[i].type = "AddFile"
  /\ \A l \in EventLoop :
       eventLoop[l] # Idle => eventLoop[l].event.type = "AddFile"

\* An entry has its files wherever it is: with the seed that announces it, in
\* the channel, with an event loop, or in one of the maps.
EntriesRecorded ==
  /\ \A s \in Seeder :
       seeder[s].at = "announce"
         => Recorded(File(seeder[s].path, seeder[s].hash))
  /\ \A i \in 1..Len(fileEventChan) : Recorded(fileEventChan[i].file)
  /\ \A l \in EventLoop :
       eventLoop[l] # Idle => Recorded(eventLoop[l].event.file)
  /\ \A f \in getFiles \cup SearchResults : Recorded(f)

\* The chunk file a seed has looked at stays as it is, and the metadata file it
\* writes is still its own.
FilesKept ==
  \A s \in Seeder :
    /\ seeder[s].at \in HasChunks => chunks[NameOf(s)] = seeder[s].chunkFile
    /\ seeder[s].at = "writeMeta"
         => s \in linked /\ meta[NameOf(s)] = Partial

MetaNamed == \A n \in Name : Whole(n) => Base[meta[n].path] = n

ListInv == NothingRemoved /\ EntriesRecorded /\ FilesKept /\ MetaNamed

=============================================================================
