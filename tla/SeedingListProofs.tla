-------------------------- MODULE SeedingListProofs --------------------------
(***************************************************************************)
(* Proofs about Seeding as the console uses it: every request is to seed,  *)
(* and while writes do not fail and no two seeds of one name run, what is  *)
(* listed or found by a search has both its files (ListedSurvives), for    *)
(* any files, names, contents, goroutines and capacities.                  *)
(***************************************************************************)
EXTENDS SeedingProofs

USE SeedingAssumption

-----------------------------------------------------------------------------
(* Nothing is removed                                                      *)

LEMMA NothingToRemove ==
  ASSUME TypeOK, NothingRemoved, Request \subseteq {"LocalSeed"}, [Next]_vars
  PROVE  NothingRemoved'
<1> USE DEF NothingRemoved
<1>1. /\ seedChan \in Seq(Requested) /\ fileEventChan \in Seq(FileEvents)
      /\ eventLoop \in [EventLoop -> {Idle} \cup Taken]
  BY DEF TypeOK
<1>2. \A l \in SeedLoop : Idle.at = "idle" /\ ~removeSeed(l) /\ ~reSeed(l)
  BY DEF Idle, removeSeed, removeMeta, removeChunks, sendRemove, reSeed, Removing
<1>3. ASSUME UNCHANGED <<seedChan, seedLoop, fileEventChan, eventLoop>>
      PROVE  NothingRemoved'
  BY <1>3
<1>4. CASE UNCHANGED vars
  BY <1>3, <1>4 DEF vars
<1>5. ASSUME NEW type, NEW p, NEW f, PostRequest(type, p, f)
      PROVE  NothingRemoved'
  <2>1. type = "LocalSeed"
    BY <1>5 DEF PostRequest
  <2> DEFINE req == [type |-> type, path |-> p, file |-> f]
  <2>2. req.type = "LocalSeed" /\ seedChan' = Append(seedChan, req)
        /\ UNCHANGED <<seedLoop, fileEventChan, eventLoop>>
    BY <1>5, <2>1 DEF PostRequest
  <2> HIDE DEF req
  <2> QED BY <1>1, <2>2
<1>6. ASSUME NEW l \in SeedLoop, takeRequest(l)
      PROVE  NothingRemoved'
  <2>0. seedChan # <<>>
    BY <1>6 DEF takeRequest
  <2>1. Head(seedChan).type = "LocalSeed" /\ seedChan # <<>>
    <3>1. Head(seedChan) = seedChan[1] /\ 1 \in 1..Len(seedChan)
      BY <1>1, <2>0
    <3> QED BY <2>0, <3>1
  <2>2. UNCHANGED <<seedLoop, fileEventChan, eventLoop>>
        /\ seedChan' = Tail(seedChan)
    BY <1>6, <2>1 DEF takeRequest
  <2> QED BY <1>1, <2>1, <2>2
<1>7. ASSUME NEW s \in Seeder, localSeed(s)
      PROVE  NothingRemoved'
  <2>1. UNCHANGED <<seedChan, seedLoop, eventLoop>>
    BY <1>7
       DEF localSeed, statSource, checkName, populateFileHash, createChunkFile,
           writeChunks, chunkInfo, createMeta, writeMeta, announce, undoChunks,
           undoMeta
  <2>2. \/ UNCHANGED fileEventChan
        \/ PostEvent("AddFile", File(seeder[s].path, seeder[s].hash))
    BY <1>7
       DEF localSeed, statSource, checkName, populateFileHash, createChunkFile,
           writeChunks, chunkInfo, createMeta, writeMeta, announce, undoChunks,
           undoMeta
  <2>3. CASE PostEvent("AddFile", File(seeder[s].path, seeder[s].hash))
    <3> DEFINE e == [type |-> "AddFile",
                     file |-> File(seeder[s].path, seeder[s].hash)]
    <3>1. e.type = "AddFile" /\ fileEventChan' = Append(fileEventChan, e)
      BY <2>3 DEF PostEvent
    <3> HIDE DEF e
    <3> QED BY <1>1, <2>1, <3>1
  <2> QED BY <1>3, <2>1, <2>2, <2>3
<1>8. ASSUME NEW l \in EventLoop, takeEvent(l)
      PROVE  NothingRemoved'
  <2>1. /\ Head(fileEventChan).type = "AddFile"
        /\ \A i \in 1..Len(Tail(fileEventChan)) :
             Tail(fileEventChan)[i].type = "AddFile"
    BY <1>1, <1>8 DEF takeEvent
  <2>2. \A k \in EventLoop :
          eventLoop'[k] = IF k = l THEN Took(Head(fileEventChan)) ELSE eventLoop[k]
    BY <1>1, <1>8 DEF takeEvent
  <2>3. Took(Head(fileEventChan)).event = Head(fileEventChan)
    BY DEF Took
  <2> QED BY <1>8, <2>1, <2>2, <2>3 DEF takeEvent
<1>9. ASSUME NEW l \in EventLoop, handleEvent(l)
      PROVE  NothingRemoved'
  <2>1. \A k \in EventLoop : eventLoop'[k] = IF k = l THEN Idle ELSE eventLoop[k]
    BY <1>1, <1>9 DEF handleEvent
  <2> QED BY <1>9, <2>1 DEF handleEvent
<1>10. CASE restart
  BY <1>10 DEF restart
<1>11. ASSUME NEW p \in Path, changeSource(p)
       PROVE  NothingRemoved'
  BY <1>3, <1>11 DEF changeSource
<1>12. CASE \/ \E p \in Path : handleSeedLocalFile(p)
            \/ \E f \in getFiles \cup SearchResults : requestOther(f)
  BY <1>5, <1>12 DEF handleSeedLocalFile, requestOther
<1> QED
  BY <1>2, <1>4, <1>6, <1>7, <1>8, <1>9, <1>10, <1>11, <1>12
     DEF Next, fileEventLoop

-----------------------------------------------------------------------------
(* Files that are whole stay                                               *)

\* A seed changes no file of a name whose metadata is whole.
LEMMA WholeUnderSeed ==
  ASSUME TypeOK, SeedInv, NEW s \in Seeder, localSeed(s), NEW n \in Name, Whole(n)
  PROVE  chunks'[n] = chunks[n] /\ meta'[n] = meta[n]
<1>1. CASE n # NameOf(s)
  BY <1>1, OnlyItsName
<1>2. CASE n = NameOf(s)
  <2>1. seeder[s].at \notin HasLooked \ {"name", "announce"}
    BY <1>2 DEF SeedInv, NoMetaYet, NoMeta
  <2>2. statSource(s) \/ checkName(s) \/ announce(s)
    BY <2>1 DEF HasLooked, localSeed, statSource, checkName, populateFileHash,
                createChunkFile, writeChunks, chunkInfo, createMeta, writeMeta,
                announce, undoChunks, undoMeta
  <2> QED BY <2>2 DEF statSource, checkName, announce, disk
<1> QED BY <1>1, <1>2

\* What only seeds change, while nothing is removed.
LEMMA OnlySeedsWrite ==
  ASSUME NothingRemoved, [Next]_vars, \A s \in Seeder : ~localSeed(s)
  PROVE  UNCHANGED disk
<1>1. \A l \in SeedLoop : Idle.at = "idle" /\ ~removeSeed(l) /\ ~reSeed(l)
  BY DEF NothingRemoved, Idle, removeSeed, removeMeta, removeChunks, sendRemove,
         reSeed, Removing
<1>2. CASE \E l \in SeedLoop : takeRequest(l)
  BY <1>2 DEF takeRequest
<1>3. CASE \/ \E p \in Path : handleSeedLocalFile(p) \/ changeSource(p)
           \/ \E f \in getFiles \cup SearchResults : requestOther(f)
           \/ \E l \in EventLoop : fileEventLoop(l)
           \/ restart
  BY <1>3 DEF handleSeedLocalFile, changeSource, requestOther, PostRequest,
              fileEventLoop, takeEvent, handleEvent, restart
<1>4. CASE UNCHANGED vars
  BY <1>4 DEF vars
<1> QED BY <1>1, <1>2, <1>3, <1>4 DEF Next

\* An entry keeps its files.
LEMMA StaysRecorded ==
  ASSUME TypeOK, SeedInv, NothingRemoved, [Next]_vars,
         NEW f \in FileInfo, Recorded(f)
  PROVE  Recorded(f)'
<1> DEFINE n == Base[f.path]
<1>1. n \in Name /\ Whole(n)
  BY DEF FileInfo, Recorded
<1>2. chunks'[n] = chunks[n] /\ meta'[n] = meta[n]
  <2>1. ASSUME NEW s \in Seeder, localSeed(s)
        PROVE  chunks'[n] = chunks[n] /\ meta'[n] = meta[n]
    BY <1>1, <2>1, WholeUnderSeed
  <2>2. CASE \A s \in Seeder : ~localSeed(s)
    BY <2>2, OnlySeedsWrite DEF disk
  <2> QED BY <2>1, <2>2
<1> QED BY <1>2 DEF Recorded, Whole

-----------------------------------------------------------------------------
(* The files of a seed                                                     *)

\* A seed that goes on keeps what it has gathered.
LEMMA Labelled ==
  ASSUME TypeOK, NEW s \in Seeder, seeder[s].at \in HasLooked, NEW x, Goto(s, x)
  PROVE  /\ seeder'[s].at = x /\ seeder'[s].path = seeder[s].path
         /\ seeder[s].at \in HasChunks
              => /\ seeder'[s].hash = seeder[s].hash
                 /\ seeder'[s].chunkFile = seeder[s].chunkFile
<1>1. seeder'[s] = [seeder[s] EXCEPT !.at = x]
  BY DEF Goto, TypeOK
<1>2. seeder[s] \in Looking \cup Hashed \cup Noted
  BY Gathered DEF HasLooked
<1>3. seeder[s].at \in HasChunks => seeder[s] \in Noted
  BY Gathered DEF HasChunks
<1>4. \A q \in Looking \cup Hashed \cup Noted :
        [q EXCEPT !.at = x].at = x /\ [q EXCEPT !.at = x].path = q.path
  BY DEF Looking, Hashed, Noted
<1>5. \A q \in Noted : /\ [q EXCEPT !.at = x].hash = q.hash
                       /\ [q EXCEPT !.at = x].chunkFile = q.chunkFile
  BY DEF Noted
<1> QED BY <1>1, <1>2, <1>3, <1>4, <1>5

\* Where a seed's last steps lead while writes do not fail.
LEMMA LastSteps ==
  ASSUME TypeOK, FilesKept, "write" \notin Fault, NEW s \in Seeder, localSeed(s)
  PROVE  LET n == NameOf(s) IN
         /\ seeder'[s].at = "createMeta"
              => seeder[s].at = "chunkInfo" /\ chunks' = chunks
         /\ seeder'[s].at = "writeMeta"
              => /\ seeder[s].at = "createMeta" /\ chunks' = chunks
                 /\ meta'[n] = Partial /\ s \in linked'
         /\ seeder'[s].at = "announce"
              => /\ seeder[s].at = "writeMeta" /\ chunks' = chunks
                 /\ seeder'[s].path = seeder[s].path
                 /\ seeder'[s].hash = seeder[s].hash
                 /\ meta'[n] = [is |-> "Meta", path |-> seeder[s].path,
                                version |-> seeder[s].version,
                                hash |-> seeder[s].hash,
                                chunkFile |-> seeder[s].chunkFile]
<1> DEFINE n == NameOf(s)
<1>1. /\ seeder \in [Seeder -> Seeds]
      /\ meta \in [Name -> {Absent, Partial} \cup MetaFile]
  BY DEF TypeOK
<1>2. ~MayFail("write") /\ ~writeMetadataFailed(s)
  BY DEF MayFail, writeMetadataFailed
<1>3. ASSUME NEW x, Goto(s, x), seeder[s].at \in HasLooked
      PROVE  seeder'[s].at = x
  BY <1>3, Labelled
<1>4. seeder[s].at \in HasLooked => n \in Name
  BY Keeps, StagesOf
<1>5. CASE statSource(s) \/ checkName(s) \/ populateFileHash(s) \/ announce(s)
  <2>1. ASSUME Return(s)
        PROVE  seeder'[s].at = "free"
    BY <1>1, <2>1 DEF Return, Free
  <2>2. CASE statSource(s)
    BY <1>1, <2>1, <2>2 DEF statSource
  <2>3. CASE checkName(s)
    BY <1>3, <2>1, <2>3 DEF checkName, HasLooked
  <2>4. CASE populateFileHash(s)
    BY <1>1, <1>3, <2>4 DEF populateFileHash, HasLooked
  <2>5. CASE announce(s)
    BY <2>1, <2>5 DEF announce
  <2> QED BY <1>5, <2>2, <2>3, <2>4, <2>5
<1>6. CASE createChunkFile(s) \/ writeChunks(s) \/ undoChunks(s)
  <2>1. seeder[s].at \in HasLooked
        /\ \E x \in {"writeChunks", "chunkInfo", "undoChunks", "undoMeta"} :
             Goto(s, x)
    BY <1>6 DEF createChunkFile, writeChunks, undoChunks, HasLooked
  <2> QED BY <1>3, <2>1
<1>7. CASE undoMeta(s)
  BY <1>1, <1>7 DEF undoMeta, Free
<1>8. CASE chunkInfo(s)
  <2>1. seeder[s].at = "chunkInfo" /\ chunks' = chunks
    BY <1>8 DEF chunkInfo, disk
  <2>2. seeder'[s].at \in {"createMeta", "undoChunks"}
    BY <1>1, <1>3, <1>8 DEF chunkInfo, HasLooked
  <2> QED BY <2>1, <2>2
<1>9. CASE createMeta(s)
  <2>1. /\ seeder[s].at = "createMeta" /\ chunks' = chunks
        /\ meta' = [meta EXCEPT ![n] = Partial] /\ linked' = linked \cup {s}
        /\ Goto(s, "writeMeta")
    BY <1>2, <1>9 DEF createMeta
  <2>2. seeder'[s].at = "writeMeta" /\ n \in Name
    BY <1>3, <1>4, <2>1 DEF HasLooked
  <2> QED BY <1>1, <2>1, <2>2
<1>10. CASE writeMeta(s)
  <2> DEFINE mine == [is |-> "Meta", path |-> seeder[s].path,
                      version |-> seeder[s].version, hash |-> seeder[s].hash,
                      chunkFile |-> seeder[s].chunkFile]
  <2>1. /\ seeder[s].at = "writeMeta" /\ chunks' = chunks /\ Goto(s, "announce")
        /\ meta' \in {[meta EXCEPT ![n] = written] : written \in
                        (CASE s \notin linked    -> {meta[n]}
                           [] meta[n] = Partial -> {mine}
                           [] OTHER             -> {mine, Partial})}
    BY <1>2, <1>10 DEF writeMeta
  <2>2. s \in linked /\ meta[n] = Partial
    BY <2>1 DEF FilesKept
  <2>3. meta' = [meta EXCEPT ![n] = mine]
    BY <2>1, <2>2
  <2>4. seeder[s].at \in HasLooked /\ seeder[s].at \in HasChunks
    BY <2>1 DEF HasLooked, HasChunks
  <2>5. meta'[n] = mine
    BY <1>1, <1>4, <2>3, <2>4
  <2>6. /\ seeder'[s].at = "announce" /\ seeder'[s].path = seeder[s].path
        /\ seeder'[s].hash = seeder[s].hash
    BY <2>1, <2>4, Labelled
  <2> QED BY <2>1, <2>5, <2>6
<1> QED BY <1>5, <1>6, <1>7, <1>8, <1>9, <1>10 DEF localSeed


\* One seed's part of FilesKept.
Kept(s) ==
  /\ seeder[s].at \in HasChunks => chunks[NameOf(s)] = seeder[s].chunkFile
  /\ seeder[s].at = "writeMeta" => s \in linked /\ meta[NameOf(s)] = Partial

LEMMA FilesKeptStep ==
  ASSUME TypeOK, NothingRemoved, FilesKept, OneSeedPerName,
         "write" \notin Fault, [Next]_vars
  PROVE  FilesKept'
<1> SUFFICES ASSUME NEW t \in Seeder
             PROVE  Kept(t)'
  BY DEF FilesKept, Kept
<1>1. Kept(t)
  BY DEF FilesKept, Kept
<1>2. ASSUME seeder'[t].at \in {"free", "stat"}
      PROVE  Kept(t)'
  BY <1>2 DEF Kept, HasChunks
<1>3. ASSUME seeder'[t] = seeder[t],
             t \in linked' <=> t \in linked,
             seeder[t].at # "free" => /\ chunks'[NameOf(t)] = chunks[NameOf(t)]
                                      /\ meta'[NameOf(t)] = meta[NameOf(t)]
      PROVE  Kept(t)'
  BY <1>1, <1>3 DEF Kept, NameOf, HasChunks
<1>4. CASE UNCHANGED vars
  BY <1>3, <1>4 DEF vars, disk
<1>5. ASSUME NEW s \in Seeder, localSeed(s)
      PROVE  Kept(t)'
  <2>1. PICK r \in Seeds : /\ seeder' = [seeder EXCEPT ![s] = r]
                           /\ Gathers(s, r) /\ ComesFrom(s, r)
    BY <1>5, SeedAdvances DEF Advances
  <2>2. /\ seeder'[s] = r
        /\ t # s => seeder'[t] = seeder[t]
    BY <2>1 DEF TypeOK
  <2>3. CASE t # s /\ seeder[t] = Free
    BY <1>2, <2>2, <2>3 DEF Free
  <2>4. CASE t # s /\ seeder[t] # Free
    <3>1. NameOf(t) \in Name
      BY <2>4, Gathered, Keeps
    <3>2. NameOf(t) # NameOf(s)
      BY <2>1, <2>4, <3>1 DEF OneSeedPerName, OneSeedOf, ComesFrom
    <3>3. /\ chunks'[NameOf(t)] = chunks[NameOf(t)]
          /\ meta'[NameOf(t)] = meta[NameOf(t)]
      BY <1>5, <3>1, <3>2, OnlyItsName
    <3>4. t \in linked' <=> t \in linked
      BY <1>5, <2>4, <3>1, <3>2, SeedEffects
    <3> QED BY <1>3, <2>2, <2>4, <3>3, <3>4
  <2>5. CASE t = s
    <3> DEFINE n == NameOf(s)
    <3>1. r.at \in HasChunks => r.path = seeder[s].path
      BY <2>1 DEF Gathers, HasChunks, Free
    <3>2. r.at \in HasChunks => NameOf(s)' = n
      BY <2>2, <3>1 DEF NameOf
    <3>3. r.at \in HasChunks => chunks' = chunks
      BY <1>5, <2>2, LastSteps DEF HasChunks
    <3>4. r.at \in HasChunks => r.chunkFile = chunks[n]
      <4>1. seeder[s].at \in HasChunks => chunks[n] = seeder[s].chunkFile
        BY <1>1, <2>5 DEF Kept
      <4> QED BY <2>1, <4>1 DEF Gathers
    <3>5. r.at = "writeMeta" => s \in linked' /\ meta'[n] = Partial
      BY <1>5, <2>2, LastSteps
    <3>6. r.at = "writeMeta" => r.at \in HasChunks
      BY DEF HasChunks
    <3> QED BY <2>2, <2>5, <3>2, <3>3, <3>4, <3>5, <3>6 DEF Kept
  <2> QED BY <2>3, <2>4, <2>5
<1>6. ASSUME NEW l \in SeedLoop, takeRequest(l)
      PROVE  Kept(t)'
  <2>1. UNCHANGED <<chunks, meta, linked>>
    BY <1>6 DEF takeRequest, disk
  <2>2. seeder'[t] = seeder[t] \/ seeder'[t].at = "stat"
    BY <1>6, LoopEffects
  <2> QED BY <1>2, <1>3, <2>1, <2>2
<1>7. \A l \in SeedLoop : Idle.at = "idle" /\ ~removeSeed(l) /\ ~reSeed(l)
  BY DEF NothingRemoved, Idle, removeSeed, removeMeta, removeChunks, sendRemove,
         reSeed, Removing
<1>8. CASE restart
  BY <1>2, <1>8 DEF restart, Free
<1>9. CASE \/ \E p \in Path : handleSeedLocalFile(p) \/ changeSource(p)
           \/ \E f \in getFiles \cup SearchResults : requestOther(f)
           \/ \E l \in EventLoop : fileEventLoop(l)
  BY <1>3, <1>9 DEF handleSeedLocalFile, changeSource, requestOther, PostRequest,
                    fileEventLoop, takeEvent, handleEvent, disk
<1> QED BY <1>4, <1>5, <1>6, <1>7, <1>8, <1>9 DEF Next

LEMMA MetaNamedStep ==
  ASSUME TypeOK, NothingRemoved, MetaNamed, [Next]_vars
  PROVE  MetaNamed'
<1>1. ASSUME NEW s \in Seeder, localSeed(s)
      PROVE  MetaNamed'
  <2> SUFFICES ASSUME NEW n \in Name, meta'[n].is = "Meta"
               PROVE  Base[meta'[n].path] = n
    BY DEF MetaNamed, Whole
  <2>1. CASE meta'[n] = meta[n]
    BY <2>1 DEF MetaNamed, Whole
  <2>2. CASE meta'[n] # meta[n]
    <3>1. n = NameOf(s)
      BY <1>1, <2>2, OnlyItsName
    <3>2. meta'[n] \notin {Absent, Partial}
      BY Kinds
    <3>3. meta'[n] = [is |-> "Meta", path |-> seeder[s].path,
                      version |-> seeder[s].version, hash |-> seeder[s].hash,
                      chunkFile |-> seeder[s].chunkFile]
      BY <1>1, <2>2, <3>1, <3>2, SeedEffects
    <3> QED BY <3>1, <3>3 DEF NameOf
  <2> QED BY <2>1, <2>2
<1>2. CASE \A s \in Seeder : ~localSeed(s)
  BY <1>2, OnlySeedsWrite DEF disk, MetaNamed, Whole
<1> QED BY <1>1, <1>2

\* What a restart loads has both its files.
LEMMA LoadedAreRecorded ==
  ASSUME TypeOK, MetaNamed, NEW f \in Loaded
  PROVE  f \in FileInfo /\ Recorded(f)
<1>1. PICK n \in Name : Loadable(n) /\ f = File(meta[n].path, meta[n].hash)
  BY DEF Loaded
<1>2. Whole(n) /\ Base[meta[n].path] = n /\ chunks[n] = meta[n].chunkFile
  BY <1>1 DEF Loadable, Whole, MetaNamed
<1>3. f.path = meta[n].path /\ f.hash = meta[n].hash
  BY <1>1 DEF File
<1> QED BY <1>2, <1>3, LoadedFiles DEF Recorded


-----------------------------------------------------------------------------
(* Entries                                                                 *)

\* The parts of EntriesRecorded: seeds, events, and the maps.
AnnouncedRecorded ==
  \A s \in Seeder :
    seeder[s].at = "announce" => Recorded(File(seeder[s].path, seeder[s].hash))

EventsRecorded ==
  /\ \A i \in 1..Len(fileEventChan) : Recorded(fileEventChan[i].file)
  /\ \A l \in EventLoop :
       eventLoop[l] # Idle => Recorded(eventLoop[l].event.file)

MapsRecorded == \A f \in getFiles \cup SearchResults : Recorded(f)

LEMMA EntriesInParts ==
  EntriesRecorded <=> AnnouncedRecorded /\ EventsRecorded /\ MapsRecorded
BY DEF EntriesRecorded, AnnouncedRecorded, EventsRecorded, MapsRecorded

\* Entries are files.
LEMMA EntriesAreFiles ==
  ASSUME TypeOK
  PROVE  /\ \A s \in Seeder : seeder[s].at = "announce"
              => File(seeder[s].path, seeder[s].hash) \in FileInfo
         /\ \A i \in 1..Len(fileEventChan) : fileEventChan[i] \in FileEvents
         /\ \A l \in EventLoop : eventLoop[l] # Idle
              => eventLoop[l].event \in FileEvents
         /\ \A e \in FileEvents : e.file \in FileInfo
         /\ getFiles \cup SearchResults \subseteq FileInfo
<1>1. \A s \in Seeder : seeder[s].at = "announce"
        => File(seeder[s].path, seeder[s].hash) \in FileInfo
  <2> SUFFICES ASSUME NEW s \in Seeder, seeder[s].at = "announce"
               PROVE  File(seeder[s].path, seeder[s].hash) \in FileInfo
    OBVIOUS
  <2>1. seeder[s].path \in Path /\ seeder[s].hash \in Content
    BY Gathered DEF Noted
  <2> QED BY <2>1, Kinds
<1>2. \A i \in 1..Len(fileEventChan) : fileEventChan[i] \in FileEvents
  BY DEF TypeOK
<1>3. \A l \in EventLoop : eventLoop[l] # Idle => eventLoop[l].event \in FileEvents
  BY DEF TypeOK, Taken
<1>4. getFiles \cup SearchResults \subseteq FileInfo
  BY DEF TypeOK, getFiles, SearchResults
<1> QED BY <1>1, <1>2, <1>3, <1>4 DEF FileEvents

\* A step that moves no entry.
LEMMA EntriesStay ==
  ASSUME TypeOK, SeedInv, NothingRemoved, [Next]_vars
  PROVE  /\ /\ AnnouncedRecorded
            /\ \A s \in Seeder : \/ seeder'[s] = seeder[s]
                                 \/ seeder'[s].at # "announce"
           => AnnouncedRecorded'
         /\ EventsRecorded /\ UNCHANGED <<fileEventChan, eventLoop>>
           => EventsRecorded'
         /\ MapsRecorded /\ UNCHANGED <<filesByHash, searchIndex>>
           => MapsRecorded'
<1>1. \A f \in FileInfo : Recorded(f) => Recorded(f)'
  BY StaysRecorded
<1>2. ASSUME AnnouncedRecorded,
             \A s \in Seeder : seeder'[s] = seeder[s] \/ seeder'[s].at # "announce"
      PROVE  AnnouncedRecorded'
  <2> SUFFICES ASSUME NEW s \in Seeder, seeder'[s].at = "announce"
               PROVE  Recorded(File(seeder[s].path, seeder[s].hash))'
    BY DEF AnnouncedRecorded
  <2>1. seeder'[s] = seeder[s]
    BY <1>2
  <2>2. PICK f \in FileInfo : f = File(seeder[s].path, seeder[s].hash)
    BY <2>1, EntriesAreFiles
  <2>3. Recorded(f)
    BY <1>2, <2>1, <2>2 DEF AnnouncedRecorded
  <2>4. f = File(seeder[s].path, seeder[s].hash)'
    BY <2>1, <2>2
  <2> QED BY <1>1, <2>3, <2>4
<1>3. ASSUME EventsRecorded, UNCHANGED <<fileEventChan, eventLoop>>
      PROVE  EventsRecorded'
  <2>1. \A i \in 1..Len(fileEventChan) : Recorded(fileEventChan[i].file)'
    BY <1>1, <1>3, EntriesAreFiles DEF EventsRecorded
  <2>2. \A l \in EventLoop :
          eventLoop[l] # Idle => Recorded(eventLoop[l].event.file)'
    BY <1>1, <1>3, EntriesAreFiles DEF EventsRecorded
  <2> QED BY <1>3, <2>1, <2>2 DEF EventsRecorded
<1>4. ASSUME MapsRecorded, UNCHANGED <<filesByHash, searchIndex>>
      PROVE  MapsRecorded'
  BY <1>1, <1>4, EntriesAreFiles DEF MapsRecorded, getFiles, SearchResults
<1> QED BY <1>2, <1>3, <1>4


\* A step of a seed: its last writing makes an entry, its last step sends it.
LEMMA EntriesUnderSeed ==
  ASSUME TypeOK, SeedInv, ListInv, "write" \notin Fault, [Next]_vars,
         NEW s \in Seeder, localSeed(s)
  PROVE  EntriesRecorded'
<1>1. AnnouncedRecorded /\ EventsRecorded /\ MapsRecorded /\ NothingRemoved
      /\ FilesKept
  BY EntriesInParts DEF ListInv
<1>2. UNCHANGED <<eventLoop, filesByHash, searchIndex>>
  BY DEF localSeed, statSource, checkName, populateFileHash, createChunkFile,
         writeChunks, chunkInfo, createMeta, writeMeta, announce, undoChunks,
         undoMeta, memory
<1>3. MapsRecorded'
  BY <1>1, <1>2, EntriesStay
<1>4. AnnouncedRecorded'
  <2>1. PICK r \in Seeds : seeder' = [seeder EXCEPT ![s] = r]
    BY SeedAdvances DEF Advances
  <2>2. \A t \in Seeder \ {s} : seeder'[t] = seeder[t]
    BY <2>1 DEF TypeOK
  <2>3. CASE seeder'[s].at # "announce"
    BY <1>1, <2>2, <2>3, EntriesStay
  <2>4. CASE seeder'[s].at = "announce"
    <3> DEFINE n == NameOf(s)
    <3>1. /\ seeder[s].at = "writeMeta" /\ chunks' = chunks
          /\ seeder'[s].path = seeder[s].path
          /\ seeder'[s].hash = seeder[s].hash
          /\ meta'[n] = [is |-> "Meta", path |-> seeder[s].path,
                         version |-> seeder[s].version,
                         hash |-> seeder[s].hash,
                         chunkFile |-> seeder[s].chunkFile]
      BY <1>1, <2>4, LastSteps
    <3>2. chunks[n] = seeder[s].chunkFile
      BY <1>1, <3>1 DEF FilesKept, HasChunks
    <3>3. PICK p, h : p = seeder[s].path /\ h = seeder[s].hash
      OBVIOUS
    <3>4. Recorded(File(p, h))'
      <4>1. /\ meta'[Base[p]].is = "Meta" /\ meta'[Base[p]].path = p
            /\ meta'[Base[p]].hash = h
            /\ meta'[Base[p]].chunkFile = chunks'[Base[p]]
        BY <3>1, <3>2, <3>3 DEF NameOf
      <4> QED BY <4>1 DEF Recorded, Whole, File
    <3>5. Recorded(File(seeder[s].path, seeder[s].hash))'
      <4>1. seeder'[s].path = p /\ seeder'[s].hash = h
        BY <3>1, <3>3
      <4> QED BY <3>4, <4>1
    <3>6. ASSUME NEW t \in Seeder, t # s, seeder'[t].at = "announce"
          PROVE  Recorded(File(seeder[t].path, seeder[t].hash))'
      <4>1. seeder'[t] = seeder[t]
        BY <2>2, <3>6
      <4>2. PICK f \in FileInfo : f = File(seeder[t].path, seeder[t].hash)
        BY <3>6, <4>1, EntriesAreFiles
      <4>3. Recorded(f)
        BY <1>1, <3>6, <4>1, <4>2 DEF AnnouncedRecorded
      <4>4. Recorded(f)'
        BY <1>1, <4>3, StaysRecorded
      <4>5. f = File(seeder[t].path, seeder[t].hash)'
        BY <4>1, <4>2
      <4> QED BY <4>4, <4>5
    <3> QED BY <3>5, <3>6 DEF AnnouncedRecorded
  <2> QED BY <2>3, <2>4
<1>5. EventsRecorded'
  <2>1. \/ UNCHANGED fileEventChan
        \/ /\ seeder[s].at = "announce"
           /\ PostEvent("AddFile", File(seeder[s].path, seeder[s].hash))
    BY DEF localSeed, statSource, checkName, populateFileHash, createChunkFile,
           writeChunks, chunkInfo, createMeta, writeMeta, announce, undoChunks,
           undoMeta
  <2>2. CASE UNCHANGED fileEventChan
    BY <1>1, <1>2, <2>2, EntriesStay
  <2>3. CASE /\ seeder[s].at = "announce"
             /\ PostEvent("AddFile", File(seeder[s].path, seeder[s].hash))
    <3>1. PICK f \in FileInfo : f = File(seeder[s].path, seeder[s].hash)
      BY <2>3, EntriesAreFiles
    <3>2. Recorded(f)'
      <4>1. Recorded(f)
        BY <1>1, <2>3, <3>1 DEF AnnouncedRecorded
      <4> QED BY <1>1, <4>1, StaysRecorded
    <3>3. \A i \in 1..Len(fileEventChan) :
            fileEventChan[i].file \in FileInfo /\ Recorded(fileEventChan[i].file)
      BY <1>1, EntriesAreFiles DEF EventsRecorded
    <3>4. PICK e : e = [type |-> "AddFile", file |-> f]
      OBVIOUS
    <3>5. fileEventChan' = Append(fileEventChan, e) /\ e.file = f
      BY <2>3, <3>1, <3>4 DEF PostEvent
    <3>6. fileEventChan \in Seq(FileEvents)
      BY DEF TypeOK
    <3>7. ASSUME NEW i \in 1..Len(fileEventChan')
          PROVE  Recorded(fileEventChan[i].file)'
      <4>1. CASE i \in 1..Len(fileEventChan)
        <5>1. PICK g \in FileInfo : g = fileEventChan[i].file /\ Recorded(g)
          BY <3>3, <4>1
        <5>2. fileEventChan'[i] = fileEventChan[i]
          BY <3>5, <3>6, <4>1
        <5>3. Recorded(g)'
          BY <1>1, <5>1, StaysRecorded
        <5> QED BY <5>1, <5>2, <5>3
      <4>2. CASE i \notin 1..Len(fileEventChan)
        <5>1. fileEventChan'[i] = e
          BY <3>5, <3>6, <4>2
        <5> QED BY <3>2, <3>5, <5>1
      <4> QED BY <4>1, <4>2
    <3>8. ASSUME NEW l \in EventLoop, eventLoop'[l] # Idle
          PROVE  Recorded(eventLoop[l].event.file)'
      <4>1. PICK g \in FileInfo : g = eventLoop[l].event.file /\ Recorded(g)
        BY <1>1, <1>2, <3>8, EntriesAreFiles DEF EventsRecorded
      <4>2. Recorded(g)'
        BY <1>1, <4>1, StaysRecorded
      <4> QED BY <1>2, <4>1, <4>2
    <3> QED BY <3>7, <3>8 DEF EventsRecorded
  <2> QED BY <2>1, <2>2, <2>3
<1> QED
  BY <1>3, <1>4, <1>5
     DEF EntriesRecorded, AnnouncedRecorded, EventsRecorded, MapsRecorded


\* A step of an event loop hands an entry on from the channel to the maps.
LEMMA EntriesUnderLoop ==
  ASSUME TypeOK, SeedInv, ListInv, [Next]_vars, NEW l \in EventLoop,
         fileEventLoop(l)
  PROVE  EntriesRecorded'
<1>1. AnnouncedRecorded /\ EventsRecorded /\ MapsRecorded /\ NothingRemoved
  BY EntriesInParts DEF ListInv
<1>2. AnnouncedRecorded'
  <2>1. UNCHANGED seeder
    BY DEF fileEventLoop, takeEvent, handleEvent
  <2> QED BY <1>1, <2>1, EntriesStay
<1>3. \A f \in FileInfo : Recorded(f) => Recorded(f)'
  BY <1>1, StaysRecorded
<1>4. /\ eventLoop \in [EventLoop -> {Idle} \cup Taken]
      /\ fileEventChan \in Seq(FileEvents)
      /\ filesByHash \in [Content -> FileInfo \cup {NoFile}]
      /\ searchIndex \in [FileInfo -> 0..MaxCopies]
  BY DEF TypeOK
<1>5. /\ \A i \in 1..Len(fileEventChan) :
           fileEventChan[i].file \in FileInfo /\ Recorded(fileEventChan[i].file)
      /\ \A k \in EventLoop : eventLoop[k] # Idle
           => /\ eventLoop[k].event.file \in FileInfo
              /\ Recorded(eventLoop[k].event.file)
      /\ \A f \in getFiles \cup SearchResults : f \in FileInfo /\ Recorded(f)
  BY <1>1, EntriesAreFiles DEF EventsRecorded, MapsRecorded
<1>6. ASSUME NEW k \in EventLoop, eventLoop'[k] = eventLoop[k],
             eventLoop'[k] # Idle
      PROVE  Recorded(eventLoop[k].event.file)'
  <2>1. PICK g \in FileInfo : g = eventLoop[k].event.file /\ Recorded(g)
    BY <1>5, <1>6
  <2> QED BY <1>3, <1>6, <2>1
<1>7. CASE takeEvent(l)
  <2>1. MapsRecorded'
    BY <1>1, <1>7, EntriesStay DEF takeEvent, memory
  <2>2. fileEventChan # <<>> /\ fileEventChan' = Tail(fileEventChan)
    BY <1>7 DEF takeEvent
  <2>3. PICK e : e = Head(fileEventChan)
    OBVIOUS
  <2>4. e = fileEventChan[1] /\ 1 \in 1..Len(fileEventChan)
    BY <1>4, <2>2, <2>3
  <2>5. PICK f \in FileInfo : f = e.file /\ Recorded(f)
    BY <1>5, <2>4
  <2>6. \A k \in EventLoop :
          eventLoop'[k] = IF k = l THEN Took(e) ELSE eventLoop[k]
    BY <1>4, <1>7, <2>3 DEF takeEvent
  <2>7. Took(e).event = e
    BY DEF Took
  <2>8. ASSUME NEW k \in EventLoop, eventLoop'[k] # Idle
        PROVE  Recorded(eventLoop[k].event.file)'
    <3>1. CASE k = l
      <4>1. eventLoop'[k].event.file = f
        BY <2>5, <2>6, <2>7, <3>1
      <4> QED BY <1>3, <2>5, <4>1
    <3>2. CASE k # l
      BY <1>6, <2>6, <2>8, <3>2
    <3> QED BY <3>1, <3>2
  <2>9. ASSUME NEW i \in 1..Len(fileEventChan')
        PROVE  Recorded(fileEventChan[i].file)'
    <3>1. i + 1 \in 1..Len(fileEventChan)
          /\ fileEventChan'[i] = fileEventChan[i + 1]
      BY <1>4, <2>2
    <3>2. PICK g \in FileInfo : g = fileEventChan[i + 1].file /\ Recorded(g)
      BY <1>5, <3>1
    <3>3. g = fileEventChan'[i].file
      BY <3>1, <3>2
    <3> QED BY <1>3, <3>2, <3>3
  <2> QED
    BY <1>2, <2>1, <2>8, <2>9
       DEF EntriesRecorded, AnnouncedRecorded, EventsRecorded, MapsRecorded
<1>8. CASE handleEvent(l)
  <2>1. \A k \in EventLoop :
          eventLoop'[k] = IF k = l THEN Idle ELSE eventLoop[k]
    BY <1>4, <1>8 DEF handleEvent
  <2>2. UNCHANGED fileEventChan
    BY <1>8 DEF handleEvent
  <2>3. EventsRecorded'
    <3>1. \A k \in EventLoop :
            eventLoop'[k] # Idle => Recorded(eventLoop[k].event.file)'
      BY <1>6, <2>1
    <3>2. ASSUME NEW i \in 1..Len(fileEventChan')
          PROVE  Recorded(fileEventChan[i].file)'
      <4>1. PICK g \in FileInfo : g = fileEventChan[i].file /\ Recorded(g)
        BY <1>5, <2>2
      <4> QED BY <1>3, <2>2, <4>1
    <3> QED BY <3>1, <3>2 DEF EventsRecorded
  <2>4. PICK e : e = eventLoop[l].event
    OBVIOUS
  <2>5. e.file \in FileInfo /\ Recorded(e.file) /\ e.type = "AddFile"
        /\ e.file.hash \in Content
    <3>1. eventLoop[l] # Idle
      BY <1>8 DEF handleEvent
    <3>2. e.file \in FileInfo /\ Recorded(e.file)
      BY <1>5, <2>4, <3>1
    <3>3. e.type = "AddFile"
      BY <1>1, <2>4, <3>1 DEF NothingRemoved
    <3> QED BY <3>2, <3>3 DEF FileInfo
  <2>6. filesByHash' = [filesByHash EXCEPT ![e.file.hash] = e.file]
    BY <1>8, <2>4, <2>5 DEF handleEvent, registerFile
  <2>7. \/ searchIndex' = [searchIndex EXCEPT ![e.file] = @ + 1]
        \/ searchIndex' = searchIndex
    BY <1>8, <2>4, <2>5 DEF handleEvent, Indexed
  <2>8. getFiles' \subseteq getFiles \cup {e.file}
    BY <1>4, <2>5, <2>6 DEF getFiles
  <2>9. SearchResults' \subseteq SearchResults \cup {e.file}
    BY <1>4, <2>5, <2>7 DEF SearchResults
  <2>10. PICK g \in FileInfo : g = e.file /\ Recorded(g)
    BY <2>5
  <2>11. \A f \in getFiles' \cup SearchResults' :
           f \in FileInfo /\ Recorded(f)
    BY <1>5, <2>8, <2>9, <2>10
  <2>12. MapsRecorded'
    BY <1>3, <2>11 DEF MapsRecorded
  <2> QED
    BY <1>2, <2>3, <2>12
       DEF EntriesRecorded, AnnouncedRecorded, EventsRecorded, MapsRecorded
<1> QED BY <1>7, <1>8 DEF fileEventLoop


LEMMA EntriesStep ==
  ASSUME TypeOK, SeedInv, ListInv, "write" \notin Fault, [Next]_vars
  PROVE  EntriesRecorded'
<1>1. AnnouncedRecorded /\ EventsRecorded /\ MapsRecorded /\ NothingRemoved
  BY EntriesInParts DEF ListInv
<1>2. ASSUME UNCHANGED <<fileEventChan, eventLoop, filesByHash, searchIndex>>,
             \A s \in Seeder : \/ seeder'[s] = seeder[s]
                               \/ seeder'[s].at # "announce"
      PROVE  EntriesRecorded'
  <2>1. AnnouncedRecorded' /\ EventsRecorded' /\ MapsRecorded'
    BY <1>1, <1>2, EntriesStay
  <2> QED BY <2>1 DEF EntriesRecorded, AnnouncedRecorded, EventsRecorded,
                      MapsRecorded
<1>3. CASE UNCHANGED vars
  BY <1>2, <1>3 DEF vars, memory
<1>4. CASE \/ \E p \in Path : handleSeedLocalFile(p) \/ changeSource(p)
           \/ \E f \in getFiles \cup SearchResults : requestOther(f)
  BY <1>2, <1>4 DEF handleSeedLocalFile, changeSource, requestOther, PostRequest,
                    memory
<1>5. ASSUME NEW l \in SeedLoop, takeRequest(l)
      PROVE  EntriesRecorded'
  <2>1. UNCHANGED <<fileEventChan, eventLoop, memory>>
    BY <1>5 DEF takeRequest
  <2>2. \A s \in Seeder : seeder'[s] = seeder[s] \/ seeder'[s].at = "stat"
    BY <1>5, LoopEffects
  <2> QED BY <1>2, <2>1, <2>2 DEF memory
<1>6. \A l \in SeedLoop : Idle.at = "idle" /\ ~removeSeed(l) /\ ~reSeed(l)
  BY <1>1 DEF NothingRemoved, Idle, removeSeed, removeMeta, removeChunks,
              sendRemove, reSeed, Removing
<1>7. CASE restart
  <2>1. \A f \in Loaded : f \in FileInfo /\ Recorded(f)
    BY LoadedAreRecorded DEF ListInv
  <2>2. getFiles' \cup SearchResults' \subseteq Loaded
    <3>1. getFiles' \subseteq Loaded
      BY <1>7 DEF restart, getFiles
    <3>2. SearchResults' \subseteq Loaded
      BY <1>7 DEF restart, SearchResults
    <3> QED BY <3>1, <3>2
  <2>3. \A f \in FileInfo : Recorded(f) => Recorded(f)'
    BY <1>1, StaysRecorded
  <2>4. /\ \A s \in Seeder : seeder'[s].at = "free"
        /\ fileEventChan' = <<>> /\ \A l \in EventLoop : eventLoop'[l] = Idle
    BY <1>7 DEF restart, Free
  <2>5. AnnouncedRecorded' /\ EventsRecorded'
    BY <2>4 DEF AnnouncedRecorded, EventsRecorded
  <2>6. MapsRecorded'
    BY <2>1, <2>2, <2>3 DEF MapsRecorded
  <2> QED BY <2>5, <2>6 DEF EntriesRecorded, AnnouncedRecorded, EventsRecorded,
                            MapsRecorded
<1> QED
  BY <1>3, <1>4, <1>5, <1>6, <1>7, EntriesUnderSeed, EntriesUnderLoop DEF Next

LEMMA ListInvInit ==
  ASSUME Init
  PROVE  ListInv
<1>1. /\ \A s \in Seeder : seeder[s].at = "free"
      /\ seedChan = <<>> /\ fileEventChan = <<>>
      /\ \A l \in SeedLoop : seedLoop[l] = Idle
      /\ \A l \in EventLoop : eventLoop[l] = Idle
      /\ \A n \in Name : ~Whole(n)
  BY Kinds DEF Init, Free, Whole
<1>2. getFiles = {} /\ SearchResults = {}
  BY DEF Init, getFiles, SearchResults
<1> QED
  BY <1>1, <1>2
     DEF ListInv, NothingRemoved, EntriesRecorded, FilesKept, MetaNamed, HasChunks

LEMMA ListInvStep ==
  ASSUME TypeOK, SeedInv, ListInv, OneSeedPerName,
         Request \subseteq {"LocalSeed"}, "write" \notin Fault, [Next]_vars
  PROVE  ListInv'
<1>1. NothingRemoved /\ FilesKept /\ MetaNamed
  BY DEF ListInv
<1> QED BY <1>1, NothingToRemove, EntriesStep, FilesKeptStep, MetaNamedStep
        DEF ListInv

\* What the two invariants say together: an entry is loaded unless its source
\* has changed.
LEMMA RecordedSurvives ==
  ASSUME TypeOK, SeedInv, ListInv
  PROVE  ListedSurvives
<1> SUFFICES ASSUME NEW f \in getFiles \cup SearchResults, ~Outdated(f)
             PROVE  f \in Loaded
  BY DEF ListedSurvives
<1> DEFINE n == Base[f.path]
<1>1. f \in FileInfo /\ Recorded(f)
  BY EntriesInParts, EntriesAreFiles DEF ListInv, MapsRecorded
<1>2. n \in Name /\ f.hash \in Content
  BY <1>1 DEF FileInfo
<1>3. /\ Whole(n) /\ meta[n].path = f.path /\ meta[n].hash = f.hash
      /\ chunks[n] = meta[n].chunkFile
  BY <1>1 DEF Recorded
<1>4. source[Abs[meta[n].path]].version = meta[n].version
  BY <1>3 DEF Outdated
<1>5. Exists(meta[n].path)
  BY <1>2, <1>3, <1>4 DEF SeedInv, MetaIsTrue, TrueMeta, Exists
<1>6. Loadable(n)
  BY <1>3, <1>4, <1>5 DEF Loadable, Whole
<1>7. f = File(meta[n].path, meta[n].hash)
  BY <1>1, <1>3 DEF FileInfo, File
<1> QED BY <1>2, <1>6, <1>7 DEF Loaded

\* While every request is to seed, writes do not fail and no two seeds of one
\* name run, the two files behind an entry are there from before its AddFile
\* event is sent.
THEOREM ListInductive ==
  ASSUME Request \subseteq {"LocalSeed"}, "write" \notin Fault
  PROVE  Spec /\ []OneSeedPerName => [](TypeOK /\ SeedInv /\ ListInv)
<1>1. Init => ListInv
  BY ListInvInit
<1>2. TypeOK /\ SeedInv /\ ListInv /\ OneSeedPerName /\ [Next]_vars => ListInv'
  BY ListInvStep
<1> QED BY <1>1, <1>2, Inductive, PTL DEF Spec

\* As the console uses it, what is listed or found by a search is loaded by a
\* restart at any moment, or its metadata is there and the user has changed the
\* file since: the two event loops, which share the maps without a lock, lose no
\* entry's files, and neither does a seed that fails.
THEOREM ListedSurvivesRestart ==
  ASSUME Request \subseteq {"LocalSeed"}, "write" \notin Fault
  PROVE  Spec /\ []OneSeedPerName => []ListedSurvives
<1>1. TypeOK /\ SeedInv /\ ListInv => ListedSurvives
  BY RecordedSurvives
<1> QED BY <1>1, ListInductive, PTL


\* Under the same conditions what a seed announces has both its files: the write
\* of the metadata file, whose failure writeMetadataFile does not report, is the
\* only way to an announcement without them.
THEOREM AnnouncedIsComplete ==
  ASSUME Request \subseteq {"LocalSeed"}, "write" \notin Fault
  PROVE  Spec /\ []OneSeedPerName => []AnnouncedHasBothFiles
<1>1. ASSUME TypeOK, ListInv
      PROVE  AnnouncedHasBothFiles
  <2> SUFFICES ASSUME NEW s \in Seeder, seeder[s].at = "announce"
               PROVE  meta[NameOf(s)] # Absent /\ chunks[NameOf(s)] # Absent
    BY DEF AnnouncedHasBothFiles
  <2> DEFINE n == NameOf(s)
  <2>1. n \in Name
    BY <1>1, Keeps
  <2>2. Recorded(File(seeder[s].path, seeder[s].hash))
    BY <1>1 DEF ListInv, EntriesRecorded
  <2>3. meta[n].is = "Meta" /\ chunks[n] = meta[n].chunkFile
    BY <2>2 DEF Recorded, Whole, File, NameOf
  <2>4. meta[n] \in MetaFile
    BY <1>1, <2>1, <2>3, Kinds DEF TypeOK
  <2>5. meta[n].chunkFile \in ChunkFile \cup {Partial}
    BY <2>4 DEF MetaFile
  <2> QED BY <2>3, <2>5, Kinds
<1>2. TypeOK /\ ListInv => AnnouncedHasBothFiles
  BY <1>1
<1> QED BY <1>2, ListInductive, PTL


=============================================================================
