---------------------------- MODULE SeedingProofs ----------------------------
(***************************************************************************)
(* Proofs about Seeding, for any files, names, contents, goroutines, kinds *)
(* of failing calls and capacities: what the state looks like (TypeOK),    *)
(* and that seeds of different names do each other no harm                 *)
(* (LoadableIsSound and FailureKeepsSeeds while OneSeedPerName holds).     *)
(***************************************************************************)
EXTENDS Seeding, TLAPS

USE SeedingAssumption

-----------------------------------------------------------------------------
(* Seeds and what they gather                                              *)

\* What a seed has gathered by where it is.
LEMMA Gathered ==
  ASSUME TypeOK, NEW s \in Seeder
  PROVE  /\ seeder[s].at = "free" => seeder[s] = Free
         /\ seeder[s].at = "stat" => seeder[s] \in [at : {"stat"}, path : Path]
         /\ seeder[s].at \in {"name", "hash"} => seeder[s] \in Looking
         /\ seeder[s].at \in {"create", "writeChunks", "chunkInfo"}
              => seeder[s] \in Hashed
         /\ seeder[s].at \in {"createMeta", "writeMeta", "announce"}
              => seeder[s] \in Noted
         /\ seeder[s].at \in {"undoChunks", "undoMeta"}
              => seeder[s] \in Looking \cup Hashed
         /\ seeder[s] # Free <=> seeder[s].at # "free"
BY DEF TypeOK, Seeds, Looking, Hashed, Noted, Free

\* The path and the version a seed keeps.
LEMMA Keeps ==
  ASSUME TypeOK, NEW s \in Seeder
  PROVE  /\ seeder[s].at # "free" => /\ seeder[s].path \in Path
                                     /\ NameOf(s) \in Name
                                     /\ Abs[seeder[s].path] \in Path
         /\ seeder[s].at \in HasLooked => seeder[s].version \in 0..MaxVersion
         /\ seeder[s].at \in HasHash => seeder[s].hash \in Content
         /\ seeder[s].at \in HasChunks
              => seeder[s].chunkFile \in ChunkFile \cup {Partial}
BY DEF TypeOK, Seeds, Looking, Hashed, Noted, Free, NameOf, HasLooked, HasHash,
       HasChunks

\* Going on to another step changes nothing else.
LEMMA Relabelled ==
  /\ \A r \in Looking : \A x \in {"name", "hash", "undoChunks", "undoMeta"} :
       [r EXCEPT !.at = x] = [at |-> x, path |-> r.path, version |-> r.version]
  /\ \A r \in Hashed : \A x \in {"create", "writeChunks", "chunkInfo",
                                 "undoChunks", "undoMeta"} :
       [r EXCEPT !.at = x] = [at |-> x, path |-> r.path,
                              version |-> r.version, hash |-> r.hash]
  /\ \A r \in Noted : \A x \in {"createMeta", "writeMeta", "announce"} :
       [r EXCEPT !.at = x] = [at |-> x, path |-> r.path,
                              version |-> r.version, hash |-> r.hash,
                              chunkFile |-> r.chunkFile]
<1>1. \A r \in Looking : \A x \in {"name", "hash", "undoChunks", "undoMeta"} :
        [r EXCEPT !.at = x] = [at |-> x, path |-> r.path, version |-> r.version]
  BY DEF Looking
<1>2. \A r \in Hashed : \A x \in {"create", "writeChunks", "chunkInfo",
                                  "undoChunks", "undoMeta"} :
        [r EXCEPT !.at = x] = [at |-> x, path |-> r.path,
                               version |-> r.version, hash |-> r.hash]
  BY DEF Hashed
<1>3. \A r \in Noted : \A x \in {"createMeta", "writeMeta", "announce"} :
        [r EXCEPT !.at = x] = [at |-> x, path |-> r.path,
                               version |-> r.version, hash |-> r.hash,
                               chunkFile |-> r.chunkFile]
  BY DEF Noted
<1> QED BY <1>1, <1>2, <1>3

\* One seed goes on, and is linked only where it has a file open.
LEMMA SeedMoves ==
  ASSUME TypeOK, NEW s \in Seeder, NEW r \in Seeds,
         seeder' = [seeder EXCEPT ![s] = r],
         linked' \subseteq linked \cup {s},
         s \in linked' => r.at \in {"writeChunks", "writeMeta"}
  PROVE  /\ seeder' \in [Seeder -> Seeds]
         /\ seeder'[s] = r
         /\ \A t \in Seeder \ {s} : seeder'[t] = seeder[t]
         /\ linked' \subseteq Seeder
         /\ \A t \in linked' : seeder'[t].at \in {"writeChunks", "writeMeta"}
<1>1. seeder \in [Seeder -> Seeds] /\ linked \subseteq Seeder
      /\ \A t \in linked : seeder[t].at \in {"writeChunks", "writeMeta"}
  BY DEF TypeOK
<1>2. seeder' \in [Seeder -> Seeds] /\ seeder'[s] = r
      /\ \A t \in Seeder \ {s} : seeder'[t] = seeder[t]
  BY <1>1
<1> QED BY <1>1, <1>2

\* What a seed at r keeps of what it had at q, and what it newly gathers.
Gathers(s, r) ==
  LET q == seeder[s] IN
  /\ r # Free => r.path = q.path
  /\ r.at \in HasLooked
       => \/ q.at \in HasLooked /\ r.version = q.version
          \/ q.at = "stat" /\ r.version = source[Abs[q.path]].version
  /\ r.at \in HasHash
       => \/ q.at \in HasHash /\ r.hash = q.hash /\ r.version = q.version
          \/ q.at = "hash" /\ r.hash \in Reading(s) /\ Exists(q.path)
  /\ r.at \in HasChunks
       => \/ q.at \in HasChunks /\ r.chunkFile = q.chunkFile
          \/ /\ q.at = "chunkInfo"
             /\ chunks[NameOf(s)] # Absent
             /\ r.chunkFile = chunks[NameOf(s)]

\* Where a seed at r came from.
ComesFrom(s, r) ==
  LET q == seeder[s] IN
  /\ r.at # "stat" /\ q # Free
  /\ r.at = "hash" => q.at = "name" /\ meta[NameOf(s)] = Absent
  /\ r.at = "create" => q.at = "hash"
  /\ r.at = "writeChunks" => q.at = "create"
  /\ r.at = "chunkInfo" => q.at = "writeChunks"
  /\ r.at = "createMeta" => q.at = "chunkInfo"
  /\ r.at = "writeMeta" => q.at = "createMeta"
  /\ r.at = "undoChunks"
       => q.at \in {"hash", "create", "writeChunks", "chunkInfo"}
  /\ r.at = "undoMeta" => q.at = "undoChunks"

Advances(s) ==
  \E r \in Seeds :
    /\ seeder' = [seeder EXCEPT ![s] = r]
    /\ s \in linked' => r.at \in {"writeChunks", "writeMeta"}
    /\ Gathers(s, r)
    /\ ComesFrom(s, r)

\* Every step of a seed moves it along its course.
LEMMA SeedAdvances ==
  ASSUME TypeOK, NEW s \in Seeder, localSeed(s)
  PROVE  Advances(s) /\ linked' \subseteq linked \cup {s}
<1> DEFINE q == seeder[s]
           At(x, r) == r = [at |-> x, path |-> q.path, version |-> q.version]
           AtHash(x, r) == r = [at |-> x, path |-> q.path,
                                version |-> q.version, hash |-> q.hash]
           AtChunks(x, r) == r = [at |-> x, path |-> q.path,
                                  version |-> q.version, hash |-> q.hash,
                                  chunkFile |-> q.chunkFile]
<1>1. s \in linked => q.at \in {"writeChunks", "writeMeta"}
  BY DEF TypeOK
<1>2. Free \in Seeds /\ Free.at = "free"
  BY DEF Seeds, Free
<1>3. ASSUME NEW x, Goto(s, x)
      PROVE  seeder' = [seeder EXCEPT ![s] = [q EXCEPT !.at = x]]
  BY <1>3 DEF Goto
<1>4. CASE statSource(s)
  <2>1. CASE Return(s) /\ q.at = "stat"
    BY <2>1, <1>1, <1>2, Gathered
       DEF Return, Advances, Gathers, ComesFrom, HasLooked, HasHash, HasChunks
  <2>2. CASE /\ q.at = "stat"
             /\ seeder' = [seeder EXCEPT ![s] =
                             [at |-> "name", path |-> q.path,
                              version |-> source[Abs[q.path]].version]]
             /\ UNCHANGED linked
    <3> DEFINE r == [at |-> "name", path |-> q.path,
                     version |-> source[Abs[q.path]].version]
    <3>1. q.path \in Path /\ Abs[q.path] \in Path /\ q # Free
      BY <2>2, Keeps, Gathered
    <3>2. source[Abs[q.path]].version \in 0..MaxVersion
      BY <3>1 DEF TypeOK
    <3>3. r \in Looking
      BY <3>1, <3>2 DEF Looking
    <3>4. r \in Seeds
      BY <3>3 DEF Seeds
    <3>5. Gathers(s, r) /\ ComesFrom(s, r) /\ s \notin linked'
      BY <2>2, <3>1, <1>1
         DEF Gathers, ComesFrom, HasLooked, HasHash, HasChunks, Free
    <3> QED BY <2>2, <3>4, <3>5 DEF Advances
  <2> QED BY <1>4, <2>1, <2>2 DEF statSource
<1>5. CASE checkName(s)
  <2>1. CASE Return(s) /\ q.at = "name"
    BY <2>1, <1>1, <1>2, Gathered
       DEF Return, Advances, Gathers, ComesFrom, HasLooked, HasHash, HasChunks
  <2>2. CASE /\ q.at = "name" /\ Goto(s, "hash") /\ UNCHANGED linked
             /\ meta[NameOf(s)] = Absent
    <3> DEFINE r == [q EXCEPT !.at = "hash"]
    <3>1. q \in Looking /\ q # Free
      BY <2>2, Gathered
    <3>2. At("hash", r)
      BY <3>1, Relabelled
    <3>3. r \in Seeds
      BY <3>1, <3>2 DEF Seeds, Looking
    <3>4. Gathers(s, r) /\ ComesFrom(s, r) /\ s \notin linked'
      BY <2>2, <3>1, <3>2, <1>1
         DEF Gathers, ComesFrom, HasLooked, HasHash, HasChunks, Free
    <3> QED BY <2>2, <1>3, <3>3, <3>4 DEF Advances
  <2> QED BY <1>5, <2>1, <2>2 DEF checkName
<1>6. CASE populateFileHash(s)
  <2>1. q.at = "hash" /\ q \in Looking /\ q # Free /\ UNCHANGED linked
    BY <1>6, Gathered DEF populateFileHash
  <2>2. CASE Goto(s, "undoChunks")
    <3> DEFINE r == [q EXCEPT !.at = "undoChunks"]
    <3>1. At("undoChunks", r)
      BY <2>1, Relabelled
    <3>2. r \in Seeds
      BY <2>1, <3>1 DEF Seeds, Looking
    <3>3. Gathers(s, r) /\ ComesFrom(s, r) /\ s \notin linked'
      BY <2>1, <3>1, <1>1
         DEF Gathers, ComesFrom, HasLooked, HasHash, HasChunks, Free
    <3> QED BY <2>1, <2>2, <1>3, <3>2, <3>3 DEF Advances
  <2>3. ASSUME NEW h \in Reading(s), Exists(q.path),
               seeder' = [seeder EXCEPT ![s] =
                            [at |-> "create", path |-> q.path,
                             version |-> q.version, hash |-> h]]
        PROVE  Advances(s)
    <3> DEFINE r == [at |-> "create", path |-> q.path, version |-> q.version,
                     hash |-> h]
    <3>1. source[Abs[q.path]] \in [content : Content \cup {Gone},
                                   version : 0..MaxVersion]
      BY <2>1, Keeps DEF TypeOK, Free
    <3>2. h \in Content
      BY <2>3, <3>1 DEF Reading, Exists
    <3>3. r \in Seeds
      BY <2>1, <3>2 DEF Seeds, Looking, Hashed
    <3>4. Gathers(s, r) /\ ComesFrom(s, r) /\ s \notin linked'
      BY <2>1, <2>3, <1>1
         DEF Gathers, ComesFrom, HasLooked, HasHash, HasChunks, Free
    <3> QED BY <2>3, <3>3, <3>4 DEF Advances
  <2> QED BY <1>6, <2>1, <2>2, <2>3 DEF populateFileHash
<1>7. \A n : /\ \A step : StillLinked(n, step) \subseteq linked
             /\ n = NameOf(s) => s \notin StillLinked(n, q.at)
  BY DEF StillLinked
<1>8. ASSUME q \in Hashed, NEW x \in {"create", "writeChunks", "chunkInfo",
                                      "undoChunks", "undoMeta"},
             Goto(s, x), s \in linked' => x \in {"writeChunks", "writeMeta"},
             ComesFrom(s, [q EXCEPT !.at = x])
      PROVE  Advances(s)
  <2> DEFINE r == [q EXCEPT !.at = x]
  <2>1. AtHash(x, r)
    BY <1>8, Relabelled
  <2>2. r \in Seeds
    BY <1>8, <2>1 DEF Seeds, Hashed
  <2>3. r.at = x /\ q.at \in HasLooked /\ r.at \notin HasChunks
        /\ r.path = q.path /\ r.version = q.version /\ r.hash = q.hash
    BY <1>8, <2>1 DEF Hashed, HasLooked, HasChunks
  <2>4. r.at \in HasHash => q.at \in HasHash
    BY <1>8, <2>3 DEF Hashed, HasHash, ComesFrom
  <2>5. Gathers(s, r)
    BY <2>3, <2>4 DEF Gathers
  <2>6. seeder' = [seeder EXCEPT ![s] = r]
    BY <1>3, <1>8
  <2> HIDE DEF r
  <2> QED BY <1>8, <2>2, <2>3, <2>5, <2>6 DEF Advances, r
<1>9. ASSUME q \in Noted, NEW x \in {"writeMeta", "announce"},
             Goto(s, x), s \in linked' => x \in {"writeChunks", "writeMeta"},
             q.at = "createMeta" \/ (q.at = "writeMeta" /\ x = "announce")
      PROVE  Advances(s)
  <2> DEFINE r == [q EXCEPT !.at = x]
  <2>1. AtChunks(x, r)
    BY <1>9, Relabelled
  <2>2. r \in Seeds
    BY <1>9, <2>1 DEF Seeds, Noted
  <2>3. r.at = x /\ q.at \in HasLooked /\ q.at \in HasChunks
        /\ q.at \in HasHash /\ q # Free
        /\ r.path = q.path /\ r.version = q.version /\ r.hash = q.hash
        /\ r.chunkFile = q.chunkFile
    BY <1>9, <2>1 DEF HasLooked, HasChunks, HasHash, Free
  <2>4. Gathers(s, r)
    BY <2>3 DEF Gathers
  <2>5. ComesFrom(s, r)
    BY <1>9, <2>3 DEF ComesFrom
  <2>6. seeder' = [seeder EXCEPT ![s] = r]
    BY <1>3, <1>9
  <2> HIDE DEF r
  <2> QED BY <1>9, <2>2, <2>3, <2>4, <2>5, <2>6 DEF Advances, r
<1>10. CASE createChunkFile(s)
  <2>1. q.at = "create" /\ q \in Hashed /\ q # Free /\ s \notin linked
    BY <1>10, <1>1, Gathered DEF createChunkFile
  <2>2. \/ linked' = linked /\ Goto(s, "undoChunks")
        \/ linked' = linked \cup {s} /\ Goto(s, "writeChunks")
    BY <1>10 DEF createChunkFile
  <2>3. \A x \in {"undoChunks", "writeChunks"} :
          ComesFrom(s, [q EXCEPT !.at = x])
    BY <2>1, Relabelled DEF ComesFrom
  <2> QED BY <2>1, <2>2, <2>3, <1>8
<1>11. CASE writeChunks(s)
  <2>1. q.at = "writeChunks" /\ q \in Hashed /\ q # Free
    BY <1>11, Gathered DEF writeChunks
  <2>2. /\ linked' \subseteq linked /\ s \notin linked'
        /\ Goto(s, "chunkInfo") \/ Goto(s, "undoChunks")
    BY <1>11, <1>7, <2>1 DEF writeChunks, Close, removeChunkFile
  <2>3. \A x \in {"undoChunks", "chunkInfo"} :
          ComesFrom(s, [q EXCEPT !.at = x])
    BY <2>1, Relabelled DEF ComesFrom
  <2> QED BY <2>1, <2>2, <2>3, <1>8
<1>12. CASE chunkInfo(s)
  <2>1. /\ q.at = "chunkInfo" /\ q \in Hashed /\ q # Free
        /\ UNCHANGED linked /\ s \notin linked
    BY <1>12, <1>1, Gathered DEF chunkInfo
  <2>2. CASE Goto(s, "undoChunks")
    <3>1. ComesFrom(s, [q EXCEPT !.at = "undoChunks"])
      BY <2>1, Relabelled DEF ComesFrom
    <3> QED BY <2>1, <2>2, <3>1, <1>8
  <2>3. CASE /\ chunks[NameOf(s)] # Absent
             /\ seeder' = [seeder EXCEPT ![s] =
                             [at |-> "createMeta", path |-> q.path,
                              version |-> q.version, hash |-> q.hash,
                              chunkFile |-> chunks[NameOf(s)]]]
    <3> DEFINE r == [at |-> "createMeta", path |-> q.path,
                     version |-> q.version, hash |-> q.hash,
                     chunkFile |-> chunks[NameOf(s)]]
    <3>1. chunks[NameOf(s)] \in ChunkFile \cup {Partial}
      BY <2>1, <2>3, Keeps DEF TypeOK, Free
    <3>2. r \in Seeds
      BY <2>1, <3>1 DEF Seeds, Hashed, Noted
    <3>3. Gathers(s, r) /\ ComesFrom(s, r) /\ s \notin linked'
      BY <2>1, <2>3
         DEF Gathers, ComesFrom, HasLooked, HasHash, HasChunks, Free
    <3> QED BY <2>1, <2>3, <3>2, <3>3 DEF Advances
  <2> QED BY <1>12, <2>1, <2>2, <2>3 DEF chunkInfo
<1>13. CASE createMeta(s)
  <2>1. q.at = "createMeta" /\ q \in Noted /\ s \notin linked
    BY <1>13, <1>1, Gathered DEF createMeta
  <2>2. \/ linked' \subseteq linked /\ s \notin linked' /\ Goto(s, "announce")
        \/ linked' = linked \cup {s} /\ Goto(s, "writeMeta")
    BY <1>13, <1>7, <2>1 DEF createMeta, writeMetadataFailed, removeMetaFile
  <2>3. CASE linked' \subseteq linked /\ s \notin linked' /\ Goto(s, "announce")
    BY <2>1, <2>3, <1>9
  <2>4. CASE linked' = linked \cup {s} /\ Goto(s, "writeMeta")
    BY <2>1, <2>4, <1>9
  <2> QED BY <2>2, <2>3, <2>4
<1>14. CASE writeMeta(s)
  <2>1. q.at = "writeMeta" /\ q \in Noted
    BY <1>14, Gathered DEF writeMeta
  <2>2. linked' \subseteq linked /\ s \notin linked' /\ Goto(s, "announce")
    BY <1>14, <1>7, <2>1
       DEF writeMeta, writeMetadataFailed, removeMetaFile, Close
  <2> QED BY <2>1, <2>2, <1>9
<1>15. CASE announce(s)
  <2>1. q.at = "announce" /\ Return(s)
    BY <1>15 DEF announce
  <2> QED BY <2>1, <1>1, <1>2, Gathered
          DEF Return, Advances, Gathers, ComesFrom, HasLooked, HasHash, HasChunks
<1>16. CASE undoChunks(s)
  <2>1. /\ q.at = "undoChunks" /\ q \in Looking \cup Hashed /\ q # Free
        /\ s \notin linked
    BY <1>16, <1>1, Gathered DEF undoChunks
  <2>2. linked' \subseteq linked /\ s \notin linked' /\ Goto(s, "undoMeta")
    BY <1>16, <1>7, <2>1 DEF undoChunks, removeChunkFile
  <2>3. ComesFrom(s, [q EXCEPT !.at = "undoMeta"])
    BY <2>1, Relabelled DEF ComesFrom
  <2>4. CASE q \in Hashed
    BY <2>2, <2>3, <2>4, <1>8
  <2>5. CASE q \in Looking
    <3> DEFINE r == [q EXCEPT !.at = "undoMeta"]
    <3>1. At("undoMeta", r)
      BY <2>5, Relabelled
    <3>2. r \in Seeds
      BY <2>5, <3>1 DEF Seeds, Looking
    <3>3. Gathers(s, r)
      BY <2>1, <3>1 DEF Gathers, HasLooked, HasHash, HasChunks, Free
    <3> QED BY <2>2, <2>3, <1>3, <3>2, <3>3 DEF Advances
  <2> QED BY <2>1, <2>4, <2>5
<1>17. CASE undoMeta(s)
  <2>1. /\ q.at = "undoMeta" /\ seeder' = [seeder EXCEPT ![s] = Free]
        /\ linked' \subseteq linked /\ s \notin linked'
    BY <1>17, <1>1, <1>7 DEF undoMeta
  <2> QED BY <2>1, <1>2, Gathered
          DEF Advances, Gathers, ComesFrom, HasLooked, HasHash, HasChunks
<1> QED
  BY <1>4, <1>5, <1>6, <1>10, <1>11, <1>12, <1>13, <1>14, <1>15, <1>16, <1>17
     DEF localSeed


-----------------------------------------------------------------------------
(* Files                                                                   *)

LEMMA Kinds ==
  /\ Absent.is = "Absent" /\ Partial.is = "Partial" /\ NoFile.is = "NoFile"
  /\ \A c \in ChunkFile : c.is = "Chunks"
  /\ \A m \in MetaFile : m.is = "Meta"
  /\ \A f \in FileInfo : f.is = "File" /\ f # NoFile
  /\ Absent # Partial
  /\ Absent \notin ChunkFile /\ Partial \notin ChunkFile
  /\ \A c \in Content : [is |-> "Chunks", of |-> c] \in ChunkFile
  /\ \A p \in Path, h \in Content :
       File(p, h) \in FileInfo /\ File(p, h).path = p /\ File(p, h).hash = h
BY DEF Absent, Partial, NoFile, ChunkFile, MetaFile, FileInfo, File

\* A source that a seed reads after it has its hash is not gone, unless it
\* changed.
LEMMA ReadsContent ==
  ASSUME TypeOK, HashIsTrue, NEW s \in Seeder, seeder[s].at \in HasHash
  PROVE  Reading(s) \subseteq Content
<1>1. Unchanged(s) => source[Abs[seeder[s].path]].content = seeder[s].hash
  BY DEF HashIsTrue
<1>2. seeder[s].hash \in Content
  BY Keeps
<1> QED BY <1>1, <1>2 DEF Reading, Unchanged

\* What the steps of a seed write is a file of the kind its directory holds.
LEMMA SeedWrites ==
  ASSUME TypeOK, HashIsTrue, NEW s \in Seeder, localSeed(s)
  PROVE  /\ chunks' \in [Name -> {Absent, Partial} \cup ChunkFile]
         /\ meta' \in [Name -> {Absent, Partial} \cup MetaFile]
<1> USE DEF TypeOK
<1>1. CASE statSource(s) \/ checkName(s) \/ populateFileHash(s)
           \/ chunkInfo(s) \/ announce(s)
  BY <1>1 DEF statSource, checkName, populateFileHash, chunkInfo, announce, disk
<1>2. CASE createChunkFile(s) \/ undoChunks(s)
  BY <1>2 DEF createChunkFile, undoChunks, removeChunkFile, Unlink
<1>3. CASE writeChunks(s)
  <2>1. Reading(s) \subseteq Content
    BY <1>3, ReadsContent DEF writeChunks, HasHash
  <2>2. \/ chunks' = chunks
        \/ chunks' = Unlink(chunks, NameOf(s))
        \/ \E c \in Reading(s) :
             chunks' = [chunks EXCEPT ![NameOf(s)] = [is |-> "Chunks", of |-> c]]
    BY <1>3 DEF writeChunks, removeChunkFile
  <2>3. meta' = meta
    BY <1>3 DEF writeChunks
  <2>4. \A c \in Reading(s) : [is |-> "Chunks", of |-> c] \in ChunkFile
    BY <2>1, Kinds
  <2>5. CASE chunks' = chunks \/ chunks' = Unlink(chunks, NameOf(s))
    BY <2>5, <2>3 DEF Unlink
  <2>6. ASSUME NEW c \in Reading(s),
               chunks' = [chunks EXCEPT ![NameOf(s)] =
                            [is |-> "Chunks", of |-> c]]
        PROVE  chunks' \in [Name -> {Absent, Partial} \cup ChunkFile]
    BY <2>4, <2>6
  <2> QED BY <2>2, <2>3, <2>5, <2>6
<1>4. CASE createMeta(s) \/ undoMeta(s)
  BY <1>4 DEF createMeta, writeMetadataFailed, removeMetaFile, Unlink, undoMeta
<1>5. CASE writeMeta(s)
  <2> DEFINE mine == [is |-> "Meta", path |-> seeder[s].path,
                      version |-> seeder[s].version, hash |-> seeder[s].hash,
                      chunkFile |-> seeder[s].chunkFile]
             n == NameOf(s)
  <2>1. seeder[s] \in Noted /\ n \in Name
    BY <1>5, Gathered, Keeps DEF writeMeta, Free
  <2>2. mine \in MetaFile
    BY <2>1 DEF Noted, MetaFile
  <2>3. chunks' = chunks
        /\ \E w \in {Absent, meta[n], mine, Partial} :
             meta' = [meta EXCEPT ![n] = w]
    BY <1>5 DEF writeMeta, writeMetadataFailed, removeMetaFile, Unlink
  <2> QED BY <2>1, <2>2, <2>3
<1> QED BY <1>1, <1>2, <1>3, <1>4, <1>5 DEF localSeed


-----------------------------------------------------------------------------
(* Type correctness                                                        *)

LEMMA TypesInit ==
  ASSUME Init
  PROVE  TypeOK /\ HashIsTrue
<1> USE DEF Init
<1>1. TypeOK
  BY Kinds DEF TypeOK, Seeds, Free
<1>2. \A s \in Seeder : seeder[s].at = "free"
  BY DEF Free
<1>3. HashIsTrue
  BY <1>2 DEF HashIsTrue, HasLooked, HasHash
<1> QED BY <1>1, <1>3

\* A step of a seed.
LEMMA SeedTypes ==
  ASSUME TypeOK, HashIsTrue, NEW s \in Seeder, localSeed(s)
  PROVE  TypeOK'
<1>1. Advances(s) /\ linked' \subseteq linked \cup {s}
  BY SeedAdvances
<1>2. /\ seeder' \in [Seeder -> Seeds]
      /\ linked' \subseteq Seeder
      /\ \A t \in linked' : seeder'[t].at \in {"writeChunks", "writeMeta"}
  <2>1. PICK r \in Seeds : /\ seeder' = [seeder EXCEPT ![s] = r]
                           /\ s \in linked' => r.at \in {"writeChunks", "writeMeta"}
    BY <1>1 DEF Advances
  <2> QED BY <1>1, <2>1, SeedMoves
<1>3. /\ chunks' \in [Name -> {Absent, Partial} \cup ChunkFile]
      /\ meta' \in [Name -> {Absent, Partial} \cup MetaFile]
  BY SeedWrites
<1>4. UNCHANGED <<source, seedChan, seedLoop, eventLoop, memory>>
  BY DEF localSeed, statSource, checkName, populateFileHash, createChunkFile,
         writeChunks, chunkInfo, createMeta, writeMeta, announce, undoChunks,
         undoMeta
<1>5. /\ fileEventChan' \in Seq(FileEvents)
      /\ Len(fileEventChan') <= FileEventChanCap
  <2>1. CASE UNCHANGED fileEventChan
    BY <2>1 DEF TypeOK
  <2>2. CASE announce(s)
    <3>1. seeder[s] \in Noted
      BY <2>2, Gathered DEF announce
    <3>2. File(seeder[s].path, seeder[s].hash) \in FileInfo
      BY <3>1, Kinds DEF Noted
    <3> QED BY <2>2, <3>2 DEF announce, PostEvent, TypeOK, FileEvents
  <2> QED
    BY <2>1, <2>2
       DEF localSeed, statSource, checkName, populateFileHash, createChunkFile,
           writeChunks, chunkInfo, createMeta, writeMeta, undoChunks, undoMeta
<1> QED
  BY <1>2, <1>3, <1>4, <1>5 DEF TypeOK, memory

\* go localSeed: a seed that was free is at its start.
LEMMA SpawnMoves ==
  ASSUME TypeOK, NEW p \in Path, Spawn(p), linked' \subseteq linked
  PROVE  /\ \E s \in Seeder : /\ seeder[s] = Free /\ s \notin linked
                              /\ seeder'[s] = [at |-> "stat", path |-> p]
                              /\ \A t \in Seeder \ {s} : seeder'[t] = seeder[t]
         /\ seeder' \in [Seeder -> Seeds]
         /\ linked' \subseteq Seeder
         /\ \A t \in linked' : seeder'[t].at \in {"writeChunks", "writeMeta"}
<1>1. PICK s \in Seeder :
        /\ seeder[s] = Free
        /\ seeder' = [seeder EXCEPT ![s] = [at |-> "stat", path |-> p]]
  BY DEF Spawn
<1>2. s \notin linked
  <2>1. \A t \in linked : seeder[t].at \in {"writeChunks", "writeMeta"}
    BY DEF TypeOK
  <2> QED BY <1>1, <2>1 DEF Free
<1>3. [at |-> "stat", path |-> p] \in Seeds
  BY DEF Seeds
<1> DEFINE r == [at |-> "stat", path |-> p]
<1>4. r \in Seeds /\ seeder' = [seeder EXCEPT ![s] = r]
      /\ linked' \subseteq linked \cup {s} /\ s \notin linked'
  BY <1>1, <1>2, <1>3
<1> HIDE DEF r
<1>5. /\ seeder' \in [Seeder -> Seeds]
      /\ seeder'[s] = r
      /\ \A t \in Seeder \ {s} : seeder'[t] = seeder[t]
      /\ linked' \subseteq Seeder
      /\ \A t \in linked' : seeder'[t].at \in {"writeChunks", "writeMeta"}
  BY <1>4, SeedMoves
<1> QED BY <1>1, <1>2, <1>5 DEF r

\* A step of a seedLoop.
LEMMA LoopTypes ==
  ASSUME TypeOK, NEW l \in SeedLoop,
         takeRequest(l) \/ removeSeed(l) \/ reSeed(l)
  PROVE  TypeOK'
<1>1. linked' \subseteq linked
  BY DEF takeRequest, removeSeed, reSeed, removeMeta, removeChunks, sendRemove,
         removeMetaFile, removeChunkFile, StillLinked
<1>2. UNCHANGED <<source, eventLoop, memory>>
  BY DEF takeRequest, removeSeed, reSeed, removeMeta, removeChunks, sendRemove
<1>3. CASE takeRequest(l)
  <2>1. Head(seedChan) \in Requested /\ Tail(seedChan) \in Seq(Requested)
        /\ Len(Tail(seedChan)) <= SeedChanCap
    BY <1>3 DEF takeRequest, TypeOK
  <2>2. UNCHANGED <<chunks, meta, linked, fileEventChan>>
        /\ seedChan' = Tail(seedChan)
    BY <1>3 DEF takeRequest, disk
  <2>3. CASE Head(seedChan).type = "LocalSeed"
    <3>1. Spawn(Head(seedChan).path) /\ Head(seedChan).path \in Path
          /\ UNCHANGED seedLoop
      BY <1>3, <2>1, <2>3 DEF takeRequest, Requested
    <3> QED BY <1>1, <1>2, <2>1, <2>2, <3>1, SpawnMoves DEF TypeOK, memory
  <2>4. CASE Head(seedChan).type # "LocalSeed"
    <3> DEFINE r == [at |-> "meta", file |-> Head(seedChan).file,
                     again |-> Head(seedChan).type = "ReSeed"]
    <3>1. Head(seedChan).file \in FileInfo
      BY <2>1, <2>4 DEF Requested
    <3>2. r \in Removals
      BY <3>1 DEF Removals
    <3>3. seedLoop' = [seedLoop EXCEPT ![l] = r] /\ UNCHANGED seeder
      BY <1>3, <2>4 DEF takeRequest
    <3> HIDE DEF r
    <3> QED BY <1>2, <2>1, <2>2, <3>2, <3>3 DEF TypeOK, memory
  <2> QED BY <2>3, <2>4
<1>4. CASE reSeed(l)
  <2>1. Spawn(seedLoop[l].file.path) /\ seedLoop[l].at = "spawn"
        /\ seedLoop' = [seedLoop EXCEPT ![l] = Idle]
        /\ UNCHANGED <<chunks, meta, seedChan, linked, fileEventChan>>
    BY <1>4 DEF reSeed, Removing, disk
  <2>2. seedLoop[l].file.path \in Path
    BY <2>1 DEF TypeOK, Removals, Idle, FileInfo
  <2> QED BY <1>1, <1>2, <2>1, <2>2, SpawnMoves DEF TypeOK, memory
<1>5. CASE removeSeed(l)
  <2>1. seedLoop[l].at \in {"meta", "chunks", "send"}
    BY <1>5 DEF removeSeed, removeMeta, removeChunks, sendRemove, Removing
  <2>2. seedLoop[l] \in [at : {"meta", "chunks", "send"}, file : FileInfo,
                         again : BOOLEAN]
    BY <2>1 DEF TypeOK, Removals, Idle
  <2>3. \A x \in {"chunks", "send"} : [seedLoop[l] EXCEPT !.at = x] \in Removals
    BY <2>2 DEF Removals
  <2>4. Removed(l) => seedLoop' \in [SeedLoop -> {Idle} \cup Removals]
    BY <2>2 DEF Removed, TypeOK, Removals
  <2>5. \A x \in {"chunks", "send"} :
          RemoveGoto(l, x) => seedLoop' \in [SeedLoop -> {Idle} \cup Removals]
    BY <2>3 DEF RemoveGoto, TypeOK
  <2>6. seedLoop' \in [SeedLoop -> {Idle} \cup Removals]
    BY <1>5, <2>4, <2>5 DEF removeSeed, removeMeta, removeChunks, sendRemove
  <2>7. /\ chunks' \in [Name -> {Absent, Partial} \cup ChunkFile]
        /\ meta' \in [Name -> {Absent, Partial} \cup MetaFile]
    BY <1>5 DEF removeSeed, removeMeta, removeChunks, sendRemove, TypeOK,
                removeMetaFile, removeChunkFile, Unlink, disk
  <2>8. /\ fileEventChan' \in Seq(FileEvents)
        /\ Len(fileEventChan') <= FileEventChanCap
    <3>1. UNCHANGED fileEventChan \/ PostEvent("RemoveFile", seedLoop[l].file)
      BY <1>5 DEF removeSeed, removeMeta, removeChunks, sendRemove
    <3>2. [type |-> "RemoveFile", file |-> seedLoop[l].file] \in FileEvents
      BY <2>2 DEF FileEvents
    <3>3. /\ fileEventChan \in Seq(FileEvents)
          /\ Len(fileEventChan) <= FileEventChanCap
      BY DEF TypeOK
    <3>4. CASE PostEvent("RemoveFile", seedLoop[l].file)
      BY <3>2, <3>3, <3>4 DEF PostEvent
    <3> QED BY <3>1, <3>3, <3>4
  <2>9. UNCHANGED <<seedChan, seeder>>
    BY <1>5 DEF removeSeed, removeMeta, removeChunks, sendRemove
  <2> QED BY <1>1, <1>2, <2>6, <2>7, <2>8, <2>9 DEF TypeOK, memory
<1> QED BY <1>3, <1>4, <1>5


\* A step of a fileEventLoop.
LEMMA EventTypes ==
  ASSUME TypeOK, NEW l \in EventLoop, fileEventLoop(l)
  PROVE  TypeOK'
<1>1. UNCHANGED <<source, chunks, meta, seedChan, seedLoop, seeder, linked>>
  BY DEF fileEventLoop, takeEvent, handleEvent, disk
<1>2. CASE takeEvent(l)
  <2>1. /\ Head(fileEventChan) \in FileEvents
        /\ Tail(fileEventChan) \in Seq(FileEvents)
        /\ Len(Tail(fileEventChan)) <= FileEventChanCap
    BY <1>2 DEF takeEvent, TypeOK
  <2>2. Took(Head(fileEventChan)) \in Taken
    BY <2>1 DEF Took, Taken
  <2>3. /\ eventLoop' = [eventLoop EXCEPT ![l] = Took(Head(fileEventChan))]
        /\ fileEventChan' = Tail(fileEventChan)
        /\ UNCHANGED memory
    BY <1>2 DEF takeEvent
  <2> QED BY <1>1, <2>1, <2>2, <2>3 DEF TypeOK, memory
<1>3. CASE handleEvent(l)
  <2> DEFINE e == eventLoop[l].event
             f == e.file
             found == filesByHash[f.hash]
  <2>1. e \in FileEvents
    BY <1>3 DEF handleEvent, TypeOK, Taken, Idle
  <2>2. f \in FileInfo /\ f.hash \in Content /\ f.path \in Path
    BY <2>1 DEF FileEvents, FileInfo
  <2>3. found \in FileInfo \cup {NoFile}
    BY <2>2 DEF TypeOK
  <2>4. /\ filesByHash' \in [Content -> FileInfo \cup {NoFile}]
        /\ \A h \in Content :
             filesByHash'[h] # NoFile => filesByHash'[h].hash = h
        /\ localSeededFiles' \subseteq Path
    <3>1. CASE registerFile(f)
      BY <2>2, <3>1 DEF registerFile, TypeOK
    <3>2. CASE removeFormMap(f)
      BY <2>2, <3>2 DEF removeFormMap, TypeOK
    <3> QED BY <1>3, <3>1, <3>2 DEF handleEvent
  <2>5. Indexed(e) \in [FileInfo -> Nat]
    <3>1. searchIndex \in [FileInfo -> Nat]
      BY DEF TypeOK
    <3>2. [searchIndex EXCEPT ![f] = @ + 1] \in [FileInfo -> Nat]
      BY <2>2, <3>1
    <3>3. [searchIndex EXCEPT ![found] = IF @ = 0 THEN 0 ELSE @ - 1]
            \in [FileInfo -> Nat]
      <4>1. CASE found \in FileInfo
        BY <3>1, <4>1
      <4>2. CASE found \notin FileInfo
        BY <3>1, <4>2
      <4> QED BY <4>1, <4>2
    <3> QED BY <3>1, <3>2, <3>3 DEF Indexed
  <2>6. searchIndex' \in [FileInfo -> 0..MaxCopies]
    <3>1. searchIndex' \in [FileInfo -> Nat]
      BY <1>3, <2>5 DEF handleEvent, TypeOK
    <3>2. \A g \in FileInfo : searchIndex'[g] <= MaxCopies
      BY <1>3 DEF handleEvent
    <3> QED BY <3>1, <3>2
  <2>7. eventLoop' \in [EventLoop -> {Idle} \cup Taken] /\ UNCHANGED fileEventChan
    BY <1>3 DEF handleEvent, TypeOK
  <2> QED BY <1>1, <2>4, <2>6, <2>7 DEF TypeOK
<1> QED BY <1>2, <1>3 DEF fileEventLoop

\* What a restart loads are files the metadata directory names.
LEMMA LoadedFiles == ASSUME TypeOK PROVE Loaded \subseteq FileInfo
<1> SUFFICES ASSUME NEW n \in Name, Loadable(n)
             PROVE  File(meta[n].path, meta[n].hash) \in FileInfo
  BY DEF Loaded
<1>1. meta[n] \in {Absent, Partial} \cup MetaFile /\ meta[n].is = "Meta"
  BY DEF Loadable, TypeOK
<1>2. meta[n] \in MetaFile
  BY <1>1, Kinds
<1> QED BY <1>2, Kinds DEF MetaFile

\* A restart.
LEMMA RestartTypes ==
  ASSUME TypeOK, restart
  PROVE  TypeOK'
<1>1. Loaded \subseteq FileInfo
  BY LoadedFiles
<1>2. /\ filesByHash' \in [Content -> FileInfo \cup {NoFile}]
      /\ \A h \in Content : filesByHash'[h] # NoFile => filesByHash'[h].hash = h
  BY <1>1 DEF restart
<1>3. localSeededFiles' \subseteq Path
  BY <1>1 DEF restart, FileInfo
<1>4. searchIndex' \in [FileInfo -> 0..MaxCopies]
  BY DEF restart
<1>5. /\ seeder' \in [Seeder -> Seeds] /\ linked' = {}
      /\ seedLoop' \in [SeedLoop -> {Idle} \cup Removals]
      /\ eventLoop' \in [EventLoop -> {Idle} \cup Taken]
      /\ seedChan' = <<>> /\ fileEventChan' = <<>>
      /\ UNCHANGED <<source, chunks, meta>>
  BY DEF restart, Seeds, disk
<1> QED BY <1>2, <1>3, <1>4, <1>5 DEF TypeOK

\* A request, and a change of the user's.
LEMMA UserTypes ==
  ASSUME TypeOK,
         \/ \E p \in Path : handleSeedLocalFile(p) \/ changeSource(p)
         \/ \E f \in getFiles \cup SearchResults : requestOther(f)
  PROVE  TypeOK'
<1>1. ASSUME NEW r \in Requested, Len(seedChan) < SeedChanCap,
             seedChan' = Append(seedChan, r),
             UNCHANGED <<source, disk, seedLoop, seeder, linked, fileEventChan,
                         eventLoop, memory>>
      PROVE  TypeOK'
  BY <1>1 DEF TypeOK, disk, memory
<1>2. ASSUME NEW p \in Path, handleSeedLocalFile(p)
      PROVE  TypeOK'
  <2>1. [type |-> "LocalSeed", path |-> p, file |-> NoFile] \in Requested
    BY DEF Requested
  <2> QED BY <1>1, <1>2, <2>1 DEF handleSeedLocalFile, PostRequest
<1>3. ASSUME NEW p \in Path, changeSource(p)
      PROVE  TypeOK'
  <2>1. PICK c \in Content \cup {Gone} :
          source' = [source EXCEPT ![p] = [content |-> c,
                                           version |-> source[p].version + 1]]
    BY <1>3 DEF changeSource
  <2>2. source[p].version + 1 \in 0..MaxVersion
    BY <1>3 DEF changeSource, TypeOK
  <2>3. source' \in [Path -> [content : Content \cup {Gone},
                              version : 0..MaxVersion]]
    BY <2>1, <2>2 DEF TypeOK
  <2> QED BY <1>3, <2>3 DEF changeSource, TypeOK, disk, memory
<1>4. ASSUME NEW f \in getFiles \cup SearchResults, requestOther(f)
      PROVE  TypeOK'
  <2>1. f \in FileInfo
    BY DEF getFiles, SearchResults, TypeOK
  <2>2. \A type \in {"RemoveSeed", "ReSeed"} :
          [type |-> type, path |-> f.path, file |-> f] \in Requested
    BY <2>1 DEF Requested, FileInfo
  <2>3. PICK type \in {"RemoveSeed", "ReSeed"} : PostRequest(type, f.path, f)
    BY <1>4 DEF requestOther
  <2> QED BY <1>1, <2>2, <2>3 DEF PostRequest
<1> QED BY <1>2, <1>3, <1>4

LEMMA TypesStep ==
  ASSUME TypeOK, HashIsTrue, [Next]_vars
  PROVE  TypeOK'
<1>1. CASE UNCHANGED vars
  BY <1>1 DEF vars, disk, memory, TypeOK
<1>2. CASE Next
  BY <1>2, SeedTypes, LoopTypes, EventTypes, RestartTypes, UserTypes DEF Next
<1> QED BY <1>1, <1>2


\* One seed's part of HashIsTrue.
HashOf(s) ==
  /\ seeder[s].at \in HasLooked
       => seeder[s].version <= source[Abs[seeder[s].path]].version
  /\ seeder[s].at \in HasHash /\ Unchanged(s)
       => source[Abs[seeder[s].path]].content = seeder[s].hash

LEMMA StagesOf ==
  /\ HasChunks \subseteq HasHash /\ HasHash \subseteq HasLooked
  /\ "free" \notin HasLooked /\ "stat" \notin HasLooked
  /\ "hash" \in HasLooked \ HasHash
BY DEF HasChunks, HasHash, HasLooked

\* A change of a source is a new version.
LEMMA VersionsGrow ==
  ASSUME TypeOK, NEW p \in Path, changeSource(p)
  PROVE  \A x \in Path :
           source'[x] = source[x] \/ source'[x].version > source[x].version
<1>1. PICK c \in Content \cup {Gone} :
        source' = [source EXCEPT ![p] = [content |-> c,
                                         version |-> source[p].version + 1]]
  BY DEF changeSource
<1>2. source \in [Path -> [content : Content \cup {Gone},
                           version : 0..MaxVersion]]
  BY DEF TypeOK
<1>3. source'[p].version = source[p].version + 1
      /\ \A x \in Path \ {p} : source'[x] = source[x]
  BY <1>1, <1>2
<1>4. source[p].version + 1 > source[p].version
  BY <1>2
<1> QED BY <1>3, <1>4

\* What was noted of a source is true of an earlier version, or of this one.
LEMMA ChangeSeen ==
  ASSUME TypeOK, NEW p \in Path, changeSource(p), NEW x \in Path, NEW v \in Nat,
         v <= source[x].version
  PROVE  /\ v <= source'[x].version
         /\ v = source'[x].version => source'[x] = source[x]
<1>1. source'[x] = source[x] \/ source'[x].version > source[x].version
  BY VersionsGrow
<1>2. TypeOK'
  BY UserTypes
<1>3. source[x].version \in Nat /\ source'[x].version \in Nat
  <2>1. /\ source[x] \in [content : Content \cup {Gone}, version : 0..MaxVersion]
        /\ source'[x] \in [content : Content \cup {Gone}, version : 0..MaxVersion]
    BY <1>2 DEF TypeOK
  <2> QED BY <2>1
<1> QED BY <1>1, <1>3

LEMMA HashStep ==
  ASSUME TypeOK, HashIsTrue, [Next]_vars
  PROVE  HashIsTrue'
<1> SUFFICES ASSUME NEW t \in Seeder
             PROVE  HashOf(t)'
  BY DEF HashIsTrue, HashOf
<1>1. HashOf(t)
  BY DEF HashIsTrue, HashOf
<1>2. ASSUME seeder'[t] = seeder[t], source' = source
      PROVE  HashOf(t)'
  BY <1>1, <1>2 DEF HashOf, Unchanged
<1>3. ASSUME seeder'[t].at \in {"free", "stat"}
      PROVE  HashOf(t)'
  BY <1>3, StagesOf DEF HashOf
<1>4. CASE UNCHANGED vars
  BY <1>4, <1>2 DEF vars
<1>5. ASSUME NEW s \in Seeder, localSeed(s)
      PROVE  HashOf(t)'
  <2>1. source' = source
    BY <1>5
       DEF localSeed, statSource, checkName, populateFileHash, createChunkFile,
           writeChunks, chunkInfo, createMeta, writeMeta, announce, undoChunks,
           undoMeta
  <2>2. PICK r \in Seeds : /\ seeder' = [seeder EXCEPT ![s] = r]
                           /\ Gathers(s, r) /\ ComesFrom(s, r)
    BY <1>5, SeedAdvances DEF Advances
  <2>3. seeder \in [Seeder -> Seeds]
    BY DEF TypeOK
  <2>4. CASE t # s
    BY <2>1, <2>2, <2>3, <2>4, <1>2
  <2>5. CASE t = s
    <3>1. seeder'[t] = r
      BY <2>2, <2>3, <2>5
    <3>2. r.at \notin HasLooked => HashOf(t)'
      BY <3>1, StagesOf DEF HashOf
    <3>3. ASSUME r.at \in HasLooked
          PROVE  HashOf(t)'
      <4> DEFINE now == source[Abs[seeder[t].path]]
      <4>1. r.path = seeder[t].path
        BY <2>2, <2>5, <3>3, StagesOf DEF Gathers, Free
      <4>2. \/ seeder[t].at \in HasLooked /\ r.version = seeder[t].version
            \/ seeder[t].at = "stat" /\ r.version = now.version
        BY <2>2, <2>5, <3>3 DEF Gathers
      <4>3. now.version \in Nat
        <5>1. Abs[seeder[t].path] \in Path
          BY <4>2, StagesOf, Keeps
        <5> QED BY <5>1 DEF TypeOK
      <4>4. r.version <= now.version
        BY <4>2, <4>3, <1>1 DEF HashOf
      <4>5. r.at \in HasHash /\ r.version = now.version => now.content = r.hash
        <5> SUFFICES ASSUME r.at \in HasHash, r.version = now.version
                     PROVE  now.content = r.hash
          OBVIOUS
        <5>1. \/ /\ seeder[t].at \in HasHash /\ r.hash = seeder[t].hash
                 /\ r.version = seeder[t].version
              \/ seeder[t].at = "hash" /\ r.hash \in Reading(t)
          BY <2>2, <2>5 DEF Gathers
        <5>2. CASE /\ seeder[t].at \in HasHash /\ r.hash = seeder[t].hash
                   /\ r.version = seeder[t].version
          BY <5>2, <1>1 DEF HashOf, Unchanged
        <5>3. CASE seeder[t].at = "hash" /\ r.hash \in Reading(t)
          <6>1. r.version = seeder[t].version
            BY <4>2, <5>3
          <6> QED BY <5>3, <6>1 DEF Reading
        <5> QED BY <5>1, <5>2, <5>3
      <4> QED BY <2>1, <3>1, <4>1, <4>4, <4>5 DEF HashOf, Unchanged
    <3> QED BY <3>2, <3>3
  <2> QED BY <2>4, <2>5
<1>6. ASSUME NEW l \in SeedLoop, takeRequest(l) \/ removeSeed(l) \/ reSeed(l)
      PROVE  HashOf(t)'
  <2>1. source' = source
    BY <1>6 DEF takeRequest, removeSeed, reSeed, removeMeta, removeChunks,
                sendRemove
  <2>2. \/ UNCHANGED seeder
        \/ \E p : Spawn(p)
    BY <1>6 DEF takeRequest, removeSeed, reSeed, removeMeta, removeChunks,
                sendRemove
  <2>3. seeder'[t] = seeder[t] \/ seeder'[t].at = "stat"
    BY <2>2 DEF Spawn, TypeOK
  <2> QED BY <2>1, <2>3, <1>2, <1>3
<1>7. ASSUME NEW p \in Path, changeSource(p)
      PROVE  HashOf(t)'
  <2>1. UNCHANGED seeder
    BY <1>7 DEF changeSource
  <2>2. CASE seeder[t].at \notin HasLooked
    BY <2>1, <2>2, StagesOf DEF HashOf
  <2>3. CASE seeder[t].at \in HasLooked
    <3> DEFINE x == Abs[seeder[t].path]
    <3>1. x \in Path /\ seeder[t].version \in Nat
      BY <2>3, Keeps, StagesOf
    <3>2. seeder[t].version <= source[x].version
      BY <1>1, <2>3 DEF HashOf
    <3>3. /\ seeder[t].version <= source'[x].version
          /\ seeder[t].version = source'[x].version => source'[x] = source[x]
      BY <1>7, <3>1, <3>2, ChangeSeen
    <3> QED BY <1>1, <2>1, <3>3 DEF HashOf, Unchanged
  <2> QED BY <2>2, <2>3
<1>8. CASE restart
  BY <1>8, <1>3 DEF restart, Free
<1>9. ASSUME NEW l \in EventLoop, fileEventLoop(l)
      PROVE  HashOf(t)'
  BY <1>9, <1>2 DEF fileEventLoop, takeEvent, handleEvent
<1>10. CASE \/ \E p \in Path : handleSeedLocalFile(p)
            \/ \E f \in getFiles \cup SearchResults : requestOther(f)
  BY <1>10, <1>2 DEF handleSeedLocalFile, requestOther, PostRequest
<1> QED
  BY <1>4, <1>5, <1>6, <1>7, <1>8, <1>9, <1>10 DEF Next

\* The state has the form that the steps of the goroutines rely on: a file on
\* disk is whole or known not to be, a seed has what its place in localSeed
\* says, the channels hold no more than their buffers, a file found under a hash
\* has that hash.
THEOREM TypeCorrect == Spec => []TypeOK
<1>1. Init => TypeOK /\ HashIsTrue
  BY TypesInit
<1>2. TypeOK /\ HashIsTrue /\ [Next]_vars => (TypeOK /\ HashIsTrue)'
  BY TypesStep, HashStep
<1> QED BY <1>1, <1>2, PTL DEF Spec


-----------------------------------------------------------------------------
(* Seeds of different names                                                *)

\* What a step of a seed does to the directories.
LEMMA SeedEffects ==
  ASSUME TypeOK, NEW s \in Seeder, localSeed(s)
  PROVE  LET n == NameOf(s) IN
         /\ source' = source
         /\ \A m \in Name \ {n} : chunks'[m] = chunks[m] /\ meta'[m] = meta[m]
         /\ \A t \in Seeder \ {s} :
              NameOf(t) # n => (t \in linked' <=> t \in linked)
         /\ seeder[s].at = "create" /\ seeder'[s].at = "writeChunks"
              => chunks'[n] = Partial /\ s \in linked'
         /\ seeder[s].at = "writeChunks" /\ seeder'[s].at = "chunkInfo"
              => \E c \in Reading(s) :
                   chunks'[n] = IF s \in linked THEN [is |-> "Chunks", of |-> c]
                                ELSE chunks[n]
         /\ \/ meta'[n] = meta[n]
            \/ /\ seeder[s].at \in {"createMeta", "writeMeta", "undoMeta"}
               /\ meta'[n] \in {Absent, Partial}
            \/ /\ seeder[s].at = "writeMeta"
               /\ meta'[n] = [is |-> "Meta", path |-> seeder[s].path,
                              version |-> seeder[s].version,
                              hash |-> seeder[s].hash,
                              chunkFile |-> seeder[s].chunkFile]
<1> DEFINE n == NameOf(s)
<1>1. /\ chunks \in [Name -> {Absent, Partial} \cup ChunkFile]
      /\ meta \in [Name -> {Absent, Partial} \cup MetaFile]
      /\ seeder \in [Seeder -> Seeds]
      /\ s \in linked => seeder[s].at \in {"writeChunks", "writeMeta"}
  BY DEF TypeOK
<1>2. seeder[s].at # "free" => n \in Name
  BY Keeps
<1>3. \A m, step : \A t \in Seeder :
        NameOf(t) # m => (t \in StillLinked(m, step) <=> t \in linked)
  BY DEF StillLinked
<1>4. CASE statSource(s) \/ checkName(s) \/ populateFileHash(s)
           \/ chunkInfo(s) \/ announce(s)
  <2>1. /\ UNCHANGED <<source, chunks, meta, linked>>
        /\ seeder[s].at \in {"stat", "name", "hash", "chunkInfo", "announce"}
    BY <1>4 DEF statSource, checkName, populateFileHash, chunkInfo, announce,
                disk, Return
  <2> QED BY <2>1
<1>5. CASE createChunkFile(s)
  <2>1. seeder[s].at = "create" /\ UNCHANGED <<source, meta>>
    BY <1>5 DEF createChunkFile
  <2>2. CASE /\ chunks' = [chunks EXCEPT ![n] = Partial]
             /\ linked' = linked \cup {s}
    BY <1>1, <1>2, <2>1, <2>2
  <2>3. CASE Goto(s, "undoChunks") /\ UNCHANGED <<chunks, linked>>
    <3>1. seeder'[s] = [seeder[s] EXCEPT !.at = "undoChunks"]
      BY <2>3, <1>1 DEF Goto
    <3>2. seeder'[s].at = "undoChunks"
      BY <3>1, <2>1, Gathered, Relabelled
    <3> QED BY <2>1, <2>3, <3>2
  <2> QED BY <1>5, <2>2, <2>3 DEF createChunkFile
<1>6. CASE writeChunks(s)
  <2>1. seeder[s].at = "writeChunks" /\ UNCHANGED <<source, meta>>
    BY <1>6 DEF writeChunks
  <2>2. CASE /\ \E c \in Reading(s) :
                  chunks' = IF s \in linked
                            THEN [chunks EXCEPT ![n] = [is |-> "Chunks", of |-> c]]
                            ELSE chunks
             /\ Close(s)
    BY <1>1, <1>2, <2>1, <2>2 DEF Close
  <2>3. CASE removeChunkFile(n) /\ Goto(s, "undoChunks")
    <3>1. seeder'[s] = [seeder[s] EXCEPT !.at = "undoChunks"]
      BY <2>3, <1>1 DEF Goto
    <3>2. seeder'[s].at = "undoChunks"
      BY <3>1, <2>1, Gathered, Relabelled
    <3> QED BY <1>1, <1>3, <2>1, <2>3, <3>2 DEF removeChunkFile, Unlink
  <2> QED BY <1>6, <2>2, <2>3 DEF writeChunks
<1>7. CASE createMeta(s)
  <2>1. seeder[s].at = "createMeta" /\ UNCHANGED <<source, chunks>>
    BY <1>7 DEF createMeta
  <2>2. \/ meta' = [meta EXCEPT ![n] = Partial] /\ linked' = linked \cup {s}
        \/ removeMetaFile(n)
    BY <1>7 DEF createMeta, writeMetadataFailed
  <2> QED BY <1>1, <1>2, <1>3, <2>1, <2>2 DEF removeMetaFile, Unlink
<1>8. CASE writeMeta(s)
  <2> DEFINE mine == [is |-> "Meta", path |-> seeder[s].path,
                      version |-> seeder[s].version, hash |-> seeder[s].hash,
                      chunkFile |-> seeder[s].chunkFile]
  <2>1. seeder[s].at = "writeMeta" /\ UNCHANGED <<source, chunks>>
    BY <1>8 DEF writeMeta
  <2>2. /\ \E w \in {meta[n], mine, Partial, Absent} :
             meta' = [meta EXCEPT ![n] = w]
        /\ Close(s) \/ removeMetaFile(n)
    BY <1>8 DEF writeMeta, writeMetadataFailed, removeMetaFile, Unlink
  <2>3. \A t \in Seeder \ {s} :
          NameOf(t) # n => (t \in linked' <=> t \in linked)
    BY <1>3, <2>2 DEF Close, removeMetaFile
  <2>4. n \in Name
    BY <1>2, <2>1
  <2>5. PICK w \in {meta[n], mine, Partial, Absent} :
          meta' = [meta EXCEPT ![n] = w]
    BY <2>2
  <2>6. meta'[n] = w /\ \A m \in Name \ {n} : meta'[m] = meta[m]
    BY <1>1, <2>4, <2>5
  <2> QED BY <2>1, <2>3, <2>6
<1>9. CASE undoChunks(s)
  <2>1. /\ seeder[s].at = "undoChunks" /\ UNCHANGED <<source, meta>>
        /\ removeChunkFile(n)
    BY <1>9 DEF undoChunks
  <2> QED BY <1>1, <1>3, <2>1 DEF removeChunkFile, Unlink
<1>10. CASE undoMeta(s)
  <2>1. /\ seeder[s].at = "undoMeta" /\ UNCHANGED <<source, chunks>>
        /\ meta' = Unlink(meta, n) /\ linked' = StillLinked(n, "writeMeta")
    BY <1>10 DEF undoMeta
  <2> QED BY <1>1, <1>2, <1>3, <2>1 DEF Unlink
<1> QED BY <1>4, <1>5, <1>6, <1>7, <1>8, <1>9, <1>10 DEF localSeed


LEMMA OnlyItsName ==
  ASSUME TypeOK, NEW s \in Seeder, localSeed(s), NEW m \in Name, m # NameOf(s)
  PROVE  chunks'[m] = chunks[m] /\ meta'[m] = meta[m]
<1>1. \A k \in Name \ {NameOf(s)} : chunks'[k] = chunks[k] /\ meta'[k] = meta[k]
  BY SeedEffects
<1> QED BY <1>1

\* A seed that does not move keeps what is its own, although the files of its
\* name are removed under it.
LEMMA Undisturbed ==
  ASSUME NEW t \in Seeder, OwnChunks(t), NoMeta(t),
         seeder'[t] = seeder[t], source' = source,
         \/ /\ chunks'[NameOf(t)] = chunks[NameOf(t)]
            /\ seeder[t].at = "writeChunks" => (t \in linked' <=> t \in linked)
         \/ /\ chunks'[NameOf(t)] = Absent
            /\ seeder[t].at = "writeChunks" => t \notin linked',
         meta'[NameOf(t)] = meta[NameOf(t)] \/ meta'[NameOf(t)] = Absent
  PROVE  OwnChunks(t)' /\ NoMeta(t)'
<1>1. NameOf(t)' = NameOf(t)
  BY DEF NameOf
<1>2. Unchanged(t)' <=> Unchanged(t)
  BY DEF Unchanged
<1>3. OwnChunks(t)'
  BY <1>1, <1>2 DEF OwnChunks
<1>4. NoMeta(t)'
  BY <1>1, Kinds DEF NoMeta, Whole
<1> QED BY <1>3, <1>4

\* The step of the seed itself.
LEMMA OwnStep ==
  ASSUME TypeOK, HashIsTrue, NEW s \in Seeder, localSeed(s),
         OwnChunks(s), NoMeta(s)
  PROVE  OwnChunks(s)' /\ NoMeta(s)'
<1> DEFINE q == seeder[s]
           n == NameOf(s)
           x == Abs[q.path]
<1>1. OwnChunks(s) /\ NoMeta(s) /\ HashOf(s)
  BY DEF HashIsTrue, HashOf
<1>2. PICK r \in Seeds : /\ seeder' = [seeder EXCEPT ![s] = r]
                         /\ Gathers(s, r) /\ ComesFrom(s, r)
  BY SeedAdvances DEF Advances
<1>3. seeder'[s] = r
  BY <1>2 DEF TypeOK
<1>4. source' = source
  BY SeedEffects
<1>5. CASE r.at \notin HasLooked
  <2>1. r.at # "writeChunks" /\ r.at # "chunkInfo" /\ r.at \notin HasChunks
    BY <1>5 DEF HasLooked, HasChunks
  <2> QED BY <2>1, <1>3, <1>5 DEF OwnChunks, NoMeta
<1>6. CASE r.at \in HasLooked
  <2>1. r.path = q.path /\ q.at # "free"
    <3>1. r # Free
      BY <1>6, StagesOf DEF Free
    <3> QED BY <1>2, <3>1, Gathered DEF Gathers, ComesFrom
  <2>2. NameOf(s)' = n /\ n \in Name
    BY <1>3, <2>1, Keeps DEF NameOf
  <2>3. ASSUME Unchanged(s)', r.at \in HasHash, q.at \in HasHash
        PROVE  Unchanged(s) /\ r.hash = q.hash /\ source[x].content = q.hash
    <3>1. r.hash = q.hash /\ r.version = q.version
      BY <1>2, <2>3, StagesOf DEF Gathers
    <3> QED BY <1>1, <1>3, <1>4, <2>1, <2>3, <3>1 DEF Unchanged, HashOf
  <2>4. ASSUME r.at = "writeChunks"
        PROVE  OwnChunks(s)'
    <3>1. chunks'[n] = Partial /\ s \in linked'
      BY <1>2, <1>3, <2>4, SeedEffects DEF ComesFrom
    <3> QED BY <1>3, <2>2, <2>4, <3>1 DEF OwnChunks, HasChunks
  <2>5. ASSUME r.at = "chunkInfo"
        PROVE  OwnChunks(s)'
    <3>1. q.at = "writeChunks"
      BY <1>2, <2>5 DEF ComesFrom
    <3>2. PICK c \in Reading(s) :
            chunks'[n] = IF s \in linked THEN [is |-> "Chunks", of |-> c]
                         ELSE chunks[n]
      BY <1>3, <2>5, <3>1, SeedEffects
    <3>3. q.at \in HasHash /\ r.at \in HasHash /\ r.at \notin HasChunks
      BY <2>5, <3>1 DEF HasHash, HasChunks
    <3>4. CASE s \notin linked
      <4>1. chunks'[n] = Absent
        BY <1>1, <3>1, <3>2, <3>4 DEF OwnChunks
      <4> QED BY <1>3, <2>2, <2>5, <3>3, <4>1 DEF OwnChunks
    <3>5. CASE s \in linked
      <4>1. c \in Content
        BY <3>3, ReadsContent
      <4>2. chunks'[n] \in ChunkFile /\ chunks'[n].of = c
        BY <3>2, <3>5, <4>1, Kinds
      <4>3. Unchanged(s)' => c = r.hash
        BY <2>3, <3>3 DEF Reading, Unchanged
      <4> QED BY <1>3, <2>2, <2>5, <3>3, <4>2, <4>3 DEF OwnChunks
    <3> QED BY <3>4, <3>5
  <2>6. ASSUME r.at \in HasChunks
        PROVE  OwnChunks(s)'
    <3>1. r.at # "writeChunks" /\ r.at # "chunkInfo" /\ r.at \in HasHash
      BY <2>6 DEF HasChunks, HasHash
    <3>2. CASE q.at \in HasChunks /\ r.chunkFile = q.chunkFile
      <4>1. Unchanged(s)' => Unchanged(s) /\ r.hash = q.hash
        BY <2>3, <3>1, <3>2, StagesOf
      <4> QED BY <1>1, <1>3, <3>1, <3>2, <4>1 DEF OwnChunks
    <3>3. CASE /\ q.at = "chunkInfo" /\ chunks[n] # Absent
               /\ r.chunkFile = chunks[n]
      <4>1. Unchanged(s)' => Unchanged(s) /\ r.hash = q.hash
        BY <2>3, <3>1, <3>3 DEF HasHash
      <4>2. chunks[n] \in ChunkFile /\ (Unchanged(s) => chunks[n].of = q.hash)
        BY <1>1, <3>3 DEF OwnChunks
      <4>3. chunks[n] = [is |-> "Chunks", of |-> chunks[n].of]
        BY <4>2 DEF ChunkFile
      <4>4. Unchanged(s)' => r.chunkFile = [is |-> "Chunks", of |-> r.hash]
        BY <3>3, <4>1, <4>2, <4>3
      <4> QED BY <1>3, <3>1, <4>4 DEF OwnChunks
    <3> QED BY <1>2, <2>6, <3>2, <3>3 DEF Gathers
  <2>7. OwnChunks(s)'
    <3>1. CASE r.at \notin HasChunks /\ r.at # "writeChunks" /\ r.at # "chunkInfo"
      BY <3>1, <1>3 DEF OwnChunks
    <3> QED BY <3>1, <2>4, <2>5, <2>6
  <2>8. ASSUME r.at \in HasLooked \ {"name", "announce"}
        PROVE  meta'[n].is # "Meta"
    <3>1. CASE r.at = "hash"
      <4>1. q.at = "name" /\ meta[n] = Absent
        BY <1>2, <3>1 DEF ComesFrom
      <4>2. meta'[n] = Absent
        BY <4>1, SeedEffects
      <4> QED BY <4>2, Kinds DEF Whole
    <3>2. CASE r.at # "hash"
      <4>1. q.at \in HasLooked \ {"name", "announce"} /\ q.at # "writeMeta"
        BY <1>2, <2>8, <3>2 DEF ComesFrom, HasLooked
      <4>2. ~Whole(n)
        BY <1>1, <4>1 DEF NoMeta
      <4>3. meta'[n] \in {meta[n], Absent, Partial}
        BY <4>1, SeedEffects
      <4> QED BY <4>2, <4>3, Kinds DEF Whole
    <3> QED BY <3>1, <3>2
  <2>9. NoMeta(s)'
    BY <1>3, <2>2, <2>8 DEF NoMeta, Whole
  <2> QED BY <2>7, <2>9
<1> QED BY <1>5, <1>6


LEMMA NotSeeding ==
  ASSUME NEW t \in Seeder, seeder[t].at \notin HasLooked
  PROVE  OwnChunks(t) /\ NoMeta(t)
BY DEF OwnChunks, NoMeta, HasChunks, HasLooked

\* A seed keeps its name as long as it works.
LEMMA NameStays ==
  ASSUME TypeOK, NEW s \in Seeder, localSeed(s), seeder'[s].at \in HasLooked
  PROVE  seeder[s] # Free /\ NameOf(s)' = NameOf(s)
<1>1. PICK r \in Seeds : /\ seeder' = [seeder EXCEPT ![s] = r]
                         /\ Gathers(s, r) /\ ComesFrom(s, r)
  BY SeedAdvances DEF Advances
<1>2. seeder'[s] = r
  BY <1>1 DEF TypeOK
<1>3. r # Free
  BY <1>2, StagesOf DEF Free
<1>4. r.path = seeder[s].path /\ seeder[s] # Free
  BY <1>1, <1>3 DEF Gathers, ComesFrom
<1> QED BY <1>2, <1>4 DEF NameOf

\* A step of another seed, which has another name.
LEMMA OthersStep ==
  ASSUME TypeOK, NEW s \in Seeder, localSeed(s),
         NEW t \in Seeder \ {s}, OneSeedOf(NameOf(t)), OwnChunks(t), NoMeta(t)
  PROVE  OwnChunks(t)' /\ NoMeta(t)'
<1>1. PICK r \in Seeds : seeder' = [seeder EXCEPT ![s] = r] /\ seeder[s] # Free
  BY SeedAdvances DEF Advances, ComesFrom
<1>2. seeder'[t] = seeder[t]
  BY <1>1 DEF TypeOK
<1>3. CASE seeder[t] = Free
  <2>1. seeder'[t].at = "free"
    BY <1>2, <1>3 DEF Free
  <2> QED BY <2>1 DEF OwnChunks, NoMeta, HasChunks, HasLooked
<1>4. CASE seeder[t] # Free
  <2>1. NameOf(t) # NameOf(s)
    BY <1>1, <1>4 DEF OneSeedOf
  <2>2. NameOf(t) \in Name
    BY <1>4, Gathered, Keeps
  <2>3. /\ source' = source
        /\ chunks'[NameOf(t)] = chunks[NameOf(t)]
        /\ meta'[NameOf(t)] = meta[NameOf(t)]
    <3>1. source' = source
      BY SeedEffects
    <3>2. /\ chunks'[NameOf(t)] = chunks[NameOf(t)]
          /\ meta'[NameOf(t)] = meta[NameOf(t)]
      BY <2>1, <2>2, OnlyItsName
    <3> QED BY <3>1, <3>2
  <2>4. t \in linked' <=> t \in linked
    BY <2>1, SeedEffects
  <2> QED BY <1>2, <2>3, <2>4, Undisturbed
<1> QED BY <1>3, <1>4

\* A step of a seedLoop: it removes files under a seed, or starts one.
LEMMA LoopEffects ==
  ASSUME TypeOK, NEW l \in SeedLoop,
         takeRequest(l) \/ removeSeed(l) \/ reSeed(l)
  PROVE  /\ source' = source
         /\ \A t \in Seeder :
              \/ seeder'[t] = seeder[t]
              \/ seeder'[t].at = "stat"
         /\ \A n \in Name :
              \/ meta'[n] = meta[n]
              \/ meta'[n] = Absent /\ Removing(l, "meta") /\ RemovedName(l) = n
         /\ \A t \in Seeder : NameOf(t) \in Name =>
              \/ /\ chunks'[NameOf(t)] = chunks[NameOf(t)]
                 /\ seeder[t].at = "writeChunks" => (t \in linked' <=> t \in linked)
              \/ /\ chunks'[NameOf(t)] = Absent
                 /\ seeder[t].at = "writeChunks" => t \notin linked'
<1>1. /\ chunks \in [Name -> {Absent, Partial} \cup ChunkFile]
      /\ meta \in [Name -> {Absent, Partial} \cup MetaFile]
      /\ seeder \in [Seeder -> Seeds]
  BY DEF TypeOK
<1>2. CASE takeRequest(l) \/ reSeed(l)
  <2>1. UNCHANGED <<source, chunks, meta, linked>>
    BY <1>2 DEF takeRequest, reSeed, disk
  <2>2. UNCHANGED seeder \/ \E p : Spawn(p)
    BY <1>2 DEF takeRequest, reSeed
  <2>3. \A t \in Seeder : seeder'[t] = seeder[t] \/ seeder'[t].at = "stat"
    BY <1>1, <2>2 DEF Spawn
  <2> QED BY <2>1, <2>3
<1>3. CASE removeSeed(l)
  <2>1. UNCHANGED <<source, seeder>>
    BY <1>3 DEF removeSeed, removeMeta, removeChunks, sendRemove
  <2>2. CASE UNCHANGED <<chunks, meta, linked>>
    BY <2>1, <2>2
  <2>3. CASE /\ Removing(l, "meta")
             /\ removeMetaFile(RemovedName(l)) /\ UNCHANGED chunks
    <3>1. \A n \in Name : meta'[n] = IF n = RemovedName(l) THEN Absent ELSE meta[n]
      BY <1>1, <2>3 DEF removeMetaFile, Unlink
    <3>2. \A t \in Seeder :
            seeder[t].at = "writeChunks" => (t \in linked' <=> t \in linked)
      BY <2>3 DEF removeMetaFile, StillLinked
    <3> QED BY <2>1, <2>3, <3>1, <3>2
  <2>4. CASE removeChunkFile(RemovedName(l)) /\ UNCHANGED meta
    <3>1. \A n \in Name :
            chunks'[n] = IF n = RemovedName(l) THEN Absent ELSE chunks[n]
      BY <1>1, <2>4 DEF removeChunkFile, Unlink
    <3>2. \A t \in Seeder :
            /\ seeder[t].at = "writeChunks" /\ NameOf(t) = RemovedName(l)
                 => t \notin linked'
            /\ NameOf(t) # RemovedName(l) => (t \in linked' <=> t \in linked)
      BY <2>4 DEF removeChunkFile, StillLinked
    <3> QED BY <2>1, <2>4, <3>1, <3>2
  <2> QED
    BY <1>3, <2>2, <2>3, <2>4
       DEF removeSeed, removeMeta, removeChunks, sendRemove, disk
<1> QED BY <1>2, <1>3

LEMMA UnderRemoval ==
  ASSUME TypeOK, NEW l \in SeedLoop,
         takeRequest(l) \/ removeSeed(l) \/ reSeed(l),
         NEW t \in Seeder, OwnChunks(t), NoMeta(t)
  PROVE  OwnChunks(t)' /\ NoMeta(t)'
<1>1. CASE seeder'[t].at \in {"free", "stat"}
  BY <1>1 DEF OwnChunks, NoMeta, HasChunks, HasLooked
<1>2. CASE seeder'[t].at \notin {"free", "stat"}
  <2>1. seeder'[t] = seeder[t] /\ source' = source
    BY <1>2, LoopEffects
  <2>2. NameOf(t) \in Name
    BY <1>2, <2>1, Keeps
  <2>4. meta'[NameOf(t)] = meta[NameOf(t)] \/ meta'[NameOf(t)] = Absent
    BY <2>2, LoopEffects
  <2>5. \/ /\ chunks'[NameOf(t)] = chunks[NameOf(t)]
           /\ seeder[t].at = "writeChunks" => (t \in linked' <=> t \in linked)
        \/ /\ chunks'[NameOf(t)] = Absent
           /\ seeder[t].at = "writeChunks" => t \notin linked'
    BY <2>2, LoopEffects
  <2> QED BY <2>1, <2>4, <2>5, Undisturbed
<1> QED BY <1>1, <1>2

\* An edit: what a metadata file says is then of an older version.
LEMMA MetaUnderEdit ==
  ASSUME TypeOK, NEW n \in Name, TrueMeta(n), NEW p \in Path, changeSource(p)
  PROVE  TrueMeta(n)'
<1>1. UNCHANGED meta
  BY DEF changeSource, disk
<1> SUFFICES ASSUME meta[n].is = "Meta"
             PROVE  /\ meta[n].version <= source'[Abs[meta[n].path]].version
                    /\ meta[n].version = source'[Abs[meta[n].path]].version
                         => /\ source'[Abs[meta[n].path]].content = meta[n].hash
                            /\ meta[n].chunkFile = [is |-> "Chunks",
                                                    of |-> meta[n].hash]
  BY <1>1 DEF TrueMeta, Whole
<1>2. meta[n] \in {Absent, Partial} \cup MetaFile
  BY DEF TypeOK
<1>3. meta[n] \in MetaFile
  BY <1>2, Kinds
<1>4. meta[n].version \in Nat /\ Abs[meta[n].path] \in Path
  BY <1>3 DEF MetaFile
<1>5. /\ meta[n].version <= source[Abs[meta[n].path]].version
      /\ meta[n].version = source[Abs[meta[n].path]].version
           => /\ source[Abs[meta[n].path]].content = meta[n].hash
              /\ meta[n].chunkFile = [is |-> "Chunks", of |-> meta[n].hash]
  BY DEF TrueMeta, Whole
<1>6. /\ meta[n].version <= source'[Abs[meta[n].path]].version
      /\ meta[n].version = source'[Abs[meta[n].path]].version
           => source'[Abs[meta[n].path]] = source[Abs[meta[n].path]]
  BY <1>4, <1>5, ChangeSeen
<1> QED BY <1>5, <1>6

\* So is what a seed says.
LEMMA SeedUnderEdit ==
  ASSUME TypeOK, HashIsTrue, NEW p \in Path, changeSource(p),
         NEW t \in Seeder, OwnChunks(t), NoMeta(t)
  PROVE  OwnChunks(t)' /\ NoMeta(t)'
<1>1. UNCHANGED <<chunks, meta, seeder, linked>>
  BY DEF changeSource, disk
<1>2. OwnChunks(t) /\ NoMeta(t) /\ HashOf(t)
  BY DEF HashIsTrue, HashOf
<1>3. CASE seeder[t].at \notin HasLooked
  <2>1. seeder[t].at # "writeChunks" /\ seeder[t].at # "chunkInfo"
        /\ seeder[t].at \notin HasChunks
    BY <1>3 DEF HasLooked, HasChunks
  <2> QED BY <1>1, <1>3, <2>1 DEF OwnChunks, NoMeta
<1>4. CASE seeder[t].at \in HasLooked
  <2>1. seeder[t].version \in Nat /\ Abs[seeder[t].path] \in Path
    BY <1>4, Keeps, StagesOf
  <2>2. seeder[t].version <= source[Abs[seeder[t].path]].version
    BY <1>2, <1>4 DEF HashOf
  <2>3. seeder[t].version = source'[Abs[seeder[t].path]].version
          => source'[Abs[seeder[t].path]] = source[Abs[seeder[t].path]]
    BY <2>1, <2>2, ChangeSeen
  <2>4. Unchanged(t)' => Unchanged(t)
    BY <1>1, <2>3 DEF Unchanged
  <2>5. NameOf(t)' = NameOf(t)
    BY <1>1 DEF NameOf
  <2>6. OwnChunks(t)'
    BY <1>1, <1>2, <2>4, <2>5 DEF OwnChunks
  <2>7. NoMeta(t)'
    BY <1>1, <1>2, <2>5 DEF NoMeta, Whole
  <2> QED BY <2>6, <2>7
<1> QED BY <1>3, <1>4

\* A step of a seed leaves a whole metadata file true of its source, or writes
\* one that is.
LEMMA MetaUnderSeed ==
  ASSUME TypeOK, HashIsTrue, NEW n \in Name, SeedInvOf(n),
         NEW s \in Seeder, localSeed(s)
  PROVE  TrueMeta(n)'
<1>0. source' = source
  BY SeedEffects
<1> SUFFICES ASSUME meta'[n].is = "Meta"
             PROVE  /\ meta'[n].version <= source[Abs[meta'[n].path]].version
                    /\ meta'[n].version = source[Abs[meta'[n].path]].version
                         => /\ source[Abs[meta'[n].path]].content = meta'[n].hash
                            /\ meta'[n].chunkFile = [is |-> "Chunks",
                                                     of |-> meta'[n].hash]
  BY <1>0 DEF TrueMeta, Whole
<1>1. CASE meta'[n] = meta[n]
  BY <1>1 DEF SeedInvOf, TrueMeta, Whole
<1>2. CASE meta'[n] # meta[n]
  <2>1. n = NameOf(s)
    BY <1>2, OnlyItsName
  <2>2. /\ seeder[s].at = "writeMeta"
        /\ meta'[n] = [is |-> "Meta", path |-> seeder[s].path,
                       version |-> seeder[s].version, hash |-> seeder[s].hash,
                       chunkFile |-> seeder[s].chunkFile]
    <3>1. meta'[n] \notin {Absent, Partial}
      BY Kinds
    <3> QED BY <1>2, <2>1, <3>1, SeedEffects
  <2>3. OwnChunks(s) /\ HashOf(s)
    <3>1. seeder[s] # Free
      BY <2>2 DEF Free
    <3> QED BY <2>1, <3>1 DEF SeedInvOf, HashIsTrue, HashOf
  <2>4. seeder[s].at \in HasChunks /\ seeder[s].at \in HasHash
        /\ seeder[s].at \in HasLooked
    BY <2>2 DEF HasChunks, HasHash, HasLooked
  <2>5. /\ seeder[s].version <= source[Abs[seeder[s].path]].version
        /\ seeder[s].version = source[Abs[seeder[s].path]].version
             => /\ source[Abs[seeder[s].path]].content = seeder[s].hash
                /\ seeder[s].chunkFile = [is |-> "Chunks", of |-> seeder[s].hash]
    BY <2>3, <2>4 DEF OwnChunks, HashOf, Unchanged
  <2> QED BY <2>2, <2>5
<1> QED BY <1>1, <1>2

LEMMA SeedInvInit ==
  ASSUME Init, NEW n \in Name
  PROVE  SeedInvOf(n)
<1>1. TrueMeta(n)
  BY Kinds DEF Init, TrueMeta, Whole
<1>2. \A t \in Seeder : seeder[t] = Free
  BY DEF Init
<1> QED BY <1>1, <1>2 DEF SeedInvOf

\* Whatever happens to other names, two seeds of them at once included, what is
\* true of a name stays true while only one seed of that name runs.
LEMMA SeedInvStep ==
  ASSUME TypeOK, HashIsTrue, NEW n \in Name, SeedInvOf(n), OneSeedOf(n),
         [Next]_vars
  PROVE  SeedInvOf(n)'
<1>1. SUFFICES /\ TrueMeta(n)'
               /\ \A t \in Seeder :
                    seeder'[t] # Free /\ NameOf(t)' = n
                      => OwnChunks(t)' /\ NoMeta(t)'
  BY DEF SeedInvOf
<1>2. /\ TrueMeta(n)
      /\ \A t \in Seeder :
           seeder[t] # Free /\ NameOf(t) = n => OwnChunks(t) /\ NoMeta(t)
  BY DEF SeedInvOf
<1>3. ASSUME NEW t \in Seeder, seeder'[t].at \notin HasLooked
      PROVE  OwnChunks(t)' /\ NoMeta(t)'
  BY <1>3 DEF OwnChunks, NoMeta, HasChunks, HasLooked
<1>4. ASSUME UNCHANGED <<source, disk, seeder, linked>>
      PROVE  /\ TrueMeta(n)'
             /\ \A t \in Seeder :
                  seeder'[t] # Free /\ NameOf(t)' = n
                    => OwnChunks(t)' /\ NoMeta(t)'
  BY <1>2, <1>4
     DEF disk, TrueMeta, Whole, OwnChunks, NoMeta, NameOf, Unchanged
<1>5. CASE UNCHANGED vars
  BY <1>4, <1>5 DEF vars
<1>6. ASSUME NEW s \in Seeder, localSeed(s)
      PROVE  /\ TrueMeta(n)'
             /\ \A t \in Seeder :
                  seeder'[t] # Free /\ NameOf(t)' = n
                    => OwnChunks(t)' /\ NoMeta(t)'
  <2>1. TrueMeta(n)'
    BY <1>6, MetaUnderSeed
  <2>2. ASSUME seeder'[s] # Free, NameOf(s)' = n
        PROVE  OwnChunks(s)' /\ NoMeta(s)'
    <3>1. CASE seeder'[s].at \in HasLooked
      <4>1. seeder[s] # Free /\ NameOf(s) = n
        BY <1>6, <2>2, <3>1, NameStays
      <4> QED BY <1>2, <1>6, <4>1, OwnStep
    <3>2. CASE seeder'[s].at \notin HasLooked
      BY <1>3, <3>2
    <3> QED BY <3>1, <3>2
  <2>3. ASSUME NEW t \in Seeder \ {s}, seeder'[t] # Free, NameOf(t)' = n
        PROVE  OwnChunks(t)' /\ NoMeta(t)'
    <3>1. PICK r \in Seeds : seeder' = [seeder EXCEPT ![s] = r]
      BY <1>6, SeedAdvances DEF Advances
    <3>2. seeder'[t] = seeder[t]
      BY <3>1 DEF TypeOK
    <3>3. seeder[t] # Free /\ NameOf(t) = n
      BY <2>3, <3>2 DEF NameOf
    <3> QED BY <1>2, <1>6, <3>3, OthersStep
  <2> QED BY <2>1, <2>2, <2>3
<1>7. ASSUME NEW l \in SeedLoop, takeRequest(l) \/ removeSeed(l) \/ reSeed(l)
      PROVE  /\ TrueMeta(n)'
             /\ \A t \in Seeder :
                  seeder'[t] # Free /\ NameOf(t)' = n
                    => OwnChunks(t)' /\ NoMeta(t)'
  <2>1. source' = source /\ meta'[n] \in {meta[n], Absent}
    BY <1>7, LoopEffects
  <2>2. TrueMeta(n)'
    BY <1>2, <2>1, Kinds DEF TrueMeta, Whole
  <2>3. ASSUME NEW t \in Seeder, seeder'[t] # Free, NameOf(t)' = n,
               seeder'[t].at # "stat"
        PROVE  OwnChunks(t)' /\ NoMeta(t)'
    <3>1. seeder'[t] = seeder[t]
      BY <1>7, <2>3, LoopEffects
    <3>2. seeder[t] # Free /\ NameOf(t) = n
      BY <2>3, <3>1 DEF NameOf
    <3> QED BY <1>2, <1>7, <3>2, UnderRemoval
  <2>4. "stat" \notin HasLooked
    BY DEF HasLooked
  <2> QED BY <1>3, <2>2, <2>3, <2>4
<1>8. ASSUME NEW p \in Path, changeSource(p)
      PROVE  /\ TrueMeta(n)'
             /\ \A t \in Seeder :
                  seeder'[t] # Free /\ NameOf(t)' = n
                    => OwnChunks(t)' /\ NoMeta(t)'
  <2>1. UNCHANGED seeder
    BY <1>8 DEF changeSource
  <2>2. \A t \in Seeder : NameOf(t)' = NameOf(t)
    BY <2>1 DEF NameOf
  <2> QED BY <1>2, <1>8, <2>1, <2>2, MetaUnderEdit, SeedUnderEdit
<1>9. CASE restart
  <2>1. UNCHANGED <<source, meta>> /\ \A t \in Seeder : seeder'[t] = Free
    BY <1>9 DEF restart, disk
  <2>2. TrueMeta(n)'
    BY <1>2, <2>1 DEF TrueMeta, Whole
  <2> QED BY <2>1, <2>2
<1>10. ASSUME NEW l \in EventLoop, fileEventLoop(l)
       PROVE  UNCHANGED <<source, disk, seeder, linked>>
  BY <1>10 DEF fileEventLoop, takeEvent, handleEvent
<1>11. CASE \/ \E p \in Path : handleSeedLocalFile(p)
            \/ \E f \in getFiles \cup SearchResults : requestOther(f)
  BY <1>4, <1>11 DEF handleSeedLocalFile, requestOther, PostRequest
<1> QED
  BY <1>4, <1>5, <1>6, <1>7, <1>8, <1>9, <1>10, <1>11 DEF Next

\* What holds of every name holds of every seed.
LEMMA OfEveryName ==
  ASSUME TypeOK, HashIsTrue, \A n \in Name : SeedInvOf(n)
  PROVE  SeedInv
<1>1. MetaIsTrue
  BY DEF MetaIsTrue, SeedInvOf
<1>2. ASSUME NEW s \in Seeder
      PROVE  OwnChunks(s) /\ NoMeta(s)
  <2>1. CASE seeder[s] = Free
    <3>1. seeder[s].at = "free"
      BY <2>1 DEF Free
    <3> QED BY <3>1, NotSeeding DEF HasLooked
  <2>2. CASE seeder[s] # Free
    <3>1. NameOf(s) \in Name
      BY <2>2, Gathered, Keeps
    <3> QED BY <2>2, <3>1 DEF SeedInvOf
  <2> QED BY <2>1, <2>2
<1> QED BY <1>1, <1>2 DEF SeedInv, ChunksAreOwn, NoMetaYet

\* While no two seeds of one name run, what a seed has gathered, its chunk file
\* and every whole metadata file are true of the sources they were made from,
\* and a seed that may still fail has no whole metadata file beside it.
THEOREM Inductive == Spec /\ []OneSeedPerName => [](TypeOK /\ SeedInv)
<1> DEFINE All == \A n \in Name : SeedInvOf(n)
<1>1. Init => TypeOK /\ HashIsTrue /\ All
  BY TypesInit, SeedInvInit
<1>2. TypeOK /\ HashIsTrue /\ All /\ OneSeedPerName /\ [Next]_vars
        => (TypeOK /\ HashIsTrue /\ All)'
  BY TypesStep, HashStep, SeedInvStep DEF OneSeedPerName
<1>3. TypeOK /\ HashIsTrue /\ All => SeedInv
  BY OfEveryName
<1> HIDE DEF All
<1> QED BY <1>1, <1>2, <1>3, PTL DEF Spec

\* The same for each name alone: it asks nothing of the seeds of other names.
THEOREM InductiveOf ==
  ASSUME NEW n \in Name
  PROVE  Spec /\ []OneSeedOf(n) => [](TypeOK /\ HashIsTrue /\ SeedInvOf(n))
<1>1. Init => TypeOK /\ HashIsTrue /\ SeedInvOf(n)
  BY TypesInit, SeedInvInit
<1>2. TypeOK /\ HashIsTrue /\ SeedInvOf(n) /\ OneSeedOf(n) /\ [Next]_vars
        => (TypeOK /\ HashIsTrue /\ SeedInvOf(n))'
  BY TypesStep, HashStep, SeedInvStep
<1> QED BY <1>1, <1>2, PTL DEF Spec

\* While no two seeds of one name run, what a restart accepts it may serve: the
\* hash is that of the file as it is and the chunk hashes are of the same
\* content, wherever the process stopped, whichever call failed, and however the
\* file was edited meanwhile.
THEOREM SoundRestart == Spec /\ []OneSeedPerName => []LoadableIsSound
<1>1. SeedInv => LoadableIsSound
  BY DEF SeedInv, MetaIsTrue, TrueMeta, LoadableIsSound, Sound, Loadable, Whole
<1> QED BY <1>1, Inductive, PTL

\* Two seeds of one name at once endanger that name only: what a restart accepts
\* under any other name is sound.
THEOREM SoundRestartOf ==
  ASSUME NEW n \in Name
  PROVE  Spec /\ []OneSeedOf(n) => []Sound(n)
<1>1. SeedInvOf(n) => Sound(n)
  BY DEF SeedInvOf, TrueMeta, Sound, Loadable, Whole
<1> QED BY <1>1, InductiveOf, PTL

LEMMA MetaGoes ==
  ASSUME TypeOK, NEW n \in Name, SeedInvOf(n), [Next]_vars
  PROVE  GoesByRequest(n)
<1> SUFFICES ASSUME Whole(n), ~Whole(n)'
             PROVE  \E l \in SeedLoop : Removing(l, "meta") /\ RemovedName(l) = n
  BY DEF GoesByRequest
<1>1. meta'[n] # meta[n]
  BY DEF Whole
<1>2. ASSUME NEW s \in Seeder, localSeed(s)
      PROVE  FALSE
  <2>1. n = NameOf(s)
    BY <1>1, <1>2, OnlyItsName
  <2>2. seeder[s].at \in {"createMeta", "writeMeta", "undoMeta"}
    BY <1>1, <1>2, <2>1, SeedEffects
  <2>3. seeder[s] # Free
    BY <2>2 DEF Free
  <2>4. NoMeta(s)
    BY <2>1, <2>3 DEF SeedInvOf
  <2> QED BY <2>1, <2>2, <2>4 DEF NoMeta, HasLooked
<1>3. ASSUME NEW l \in SeedLoop, takeRequest(l) \/ removeSeed(l) \/ reSeed(l)
      PROVE  Removing(l, "meta") /\ RemovedName(l) = n
  BY <1>1, <1>3, LoopEffects
<1>4. UNCHANGED disk => FALSE
  BY <1>1 DEF disk
<1>5. CASE UNCHANGED vars
  BY <1>4, <1>5 DEF vars
<1>6. CASE \/ \E p \in Path : handleSeedLocalFile(p) \/ changeSource(p)
           \/ \E f \in getFiles \cup SearchResults : requestOther(f)
           \/ \E l \in EventLoop : fileEventLoop(l)
           \/ restart
  BY <1>4, <1>6 DEF handleSeedLocalFile, changeSource, requestOther, PostRequest,
                    fileEventLoop, takeEvent, handleEvent, restart
<1> QED BY <1>2, <1>3, <1>5, <1>6 DEF Next

\* While no two seeds of one name run, a seed that fails takes away nothing that
\* is complete: a whole metadata file goes only by a request to remove it.
THEOREM KeepsSeeds == Spec /\ []OneSeedPerName => FailureKeepsSeeds
<1> DEFINE All == \A n \in Name : SeedInvOf(n)
<1>1. Init => TypeOK /\ HashIsTrue /\ All
  BY TypesInit, SeedInvInit
<1>2. TypeOK /\ HashIsTrue /\ All /\ OneSeedPerName /\ [Next]_vars
        => (TypeOK /\ HashIsTrue /\ All)'
  BY TypesStep, HashStep, SeedInvStep DEF OneSeedPerName
<1>3. TypeOK /\ All /\ [Next]_vars => [\A n \in Name : GoesByRequest(n)]_vars
  BY MetaGoes
<1> HIDE DEF All
<1> QED BY <1>1, <1>2, <1>3, PTL DEF Spec, FailureKeepsSeeds

\* And under a name of which one seed runs at a time, whatever the others do.
THEOREM KeepsSeedsOf ==
  ASSUME NEW n \in Name
  PROVE  Spec /\ []OneSeedOf(n) => [][GoesByRequest(n)]_vars
<1>1. TypeOK /\ SeedInvOf(n) /\ [Next]_vars => [GoesByRequest(n)]_vars
  BY MetaGoes
<1> QED BY <1>1, InductiveOf, PTL DEF Spec

=============================================================================
