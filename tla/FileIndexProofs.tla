--------------------------- MODULE FileIndexProofs ---------------------------
(***************************************************************************)
(* Proofs, for every set of files, texts and callers and every capacity,   *)
(* that the maps of the file manager agree and that those who ask it get   *)
(* what they asked for.                                                    *)
(***************************************************************************)
EXTENDS FileIndex, ChunksProofs, FiniteSetTheorems

-----------------------------------------------------------------------------
(* Channels                                                                *)

\* What a send on a channel adds: one message, at the end.
LEMMA Sent ==
  ASSUME NEW S, NEW q \in Seq(S), NEW e \in S
  PROVE  /\ Append(q, e) \in Seq(S)
         /\ Len(q) \in Nat
         /\ Len(Append(q, e)) = Len(q) + 1
         /\ \A i \in 1..Len(q) : Append(q, e)[i] = q[i]
         /\ Append(q, e)[Len(q) + 1] = e
  OBVIOUS

\* What a receive on a channel takes away: the first message.
LEMMA Received ==
  ASSUME NEW S, NEW q \in Seq(S), q # <<>>
  PROVE  /\ Tail(q) \in Seq(S)
         /\ Len(q) \in Nat \ {0}
         /\ Len(Tail(q)) = Len(q) - 1
         /\ Head(q) \in S
         /\ Head(q) = q[1]
         /\ \A i \in 1..Len(Tail(q)) : Tail(q)[i] = q[i + 1]
  OBVIOUS

-----------------------------------------------------------------------------
(* Terms                                                                   *)

\* addSearchTerm and removeSearchTerm come to a key finitely often.
LEMMA EntriesFinite ==
  ASSUME NEW f \in Share, NEW k
  PROVE  IsFiniteSet(Entries(f, k))
<1>1. f.terms \in Seq(Text) /\ Len(f.terms) \in Nat
  BY FileIndexAssumption DEF FileIndexAssumption
<1> DEFINE Part(i) == {i} \X Places(f.terms[i], k)
           box == 1..Len(f.terms)
           parts == {Part(i) : i \in box}
<1>2. \A i \in box : IsFiniteSet(Part(i))
  <2> SUFFICES ASSUME NEW i \in box PROVE IsFiniteSet(Part(i))
    OBVIOUS
  <2>1. f.terms[i] \in Text /\ Len(f.terms[i].words) \in Nat
    <3>1. f.terms[i] \in Text
      BY <1>1
    <3>2. f.terms[i].words \in Seq(Word)
      BY <3>1 DEF Text
    <3>3. QED
      BY <3>1, <3>2
  <2>2. IsFiniteSet(0..Len(f.terms[i].words))
    <3>1. 0 \in Int /\ Len(f.terms[i].words) \in Int
      BY <2>1
    <3>2. QED
      BY ONLY <3>1, FS_Interval
  <2>3. Places(f.terms[i], k) \subseteq 0..Len(f.terms[i].words)
    BY <2>1 DEF Places
  <2>4. IsFiniteSet(Places(f.terms[i], k))
    BY <2>2, <2>3, FS_Subset
  <2>5. IsFiniteSet({i})
    BY FS_Singleton
  <2>6. QED
    BY <2>4, <2>5, FS_Product
<1>3. IsFiniteSet(box)
  BY <1>1, FS_Interval
<1>4. IsFiniteSet(parts)
  <2> DEFINE part == [i \in box |-> Part(i)]
  <2>1. part \in Surjection(box, parts)
    BY DEF Surjection
  <2> HIDE DEF part, parts, box
  <2>2. QED
    BY <1>3, <2>1, FS_Surjection
<1>5. IsFiniteSet(UNION parts)
  BY <1>2, <1>4, FS_UNION
<1>6. QED
  BY <1>5 DEF Entries

LEMMA UsesCounts ==
  ASSUME NEW f \in Share, NEW k
  PROVE  /\ Uses(f, k) \in Nat
         /\ Uses(f, k) > 0 <=> Entries(f, k) # {}
<1>1. IsFiniteSet(Entries(f, k))
  BY EntriesFinite
<1>2. Cardinality(Entries(f, k)) \in Nat
  BY <1>1, FS_CardinalityType
<1>3. Cardinality(Entries(f, k)) = 0 <=> Entries(f, k) = {}
  BY <1>1, FS_EmptySet
<1>4. QED
  BY <1>2, <1>3 DEF Uses

\* A word that a query has in common with a term leads to the file: tokenize cuts
\* both into the same lower-case words.
LEMMA WordLeadsThere ==
  ASSUME NEW f \in Share, NEW q \in Query, ShareAWord(f, q)
  PROVE  \E k \in Variations(q) \cap Key : Uses(f, k) > 0
<1>1. PICK i \in 1..Len(f.terms), w \in WordsOf(q) : w \in WordsOf(f.terms[i])
  BY DEF ShareAWord
<1>2. PICK j \in 1..Len(f.terms[i].words) : w = f.terms[i].words[j]
  BY <1>1 DEF WordsOf
<1>3. Token(w) \in Variations(q) \cap Key
  BY <1>1 DEF Variations, Key, KeysOf
<1>4. tokenize(f.terms[i])[j] = Token(w)
  BY <1>2 DEF tokenize
<1>5. f.terms[i] \in Text /\ f.terms[i].words \in Seq(Word)
  <2>1. f.terms[i] \in Text
    BY FileIndexAssumption DEF FileIndexAssumption
  <2>2. QED
    BY <2>1 DEF Text
<1>6. ~Blank(f.terms[i])
  BY <1>2, <1>5 DEF Blank
<1>7. Places(f.terms[i], Token(w)) # {}
  BY <1>2, <1>4, <1>6 DEF Places
<1>8. Entries(f, Token(w)) # {}
  <2>1. PICK x : x \in Places(f.terms[i], Token(w))
    BY <1>7
  <2>2. <<i, x>> \in {i} \X Places(f.terms[i], Token(w))
    BY <2>1
  <2>3. <<i, x>> \in Entries(f, Token(w))
    BY <1>1, <2>2 DEF Entries
  <2>4. QED
    BY <2>3
<1>9. QED
  BY <1>3, <1>8, UsesCounts

\* A key that a query is looked up under, and that a file is entered under, has a
\* word of both.
LEMMA KeySharesAWord ==
  ASSUME NEW f \in Share, NEW q \in Query, NEW k \in Variations(q),
         Uses(f, k) > 0
  PROVE  ShareAWord(f, q)
<1>1. Entries(f, k) # {}
  BY UsesCounts
<1>2. PICK i \in 1..Len(f.terms) : Places(f.terms[i], k) # {}
  BY <1>1 DEF Entries
<1> DEFINE t == f.terms[i]
<1>3. t \in Text /\ t.words \in Seq(Word) /\ Len(t.words) \in Nat
  <2>1. t \in Text
    BY FileIndexAssumption DEF FileIndexAssumption
  <2>2. QED
    BY <2>1 DEF Text
<1>4. q \in Text /\ q.words \in Seq(Word)
  BY FileIndexAssumption DEF FileIndexAssumption, Text
<1>5. Len(t.words) # 0
  <2>1. Blank(t) => Places(t, k) = {}
    BY <1>3 DEF Places, Blank
  <2>2. ~Blank(t)
    BY <1>2, <2>1
  <2>3. QED
    BY <1>3, <2>2 DEF Blank
<1>6. \/ k.words = t.words
      \/ \E j \in 1..Len(t.words) : k = Token(t.words[j])
  <2> HIDE DEF t
  <2>1. CASE k = normalize(t)
    BY <2>1 DEF normalize
  <2>2. CASE k # normalize(t)
    <3>1. PICK j \in 1..Len(t.words) : tokenize(t)[j] = k
      BY <1>2, <2>2 DEF Places, t
    <3>2. QED
      BY <3>1 DEF tokenize
  <2>3. QED
    BY <2>1, <2>2
<1>7. \/ k.words = q.words
      \/ \E w \in WordsOf(q) : k = Token(w)
  BY <1>4 DEF Variations, Lower, Upper, Text
<1> HIDE DEF t
<1>8. \A w : k = Token(w) => k.words = <<w>>
  BY DEF Token
<1>9. \E w : w \in WordsOf(t) /\ w \in WordsOf(q)
  <2>1. ASSUME k.words = t.words, NEW w \in WordsOf(q), k = Token(w)
        PROVE  w \in WordsOf(t)
    <3>1. t.words = <<w>>
      BY <1>8, <2>1
    <3>2. Len(t.words) = 1 /\ t.words[1] = w
      BY <3>1
    <3>3. QED
      BY <3>2 DEF WordsOf
  <2>2. ASSUME NEW j \in 1..Len(t.words), k = Token(t.words[j]),
               k.words = q.words
        PROVE  t.words[j] \in WordsOf(t) /\ t.words[j] \in WordsOf(q)
    <3>1. q.words = <<t.words[j]>>
      BY <1>8, <2>2
    <3>2. Len(q.words) = 1 /\ q.words[1] = t.words[j]
      BY <3>1
    <3>3. QED
      BY <3>2 DEF WordsOf
  <2>3. ASSUME NEW j \in 1..Len(t.words), k = Token(t.words[j]),
               NEW w \in WordsOf(q), k = Token(w)
        PROVE  w \in WordsOf(t)
    <3>1. <<w>> = <<t.words[j]>>
      BY <1>8, <2>3
    <3>2. w = t.words[j]
      BY <3>1
    <3>3. QED
      BY <3>2 DEF WordsOf
  <2>4. CASE k.words = t.words
    <3>1. CASE k.words = q.words
      <4>1. 1 \in 1..Len(t.words)
        BY <1>3, <1>5
      <4>2. QED
        BY <2>4, <3>1, <4>1 DEF WordsOf
    <3>2. CASE k.words # q.words
      BY <1>7, <2>1, <2>4, <3>2
    <3>3. QED
      BY <3>1, <3>2
  <2>5. CASE \E j \in 1..Len(t.words) : k = Token(t.words[j])
    BY <1>7, <2>2, <2>3, <2>5
  <2>6. QED
    BY <1>6, <2>4, <2>5
<1>10. QED
  BY <1>2, <1>9 DEF ShareAWord, t

-----------------------------------------------------------------------------
(* Type correctness                                                        *)

\* What the type invariant says of the four maps, and the room they need.
MapsTyped ==
  /\ files \in Seq(Share)
  /\ filesByHash \in [HashKey -> FileInfo \cup {Nil}]
  /\ localSeededFiles \subseteq Path
  /\ searchIndex \in [Key -> [FileInfo -> Nat]]

LEMMA Shares ==
  ASSUME NEW f \in Share
  PROVE  f.path \in Path /\ f.hash \in Hash /\ Hex(f.hash) \in HashKey
<1>1. f.path \in Path /\ f.hash \in Hash
  BY FileIndexAssumption DEF FileIndexAssumption
<1>2. QED
  BY <1>1 DEF Hex, HashKey

\* registerFile makes one FileInfo and enters it everywhere.
LEMMA RegisterTyped ==
  ASSUME MapsTyped, NEW f \in Share, Len(files) < MaxFiles, registerFile(f)
  PROVE  MapsTyped' /\ Len(files') = Len(files) + 1
<1> DEFINE p == Len(files) + 1
<1>1. p \in FileInfo
  BY FileIndexAssumption DEF FileIndexAssumption, FileInfo, MapsTyped
<1>2. files' \in Seq(Share) /\ Len(files') = Len(files) + 1
  BY Sent DEF registerFile, MapsTyped
<1>3. \A k \in Key : Uses(f, k) \in Nat
  BY UsesCounts
<1> HIDE DEF p
<1>4. /\ filesByHash' \in [HashKey -> FileInfo \cup {Nil}]
      /\ localSeededFiles' \subseteq Path
  BY <1>1, Shares DEF registerFile, MapsTyped, p
<1>5. searchIndex' \in [Key -> [FileInfo -> Nat]]
  <2>1. searchIndex' = [k \in Key |-> [searchIndex[k] EXCEPT ![p] = @ + Uses(f, k)]]
    BY DEF registerFile, p
  <2>2. \A k \in Key : [searchIndex[k] EXCEPT ![p] = @ + Uses(f, k)]
                         \in [FileInfo -> Nat]
    BY <1>1, <1>3 DEF MapsTyped
  <2>3. QED
    BY <2>1, <2>2
<1>6. QED
  BY <1>2, <1>4, <1>5 DEF MapsTyped

\* A hash leads to a FileInfo that was made.
LEMMA RemoveTyped ==
  ASSUME MapsTyped, IndexExact, NEW h \in Hash, removeFormMap(h)
  PROVE  MapsTyped' /\ files' = files
<1> DEFINE p == filesByHash[Hex(h)]
<1>1. files' = files
  BY DEF removeFormMap
<1>2. CASE p = Nil
  BY <1>1, <1>2 DEF removeFormMap, MapsTyped
<1>3. CASE p # Nil
  <2>1. Hex(h) \in HashKey
    BY DEF Hex, HashKey
  <2>2. p \in FileInfo /\ p \in 1..Len(files) /\ files[p] \in Share
    <3>1. p \in FileInfo
      BY <1>3, <2>1 DEF MapsTyped
    <3>2. p <= Len(files)
      BY <1>3 DEF IndexExact
    <3>3. Len(files) \in Nat
      BY DEF MapsTyped
    <3>4. p \in 1..Len(files)
      BY <3>1, <3>2, <3>3 DEF FileInfo
    <3>5. QED
      BY <3>1, <3>4 DEF MapsTyped
  <2> HIDE DEF p
  <2>3. \A k \in Key : removeSearchTerm(p, k) \in Nat
    <3> SUFFICES ASSUME NEW k \in Key PROVE removeSearchTerm(p, k) \in Nat
      OBVIOUS
    <3>1. searchIndex[k][p] \in Nat
      BY <2>2 DEF MapsTyped
    <3>2. Uses(files[p], k) \in Nat
      BY <2>2, UsesCounts
    <3>3. QED
      BY <3>1, <3>2 DEF removeSearchTerm
  <2>4. /\ filesByHash' \in [HashKey -> FileInfo \cup {Nil}]
        /\ localSeededFiles' \subseteq Path
    BY <1>3, <2>1 DEF removeFormMap, MapsTyped, p
  <2>5. searchIndex' \in [Key -> [FileInfo -> Nat]]
    <3>1. searchIndex' = [k \in Key |->
            [searchIndex[k] EXCEPT ![p] = removeSearchTerm(p, k)]]
      BY <1>3 DEF removeFormMap, p
    <3>2. \A k \in Key : [searchIndex[k] EXCEPT ![p] = removeSearchTerm(p, k)]
                           \in [FileInfo -> Nat]
      BY <2>3 DEF MapsTyped
    <3>3. QED
      BY <3>1, <3>2
  <2>6. QED
    BY <1>1, <2>4, <2>5 DEF MapsTyped
<1>4. QED
  BY <1>2, <1>3

\* An event of each type has the fields of that type.
LEMMA EventFields ==
  ASSUME NEW e \in Event
  PROVE  /\ e.type = "AddFile" => e.file \in Share
         /\ e.type = "RemoveFile" => e.hash \in Hash
         /\ e.type = "Request" => e.request \in Request /\ e.response \in Response
         /\ e.type \in {"AddFile", "RemoveFile", "Request"}
  BY DEF Event, AddFile, RemoveFile, Asking

\* The other parts of the type invariant.
ChannelTyped ==
  /\ fileEventChan \in Seq(Event)
  /\ Len(fileEventChan) <= FileEventChanCap

RoomLeft ==
  /\ Made <= MaxFiles
  /\ \A i \in 1..Len(fileEventChan) :
       fileEventChan[i].type = "AddFile" => Made + i <= MaxFiles

LoopTyped ==
  /\ state \in {"initializing", "ready", "update"}
  /\ eventLoop \in Event \cup {Idle}

Reply == [is : {"Answer"}, to : Request, files : SUBSET FileInfo]

AskersTyped ==
  /\ response \in [Response -> {Empty} \cup Reply]
  /\ caller \in [Caller -> Place]

LEMMA TypeParts ==
  TypeOK <=> MapsTyped /\ ChannelTyped /\ RoomLeft /\ LoopTyped /\ AskersTyped
  BY DEF TypeOK, MapsTyped, ChannelTyped, RoomLeft, LoopTyped, AskersTyped, Reply

LEMMA TypePartsNext ==
  TypeOK' <=> MapsTyped' /\ ChannelTyped' /\ RoomLeft' /\ LoopTyped' /\ AskersTyped'
  BY DEF TypeOK, MapsTyped, ChannelTyped, RoomLeft, LoopTyped, AskersTyped, Reply

LEMMA MadeIsNatural ==
  ASSUME MapsTyped
  PROVE  Made \in Nat /\ Len(files) \in Nat /\ Len(files) <= Made
  BY DEF MapsTyped, Made

\* A post of anything but an addition leaves the room as it is.
LEMMA PostTyped ==
  ASSUME MapsTyped, ChannelTyped, RoomLeft, NEW e \in Event, Post(e),
         e.type = "AddFile" => Made + Len(fileEventChan) < MaxFiles,
         UNCHANGED <<files, eventLoop>>
  PROVE  ChannelTyped' /\ RoomLeft'
<1>1. /\ fileEventChan' \in Seq(Event)
      /\ Len(fileEventChan) \in Nat
      /\ Len(fileEventChan') = Len(fileEventChan) + 1
      /\ \A i \in 1..Len(fileEventChan) : fileEventChan'[i] = fileEventChan[i]
      /\ fileEventChan'[Len(fileEventChan) + 1] = e
  BY Sent DEF Post, ChannelTyped
<1>2. Len(fileEventChan') <= FileEventChanCap
  BY <1>1, FileIndexAssumption DEF Post, FileIndexAssumption
<1>3. Made' = Made
  BY DEF Made
<1>4. Made \in Nat /\ MaxFiles \in Nat
  BY MadeIsNatural, FileIndexAssumption DEF FileIndexAssumption
<1>5. ASSUME NEW i \in 1..Len(fileEventChan'), fileEventChan'[i].type = "AddFile"
      PROVE  Made + i <= MaxFiles
  <2>1. CASE i = Len(fileEventChan) + 1
    BY <1>1, <1>4, <1>5, <2>1
  <2>2. CASE i # Len(fileEventChan) + 1
    <3>1. i \in 1..Len(fileEventChan)
      BY <1>1, <2>2
    <3>2. QED
      BY <1>1, <1>5, <3>1 DEF RoomLeft
  <2>3. QED
    BY <2>1, <2>2
<1>6. QED
  BY <1>1, <1>2, <1>3, <1>5 DEF ChannelTyped, RoomLeft

\* Where a caller is decides which local variables it has.
LEMMA PlaceFields ==
  ASSUME AskersTyped, NEW c \in Caller
  PROVE  /\ At(c, "queue") => /\ caller[c].request \in Request
                              /\ caller[c].deadline \in BOOLEAN
                              /\ caller[c].index \in Int
         /\ At(c, "answer") => /\ caller[c].request \in Request
                               /\ caller[c].index \in Int
                               /\ caller[c].response \in Response
         /\ At(c, "stat") => caller[c].index \in Int
         /\ At(c, "read") => /\ caller[c].index \in Int
                             /\ caller[c].offset \in Int
                             /\ caller[c].wanted \in Int
                             /\ caller[c].same \in BOOLEAN
         /\ At(c, "digest") => /\ caller[c].index \in Int
                               /\ caller[c].from \in Int
                               /\ caller[c].length \in Int
                               /\ caller[c].same \in BOOLEAN
<1>1. caller[c] \in Place
  BY DEF AskersTyped
<1>2. QED
  BY <1>1 DEF Place, At

LEMMA GotoTyped ==
  ASSUME AskersTyped, NEW c \in Caller, NEW there \in Place, Goto(c, there),
         UNCHANGED response
  PROVE  AskersTyped'
  BY DEF AskersTyped, Goto

LEMMA QueueKept ==
  ASSUME MapsTyped, ChannelTyped, RoomLeft, LoopTyped,
         UNCHANGED <<state, maps, fileEventChan, eventLoop>>
  PROVE  MapsTyped' /\ ChannelTyped' /\ RoomLeft' /\ LoopTyped'
  BY DEF MapsTyped, ChannelTyped, RoomLeft, LoopTyped, Made, maps

\* Taking an event makes room before it asks for any.
LEMMA TakeTyped ==
  ASSUME MapsTyped, ChannelTyped, RoomLeft, LoopTyped, takeEvent
  PROVE  MapsTyped' /\ ChannelTyped' /\ RoomLeft' /\ LoopTyped'
<1>1. /\ fileEventChan' \in Seq(Event)
      /\ Len(fileEventChan) \in Nat \ {0}
      /\ Len(fileEventChan') = Len(fileEventChan) - 1
      /\ eventLoop' \in Event
      /\ eventLoop' = fileEventChan[1]
      /\ \A i \in 1..Len(fileEventChan') : fileEventChan'[i] = fileEventChan[i + 1]
  BY Received DEF takeEvent, ChannelTyped
<1>2. MapsTyped' /\ LoopTyped' /\ ChannelTyped'
  <2>1. MapsTyped'
    BY DEF takeEvent, MapsTyped, maps
  <2>2. LoopTyped'
    BY <1>1 DEF takeEvent, LoopTyped
  <2>3. ChannelTyped'
    BY <1>1, FileIndexAssumption DEF ChannelTyped, FileIndexAssumption
  <2>4. QED
    BY <2>1, <2>2, <2>3
<1>3. Made = Len(files) /\ Len(files) \in Nat /\ files' = files
  BY DEF takeEvent, Made, Idle, MapsTyped, maps
<1>4. Made' = Made + (IF fileEventChan[1].type = "AddFile" THEN 1 ELSE 0)
  BY <1>1, <1>3 DEF Made
<1>5. Made \in Nat /\ MaxFiles \in Nat
  BY <1>3, FileIndexAssumption DEF FileIndexAssumption
<1>6. Made' <= MaxFiles
  <2>1. 1 \in 1..Len(fileEventChan)
    BY <1>1
  <2>2. QED
    BY <1>4, <1>5, <2>1 DEF RoomLeft
<1>7. ASSUME NEW i \in 1..Len(fileEventChan'), fileEventChan'[i].type = "AddFile"
      PROVE  Made' + i <= MaxFiles
  <2>1. i + 1 \in 1..Len(fileEventChan) /\ i \in Nat
    BY <1>1
  <2>2. Made + (i + 1) <= MaxFiles
    BY <1>1, <1>7, <2>1 DEF RoomLeft
  <2>3. Made' \in {Made, Made + 1}
    BY <1>4, <1>5
  <2>4. CASE Made' = Made
    BY <1>5, <2>1, <2>2, <2>4
  <2>5. CASE Made' = Made + 1
    BY <1>5, <2>1, <2>2, <2>5
  <2>6. QED
    BY <2>3, <2>4, <2>5
<1>8. RoomLeft'
  BY <1>6, <1>7 DEF RoomLeft
<1>9. QED
  BY <1>2, <1>8

\* addToMap makes the FileInfo that was counted when its event was taken.
LEMMA AddTyped ==
  ASSUME MapsTyped, ChannelTyped, RoomLeft, LoopTyped, addToMap
  PROVE  MapsTyped' /\ ChannelTyped' /\ RoomLeft' /\ LoopTyped'
<1>1. eventLoop \in Event /\ eventLoop.type = "AddFile"
  BY DEF LoopTyped, Idle, addToMap
<1>2. eventLoop.file \in Share
  BY <1>1, EventFields
<1>3. Len(files) \in Nat /\ Made = Len(files) + 1 /\ MaxFiles \in Nat
  BY <1>1, FileIndexAssumption DEF MapsTyped, Made, FileIndexAssumption
<1>4. Len(files) < MaxFiles
  BY <1>3 DEF RoomLeft
<1>5. MapsTyped' /\ Len(files') = Len(files) + 1
  BY <1>2, <1>4, RegisterTyped DEF addToMap
<1>6. eventLoop' = Idle /\ fileEventChan' = fileEventChan /\ state' = "ready"
  BY DEF addToMap
<1>7. Made' = Made
  BY <1>3, <1>5, <1>6 DEF Made, Idle
<1>8. QED
  BY <1>5, <1>6, <1>7 DEF ChannelTyped, RoomLeft, LoopTyped

LEMMA RemoveFileTyped ==
  ASSUME MapsTyped, ChannelTyped, RoomLeft, LoopTyped, IndexExact, removeFile
  PROVE  MapsTyped' /\ ChannelTyped' /\ RoomLeft' /\ LoopTyped'
<1>1. eventLoop \in Event /\ eventLoop.type = "RemoveFile"
  BY DEF LoopTyped, Idle, removeFile
<1>2. eventLoop.hash \in Hash
  BY <1>1, EventFields
<1>3. MapsTyped' /\ files' = files
  BY <1>2, RemoveTyped DEF removeFile
<1>4. eventLoop' = Idle /\ fileEventChan' = fileEventChan /\ state' = "ready"
  BY DEF removeFile
<1>5. Made' = Made
  BY <1>1, <1>3, <1>4 DEF Made, Idle
<1>6. QED
  BY <1>3, <1>4, <1>5 DEF ChannelTyped, RoomLeft, LoopTyped

\* The answer is a set of pointers.
LEMMA AnswerTyped ==
  ASSUME MapsTyped, ChannelTyped, RoomLeft, LoopTyped, AskersTyped, answerRequest
  PROVE  MapsTyped' /\ ChannelTyped' /\ RoomLeft' /\ LoopTyped' /\ AskersTyped'
<1>1. /\ eventLoop \in Event
      /\ eventLoop.request \in Request
      /\ eventLoop.response \in Response
  <2>1. eventLoop \in Event /\ eventLoop.type = "Request"
    BY DEF LoopTyped, Idle, answerRequest
  <2>2. QED
    BY <2>1, EventFields
<1>2. PICK found \in Answers(eventLoop.request) :
        Send(eventLoop.response, eventLoop.request, found)
  BY DEF answerRequest
<1>3. found \in SUBSET FileInfo
  <2>1. \A k \in HashKey : filesByHash[k] \in FileInfo \cup {Nil}
    BY DEF MapsTyped
  <2>2. eventLoop.request.type \in {"GetFiles", "GetFile", "Search"}
    BY <1>1 DEF Request
  <2>3. CASE eventLoop.request.type = "GetFiles"
    BY <1>2, <2>1, <2>3 DEF Answers
  <2>4. CASE eventLoop.request.type = "GetFile"
    <3>1. eventLoop.request.hash \in Hash
      BY <1>1, <2>4 DEF Request
    <3>2. Raw(eventLoop.request.hash) \in HashKey
      BY <3>1 DEF Raw, HashKey
    <3>3. Found(Raw(eventLoop.request.hash)) \in SUBSET FileInfo
      BY <2>1, <3>2 DEF Found
    <3>4. QED
      BY <1>2, <2>4, <3>3 DEF Answers
  <2>5. CASE eventLoop.request.type = "Search"
    BY <1>2, <2>5 DEF Answers, OnePerPath, Hits
  <2>6. QED
    BY <2>2, <2>3, <2>4, <2>5
<1>4. Answer(eventLoop.request, found) \in Reply
  BY <1>1, <1>3 DEF Answer, Reply
<1>5. AskersTyped'
  BY <1>1, <1>2, <1>4 DEF Send, answerRequest, AskersTyped
<1>6. MapsTyped'
  BY DEF answerRequest, MapsTyped, maps
<1>7. RoomLeft'
  <2>1. Made' = Made
    BY DEF answerRequest, maps, Made, Idle
  <2>2. fileEventChan' = fileEventChan
    BY DEF answerRequest
  <2>3. QED
    BY <2>1, <2>2 DEF RoomLeft
<1>8. ChannelTyped' /\ LoopTyped'
  BY DEF answerRequest, ChannelTyped, LoopTyped
<1>9. QED
  BY <1>5, <1>6, <1>7, <1>8

LEMMA FreeIsPlace == Free \in Place
  BY DEF Free, Place

\* A step of a caller that leaves the loop and its channels alone.
LEMMA WalkTyped ==
  ASSUME MapsTyped, ChannelTyped, RoomLeft, LoopTyped, AskersTyped,
         NEW c \in Caller, NEW there \in Place, Goto(c, there), NoWait(c)
  PROVE  MapsTyped' /\ ChannelTyped' /\ RoomLeft' /\ LoopTyped' /\ AskersTyped'
<1>1. MapsTyped' /\ ChannelTyped' /\ RoomLeft' /\ LoopTyped'
  BY QueueKept DEF NoWait
<1>2. AskersTyped'
  BY GotoTyped DEF NoWait
<1>3. QED
  BY <1>1, <1>2

\* The readers: offsets, lengths and places of digests are integers.
LEMMA ReaderTyped ==
  ASSUME MapsTyped, ChannelTyped, RoomLeft, LoopTyped, AskersTyped,
         NEW c \in Caller, stat(c) \/ read(c) \/ readDigest(c) \/ sendPacket(c)
  PROVE  MapsTyped' /\ ChannelTyped' /\ RoomLeft' /\ LoopTyped' /\ AskersTyped'
<1> DEFINE Typed == MapsTyped' /\ ChannelTyped' /\ RoomLeft' /\ LoopTyped'
                      /\ AskersTyped'
<1>1. \A n \in Size : n \in Int
  BY FileIndexAssumption DEF FileIndexAssumption
<1>2. ChunkSize \in Int
  BY ChunksAssumption DEF ChunksAssumption
<1>3. CASE Goto(c, Free) /\ NoWait(c)
  BY <1>3, FreeIsPlace, WalkTyped
<1>4. CASE stat(c)
  <2>1. caller[c].index \in Int
    BY <1>4, PlaceFields DEF stat
  <2> DEFINE offset == ChunkOffset(caller[c].index)
  <2>2. offset \in Int
    BY <2>1, OffsetsAreIntegers
  <2>3. ASSUME NEW n \in Size, NEW same \in {n = SeededSize, FALSE},
               NoWait(c),
               Goto(c, [at |-> "read", index |-> caller[c].index,
                        offset |-> offset, wanted |-> ReadSize(offset, n),
                        same |-> same])
        PROVE  Typed
    <3> HIDE DEF offset
    <3>1. ReadSize(offset, n) \in Int
      BY <1>1, <1>2, <2>2 DEF ReadSize, Smaller
    <3>2. same \in BOOLEAN
      OBVIOUS
    <3>3. [at |-> "read", index |-> caller[c].index, offset |-> offset,
           wanted |-> ReadSize(offset, n), same |-> same] \in Place
      BY <2>1, <2>2, <3>1, <3>2 DEF Place
    <3>4. QED
      BY <2>3, <3>3, WalkTyped
  <2>4. QED
    BY <1>3, <1>4, <2>3 DEF stat
<1>5. CASE read(c)
  <2>1. /\ caller[c].index \in Int
        /\ caller[c].offset \in Int
        /\ caller[c].wanted \in Int
        /\ caller[c].same \in BOOLEAN
    BY <1>5, PlaceFields DEF read
  <2>2. ASSUME NEW n \in Size, NEW same \in {n = SeededSize /\ caller[c].same, FALSE},
               NoWait(c),
               Goto(c, [at |-> "digest", index |-> caller[c].index,
                        from |-> caller[c].offset, same |-> same,
                        length |-> BytesRead(caller[c].offset,
                                             caller[c].wanted, n)])
        PROVE  Typed
    <3>1. BytesRead(caller[c].offset, caller[c].wanted, n) \in Int
      BY <1>1, <2>1 DEF BytesRead, Smaller
    <3>2. same \in BOOLEAN
      OBVIOUS
    <3>3. [at |-> "digest", index |-> caller[c].index,
           from |-> caller[c].offset, same |-> same,
           length |-> BytesRead(caller[c].offset, caller[c].wanted, n)] \in Place
      BY <2>1, <3>1, <3>2 DEF Place
    <3>4. QED
      BY <2>2, <3>3, WalkTyped
  <2>3. QED
    BY <1>3, <1>5, <2>2 DEF read
<1>6. CASE readDigest(c)
  <2>1. /\ caller[c].index \in Int
        /\ caller[c].from \in Int
        /\ caller[c].length \in Int
        /\ caller[c].same \in BOOLEAN
    BY <1>6, PlaceFields DEF readDigest
  <2>2. DigestOf(caller[c].index) \in Int
    BY <2>1, OffsetsAreIntegers
  <2>3. [at |-> "packet", index |-> caller[c].index,
         from |-> caller[c].from, length |-> caller[c].length,
         same |-> caller[c].same,
         digest |-> DigestOf(caller[c].index)] \in Place
    BY <2>1, <2>2 DEF Place
  <2>4. QED
    BY <1>3, <1>6, <2>3, WalkTyped DEF readDigest
<1>7. CASE sendPacket(c)
  BY <1>3, <1>7 DEF sendPacket
<1>8. QED
  BY <1>4, <1>5, <1>6, <1>7

\* The callers' steps before they read a file.
LEMMA AskerTyped ==
  ASSUME MapsTyped, ChannelTyped, RoomLeft, LoopTyped, AskersTyped,
         NEW c \in Caller,
         \/ \E q \in Request : command(c, q)
         \/ \E i \in Index : SendFilePacket(c, i)
         \/ ask(c) \/ timeout(c) \/ receive(c)
  PROVE  MapsTyped' /\ ChannelTyped' /\ RoomLeft' /\ LoopTyped' /\ AskersTyped'
<1>1. ASSUME NEW q \in Request, command(c, q)
      PROVE  MapsTyped' /\ ChannelTyped' /\ RoomLeft' /\ LoopTyped' /\ AskersTyped'
  <2>1. [at |-> "queue", request |-> q, deadline |-> TRUE, index |-> 0] \in Place
    BY DEF Place
  <2>2. QED
    BY <1>1, <2>1, WalkTyped DEF command, NoWait
<1>2. ASSUME NEW i \in Index, SendFilePacket(c, i)
      PROVE  MapsTyped' /\ ChannelTyped' /\ RoomLeft' /\ LoopTyped' /\ AskersTyped'
  <2>1. i \in Int
    BY FileIndexAssumption DEF FileIndexAssumption
  <2>2. [at |-> "stat", index |-> i] \in Place
    BY <2>1 DEF Place
  <2>3. \A h \in Hash :
          [at |-> "queue", request |-> [type |-> "GetFile", hash |-> h],
           deadline |-> FALSE, index |-> i] \in Place
    BY <2>1 DEF Place, Request
  <2>4. QED
    BY <1>2, <2>2, <2>3, WalkTyped DEF SendFilePacket
<1>3. CASE ask(c)
  <2>1. /\ caller[c].request \in Request
        /\ caller[c].deadline \in BOOLEAN
        /\ caller[c].index \in Int
    BY <1>3, PlaceFields DEF ask
  <2>2. PICK r \in Response :
          /\ Post([type |-> "Request", request |-> caller[c].request,
                   response |-> r])
          /\ Goto(c, [at |-> "answer", request |-> caller[c].request,
                      deadline |-> caller[c].deadline,
                      index |-> caller[c].index, response |-> r])
    BY <1>3 DEF ask
  <2> DEFINE e == [type |-> "Request", request |-> caller[c].request,
                   response |-> r]
             there == [at |-> "answer", request |-> caller[c].request,
                       deadline |-> caller[c].deadline,
                       index |-> caller[c].index, response |-> r]
  <2>3. e \in Event /\ e.type # "AddFile"
    BY <2>1 DEF Event, Asking
  <2>4. there \in Place
    BY <2>1 DEF Place
  <2>5. UNCHANGED <<state, maps, eventLoop, response, files>>
    BY <1>3 DEF ask, maps
  <2> HIDE DEF e, there
  <2>6. ChannelTyped' /\ RoomLeft'
    BY <2>2, <2>3, <2>5, PostTyped DEF e
  <2>7. AskersTyped'
    BY <2>2, <2>4, <2>5, GotoTyped DEF there
  <2>8. QED
    BY <2>5, <2>6, <2>7 DEF MapsTyped, LoopTyped, maps
<1>4. CASE timeout(c)
  <2>1. MapsTyped' /\ ChannelTyped' /\ RoomLeft' /\ LoopTyped'
    BY <1>4, QueueKept DEF timeout
  <2>2. AskersTyped'
    BY <1>4, FreeIsPlace DEF timeout, Goto, AskersTyped
  <2>3. QED
    BY <2>1, <2>2
<1>5. CASE receive(c)
  <2>1. MapsTyped' /\ ChannelTyped' /\ RoomLeft' /\ LoopTyped'
    BY <1>5, QueueKept DEF receive
  <2>2. caller[c].index \in Int /\ caller[c].response \in Response
    BY <1>5, PlaceFields DEF receive
  <2>3. [at |-> "stat", index |-> caller[c].index] \in Place
    BY <2>2 DEF Place
  <2>4. AskersTyped'
    BY <1>5, <2>2, <2>3, FreeIsPlace DEF receive, Goto, AskersTyped
  <2>5. QED
    BY <2>1, <2>4
<1>6. QED
  BY <1>1, <1>2, <1>3, <1>4, <1>5

\* Seeds and start-up.
LEMMA SeedTyped ==
  ASSUME MapsTyped, ChannelTyped, RoomLeft, LoopTyped, AskersTyped, AloneAtFirst,
         \/ \E f \in Share : loadMetaDataFile(f) \/ announce(f)
         \/ Initialize
         \/ \E p \in 1..Len(files) : announceRemoval(p)
  PROVE  MapsTyped' /\ ChannelTyped' /\ RoomLeft' /\ LoopTyped' /\ AskersTyped'
<1>1. ASSUME NEW f \in Share, loadMetaDataFile(f)
      PROVE  MapsTyped' /\ ChannelTyped' /\ RoomLeft' /\ LoopTyped' /\ AskersTyped'
  <2>1. MapsTyped' /\ Len(files') = Len(files) + 1
    BY <1>1, RegisterTyped DEF loadMetaDataFile
  <2>2. fileEventChan = <<>> /\ eventLoop = Idle
    BY <1>1 DEF loadMetaDataFile, AloneAtFirst
  <2>3. Made' = Len(files) + 1 /\ Len(files) \in Nat /\ MaxFiles \in Nat
    BY <1>1, <2>1, <2>2, FileIndexAssumption
       DEF loadMetaDataFile, Made, Idle, MapsTyped, FileIndexAssumption
  <2>4. RoomLeft'
    BY <1>1, <2>2, <2>3 DEF loadMetaDataFile, RoomLeft
  <2>5. ChannelTyped' /\ LoopTyped' /\ AskersTyped'
    BY <1>1 DEF loadMetaDataFile, ChannelTyped, LoopTyped, AskersTyped
  <2>6. QED
    BY <2>1, <2>4, <2>5
<1>2. ASSUME NEW f \in Share, announce(f)
      PROVE  MapsTyped' /\ ChannelTyped' /\ RoomLeft' /\ LoopTyped' /\ AskersTyped'
  <2> DEFINE e == [type |-> "AddFile", file |-> f]
  <2>1. e \in Event
    BY DEF Event, AddFile
  <2>2. Post(e) /\ Made + Len(fileEventChan) < MaxFiles
    BY <1>2 DEF announce
  <2>3. UNCHANGED <<state, maps, eventLoop, response, caller, files>>
    BY <1>2 DEF announce, maps
  <2> HIDE DEF e
  <2>4. ChannelTyped' /\ RoomLeft'
    BY <2>1, <2>2, <2>3, PostTyped
  <2>5. QED
    BY <2>3, <2>4 DEF MapsTyped, LoopTyped, AskersTyped, maps
<1>3. CASE Initialize
  BY <1>3 DEF Initialize, MapsTyped, ChannelTyped, RoomLeft, LoopTyped,
              AskersTyped, Made, maps
<1>4. ASSUME NEW p \in 1..Len(files), announceRemoval(p)
      PROVE  MapsTyped' /\ ChannelTyped' /\ RoomLeft' /\ LoopTyped' /\ AskersTyped'
  <2> DEFINE e == [type |-> "RemoveFile", hash |-> files[p].hash]
  <2>1. files[p] \in Share
    BY DEF MapsTyped
  <2>2. e \in Event /\ e.type # "AddFile"
    BY <2>1, Shares DEF Event, RemoveFile
  <2>3. Post(e)
    BY <1>4 DEF announceRemoval
  <2>4. UNCHANGED <<state, maps, eventLoop, response, caller, files>>
    BY <1>4 DEF announceRemoval, maps
  <2> HIDE DEF e
  <2>5. ChannelTyped' /\ RoomLeft'
    BY <2>2, <2>3, <2>4, PostTyped
  <2>6. QED
    BY <2>4, <2>5 DEF MapsTyped, LoopTyped, AskersTyped, maps
<1>5. QED
  BY <1>1, <1>2, <1>3, <1>4

\* Every step keeps the types: no pointer is made beyond the bound, no channel
\* holds more than its buffer.
LEMMA TypeStep ==
  ASSUME TypeOK, IndexExact, AloneAtFirst, [Next]_vars
  PROVE  TypeOK'
<1>1. MapsTyped /\ ChannelTyped /\ RoomLeft /\ LoopTyped /\ AskersTyped
  BY TypeParts
<1>2. CASE fileEventLoop
  <2>1. CASE takeEvent
    BY <1>1, <2>1, TakeTyped, TypePartsNext DEF takeEvent, AskersTyped
  <2>2. CASE addToMap
    BY <1>1, <2>2, AddTyped, TypePartsNext DEF addToMap, AskersTyped
  <2>3. CASE removeFile
    BY <1>1, <2>3, RemoveFileTyped, TypePartsNext DEF removeFile, AskersTyped
  <2>4. CASE answerRequest
    BY <1>1, <2>4, AnswerTyped, TypePartsNext
  <2>5. QED
    BY <1>2, <2>1, <2>2, <2>3, <2>4 DEF fileEventLoop
<1>3. CASE \/ \E f \in Share : loadMetaDataFile(f) \/ announce(f)
           \/ Initialize
           \/ \E p \in 1..Len(files) : announceRemoval(p)
  BY <1>1, <1>3, SeedTyped, TypePartsNext
<1>4. ASSUME NEW c \in Caller,
             \/ \E q \in Request : command(c, q)
             \/ \E i \in Index : SendFilePacket(c, i)
             \/ ask(c) \/ timeout(c) \/ receive(c)
      PROVE  TypeOK'
  BY <1>1, <1>4, AskerTyped, TypePartsNext
<1>5. ASSUME NEW c \in Caller,
             stat(c) \/ read(c) \/ readDigest(c) \/ sendPacket(c)
      PROVE  TypeOK'
  BY <1>1, <1>5, ReaderTyped, TypePartsNext
<1>6. CASE UNCHANGED vars
  <2>1. UNCHANGED <<state, maps, fileEventChan, eventLoop, response, caller>>
    BY <1>6 DEF vars
  <2>2. QED
    BY <1>1, <2>1, QueueKept, TypePartsNext DEF AskersTyped
<1>7. QED
  BY <1>2, <1>3, <1>4, <1>5, <1>6 DEF Next, callerStep

-----------------------------------------------------------------------------
(* The maps                                                                *)

\* A listed pointer is listed under its own hash, in hex.
LEMMA ListedByHash ==
  ASSUME MapsTyped, IndexExact, NEW p \in FileInfo, Listed(p)
  PROVE  /\ p \in 1..Len(files)
         /\ files[p].hash \in Hash
         /\ filesByHash[Hex(files[p].hash)] = p
         /\ Indexed(p)
<1>1. PICK k \in HashKey : filesByHash[k] = p
  BY DEF Listed
<1>2. PICK h \in Hash : k = Hex(h) \/ k = Raw(h)
  BY <1>1 DEF HashKey, Hex, Raw
<1>3. p # Nil /\ p \in Nat
  BY DEF FileInfo, Nil
<1>4. k = Hex(h)
  BY <1>1, <1>2, <1>3 DEF IndexExact
<1>5. p <= Len(files) /\ files[p].hash = h /\ Indexed(p)
  BY <1>1, <1>3, <1>4 DEF IndexExact
<1>6. Len(files) \in Nat
  BY DEF MapsTyped
<1>7. QED
  BY <1>1, <1>3, <1>4, <1>5, <1>6 DEF FileInfo

LEMMA HexKeys ==
  /\ \A h \in Hash : Hex(h) \in HashKey /\ Raw(h) \in HashKey
  /\ \A g, h : Hex(g) = Hex(h) => g = h
  /\ \A g, h : Hex(g) # Raw(h)
  BY DEF Hex, Raw, HashKey

\* registerFile enters the new pointer in full and moves no other entry; what
\* it takes the place of is displaced.
LEMMA RegisterExact ==
  ASSUME MapsTyped, IndexExact, TracesOfListed,
         NEW f \in Share, Len(files) < MaxFiles, registerFile(f)
  PROVE  IndexExact' /\ TracesOfListed'
<1>1. Len(files) \in Nat /\ MaxFiles \in Nat
  BY FileIndexAssumption DEF FileIndexAssumption, MapsTyped
<1>1a. PICK p \in FileInfo : p = Len(files) + 1
  BY <1>1 DEF FileInfo
<1>2. /\ Len(files') = p
      /\ \A q \in 1..Len(files) : files'[q] = files[q]
      /\ files'[p] = f
  BY <1>1a, Sent DEF registerFile, MapsTyped
<1>3. /\ f.hash \in Hash /\ Hex(f.hash) \in HashKey
      /\ filesByHash' = [filesByHash EXCEPT ![Hex(f.hash)] = p]
      /\ localSeededFiles' = localSeededFiles \cup {f.path}
  BY <1>1a, Shares DEF registerFile
<1>4. searchIndex' = [k \in Key |-> [searchIndex[k] EXCEPT ![p] = @ + Uses(f, k)]]
  BY <1>1a DEF registerFile
<1>5. Unindexed(p)
  BY <1>1, <1>1a DEF IndexExact
<1>6. \A k \in Key, q \in FileInfo : q # p => searchIndex'[k][q] = searchIndex[k][q]
  BY <1>1, <1>4 DEF MapsTyped
<1>7. \A k \in Key : searchIndex'[k][p] = Uses(files'[p], k)
  <2> SUFFICES ASSUME NEW k \in Key PROVE searchIndex'[k][p] = Uses(files'[p], k)
    OBVIOUS
  <2>1. searchIndex'[k][p] = searchIndex[k][p] + Uses(f, k)
    BY <1>1, <1>4 DEF MapsTyped
  <2>2. searchIndex[k][p] = 0 /\ Uses(f, k) \in Nat
    BY <1>5, UsesCounts DEF Unindexed
  <2>3. QED
    BY <1>2, <2>1, <2>2
<1>8. Indexed(p)'
  BY <1>7 DEF Indexed
<1>9. \A q \in 1..Len(files) : q # p /\ q \in FileInfo
  BY <1>1, <1>1a DEF FileInfo
<1>10. ASSUME NEW q \in 1..Len(files)
       PROVE  /\ Indexed(q) => Indexed(q)'
              /\ Unindexed(q) => Unindexed(q)'
  BY <1>2, <1>6, <1>9 DEF Indexed, Unindexed
<1>11. ASSUME NEW q \in FileInfo, q # p, q > Len(files) PROVE Unindexed(q)'
  <2>1. Unindexed(q)
    <3>1. ~ (q <= Len(files))
      BY <1>1, <1>11 DEF FileInfo
    <3>2. QED
      BY <3>1 DEF IndexExact
  <2>2. QED
    BY <1>6, <1>11, <2>1 DEF Unindexed
<1>12. IndexExact'
  <2>1. ASSUME NEW h \in Hash PROVE filesByHash'[Raw(h)] = Nil
    BY <1>3, HexKeys DEF IndexExact, MapsTyped
  <2>2. ASSUME NEW h \in Hash, NEW q \in FileInfo, filesByHash'[Hex(h)] = q
        PROVE  q <= Len(files') /\ files'[q].hash = h /\ Indexed(q)'
    <3>1. CASE h = f.hash
      <4>1. q = p
        BY <1>3, <2>2, <3>1 DEF MapsTyped
      <4>2. p <= Len(files')
        BY <1>1, <1>2, <1>1a
      <4>3. QED
        BY <1>2, <1>8, <3>1, <4>1, <4>2
    <3>2. CASE h # f.hash
      <4>1. filesByHash[Hex(h)] = q
        BY <1>3, <2>2, <3>2, HexKeys DEF MapsTyped
      <4>2. q # Nil
        BY DEF FileInfo, Nil
      <4>3. q <= Len(files) /\ files[q].hash = h /\ Indexed(q)
        BY <4>1, <4>2 DEF IndexExact
      <4>4. q \in 1..Len(files)
        BY <1>1, <4>1, <4>3 DEF FileInfo
      <4>5. q <= p
        BY <1>1, <4>4, <1>1a
      <4>6. QED
        BY <1>2, <1>10, <4>1, <4>3, <4>4, <4>5
    <3>3. QED
      BY <3>1, <3>2
  <2>3. ASSUME NEW q \in FileInfo
        PROVE  IF q <= Len(files') THEN Indexed(q)' \/ Unindexed(q)' ELSE Unindexed(q)'
    <3>1. CASE q = p
      BY <1>1, <1>2, <1>8, <3>1, <1>1a
    <3>2. CASE q \in 1..Len(files)
      <4>1. Indexed(q) \/ Unindexed(q)
        BY <1>1, <3>2 DEF IndexExact, FileInfo
      <4>2. QED
        BY <1>1, <1>2, <1>10, <3>2, <4>1, <1>1a
    <3>3. CASE q # p /\ q > Len(files)
      BY <1>11, <3>3
    <3>4. QED
      BY <1>1, <3>1, <3>2, <3>3 DEF FileInfo
  <2>4. \A h \in Hash : filesByHash'[Hex(h)] \in FileInfo \cup {Nil}
    BY RegisterTyped, HexKeys DEF MapsTyped
  <2>5. QED
    BY <2>1, <2>2, <2>3, <2>4 DEF IndexExact
<1>13. ASSUME NEW q \in 1..Len(files), Listed(q) \/ Displaced(q)
       PROVE  Listed(q)' \/ Displaced(q)'
  <2>1. CASE Displaced(q)
    <3>1. PICK r \in q + 1..Len(files) : files[r].hash = files[q].hash
      BY <2>1 DEF Displaced
    <3>2. r \in q + 1..Len(files') /\ r \in 1..Len(files)
      BY <1>1, <1>2, <1>1a
    <3>3. QED
      BY <1>2, <3>1, <3>2 DEF Displaced
  <2>2. CASE Listed(q)
    <3>1. /\ filesByHash[Hex(files[q].hash)] = q
          /\ files[q].hash \in Hash
      BY <1>9, <2>2, ListedByHash
    <3>2. CASE files[q].hash = f.hash
      <4>1. p \in q + 1..Len(files')
        BY <1>1, <1>2, <1>1a
      <4>2. files'[p].hash = files'[q].hash
        BY <1>2, <3>2
      <4>3. QED
        BY <4>1, <4>2 DEF Displaced
    <3>3. CASE files[q].hash # f.hash
      <4>1. filesByHash'[Hex(files[q].hash)] = q
        BY <1>3, <3>1, <3>3, HexKeys DEF MapsTyped
      <4>2. QED
        BY <3>1, <4>1, HexKeys DEF Listed
    <3>4. QED
      BY <3>2, <3>3
  <2>3. QED
    BY <1>13, <2>1, <2>2
<1>14. Listed(p)'
  <2>1. filesByHash'[Hex(f.hash)] = p
    BY <1>3 DEF MapsTyped
  <2>2. QED
    BY <1>3, <2>1 DEF Listed
<1>15. TracesOfListed'
  <2>1. ASSUME NEW q \in FileInfo, NEW k \in Key, searchIndex'[k][q] > 0
        PROVE  q <= Len(files') /\ (Listed(q)' \/ Displaced(q)')
    <3>1. CASE q = p
      BY <1>1, <1>2, <1>14, <3>1, <1>1a
    <3>2. CASE q # p
      <4>1. q <= Len(files) /\ (Listed(q) \/ Displaced(q))
        BY <1>6, <2>1, <3>2 DEF TracesOfListed
      <4>2. q \in 1..Len(files) /\ q <= Len(files')
        BY <1>1, <1>2, <4>1, <1>1a DEF FileInfo
      <4>3. QED
        BY <1>13, <4>1, <4>2
    <3>3. QED
      BY <3>1, <3>2
  <2>2. ASSUME NEW path \in localSeededFiles'
        PROVE  \E q \in 1..Len(files') :
                 files'[q].path = path /\ (Listed(q)' \/ Displaced(q)')
    <3>1. CASE path = f.path
      <4>1. p \in 1..Len(files')
        BY <1>1, <1>2, <1>1a
      <4>2. QED
        BY <1>2, <1>14, <3>1, <4>1
    <3>2. CASE path \in localSeededFiles
      <4>1. PICK q \in 1..Len(files) :
              files[q].path = path /\ (Listed(q) \/ Displaced(q))
        BY <3>2 DEF TracesOfListed
      <4>2. q \in 1..Len(files')
        BY <1>1, <1>2, <1>1a
      <4>3. QED
        BY <1>2, <1>13, <4>1, <4>2
    <3>3. QED
      BY <1>3, <2>2, <3>1, <3>2
  <2>3. QED
    BY <2>1, <2>2 DEF TracesOfListed
<1>16. QED
  BY <1>12, <1>15

LEMMA FilesFit ==
  ASSUME MapsTyped, RoomLeft
  PROVE  1..Len(files) \subseteq FileInfo
<1>1. Len(files) \in Nat /\ Made \in Nat /\ Len(files) <= Made /\ MaxFiles \in Nat
  BY MadeIsNatural, FileIndexAssumption DEF FileIndexAssumption
<1>2. QED
  BY <1>1 DEF RoomLeft, FileInfo

\* removeFormMap takes back every entry of the pointer it unlists, and of no other.
LEMMA RemoveExact ==
  ASSUME MapsTyped, RoomLeft, IndexExact, TracesOfListed,
         NEW h \in Hash, removeFormMap(h)
  PROVE  IndexExact' /\ TracesOfListed'
<1>1. files' = files /\ Len(files) \in Nat /\ MapsTyped'
  BY RemoveTyped DEF removeFormMap, MapsTyped
<1>2. CASE filesByHash[Hex(h)] = Nil
  <2>1. UNCHANGED <<files, filesByHash, localSeededFiles, searchIndex>>
    BY <1>2 DEF removeFormMap
  <2>2. IndexExact'
    BY <2>1 DEF IndexExact, Indexed, Unindexed
  <2>3. TracesOfListed'
    BY <2>1 DEF TracesOfListed, Listed, Displaced
  <2>4. QED
    BY <2>2, <2>3
<1>3. ASSUME NEW p \in FileInfo, filesByHash[Hex(h)] = p, p # Nil
      PROVE  IndexExact' /\ TracesOfListed'
  <2>1. p \in 1..Len(files) /\ files[p].hash = h /\ Indexed(p) /\ files[p] \in Share
    BY <1>1, <1>3 DEF IndexExact, FileInfo, MapsTyped
  <2>2. /\ filesByHash' = [filesByHash EXCEPT ![Hex(h)] = Nil]
        /\ localSeededFiles' = localSeededFiles \ {files[p].path}
        /\ searchIndex' = [k \in Key |->
             [searchIndex[k] EXCEPT ![p] = removeSearchTerm(p, k)]]
    BY <1>3 DEF removeFormMap
  <2>3. \A k \in Key, q \in FileInfo :
          q # p => searchIndex'[k][q] = searchIndex[k][q]
    BY <2>2 DEF MapsTyped
  <2>4. Unindexed(p)'
    <3> SUFFICES ASSUME NEW k \in Key PROVE searchIndex'[k][p] = 0
      BY DEF Unindexed
    <3>1. searchIndex'[k][p] = removeSearchTerm(p, k)
      BY <2>2 DEF MapsTyped
    <3>2. searchIndex[k][p] = Uses(files[p], k) /\ Uses(files[p], k) \in Nat
      BY <2>1, UsesCounts DEF Indexed
    <3>3. QED
      BY <3>1, <3>2 DEF removeSearchTerm
  <2>5. ASSUME NEW q \in FileInfo, q # p
        PROVE  /\ Indexed(q) => Indexed(q)'
               /\ Unindexed(q) => Unindexed(q)'
    BY <1>1, <2>3, <2>5 DEF Indexed, Unindexed
  <2>6. IndexExact'
    <3>1. ASSUME NEW g \in Hash PROVE filesByHash'[Raw(g)] = Nil
      BY <2>2, HexKeys DEF IndexExact, MapsTyped
    <3>2. ASSUME NEW g \in Hash, NEW q \in FileInfo, filesByHash'[Hex(g)] = q
          PROVE  q <= Len(files') /\ files'[q].hash = g /\ Indexed(q)'
      <4>1. q # Nil
        BY DEF FileInfo, Nil
      <4>2. g # h /\ filesByHash[Hex(g)] = q
        BY <2>2, <3>2, <4>1, HexKeys DEF MapsTyped
      <4>3. q <= Len(files) /\ files[q].hash = g /\ Indexed(q)
        BY <4>1, <4>2 DEF IndexExact
      <4>4. q # p
        BY <2>1, <4>2, <4>3
      <4>5. QED
        BY <1>1, <2>5, <4>3, <4>4
    <3>3. ASSUME NEW q \in FileInfo
          PROVE  IF q <= Len(files') THEN Indexed(q)' \/ Unindexed(q)'
                 ELSE Unindexed(q)'
      <4>1. CASE q = p
        BY <2>4, <4>1
      <4>2. CASE q # p
        BY <1>1, <2>5, <4>2 DEF IndexExact
      <4>3. QED
        BY <4>1, <4>2
    <3>4. \A g \in Hash : filesByHash'[Hex(g)] \in FileInfo \cup {Nil}
      BY <1>1, HexKeys DEF MapsTyped
    <3>5. QED
      BY <3>1, <3>2, <3>3, <3>4 DEF IndexExact
  <2>7. ASSUME NEW q \in FileInfo, q # p, Listed(q) \/ Displaced(q)
        PROVE  Listed(q)' \/ Displaced(q)'
    <3>1. CASE Displaced(q)
      BY <1>1, <3>1 DEF Displaced
    <3>2. CASE Listed(q)
      <4>1. PICK k \in HashKey : filesByHash[k] = q
        BY <3>2 DEF Listed
      <4>2. filesByHash'[k] = q
        BY <1>3, <2>2, <2>7, <4>1 DEF MapsTyped
      <4>3. QED
        BY <4>2 DEF Listed
    <3>3. QED
      BY <2>7, <3>1, <3>2
  <2>8. TracesOfListed'
    <3>1. ASSUME NEW q \in FileInfo, NEW k \in Key, searchIndex'[k][q] > 0
          PROVE  q <= Len(files') /\ (Listed(q)' \/ Displaced(q)')
      <4>1. q # p
        BY <2>4, <3>1 DEF Unindexed
      <4>2. q <= Len(files) /\ (Listed(q) \/ Displaced(q))
        BY <2>3, <3>1, <4>1 DEF TracesOfListed
      <4>3. QED
        BY <1>1, <2>7, <4>1, <4>2
    <3>2. ASSUME NEW path \in localSeededFiles'
          PROVE  \E q \in 1..Len(files') :
                   files'[q].path = path /\ (Listed(q)' \/ Displaced(q)')
      <4>1. path \in localSeededFiles /\ path # files[p].path
        BY <2>2, <3>2
      <4>2. PICK q \in 1..Len(files) :
              files[q].path = path /\ (Listed(q) \/ Displaced(q))
        BY <4>1 DEF TracesOfListed
      <4>3. q # p /\ q \in FileInfo
        BY <4>1, <4>2, FilesFit
      <4>4. QED
        BY <1>1, <2>7, <4>2, <4>3
    <3>3. QED
      BY <3>1, <3>2 DEF TracesOfListed
  <2>9. QED
    BY <2>6, <2>8
<1>4. filesByHash[Hex(h)] \in FileInfo \cup {Nil}
  BY HexKeys DEF MapsTyped
<1>5. QED
  BY <1>2, <1>3, <1>4 DEF FileInfo, Nil


LEMMA MapsKept ==
  ASSUME IndexExact, TracesOfListed, UNCHANGED maps
  PROVE  IndexExact' /\ TracesOfListed'
<1>1. UNCHANGED <<files, filesByHash, localSeededFiles, searchIndex>>
  BY DEF maps
<1>2. IndexExact'
  BY <1>1 DEF IndexExact, Indexed, Unindexed
<1>3. TracesOfListed'
  BY <1>1 DEF TracesOfListed, Listed, Displaced
<1>4. QED
  BY <1>2, <1>3

\* Only registrations and removals touch the maps.
LEMMA MapsStep ==
  ASSUME TypeOK, IndexExact, TracesOfListed, [Next]_vars
  PROVE  IndexExact' /\ TracesOfListed'
<1>1. MapsTyped /\ RoomLeft /\ LoopTyped
  BY TypeParts
<1>2. ASSUME NEW f \in Share, loadMetaDataFile(f)
      PROVE  IndexExact' /\ TracesOfListed'
  BY <1>1, <1>2, RegisterExact DEF loadMetaDataFile
<1>3. CASE addToMap
  <2>1. eventLoop \in Event /\ eventLoop.type = "AddFile"
    BY <1>1, <1>3 DEF LoopTyped, Idle, addToMap
  <2>2. eventLoop.file \in Share
    BY <2>1, EventFields
  <2>3. Len(files) \in Nat /\ Made = Len(files) + 1 /\ MaxFiles \in Nat
    BY <1>1, <2>1, FileIndexAssumption DEF MapsTyped, Made, FileIndexAssumption
  <2>4. Len(files) < MaxFiles
    BY <1>1, <2>3 DEF RoomLeft
  <2>5. QED
    BY <1>1, <1>3, <2>2, <2>4, RegisterExact DEF addToMap
<1>4. CASE removeFile
  <2>1. eventLoop \in Event /\ eventLoop.type = "RemoveFile"
    BY <1>1, <1>4 DEF LoopTyped, Idle, removeFile
  <2>2. eventLoop.hash \in Hash
    BY <2>1, EventFields
  <2>3. QED
    BY <1>1, <1>4, <2>2, RemoveExact DEF removeFile
<1>5. CASE takeEvent \/ answerRequest
  BY <1>5, MapsKept DEF takeEvent, answerRequest
<1>6. CASE Initialize
  BY <1>6, MapsKept DEF Initialize
<1>7. ASSUME NEW f \in Share, announce(f) PROVE IndexExact' /\ TracesOfListed'
  BY <1>7, MapsKept DEF announce
<1>8. ASSUME NEW p \in 1..Len(files), announceRemoval(p)
      PROVE  IndexExact' /\ TracesOfListed'
  BY <1>8, MapsKept DEF announceRemoval
<1>9. ASSUME NEW c \in Caller,
             \/ \E q \in Request : command(c, q)
             \/ \E i \in Index : SendFilePacket(c, i)
             \/ ask(c) \/ timeout(c) \/ callerStep(c)
      PROVE  IndexExact' /\ TracesOfListed'
  BY <1>9, MapsKept DEF command, SendFilePacket, ask, timeout, callerStep, receive,
                        stat, read, readDigest, sendPacket, NoWait
<1>10. CASE UNCHANGED vars
  BY <1>10, MapsKept DEF vars
<1>11. QED
  BY <1>2, <1>3, <1>4, <1>5, <1>6, <1>7, <1>8, <1>9, <1>10
     DEF Next, fileEventLoop

-----------------------------------------------------------------------------
(* The state of the manager                                                *)

\* setState is deferred on every path, so a state of "update" ends with its event.
LEMMA StateStep ==
  ASSUME TypeOK, AloneAtFirst, UpdateEnds, [Next]_vars
  PROVE  AloneAtFirst' /\ UpdateEnds'
<1>1. LoopTyped /\ ChannelTyped
  BY TypeParts
<1>2. ASSUME NEW f \in Share, loadMetaDataFile(f) PROVE AloneAtFirst' /\ UpdateEnds'
  BY <1>2 DEF loadMetaDataFile, AloneAtFirst, UpdateEnds, At
<1>3. CASE addToMap \/ removeFile
  BY <1>3 DEF addToMap, removeFile, AloneAtFirst, UpdateEnds
<1>4. CASE takeEvent
  <2>1. eventLoop' \in Event
    BY <1>1, <1>4, Received DEF takeEvent, ChannelTyped
  <2>2. eventLoop'.type \in {"AddFile", "RemoveFile", "Request"}
    BY <2>1, EventFields
  <2>3. state # "update"
    BY <1>4 DEF takeEvent, UpdateEnds, Idle
  <2>4. QED
    BY <1>4, <2>2, <2>3 DEF takeEvent, AloneAtFirst, UpdateEnds
<1>5. CASE answerRequest
  BY <1>5 DEF answerRequest, AloneAtFirst, UpdateEnds, Idle
<1>6. CASE Initialize
  BY <1>6 DEF Initialize, AloneAtFirst, UpdateEnds
<1>7. ASSUME NEW f \in Share, announce(f) PROVE AloneAtFirst' /\ UpdateEnds'
  BY <1>7 DEF announce, AloneAtFirst, UpdateEnds
<1>8. ASSUME NEW p \in 1..Len(files), announceRemoval(p)
      PROVE  AloneAtFirst' /\ UpdateEnds'
  BY <1>8 DEF announceRemoval, AloneAtFirst, UpdateEnds
<1>9. ASSUME NEW c \in Caller,
             \/ \E q \in Request : command(c, q)
             \/ \E i \in Index : SendFilePacket(c, i)
             \/ ask(c) \/ timeout(c) \/ callerStep(c)
      PROVE  AloneAtFirst' /\ UpdateEnds'
  <2>1. UNCHANGED <<state, eventLoop>>
    BY <1>9 DEF command, SendFilePacket, ask, timeout, callerStep, receive,
                stat, read, readDigest, sendPacket, NoWait
  <2>2. state # "initializing"
    <3>1. CASE (\E q \in Request : command(c, q))
                 \/ (\E i \in Index : SendFilePacket(c, i))
      BY <3>1 DEF command, SendFilePacket
    <3>2. CASE ask(c) \/ timeout(c) \/ callerStep(c)
      BY <3>2 DEF AloneAtFirst, ask, timeout, callerStep, receive, stat, read,
                  readDigest, sendPacket, At
    <3>3. QED
      BY <1>9, <3>1, <3>2
  <2>3. QED
    BY <2>1, <2>2 DEF AloneAtFirst, UpdateEnds
<1>10. CASE UNCHANGED vars
  BY <1>10 DEF vars, AloneAtFirst, UpdateEnds, At
<1>11. QED
  BY <1>2, <1>3, <1>4, <1>5, <1>6, <1>7, <1>8, <1>9, <1>10
     DEF Next, fileEventLoop

-----------------------------------------------------------------------------
(* Answers                                                                 *)

Apart == ChannelsApart /\ AnswersOwnRequest

\* What is asked is a request in the channel or in the loop's hands.
LEMMA PostAsked ==
  ASSUME ChannelTyped, NEW e \in Event, Post(e), UNCHANGED eventLoop
  PROVE  \A x \in Asked' : x \in Asked \/ (x = e /\ e.type = "Request")
<1>1. /\ Len(fileEventChan) \in Nat
      /\ Len(fileEventChan') = Len(fileEventChan) + 1
      /\ \A i \in 1..Len(fileEventChan) : fileEventChan'[i] = fileEventChan[i]
      /\ fileEventChan'[Len(fileEventChan) + 1] = e
  BY Sent DEF Post, ChannelTyped
<1>2. ASSUME NEW x \in Asked' PROVE x \in Asked \/ (x = e /\ e.type = "Request")
  <2>1. x.type = "Request"
    BY DEF Asked
  <2>2. CASE x = eventLoop
    BY <2>1, <2>2 DEF Asked
  <2>3. ASSUME NEW i \in 1..Len(fileEventChan'), x = fileEventChan'[i]
        PROVE  x \in Asked \/ (x = e /\ e.type = "Request")
    <3>1. CASE i = Len(fileEventChan) + 1
      BY <1>1, <2>1, <2>3, <3>1
    <3>2. CASE i # Len(fileEventChan) + 1
      <4>1. i \in 1..Len(fileEventChan)
        BY <1>1, <3>2
      <4>2. x = fileEventChan[i]
        BY <1>1, <2>3, <4>1
      <4>3. QED
        BY <2>1, <4>1, <4>2 DEF Asked
    <3>3. QED
      BY <3>1, <3>2
  <2>4. QED
    BY <2>2, <2>3 DEF Asked
<1>3. QED
  BY <1>2

LEMMA TakeAsked ==
  ASSUME ChannelTyped, takeEvent
  PROVE  Asked' \subseteq Asked
<1>1. /\ Len(fileEventChan) \in Nat \ {0}
      /\ Len(fileEventChan') = Len(fileEventChan) - 1
      /\ eventLoop' = fileEventChan[1]
      /\ \A i \in 1..Len(fileEventChan') : fileEventChan'[i] = fileEventChan[i + 1]
  BY Received DEF takeEvent, ChannelTyped
<1>2. ASSUME NEW x \in Asked' PROVE x \in Asked
  <2>1. x.type = "Request"
    BY DEF Asked
  <2>2. \E i \in 1..Len(fileEventChan) : x = fileEventChan[i]
    <3>1. CASE x = eventLoop'
      BY <1>1, <3>1
    <3>2. ASSUME NEW i \in 1..Len(fileEventChan'), x = fileEventChan'[i]
          PROVE  \E j \in 1..Len(fileEventChan) : x = fileEventChan[j]
      <4>1. i + 1 \in 1..Len(fileEventChan)
        BY <1>1
      <4>2. QED
        BY <1>1, <3>2, <4>1
    <3>3. QED
      BY <3>1, <3>2 DEF Asked
  <2>3. QED
    BY <2>1, <2>2 DEF Asked
<1>3. QED
  BY <1>2

LEMMA ApartKept ==
  ASSUME Apart, Asked' \subseteq Asked, UNCHANGED <<response, caller>>
  PROVE  Apart'
<1>1. ChannelsApart'
  BY DEF Apart, ChannelsApart, At, Awaited
<1>2. AnswersOwnRequest'
  BY DEF Apart, AnswersOwnRequest, At
<1>3. QED
  BY <1>1, <1>2 DEF Apart

\* A caller that neither waits for an answer nor begins to.
LEMMA ApartWalk ==
  ASSUME Apart, AskersTyped, NEW c \in Caller, NEW there,
         ~At(c, "answer"), there.at # "answer", Goto(c, there),
         Asked' \subseteq Asked, UNCHANGED response
  PROVE  Apart'
<1>1. /\ caller'[c] = there
      /\ \A d \in Caller : d # c => caller'[d] = caller[d]
  BY DEF Goto, AskersTyped
<1>2. \A d \in Caller : At(d, "answer")' => d # c /\ At(d, "answer")
                                              /\ caller'[d] = caller[d]
  BY <1>1 DEF At
<1>3. \A d \in Caller : At(d, "answer") => At(d, "answer")' /\ caller'[d] = caller[d]
  BY <1>1 DEF At
<1>4. ChannelsApart'
  <2>1. \A r \in Response : Awaited(r) => Awaited(r)'
    BY <1>3 DEF Awaited
  <2>2. QED
    BY <1>2, <2>1 DEF Apart, ChannelsApart
<1>5. AnswersOwnRequest'
  BY <1>2 DEF Apart, AnswersOwnRequest
<1>6. QED
  BY <1>4, <1>5 DEF Apart

\* A caller that leaves takes what was in its channel away with it.
LEMMA ApartLeave ==
  ASSUME Apart, AskersTyped, NEW c \in Caller, NEW there,
         At(c, "answer"), there.at # "answer", Goto(c, there),
         Asked' \subseteq Asked,
         \A r \in Response :
           response'[r] = IF r = caller[c].response THEN Empty ELSE response[r]
  PROVE  Apart'
<1>1. /\ caller'[c] = there
      /\ \A d \in Caller : d # c => caller'[d] = caller[d]
  BY DEF Goto, AskersTyped
<1>2. \A d \in Caller : At(d, "answer")' => d # c /\ At(d, "answer")
                                              /\ caller'[d] = caller[d]
  BY <1>1 DEF At
<1>3. \A d \in Caller : At(d, "answer") => caller[d].response \in Response
  BY PlaceFields
<1>4. ChannelsApart'
  <2>1. ASSUME NEW r \in Response, response'[r] # Empty PROVE Awaited(r)'
    <3>1. r # caller[c].response /\ response[r] # Empty
      BY <2>1
    <3>2. PICK d \in Caller : At(d, "answer") /\ caller[d].response = r
      BY <3>1 DEF Apart, ChannelsApart, Awaited
    <3>3. d # c
      BY <3>1, <3>2
    <3>4. QED
      BY <1>1, <3>2, <3>3 DEF Awaited, At
  <2>2. QED
    BY <1>2, <2>1 DEF Apart, ChannelsApart
<1>5. AnswersOwnRequest'
  BY <1>2, <1>3 DEF Apart, ChannelsApart, AnswersOwnRequest
<1>6. QED
  BY <1>4, <1>5 DEF Apart

\* The channel of a request is made for it: nobody waits on it, nothing that is
\* asked leads to it, and so it is empty.
LEMMA ApartAsk ==
  ASSUME Apart, AskersTyped, ChannelTyped, NEW c \in Caller, ask(c)
  PROVE  Apart'
<1>1. PICK r \in Response :
        /\ MakeChannel(r)
        /\ Post([type |-> "Request", request |-> caller[c].request,
                 response |-> r])
        /\ Goto(c, [at |-> "answer", request |-> caller[c].request,
                    deadline |-> caller[c].deadline,
                    index |-> caller[c].index, response |-> r])
  BY DEF ask
<1> DEFINE e == [type |-> "Request", request |-> caller[c].request, response |-> r]
<1>2. /\ UNCHANGED <<eventLoop, response>>
      /\ At(c, "queue")
      /\ caller[c].request \in Request
  BY PlaceFields DEF ask
<1>3. e \in Event
  BY <1>2 DEF Event, Asking
<1>4. \A x \in Asked' : x \in Asked \/ x = e
  <2> HIDE DEF e
  <2>1. Post(e)
    BY <1>1 DEF e
  <2>2. QED
    BY <1>2, <1>3, <2>1, PostAsked
<1>5. /\ At(c, "answer")'
      /\ caller'[c].response = r
      /\ caller'[c].request = caller[c].request
      /\ \A d \in Caller : d # c => caller'[d] = caller[d]
  BY <1>1 DEF Goto, AskersTyped, At
<1>6. \A d \in Caller : At(d, "answer") => d # c /\ caller[d].response # r
  BY <1>1, <1>2 DEF At, MakeChannel, Awaited
<1>7. \A x \in Asked : x.response # r
  BY <1>1 DEF MakeChannel
<1>8. response[r] = Empty
  BY <1>1 DEF MakeChannel, Apart, ChannelsApart
<1>9. \A d \in Caller : At(d, "answer")' =>
        d = c \/ (d # c /\ At(d, "answer") /\ caller'[d] = caller[d])
  BY <1>5 DEF At
<1>10. e.response = r /\ e.request = caller[c].request
  OBVIOUS
<1> HIDE DEF e
<1>11. ChannelsApart'
  <2>1. ASSUME NEW d1 \in Caller, NEW d2 \in Caller,
               At(d1, "answer")', At(d2, "answer")',
               caller'[d1].response = caller'[d2].response
        PROVE  d1 = d2
    BY <1>5, <1>6, <1>9, <2>1 DEF Apart, ChannelsApart
  <2>2. ASSUME NEW d \in Caller, NEW x \in Asked', At(d, "answer")',
               caller'[d].response = x.response
        PROVE  x.request = caller'[d].request
    <3>1. CASE d = c
      BY <1>4, <1>5, <1>7, <1>10, <2>2, <3>1
    <3>2. CASE d # c
      BY <1>4, <1>6, <1>9, <1>10, <2>2, <3>2 DEF Apart, ChannelsApart
    <3>3. QED
      BY <3>1, <3>2
  <2>3. ASSUME NEW s \in Response PROVE response'[s] = Empty \/ Awaited(s)'
    <3>1. Awaited(s) => Awaited(s)'
      BY <1>5, <1>6 DEF Awaited, At
    <3>2. QED
      BY <1>2, <3>1 DEF Apart, ChannelsApart
  <2>4. QED
    BY <2>1, <2>2, <2>3 DEF ChannelsApart
<1>12. AnswersOwnRequest'
  BY <1>2, <1>5, <1>8, <1>9 DEF Apart, AnswersOwnRequest
<1>13. QED
  BY <1>11, <1>12 DEF Apart

\* The loop answers the request it holds, and whoever waits at the other end of
\* its channel is the one that made it.
LEMMA ApartAnswer ==
  ASSUME Apart, AskersTyped, LoopTyped, answerRequest
  PROVE  Apart'
<1> DEFINE r == eventLoop.response
           q == eventLoop.request
<1>1. eventLoop \in Asked
  BY DEF answerRequest, Asked
<1>2. r \in Response
  <2>1. eventLoop \in Event /\ eventLoop.type = "Request"
    BY DEF LoopTyped, Idle, answerRequest
  <2>2. QED
    BY <2>1, EventFields
<1>3. PICK found \in Answers(q) : Send(r, q, found)
  BY DEF answerRequest
<1>4. Asked' \subseteq Asked
  BY DEF answerRequest, Asked, Idle
<1>5. caller' = caller
  BY DEF answerRequest
<1>6. CASE UNCHANGED response
  BY <1>4, <1>5, <1>6, ApartKept
<1>7. CASE Awaited(r) /\ response' = [response EXCEPT ![r] = Answer(q, found)]
  <2>1. \A s \in Response : s # r => response'[s] = response[s]
    BY <1>7 DEF AskersTyped
  <2>2. response'[r] = Answer(q, found)
    BY <1>2, <1>7 DEF AskersTyped
  <2>3. Answer(q, found).to = q
    BY DEF Answer
  <2>4. \A c \in Caller : At(c, "answer") /\ caller[c].response = r
                            => caller[c].request = q
    BY <1>1 DEF Apart, ChannelsApart
  <2>5. \A c \in Caller : At(c, "answer") => caller[c].response \in Response
    BY PlaceFields
  <2> HIDE DEF r, q
  <2>6. ChannelsApart'
    <3>1. \A s \in Response : Awaited(s)' <=> Awaited(s)
      BY <1>5 DEF Awaited, At
    <3>2. \A s \in Response : response'[s] = Empty \/ Awaited(s)'
      BY <1>7, <2>1, <3>1 DEF Apart, ChannelsApart
    <3>3. QED
      BY <1>4, <1>5, <3>2 DEF Apart, ChannelsApart, At
  <2>7. AnswersOwnRequest'
    <3> SUFFICES ASSUME NEW c \in Caller, At(c, "answer")
                 PROVE  \/ response'[caller[c].response] = Empty
                        \/ response'[caller[c].response].to = caller[c].request
      BY <1>5 DEF AnswersOwnRequest, At
    <3>1. CASE caller[c].response = r
      BY <2>2, <2>3, <2>4, <3>1
    <3>2. CASE caller[c].response # r
      BY <2>1, <2>5, <3>2 DEF Apart, AnswersOwnRequest
    <3>3. QED
      BY <3>1, <3>2
  <2>8. QED
    BY <2>6, <2>7 DEF Apart
<1>8. QED
  BY <1>3, <1>6, <1>7 DEF Send

\* A seed's post asks for nothing.
LEMMA ApartPost ==
  ASSUME Apart, ChannelTyped, NEW e \in Event, e.type # "Request", Post(e),
         UNCHANGED <<eventLoop, response, caller>>
  PROVE  Apart'
<1>1. Asked' \subseteq Asked
  BY PostAsked
<1>2. QED
  BY <1>1, ApartKept

LEMMA ApartStep ==
  ASSUME TypeOK, Apart, [Next]_vars
  PROVE  Apart'
<1>1. MapsTyped /\ ChannelTyped /\ LoopTyped /\ AskersTyped
  BY TypeParts
<1>2. ASSUME UNCHANGED <<fileEventChan, eventLoop>> PROVE Asked' \subseteq Asked
  BY <1>2 DEF Asked
<1>3. ASSUME NEW f \in Share, loadMetaDataFile(f) PROVE Apart'
  BY <1>2, <1>3, ApartKept DEF loadMetaDataFile
<1>4. ASSUME NEW f \in Share, announce(f) PROVE Apart'
  <2>1. [type |-> "AddFile", file |-> f] \in Event
    BY DEF Event, AddFile
  <2>2. QED
    BY <1>1, <1>4, <2>1, ApartPost DEF announce
<1>5. CASE Initialize
  BY <1>2, <1>5, ApartKept DEF Initialize
<1>6. CASE takeEvent
  BY <1>1, <1>6, TakeAsked, ApartKept DEF takeEvent
<1>7. CASE addToMap
  <2>1. Asked' \subseteq Asked
    BY <1>7 DEF addToMap, Asked, Idle
  <2>2. QED
    BY <1>7, <2>1, ApartKept DEF addToMap
<1>8. CASE removeFile
  <2>1. Asked' \subseteq Asked
    BY <1>8 DEF removeFile, Asked, Idle
  <2>2. QED
    BY <1>8, <2>1, ApartKept DEF removeFile
<1>9. CASE answerRequest
  BY <1>1, <1>9, ApartAnswer
<1>10. ASSUME NEW p \in 1..Len(files), announceRemoval(p) PROVE Apart'
  <2>1. files[p] \in Share
    BY <1>1 DEF MapsTyped
  <2>2. [type |-> "RemoveFile", hash |-> files[p].hash] \in Event
    BY <2>1, Shares DEF Event, RemoveFile
  <2>3. QED
    BY <1>1, <1>10, <2>2, ApartPost DEF announceRemoval
<1>11. ASSUME NEW c \in Caller, ask(c) PROVE Apart'
  BY <1>1, <1>11, ApartAsk
<1>12. ASSUME NEW c \in Caller, timeout(c) PROVE Apart'
  <2>1. Goto(c, Free) /\ Free.at # "answer" /\ Asked' \subseteq Asked
    BY <1>2, <1>12 DEF timeout, Free
  <2>2. CASE At(c, "answer")
    <3>1. \A r \in Response :
            response'[r] = IF r = caller[c].response THEN Empty ELSE response[r]
      BY <1>12, <2>2 DEF timeout
    <3>2. QED
      BY <1>1, <2>1, <2>2, <3>1, ApartLeave
  <2>3. CASE ~At(c, "answer")
    <3>1. response' = response
      BY <1>1, <1>12, <2>3 DEF timeout, AskersTyped
    <3>2. QED
      BY <1>1, <2>1, <2>3, <3>1, ApartWalk
  <2>4. QED
    BY <2>2, <2>3
<1>13. ASSUME NEW c \in Caller, receive(c) PROVE Apart'
  <2>1. At(c, "answer") /\ Asked' \subseteq Asked
    BY <1>2, <1>13 DEF receive
  <2>2. \A r \in Response :
          response'[r] = IF r = caller[c].response THEN Empty ELSE response[r]
    BY <1>1, <1>13, <2>1, PlaceFields DEF receive, AskersTyped
  <2>3. PICK there : Goto(c, there) /\ there.at # "answer"
    BY <1>13 DEF receive, Free
  <2>4. QED
    BY <1>1, <2>1, <2>2, <2>3, ApartLeave
<1>14. ASSUME NEW c \in Caller,
              \/ \E q \in Request : command(c, q)
              \/ \E i \in Index : SendFilePacket(c, i)
              \/ stat(c) \/ read(c) \/ readDigest(c) \/ sendPacket(c)
       PROVE  Apart'
  <2>1. Asked' \subseteq Asked /\ UNCHANGED response
    BY <1>2, <1>14 DEF command, SendFilePacket, stat, read, readDigest, sendPacket,
                       NoWait
  <2>2. ~At(c, "answer")
    BY <1>14 DEF command, SendFilePacket, stat, read, readDigest, sendPacket, At
  <2>3. PICK there : Goto(c, there) /\ there.at # "answer"
    <3>1. ASSUME NEW q \in Request, command(c, q)
          PROVE  \E there : Goto(c, there) /\ there.at # "answer"
      BY <3>1 DEF command
    <3>2. ASSUME NEW i \in Index, SendFilePacket(c, i)
          PROVE  \E there : Goto(c, there) /\ there.at # "answer"
      <4>1. CASE Goto(c, [at |-> "stat", index |-> i])
        BY <4>1
      <4>2. ASSUME NEW h \in Hash,
                   Goto(c, [at |-> "queue",
                            request |-> [type |-> "GetFile", hash |-> h],
                            deadline |-> FALSE, index |-> i])
            PROVE  \E there : Goto(c, there) /\ there.at # "answer"
        BY <4>2
      <4>3. QED
        BY <3>2, <4>1, <4>2 DEF SendFilePacket
    <3>3. CASE Goto(c, Free)
      BY <3>3 DEF Free
    <3>4. CASE stat(c)
      <4>1. ASSUME NEW n \in Size, NEW same \in {n = SeededSize, FALSE},
                   Goto(c, [at |-> "read", index |-> caller[c].index,
                            offset |-> ChunkOffset(caller[c].index),
                            wanted |-> ReadSize(ChunkOffset(caller[c].index), n),
                            same |-> same])
            PROVE  \E there : Goto(c, there) /\ there.at # "answer"
        BY <4>1
      <4>2. QED
        BY <3>3, <3>4, <4>1 DEF stat
    <3>5. CASE read(c)
      <4>1. ASSUME NEW n \in Size,
                   NEW same \in {n = SeededSize /\ caller[c].same, FALSE},
                   Goto(c, [at |-> "digest", index |-> caller[c].index,
                            from |-> caller[c].offset, same |-> same,
                            length |-> BytesRead(caller[c].offset,
                                                 caller[c].wanted, n)])
            PROVE  \E there : Goto(c, there) /\ there.at # "answer"
        BY <4>1
      <4>2. QED
        BY <3>3, <3>5, <4>1 DEF read
    <3>6. CASE readDigest(c)
      BY <3>3, <3>6 DEF readDigest
    <3>7. CASE sendPacket(c)
      BY <3>3, <3>7 DEF sendPacket
    <3>8. QED
      BY <1>14, <3>1, <3>2, <3>4, <3>5, <3>6, <3>7
  <2>4. QED
    BY <1>1, <2>1, <2>2, <2>3, ApartWalk
<1>15. CASE UNCHANGED vars
  BY <1>2, <1>15, ApartKept DEF vars
<1>16. QED
  BY <1>3, <1>4, <1>5, <1>6, <1>7, <1>8, <1>9, <1>10, <1>11, <1>12, <1>13,
     <1>14, <1>15 DEF Next, fileEventLoop, callerStep

-----------------------------------------------------------------------------
(* Chunks                                                                  *)

\* A caller that moves somewhere with the right things in hand.
LEMMA CourseKept ==
  ASSUME AskersTyped, \A d \in Caller : OnCourse(d),
         NEW c \in Caller, NEW there, Goto(c, there),
         there.at \notin {"read", "digest", "packet"}
  PROVE  \A d \in Caller : OnCourse(d)'
<1>1. /\ caller'[c] = there
      /\ \A d \in Caller : d # c => caller'[d] = caller[d]
  BY DEF Goto, AskersTyped
<1>2. QED
  BY <1>1 DEF OnCourse, At

LEMMA StatOnCourse ==
  ASSUME AskersTyped, \A d \in Caller : OnCourse(d), NEW c \in Caller, stat(c)
  PROVE  \A d \in Caller : OnCourse(d)'
<1>1. CASE Goto(c, Free)
  BY <1>1, CourseKept DEF Free
<1>2. ASSUME NEW n \in Size, NEW same \in {n = SeededSize, FALSE},
             InFile(ChunkOffset(caller[c].index), n),
             Goto(c, [at |-> "read", index |-> caller[c].index,
                      offset |-> ChunkOffset(caller[c].index),
                      wanted |-> ReadSize(ChunkOffset(caller[c].index), n),
                      same |-> same])
      PROVE  \A d \in Caller : OnCourse(d)'
  <2>1. /\ caller'[c] = [at |-> "read", index |-> caller[c].index,
                         offset |-> ChunkOffset(caller[c].index),
                         wanted |-> ReadSize(ChunkOffset(caller[c].index), n),
                         same |-> same]
        /\ \A d \in Caller : d # c => caller'[d] = caller[d]
    BY <1>2 DEF Goto, AskersTyped
  <2>2. same => n = SeededSize
    OBVIOUS
  <2>3. OnCourse(c)'
    BY <1>2, <2>1, <2>2 DEF OnCourse, At
  <2>4. ASSUME NEW d \in Caller, d # c PROVE OnCourse(d)'
    BY <2>1, <2>4 DEF OnCourse, At
  <2>5. QED
    BY <2>3, <2>4
<1>3. QED
  BY <1>1, <1>2 DEF stat

\* What was there when the size was looked up is there when it is read.
LEMMA ReadOnCourse ==
  ASSUME AskersTyped, \A d \in Caller : OnCourse(d), NEW c \in Caller, read(c)
  PROVE  \A d \in Caller : OnCourse(d)'
<1>1. CASE Goto(c, Free)
  BY <1>1, CourseKept DEF Free
<1> DEFINE from == caller[c].offset
           wanted == caller[c].wanted
<1>2. ASSUME NEW n \in Size,
             NEW same \in {n = SeededSize /\ caller[c].same, FALSE},
             Goto(c, [at |-> "digest", index |-> caller[c].index,
                      from |-> from, same |-> same,
                      length |-> BytesRead(from, wanted, n)])
      PROVE  \A d \in Caller : OnCourse(d)'
  <2>1. /\ caller'[c] = [at |-> "digest", index |-> caller[c].index,
                         from |-> from, same |-> same,
                         length |-> BytesRead(from, wanted, n)]
        /\ \A d \in Caller : d # c => caller'[d] = caller[d]
    BY <1>2 DEF Goto, AskersTyped
  <2>2. same => n = SeededSize /\ caller[c].same
    OBVIOUS
  <2>3. At(c, "read") /\ from \in Int
    BY PlaceFields DEF read
  <2>4. from = ChunkOffset(caller[c].index)
    BY <2>3 DEF OnCourse
  <2>5. same => InFile(from, SeededSize) /\ wanted = ReadSize(from, SeededSize)
    BY <2>2, <2>3 DEF OnCourse
  <2> HIDE DEF from, wanted
  <2>6. same => BytesRead(from, wanted, n) = ReadSize(from, SeededSize)
    <3> SUFFICES ASSUME same PROVE BytesRead(from, wanted, n) = ReadSize(from, SeededSize)
      OBVIOUS
    <3>1. SeededSize \in Int /\ ChunkSize \in Int
      BY FileIndexAssumption, ChunksAssumption
         DEF FileIndexAssumption, ChunksAssumption
    <3>2. n = SeededSize /\ from < n /\ wanted = ReadSize(from, n)
      BY <2>2, <2>5 DEF InFile
    <3>3. wanted \in Int /\ wanted <= n - from
      BY <2>3, <3>1, <3>2 DEF ReadSize, Smaller
    <3>4. ~ (n <= from)
      BY <2>3, <3>1, <3>2
    <3>5. BytesRead(from, wanted, n) = wanted
      BY <2>3, <3>1, <3>2, <3>3, <3>4 DEF BytesRead, Smaller
    <3>6. QED
      BY <3>2, <3>5
  <2>7. OnCourse(c)'
    BY <2>1, <2>4, <2>5, <2>6 DEF OnCourse, At
  <2>8. ASSUME NEW d \in Caller, d # c PROVE OnCourse(d)'
    BY <2>1, <2>8 DEF OnCourse, At
  <2>9. QED
    BY <2>7, <2>8
<1>3. QED
  BY <1>1, <1>2 DEF read

LEMMA DigestOnCourse ==
  ASSUME AskersTyped, \A d \in Caller : OnCourse(d), NEW c \in Caller, readDigest(c)
  PROVE  \A d \in Caller : OnCourse(d)'
<1>1. CASE Goto(c, Free)
  BY <1>1, CourseKept DEF Free
<1>2. ASSUME DigestThere(caller[c].index, SeededSize),
             Goto(c, [at |-> "packet", index |-> caller[c].index,
                      from |-> caller[c].from, length |-> caller[c].length,
                      same |-> caller[c].same,
                      digest |-> DigestOf(caller[c].index)])
      PROVE  \A d \in Caller : OnCourse(d)'
  <2>1. /\ caller'[c] = [at |-> "packet", index |-> caller[c].index,
                         from |-> caller[c].from, length |-> caller[c].length,
                         same |-> caller[c].same,
                         digest |-> DigestOf(caller[c].index)]
        /\ \A d \in Caller : d # c => caller'[d] = caller[d]
    BY <1>2 DEF Goto, AskersTyped
  <2>2. At(c, "digest") /\ OnCourse(c)
    BY DEF readDigest
  <2>3. OnCourse(c)'
    BY <1>2, <2>1, <2>2 DEF OnCourse, At
  <2>4. ASSUME NEW d \in Caller, d # c PROVE OnCourse(d)'
    BY <2>1, <2>4 DEF OnCourse, At
  <2>5. QED
    BY <2>3, <2>4
<1>3. QED
  BY <1>1, <1>2 DEF readDigest

LEMMA CourseStep ==
  ASSUME TypeOK, \A c \in Caller : OnCourse(c), [Next]_vars
  PROVE  \A c \in Caller : OnCourse(c)'
<1>1. AskersTyped
  BY TypeParts
<1>2. CASE UNCHANGED caller
  BY <1>2 DEF OnCourse, At
<1>3. CASE \/ \E f \in Share : loadMetaDataFile(f) \/ announce(f)
           \/ Initialize \/ fileEventLoop
           \/ \E p \in 1..Len(files) : announceRemoval(p)
           \/ UNCHANGED vars
  BY <1>2, <1>3 DEF loadMetaDataFile, announce, Initialize, fileEventLoop,
                    takeEvent, addToMap, removeFile, answerRequest,
                    announceRemoval, vars
<1>4. ASSUME NEW c \in Caller, NEW q \in Request, command(c, q)
      PROVE  \A d \in Caller : OnCourse(d)'
  BY <1>1, <1>4, CourseKept DEF command
<1>5. ASSUME NEW c \in Caller, NEW i \in Index, SendFilePacket(c, i)
      PROVE  \A d \in Caller : OnCourse(d)'
  <2>1. CASE Goto(c, [at |-> "stat", index |-> i])
    BY <1>1, <2>1, CourseKept
  <2>2. ASSUME NEW h \in Hash,
               Goto(c, [at |-> "queue", request |-> [type |-> "GetFile", hash |-> h],
                        deadline |-> FALSE, index |-> i])
        PROVE  \A d \in Caller : OnCourse(d)'
    BY <1>1, <2>2, CourseKept
  <2>3. QED
    BY <1>5, <2>1, <2>2 DEF SendFilePacket
<1>6. ASSUME NEW c \in Caller, ask(c) PROVE \A d \in Caller : OnCourse(d)'
  BY <1>1, <1>6, CourseKept DEF ask
<1>7. ASSUME NEW c \in Caller, timeout(c) \/ sendPacket(c)
      PROVE  \A d \in Caller : OnCourse(d)'
  BY <1>1, <1>7, CourseKept DEF timeout, sendPacket, Free
<1>8. ASSUME NEW c \in Caller, receive(c) PROVE \A d \in Caller : OnCourse(d)'
  <2>1. PICK there : Goto(c, there) /\ there.at \notin {"read", "digest", "packet"}
    BY <1>8 DEF receive, Free
  <2>2. QED
    BY <1>1, <2>1, CourseKept
<1>9. ASSUME NEW c \in Caller, stat(c) \/ read(c) \/ readDigest(c)
      PROVE  \A d \in Caller : OnCourse(d)'
  BY <1>1, <1>9, StatOnCourse, ReadOnCourse, DigestOnCourse
<1>10. QED
  BY <1>3, <1>4, <1>5, <1>6, <1>7, <1>8, <1>9 DEF Next, callerStep

-----------------------------------------------------------------------------
(* The theorems                                                            *)

LEMMA IndParts ==
  IndInv <=> /\ AloneAtFirst /\ UpdateEnds
             /\ IndexExact /\ TracesOfListed
             /\ Apart
             /\ \A c \in Caller : OnCourse(c)
  BY DEF IndInv, Apart

\* A new manager has empty maps, nothing in its channels and nobody to ask it.
LEMMA InitHolds == Init => TypeOK /\ IndInv
<1> SUFFICES ASSUME Init PROVE TypeOK /\ IndInv
  OBVIOUS
<1>1. files = <<>> /\ Len(files) = 0 /\ files \in Seq(Share)
  BY DEF Init
<1>2. fileEventChan = <<>> /\ Len(fileEventChan) = 0 /\ fileEventChan \in Seq(Event)
  BY DEF Init
<1>3. MapsTyped
  BY <1>1 DEF Init, MapsTyped, FileInfo
<1>4. ChannelTyped /\ RoomLeft
  BY <1>1, <1>2, FileIndexAssumption
     DEF Init, ChannelTyped, RoomLeft, Made, Idle, FileIndexAssumption
<1>5. LoopTyped /\ AskersTyped
  BY FreeIsPlace DEF Init, LoopTyped, AskersTyped
<1>6. \A k \in HashKey : filesByHash[k] = Nil
  BY DEF Init
<1>7. \A p \in FileInfo : Unindexed(p) /\ ~ (p <= Len(files))
  BY <1>1 DEF Init, Unindexed, FileInfo
<1>8. IndexExact
  BY <1>6, <1>7, HexKeys DEF IndexExact
<1>9. TracesOfListed
  BY DEF Init, TracesOfListed
<1>10. \A c \in Caller : caller[c].at = "free"
  BY DEF Init, Free
<1>11. AloneAtFirst /\ UpdateEnds
  BY <1>10 DEF Init, AloneAtFirst, UpdateEnds, At
<1>12. Apart
  <2>1. \A c \in Caller : ~At(c, "answer")
    BY <1>10 DEF At
  <2>2. \A r \in Response : response[r] = Empty
    BY DEF Init
  <2>3. QED
    BY <2>1, <2>2 DEF Apart, ChannelsApart, AnswersOwnRequest
<1>13. \A c \in Caller : OnCourse(c)
  BY <1>10 DEF OnCourse, At
<1>14. QED
  BY <1>3, <1>4, <1>5, <1>8, <1>9, <1>11, <1>12, <1>13, TypeParts, IndParts

LEMMA StepHolds == TypeOK /\ IndInv /\ [Next]_vars => TypeOK' /\ IndInv'
<1> SUFFICES ASSUME TypeOK, IndInv, [Next]_vars PROVE TypeOK' /\ IndInv'
  OBVIOUS
<1>1. /\ AloneAtFirst /\ UpdateEnds /\ IndexExact /\ TracesOfListed /\ Apart
      /\ \A c \in Caller : OnCourse(c)
  BY IndParts
<1>2. TypeOK'
  BY <1>1, TypeStep
<1>3. AloneAtFirst' /\ UpdateEnds'
  BY <1>1, StateStep
<1>4. IndexExact' /\ TracesOfListed'
  BY <1>1, MapsStep
<1>5. Apart'
  BY <1>1, ApartStep
<1>6. \A c \in Caller : OnCourse(c)'
  BY <1>1, CourseStep
<1>7. QED
  BY <1>2, <1>3, <1>4, <1>5, <1>6 DEF IndInv, Apart

\* Every reachable state is well typed: pointers are of FileInfos that were made,
\* the channel never holds more than its buffer.
THEOREM TypeCorrect == Spec => []TypeOK
<1>1. Init => TypeOK /\ IndInv
  BY InitHolds
<1>2. TypeOK /\ IndInv /\ [Next]_vars => TypeOK' /\ IndInv'
  BY StepHolds
<1>3. QED
  BY <1>1, <1>2, PTL DEF Spec

\* The invariant from which the others follow.
THEOREM Inductive == Spec => []IndInv
<1>1. Init => TypeOK /\ IndInv
  BY InitHolds
<1>2. TypeOK /\ IndInv /\ [Next]_vars => TypeOK' /\ IndInv'
  BY StepHolds
<1>3. QED
  BY <1>1, <1>2, PTL DEF Spec

\* Whatever the names and keywords, removeFormMap takes out of the search index
\* exactly what registerFile put in, token by token.
THEOREM ExactIndex == Spec => []IndexExact
<1>1. IndInv => IndexExact
  BY DEF IndInv
<1>2. QED
  BY <1>1, Inductive, PTL

\* Only a file displaced by another of the same content stays behind.
THEOREM OnlyDisplacedStay == Spec => []TracesOfListed
<1>1. IndInv => TracesOfListed
  BY DEF IndInv
<1>2. QED
  BY <1>1, Inductive, PTL

\* addToMap and removeFormMap set the state back whichever way they return.
THEOREM UpdatesEnd == Spec => []UpdateEnds
<1>1. IndInv => UpdateEnds
  BY DEF IndInv
<1>2. QED
  BY <1>1, Inductive, PTL

\* Nobody takes the answer to another request for that to its own.
THEOREM OwnAnswers == Spec => []AnswersOwnRequest
<1>1. IndInv => AnswersOwnRequest
  BY DEF IndInv
<1>2. QED
  BY <1>1, Inductive, PTL

\* SearchFile finds every listed file by any word of its terms, and no file that
\* shares none with the query.
THEOREM SearchIsExact == Spec => []Searchable
<1>1. ASSUME TypeOK, IndInv PROVE Searchable
  <2>1. MapsTyped /\ RoomLeft /\ IndexExact
    BY <1>1, TypeParts DEF IndInv
  <2>2. ASSUME NEW q \in Query, NEW p \in FileInfo,
               Listed(p), ShareAWord(files[p], q)
        PROVE  p \in Hits(q)
    <3>1. p \in 1..Len(files) /\ Indexed(p)
      BY <2>1, <2>2, ListedByHash
    <3>2. files[p] \in Share
      BY <2>1, <3>1 DEF MapsTyped
    <3>3. PICK k \in Variations(q) \cap Key : Uses(files[p], k) > 0
      BY <2>2, <3>2, WordLeadsThere
    <3>4. searchIndex[k][p] > 0
      BY <3>1, <3>3 DEF Indexed
    <3>5. QED
      BY <3>3, <3>4 DEF Hits
  <2>3. ASSUME NEW q \in Query, NEW p \in Hits(q)
        PROVE  p <= Len(files) /\ ShareAWord(files[p], q)
    <3>1. PICK k \in Variations(q) \cap Key : searchIndex[k][p] > 0
      BY DEF Hits
    <3>2. p \in FileInfo
      BY DEF Hits
    <3>3. ~Unindexed(p)
      BY <3>1 DEF Unindexed
    <3>4. p <= Len(files) /\ Indexed(p)
      BY <2>1, <3>2, <3>3 DEF IndexExact
    <3>5. files[p] \in Share
      BY <2>1, <3>2, <3>4 DEF MapsTyped, FileInfo
    <3>6. Uses(files[p], k) > 0
      BY <3>1, <3>4 DEF Indexed
    <3>7. QED
      BY <3>1, <3>4, <3>5, <3>6, KeySharesAWord
  <2>4. QED
    BY <2>2, <2>3 DEF Searchable
<1>2. TypeOK /\ IndInv => Searchable
  BY <1>1
<1>3. QED
  BY <1>2, TypeCorrect, Inductive, PTL

\* Whatever index is asked for, a packet of an unchanged file has the bytes and
\* the digest of one and the same chunk.
THEOREM PacketsAreChunks == Spec => []PacketIsChunk
<1>1. ASSUME TypeOK, IndInv PROVE PacketIsChunk
  <2> SUFFICES ASSUME NEW c \in Caller, At(c, "packet"), caller[c].same
               PROVE  /\ InFile(caller[c].from, SeededSize)
                      /\ caller[c].from = caller[c].digest * ChunkSize
                      /\ caller[c].length =
                           Smaller(ChunkSize, SeededSize - caller[c].from)
    BY DEF PacketIsChunk
  <2> DEFINE i == caller[c].index
             from == caller[c].from
  <2>1. i \in Int /\ from \in Int
    <3>1. caller[c] \in Place
      BY <1>1 DEF TypeOK
    <3>2. QED
      BY <3>1 DEF Place, At
  <2>2. /\ from = ChunkOffset(i)
        /\ InFile(from, SeededSize)
        /\ caller[c].length = ReadSize(from, SeededSize)
        /\ DigestThere(i, SeededSize)
        /\ caller[c].digest = DigestOf(i)
    BY <1>1 DEF IndInv, OnCourse
  <2>3. SeededSize \in Nat /\ 2 * SeededSize < WordSize /\ ChunkSize \in Int
    BY FileIndexAssumption, ChunksAssumption
       DEF FileIndexAssumption, ChunksAssumption
  <2> HIDE DEF i, from
  <2>4. ChunkOffset(i) = DigestOf(i) * ChunkSize
    BY <2>1, <2>2, <2>3, SameChunk
  <2>5. ReadSize(from, SeededSize) = Smaller(ChunkSize, SeededSize - from)
    BY <2>1, <2>3 DEF ReadSize, Smaller
  <2>6. QED
    BY <2>2, <2>4, <2>5 DEF from
<1>2. TypeOK /\ IndInv => PacketIsChunk
  BY <1>1
<1>3. QED
  BY <1>2, TypeCorrect, Inductive, PTL

=============================================================================
