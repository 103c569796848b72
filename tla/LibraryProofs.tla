---------------------------- MODULE LibraryProofs ----------------------------
(***************************************************************************)
(* Proof that the file manager implements the Library: registerFile and    *)
(* removeFormMap are its additions and removals, answerRequest tells whom  *)
(* it answers, and every other step is one of asking or leaving, or none.  *)
(***************************************************************************)
EXTENDS FileIndexProofs

heardBy == [c \in Caller |-> heard(c)]

-----------------------------------------------------------------------------
(* Entries of the index                                                    *)

\* A file is in the index under some key exactly if one of its terms has a word:
\* a term of separators alone is skipped, and every word is a token.
LEMMA WordsLeadIn ==
  ASSUME NEW f \in Share
  PROVE  HasWords(f) <=> \E k \in Key : Uses(f, k) > 0
<1>1. ASSUME NEW i \in 1..Len(f.terms)
      PROVE  /\ f.terms[i] \in Text
             /\ f.terms[i].words \in Seq(Word)
             /\ Len(f.terms[i].words) \in Nat
  <2>1. f.terms[i] \in Text
    BY FileIndexAssumption DEF FileIndexAssumption
  <2>2. QED
    BY <2>1 DEF Text
<1>2. ASSUME HasWords(f) PROVE \E k \in Key : Uses(f, k) > 0
  <2>0. PICK i \in 1..Len(f.terms) : WordsOf(f.terms[i]) # {}
    BY <1>2 DEF HasWords
  <2>1. PICK w : w \in WordsOf(f.terms[i])
    BY <2>0
  <2>2. PICK j \in 1..Len(f.terms[i].words) : w = f.terms[i].words[j]
    BY <2>1 DEF WordsOf
  <2>3. Token(w) \in Key
    BY <2>1 DEF Key, KeysOf
  <2>4. tokenize(f.terms[i])[j] = Token(w)
    BY <2>2 DEF tokenize
  <2>5. ~Blank(f.terms[i])
    BY <1>1, <2>2 DEF Blank
  <2>6. Places(f.terms[i], Token(w)) # {}
    BY <2>2, <2>4, <2>5 DEF Places
  <2>7. PICK x : x \in Places(f.terms[i], Token(w))
    BY <2>6
  <2>8. <<i, x>> \in {i} \X Places(f.terms[i], Token(w))
    BY <2>7
  <2>9. <<i, x>> \in Entries(f, Token(w))
    BY <2>8 DEF Entries
  <2>10. Entries(f, Token(w)) # {}
    BY <2>9
  <2>11. QED
    BY <2>3, <2>10, UsesCounts
<1>3. ASSUME NEW k \in Key, Uses(f, k) > 0 PROVE HasWords(f)
  <2>1. Entries(f, k) # {}
    BY <1>3, UsesCounts
  <2>2. PICK i \in 1..Len(f.terms) : Places(f.terms[i], k) # {}
    BY <2>1 DEF Entries
  <2>3. Blank(f.terms[i]) => Places(f.terms[i], k) = {}
    BY <1>1 DEF Places, Blank
  <2>4. Len(f.terms[i].words) # 0
    BY <1>1, <2>2, <2>3 DEF Blank
  <2>5. 1 \in 1..Len(f.terms[i].words)
    BY <1>1, <2>4
  <2>6. f.terms[i].words[1] \in WordsOf(f.terms[i])
    BY <2>5 DEF WordsOf
  <2>7. QED
    BY <2>6 DEF HasWords
<1>4. QED
  BY <1>2, <1>3

\* What searches may find was made, and is in the index in full.
LEMMA FindableIsIndexed ==
  ASSUME MapsTyped, IndexExact, NEW p \in findableFiles
  PROVE  p \in FileInfo /\ p \in 1..Len(files) /\ Indexed(p)
<1>1. p \in FileInfo /\ ~Unindexed(p)
  BY DEF findableFiles
<1>2. p <= Len(files) /\ Indexed(p)
  BY <1>1 DEF IndexExact
<1>3. Len(files) \in Nat
  BY DEF MapsTyped
<1>4. QED
  BY <1>1, <1>2, <1>3 DEF FileInfo

LEMMA ListedWasMade ==
  ASSUME MapsTyped, IndexExact, NEW p \in listedFiles
  PROVE  /\ p \in FileInfo /\ p \in 1..Len(files)
         /\ files[p].hash \in Hash
         /\ filesByHash[Hex(files[p].hash)] = p
         /\ Indexed(p)
<1>1. p \in FileInfo /\ Listed(p)
  BY DEF listedFiles
<1>2. QED
  BY <1>1, ListedByHash

-----------------------------------------------------------------------------
(* Additions and removals                                                  *)

\* registerFile lists the new pointer instead of the one with the same hash, and
\* makes it findable if it has words.
LEMMA RegisterAdds ==
  ASSUME MapsTyped, IndexExact, NEW f \in Share,
         Len(files) < MaxFiles, registerFile(f)
  PROVE  /\ files' = Append(files, f)
         /\ listedFiles' = {p \in listedFiles : files[p].hash # f.hash}
                             \cup {Len(files) + 1}
         /\ findableFiles' = findableFiles
              \cup (IF HasWords(f) THEN {Len(files) + 1} ELSE {})
<1>1. Len(files) \in Nat /\ MaxFiles \in Nat
  BY FileIndexAssumption DEF FileIndexAssumption, MapsTyped
<1>2. PICK n \in FileInfo : n = Len(files) + 1
  BY <1>1 DEF FileInfo
<1>3. n # Nil /\ n \notin 1..Len(files)
  BY <1>1, <1>2 DEF FileInfo, Nil
<1>4. /\ Hex(f.hash) \in HashKey
      /\ filesByHash' = [filesByHash EXCEPT ![Hex(f.hash)] = n]
      /\ searchIndex' = [k \in Key |-> [searchIndex[k] EXCEPT ![n] = @ + Uses(f, k)]]
  BY <1>2, Shares DEF registerFile
<1>5. files' = Append(files, f)
  BY DEF registerFile
<1>6. \A k \in HashKey : filesByHash'[k] = IF k = Hex(f.hash) THEN n ELSE filesByHash[k]
  BY <1>4 DEF MapsTyped
<1>7. ASSUME NEW p \in FileInfo
      PROVE  Listed(p)' <=> \/ p = n
                            \/ p \in listedFiles /\ files[p].hash # f.hash
  <2>1. CASE p = n
    BY <1>4, <1>6, <2>1 DEF Listed
  <2>2. CASE p # n
    <3>1. ASSUME Listed(p)' PROVE p \in listedFiles /\ files[p].hash # f.hash
      <4>1. PICK k \in HashKey : filesByHash'[k] = p
        BY <3>1 DEF Listed
      <4>2. k # Hex(f.hash) /\ filesByHash[k] = p
        BY <1>6, <2>2, <4>1
      <4>3. p \in listedFiles
        BY <4>2 DEF Listed, listedFiles
      <4>4. k = Hex(files[p].hash)
        <5>1. PICK h \in Hash : k = Hex(h) \/ k = Raw(h)
          BY <4>1 DEF HashKey, Hex, Raw
        <5>2. p # Nil
          BY DEF FileInfo, Nil
        <5>3. k = Hex(h)
          BY <4>2, <5>1, <5>2 DEF IndexExact
        <5>4. files[p].hash = h
          BY <4>2, <5>2, <5>3 DEF IndexExact
        <5>5. QED
          BY <5>3, <5>4
      <4>5. QED
        BY <4>2, <4>3, <4>4
    <3>2. ASSUME p \in listedFiles, files[p].hash # f.hash PROVE Listed(p)'
      <4>1. files[p].hash \in Hash /\ filesByHash[Hex(files[p].hash)] = p
        BY <3>2, ListedWasMade
      <4>2. Hex(files[p].hash) \in HashKey /\ Hex(files[p].hash) # Hex(f.hash)
        BY <3>2, <4>1, HexKeys
      <4>3. filesByHash'[Hex(files[p].hash)] = p
        BY <1>6, <4>1, <4>2
      <4>4. QED
        BY <4>2, <4>3 DEF Listed
    <3>3. QED
      BY <2>2, <3>1, <3>2
  <2>3. QED
    BY <2>1, <2>2
<1>8. listedFiles' = {p \in listedFiles : files[p].hash # f.hash} \cup {n}
  BY <1>7 DEF listedFiles
<1>9. Unindexed(n)
  <2>1. ~ (n <= Len(files))
    BY <1>1, <1>2
  <2>2. QED
    BY <2>1 DEF IndexExact
<1>10. \A k \in Key : searchIndex'[k][n] = Uses(f, k)
  <2> SUFFICES ASSUME NEW k \in Key PROVE searchIndex'[k][n] = Uses(f, k)
    OBVIOUS
  <2>1. searchIndex'[k][n] = searchIndex[k][n] + Uses(f, k)
    BY <1>4 DEF MapsTyped
  <2>2. searchIndex[k][n] = 0 /\ Uses(f, k) \in Nat
    BY <1>9, UsesCounts DEF Unindexed
  <2>3. QED
    BY <2>1, <2>2
<1>11. \A k \in Key, p \in FileInfo : p # n => searchIndex'[k][p] = searchIndex[k][p]
  BY <1>4 DEF MapsTyped
<1>12. ~Unindexed(n)' <=> HasWords(f)
  <2>1. \A k \in Key : Uses(f, k) \in Nat
    BY UsesCounts
  <2>2. Unindexed(n)' <=> \A k \in Key : Uses(f, k) = 0
    BY <1>10 DEF Unindexed
  <2>3. Unindexed(n)' <=> ~ \E k \in Key : Uses(f, k) > 0
    BY <2>1, <2>2
  <2>4. QED
    BY <2>3, WordsLeadIn
<1>13. \A p \in FileInfo : p # n => (Unindexed(p)' <=> Unindexed(p))
  BY <1>11 DEF Unindexed
<1>14. n \notin findableFiles
  BY <1>9 DEF findableFiles
<1>15. findableFiles' = findableFiles \cup (IF HasWords(f) THEN {n} ELSE {})
  BY <1>12, <1>13, <1>14 DEF findableFiles
<1>16. QED
  BY <1>2, <1>5, <1>8, <1>15

LEMMA RegisterIsAdd ==
  ASSUME MapsTyped, IndexExact, NEW f \in Share,
         Len(files) < MaxFiles, registerFile(f), UNCHANGED heardBy
  PROVE  L!Add(f)
<1>1. /\ files' = Append(files, f)
      /\ listedFiles' = {p \in listedFiles : files[p].hash # f.hash}
                          \cup {Len(files) + 1}
      /\ findableFiles' = findableFiles
           \cup (IF HasWords(f) THEN {Len(files) + 1} ELSE {})
  BY RegisterAdds
<1>2. [c \in Caller |-> heard(c)]' = [c \in Caller |-> heard(c)]
  BY DEF heardBy
<1>3. L!HasWords(f) <=> HasWords(f)
  BY DEF L!HasWords, L!WordsOf, HasWords, WordsOf
<1>4. QED
  BY ONLY <1>1, <1>2, <1>3 DEF L!Add

\* removeFormMap takes the pointer with the hash off both, if there is one: its
\* every entry in the index is taken back.
LEMMA RemoveRemoves ==
  ASSUME MapsTyped, IndexExact, NEW h \in Hash, removeFormMap(h)
  PROVE  /\ files' = files
         /\ listedFiles' = listedFiles \ {p \in listedFiles : files[p].hash = h}
         /\ findableFiles' = findableFiles \ {p \in listedFiles : files[p].hash = h}
<1>1. files' = files
  BY DEF removeFormMap
<1>2. Hex(h) \in HashKey
  BY HexKeys
<1>3. PICK n \in FileInfo \cup {Nil} : n = filesByHash[Hex(h)]
  BY <1>2 DEF MapsTyped
<1>4. ASSUME NEW p \in listedFiles, files[p].hash = h PROVE p = n
  BY <1>3, <1>4, ListedWasMade
<1>5. CASE n = Nil
  <2>1. {p \in listedFiles : files[p].hash = h} = {}
    <3>1. Nil \notin listedFiles
      BY DEF listedFiles, FileInfo, Nil
    <3>2. QED
      BY <1>4, <1>5, <3>1
  <2>2. UNCHANGED <<filesByHash, searchIndex>>
    BY <1>3, <1>5 DEF removeFormMap
  <2>3. listedFiles' = listedFiles /\ findableFiles' = findableFiles
    BY <2>2 DEF listedFiles, findableFiles, Listed, Unindexed
  <2>4. QED
    BY <1>1, <2>1, <2>3
<1>6. CASE n # Nil
  <2>1. n \in FileInfo /\ n <= Len(files) /\ files[n].hash = h /\ Indexed(n)
    BY <1>3, <1>6 DEF IndexExact
  <2>2. n \in listedFiles
    BY <1>2, <1>3, <2>1 DEF listedFiles, Listed
  <2>3. {p \in listedFiles : files[p].hash = h} = {n}
    BY <1>4, <2>1, <2>2
  <2>4. /\ filesByHash' = [filesByHash EXCEPT ![Hex(h)] = Nil]
        /\ searchIndex' = [k \in Key |->
             [searchIndex[k] EXCEPT ![n] = removeSearchTerm(n, k)]]
    BY <1>3, <1>6 DEF removeFormMap
  <2>5. \A k \in HashKey : filesByHash'[k] = IF k = Hex(h) THEN Nil ELSE filesByHash[k]
    BY <2>4 DEF MapsTyped
  <2>6. ASSUME NEW p \in FileInfo
        PROVE  Listed(p)' <=> p \in listedFiles /\ p # n
    <3>1. p # Nil
      BY DEF FileInfo, Nil
    <3>2. ASSUME Listed(p)' PROVE p \in listedFiles /\ p # n
      <4>1. PICK k \in HashKey : filesByHash'[k] = p
        BY <3>2 DEF Listed
      <4>2. k # Hex(h) /\ filesByHash[k] = p
        BY <2>5, <3>1, <4>1
      <4>3. p \in listedFiles
        BY <4>2 DEF Listed, listedFiles
      <4>4. PICK g \in Hash : k = Hex(g) \/ k = Raw(g)
        BY <4>1 DEF HashKey, Hex, Raw
      <4>5. k = Hex(g) /\ files[p].hash = g
        BY <3>1, <4>2, <4>4 DEF IndexExact
      <4>6. g # h
        BY <4>2, <4>5
      <4>7. QED
        BY <2>1, <4>3, <4>5, <4>6
    <3>3. ASSUME p \in listedFiles, p # n PROVE Listed(p)'
      <4>1. files[p].hash \in Hash /\ filesByHash[Hex(files[p].hash)] = p
        BY <3>3, ListedWasMade
      <4>2. files[p].hash # h
        BY <1>4, <3>3
      <4>3. Hex(files[p].hash) \in HashKey /\ Hex(files[p].hash) # Hex(h)
        BY <4>1, <4>2, HexKeys
      <4>4. filesByHash'[Hex(files[p].hash)] = p
        BY <2>5, <4>1, <4>3
      <4>5. QED
        BY <4>3, <4>4 DEF Listed
    <3>4. QED
      BY <3>2, <3>3
  <2>7. listedFiles' = listedFiles \ {n}
    BY <2>6 DEF listedFiles
  <2>8. Unindexed(n)'
    <3>1. \A k \in Key : searchIndex'[k][n] = removeSearchTerm(n, k)
      BY <2>1, <2>4 DEF MapsTyped
    <3>2. \A k \in Key : searchIndex[k][n] = Uses(files[n], k) /\ searchIndex[k][n] \in Nat
      BY <2>1 DEF Indexed, MapsTyped
    <3>3. \A k \in Key : removeSearchTerm(n, k) = 0
      BY <3>2 DEF removeSearchTerm
    <3>4. QED
      BY <3>1, <3>3 DEF Unindexed
  <2>9. \A k \in Key, p \in FileInfo : p # n => searchIndex'[k][p] = searchIndex[k][p]
    BY <2>4 DEF MapsTyped
  <2>10. \A p \in FileInfo : p # n => (Unindexed(p)' <=> Unindexed(p))
    BY <2>9 DEF Unindexed
  <2>11. findableFiles' = findableFiles \ {n}
    BY <2>8, <2>10 DEF findableFiles
  <2>12. QED
    BY <1>1, <2>3, <2>7, <2>11
<1>7. QED
  BY <1>5, <1>6

LEMMA ShelvesKept ==
  ASSUME UNCHANGED maps
  PROVE  UNCHANGED <<files, listedFiles, findableFiles>>
<1>1. UNCHANGED <<files, filesByHash, searchIndex>>
  BY DEF maps
<1>2. QED
  BY <1>1 DEF listedFiles, findableFiles, Listed, Unindexed

-----------------------------------------------------------------------------
(* Answers                                                                 *)

\* SearchFile finds, of what searches may find, what shares a word with the query.
LEMMA HitsMatch ==
  ASSUME MapsTyped, IndexExact, NEW q \in Query
  PROVE  Hits(q) = {p \in findableFiles : ShareAWord(files[p], q)}
<1>1. ASSUME NEW p \in Hits(q)
      PROVE  p \in findableFiles /\ ShareAWord(files[p], q)
  <2>1. p \in FileInfo
    BY DEF Hits
  <2>2. PICK k \in Variations(q) \cap Key : searchIndex[k][p] > 0
    BY DEF Hits
  <2>3. p \in findableFiles
    BY <2>1, <2>2 DEF findableFiles, Unindexed
  <2>4. p \in 1..Len(files) /\ Indexed(p)
    BY <2>3, FindableIsIndexed
  <2>5. files[p] \in Share /\ Uses(files[p], k) > 0
    BY <2>2, <2>4 DEF MapsTyped, Indexed
  <2>6. QED
    BY <2>2, <2>3, <2>5, KeySharesAWord
<1>2. ASSUME NEW p \in findableFiles, ShareAWord(files[p], q)
      PROVE  p \in Hits(q)
  <2>1. p \in FileInfo /\ p \in 1..Len(files) /\ Indexed(p)
    BY FindableIsIndexed
  <2>2. files[p] \in Share
    BY <2>1 DEF MapsTyped
  <2>3. PICK k \in Variations(q) \cap Key : Uses(files[p], k) > 0
    BY <1>2, <2>2, WordLeadsThere
  <2>4. searchIndex[k][p] > 0
    BY <2>1, <2>3 DEF Indexed
  <2>5. QED
    BY <2>1, <2>3, <2>4 DEF Hits
<1>3. QED
  BY <1>1, <1>2

\* Every answer the loop may give is exact at that moment.
LEMMA AnswersAreExact ==
  ASSUME MapsTyped, IndexExact, NEW q \in Request, NEW found \in Answers(q)
  PROVE  found \subseteq 1..Len(files) /\ L!Exact(q, found)
<1>1. listedFiles \subseteq 1..Len(files)
  BY ListedWasMade
<1>2. CASE q.type = "GetFiles"
  <2>1. found = {filesByHash[k] : k \in HashKey} \ {Nil}
    BY <1>2 DEF Answers
  <2>2. found = listedFiles
    BY <2>1 DEF listedFiles, Listed, MapsTyped, FileInfo, Nil
  <2>3. QED
    BY <1>1, <1>2, <2>2 DEF L!Exact
<1>3. CASE q.type = "GetFile"
  <2>1. found = Found(Raw(q.hash)) /\ q.hash \in Hash
    BY <1>3 DEF Answers, Request
  <2>2. found = {}
    BY <2>1 DEF Found, IndexExact
  <2>3. QED
    BY <1>3, <2>2 DEF L!Exact
<1>4. CASE q.type = "Search"
  <2>1. found \in OnePerPath(Hits(q.text)) /\ q.text \in Query
    BY <1>4 DEF Answers, Request
  <2>2. Hits(q.text) = L!Matches(q.text)
    <3>1. PICK text \in Query : text = q.text
      BY <2>1
    <3>2. Hits(text) = {p \in findableFiles : ShareAWord(files[p], text)}
      BY HitsMatch
    <3>3. L!Matches(text) = {p \in findableFiles : ShareAWord(files[p], text)}
      BY DEF L!Matches, ShareAWord, WordsOf, L!ShareAWord, L!WordsOf
    <3>4. QED
      BY <3>1, <3>2, <3>3
  <2>3. L!OnePerPath(found, L!Matches(q.text))
    BY <2>1, <2>2 DEF OnePerPath, L!OnePerPath
  <2>4. found \subseteq findableFiles
    BY <2>3 DEF L!OnePerPath, L!Matches
  <2>5. found \subseteq 1..Len(files)
    BY <2>4, FindableIsIndexed
  <2>6. QED
    BY <1>4, <2>3, <2>5 DEF L!Exact
<1>5. q.type \in {"GetFiles", "GetFile", "Search"}
  BY DEF Request
<1>6. QED
  BY <1>2, <1>3, <1>4, <1>5

-----------------------------------------------------------------------------
(* Who asks                                                                *)

LEMMA HeardKept ==
  ASSUME UNCHANGED <<caller, response>>
  PROVE  UNCHANGED heardBy
  BY DEF heardBy, heard, HasAnswer, Asks, At

\* A caller moves, and nobody else's response channel changes.
LEMMA HeardMoves ==
  ASSUME AskersTyped, NEW c \in Caller, NEW there, Goto(c, there),
         \A d \in Caller : d # c /\ At(d, "answer")
           => response'[caller[d].response] = response[caller[d].response]
  PROVE  /\ heardBy' = [heardBy EXCEPT ![c] = heard(c)']
         /\ caller'[c] = there
<1>1. /\ caller'[c] = there
      /\ \A d \in Caller : d # c => caller'[d] = caller[d]
  BY DEF Goto, AskersTyped
<1>2. \A d \in Caller : d # c => heard(d)' = heard(d)
  BY <1>1 DEF heard, HasAnswer, Asks, At
<1>3. QED
  BY <1>1, <1>2 DEF heardBy

LEMMA ApartFrom ==
  ASSUME Apart, NEW c \in Caller, NEW d \in Caller, d # c,
         At(c, "answer"), At(d, "answer")
  PROVE  caller[c].response # caller[d].response
  BY DEF Apart, ChannelsApart

\* A command, or a reader that has only the hash, asks.
LEMMA QueueAsks ==
  ASSUME AskersTyped, NEW c \in Caller, NEW q, NEW there, At(c, "free"),
         there.at = "queue", there.request = q, Goto(c, there),
         UNCHANGED <<maps, response>>
  PROVE  L!Ask(c, q)
<1>1. heardBy' = [heardBy EXCEPT ![c] = heard(c)'] /\ caller'[c] = there
  BY HeardMoves
<1>2. heard(c) = [has |-> "nothing"]
  BY DEF heard, HasAnswer, Asks, At
<1>3. heard(c)' = [has |-> "asked", request |-> q]
  BY <1>1 DEF heard, HasAnswer, Asks, At
<1>4. heardBy[c] = L!Silent
  BY <1>2 DEF heardBy, L!Silent
<1>5. heardBy' = [heardBy EXCEPT ![c] = L!Waiting(q)]
  BY <1>1, <1>3 DEF L!Waiting
<1>6. QED
  BY <1>4, <1>5, ShelvesKept DEF L!Ask, heardBy

\* The request goes into the queue, with a response channel that is empty.
LEMMA AskIsNoNews ==
  ASSUME AskersTyped, Apart, NEW c \in Caller, ask(c)
  PROVE  UNCHANGED <<files, listedFiles, findableFiles, heardBy>>
<1>1. PICK r \in Response :
        /\ MakeChannel(r)
        /\ Goto(c, [at |-> "answer", request |-> caller[c].request,
                    deadline |-> caller[c].deadline,
                    index |-> caller[c].index, response |-> r])
  BY DEF ask
<1>2. At(c, "queue") /\ UNCHANGED <<maps, response>>
  BY DEF ask
<1>3. response[r] = Empty
  BY <1>1 DEF MakeChannel, Apart, ChannelsApart
<1>4. /\ heardBy' = [heardBy EXCEPT ![c] = heard(c)']
      /\ caller'[c] = [at |-> "answer", request |-> caller[c].request,
                       deadline |-> caller[c].deadline,
                       index |-> caller[c].index, response |-> r]
  BY <1>1, <1>2, HeardMoves
<1>5. heard(c) = [has |-> "asked", request |-> caller[c].request]
  BY <1>2 DEF heard, HasAnswer, Asks, At
<1>6. heard(c)' = [has |-> "asked", request |-> caller[c].request]
  BY <1>2, <1>3, <1>4 DEF heard, HasAnswer, Asks, At
<1>7. UNCHANGED heardBy
  BY <1>4, <1>5, <1>6 DEF heardBy
<1>8. QED
  BY <1>2, <1>7, ShelvesKept

\* Whoever has asked leaves, answered or not, and only its own channel changes.
LEMMA AskerLeaves ==
  ASSUME AskersTyped, Apart, NEW c \in Caller, NEW there, Goto(c, there),
         Asks(c), there.at \notin {"queue", "answer"}, UNCHANGED maps,
         \A r \in Response :
           response'[r] = response[r] \/ (At(c, "answer") /\ r = caller[c].response)
  PROVE  L!Leave(c)
<1>1. ASSUME NEW d \in Caller, d # c, At(d, "answer")
      PROVE  response'[caller[d].response] = response[caller[d].response]
  <2>1. caller[d].response \in Response
    BY <1>1, PlaceFields
  <2>2. QED
    BY <1>1, <2>1, ApartFrom
<1>2. heardBy' = [heardBy EXCEPT ![c] = heard(c)'] /\ caller'[c] = there
  BY <1>1, HeardMoves
<1>3. heard(c)' = [has |-> "nothing"]
  BY <1>2 DEF heard, HasAnswer, Asks, At
<1>4. heard(c).has \in {"asked", "answer"}
  BY DEF heard
<1>5. heardBy[c] # L!Silent
  BY <1>4 DEF heardBy, L!Silent
<1>6. heardBy' = [heardBy EXCEPT ![c] = L!Silent]
  BY <1>2, <1>3 DEF L!Silent
<1>7. QED
  BY <1>5, <1>6, ShelvesKept DEF L!Leave, heardBy

\* Whoever has not asked, or is done with it, walks on.
LEMMA WalkIsNoNews ==
  ASSUME AskersTyped, NEW c \in Caller, NEW there, Goto(c, there),
         ~Asks(c), there.at \notin {"queue", "answer"}, NoWait(c)
  PROVE  UNCHANGED <<files, listedFiles, findableFiles, heardBy>>
<1>1. UNCHANGED <<maps, response>>
  BY DEF NoWait
<1>2. heardBy' = [heardBy EXCEPT ![c] = heard(c)'] /\ caller'[c] = there
  BY <1>1, HeardMoves
<1>3. heard(c)' = [has |-> "nothing"] /\ heard(c) = [has |-> "nothing"]
  BY <1>2 DEF heard, HasAnswer, Asks, At
<1>4. UNCHANGED heardBy
  BY <1>2, <1>3 DEF heardBy
<1>5. QED
  BY <1>1, <1>4, ShelvesKept

\* The loop answers: the caller at the other end of the channel is told what it
\* asked for, or nobody is.
LEMMA AnswerTells ==
  ASSUME MapsTyped, LoopTyped, AskersTyped, IndexExact, Apart, answerRequest
  PROVE  \/ \E c \in Caller, q \in Request : L!Tell(c, q)
         \/ UNCHANGED <<files, listedFiles, findableFiles, heardBy>>
<1> DEFINE q == eventLoop.request
           r == eventLoop.response
<1>1. eventLoop.type = "Request" /\ UNCHANGED <<maps, caller>>
  BY DEF answerRequest
<1>2. eventLoop \in Event
  BY <1>1 DEF LoopTyped, Idle
<1>3. q \in Request /\ r \in Response
  BY <1>1, <1>2, EventFields
<1>4. PICK found \in Answers(q) : Send(r, q, found)
  BY DEF answerRequest
<1>5. UNCHANGED <<files, listedFiles, findableFiles>>
  BY <1>1, ShelvesKept
<1>6. eventLoop \in Asked
  BY <1>1 DEF Asked
<1> HIDE DEF q, r
<1>7. CASE Awaited(r) /\ response[r] = Empty
  <2>1. PICK c \in Caller : At(c, "answer") /\ caller[c].response = r
    BY <1>7 DEF Awaited
  <2>2. caller[c].request = q
    BY <1>6, <2>1 DEF Apart, ChannelsApart, q, r
  <2>3. response' = [response EXCEPT ![r] = Answer(q, found)]
    BY <1>4, <1>7 DEF Send
  <2>4. response'[r] = [is |-> "Answer", to |-> q, files |-> found]
    BY <1>3, <2>3 DEF AskersTyped, Answer
  <2>5. ASSUME NEW d \in Caller, d # c PROVE heard(d)' = heard(d)
    <3>1. At(d, "answer") => caller[d].response # r
      BY <2>1, <2>5, ApartFrom
    <3>2. At(d, "answer") => response'[caller[d].response] = response[caller[d].response]
      BY <2>3, <3>1, PlaceFields DEF AskersTyped
    <3>3. QED
      BY <1>1, <3>2 DEF heard, HasAnswer, Asks, At
  <2>6. heard(c) = [has |-> "asked", request |-> q]
    BY <1>7, <2>1, <2>2 DEF heard, HasAnswer, Asks, At
  <2>7. HasAnswer(c)'
    <3>1. response'[r] # Empty
      BY <2>4 DEF Empty
    <3>2. QED
      BY <1>1, <2>1, <3>1 DEF HasAnswer, At
  <2>8. heard(c)' = [has |-> "answer", request |-> q, files |-> found]
    <3>1. heard(c)' = [has |-> "answer", request |-> caller'[c].request,
                       files |-> response'[caller'[c].response].files]
      BY <2>7 DEF heard
    <3>2. caller'[c].response = r /\ caller'[c].request = q
      BY <1>1, <2>1, <2>2
    <3>3. response'[r].files = found
      BY <2>4
    <3>4. QED
      BY <3>1, <3>2, <3>3
  <2>9. heardBy' = [heardBy EXCEPT ![c] = L!Told(q, found)]
    BY <2>5, <2>8 DEF heardBy, L!Told
  <2>10. heardBy[c] = L!Waiting(q)
    BY <2>6 DEF heardBy, L!Waiting
  <2>11. found \in SUBSET L!Entry /\ L!Exact(q, found)
    BY <1>3, <1>4, AnswersAreExact DEF L!Entry
  <2>12. L!Tell(c, q)
    BY <1>5, <2>9, <2>10, <2>11 DEF L!Tell, heardBy
  <2>13. QED
    BY <1>3, <2>12
<1>8. CASE ~ (Awaited(r) /\ response[r] = Empty)
  <2>1. response' = response
    BY <1>4, <1>8 DEF Send
  <2>2. QED
    BY <1>1, <1>5, <2>1, HeardKept
<1>9. QED
  BY <1>7, <1>8

-----------------------------------------------------------------------------
(* The theorem                                                             *)

SameLibrary == UNCHANGED <<files, listedFiles, findableFiles, heardBy>>

LEMMA LibraryInit == Init => L!Init
<1> SUFFICES ASSUME Init PROVE L!Init
  OBVIOUS
<1>1. listedFiles = {}
  BY DEF Init, listedFiles, Listed, FileInfo, Nil
<1>2. findableFiles = {}
  BY DEF Init, findableFiles, Unindexed
<1>3. heardBy = [c \in Caller |-> L!Silent]
  BY DEF Init, heardBy, heard, HasAnswer, Asks, At, Free, L!Silent
<1>4. QED
  BY <1>1, <1>2, <1>3 DEF Init, L!Init, heardBy

LEMMA LoopImplements ==
  ASSUME TypeOK, IndInv, fileEventLoop
  PROVE  L!Next \/ SameLibrary
<1>1. /\ MapsTyped /\ LoopTyped /\ AskersTyped /\ RoomLeft
      /\ IndexExact /\ Apart
  BY TypeParts, IndParts
<1>2. CASE takeEvent
  <2>1. UNCHANGED <<maps, caller, response>>
    BY <1>2 DEF takeEvent
  <2>2. QED
    BY <2>1, ShelvesKept, HeardKept DEF SameLibrary
<1>3. CASE addToMap
  <2>1. eventLoop.type = "AddFile" /\ UNCHANGED <<caller, response>>
    BY <1>3 DEF addToMap
  <2>2. eventLoop \in Event
    BY <1>1, <2>1 DEF LoopTyped, Idle
  <2>3. PICK f \in Share : f = eventLoop.file
    BY <2>1, <2>2, EventFields
  <2>4. Len(files) < MaxFiles
    BY <1>1, <2>1, FileIndexAssumption
       DEF RoomLeft, Made, MapsTyped, FileIndexAssumption
  <2>5. registerFile(f)
    BY <1>3, <2>3 DEF addToMap
  <2>6. UNCHANGED heardBy
    BY <2>1, HeardKept
  <2>7. L!Add(f)
    BY <1>1, <2>4, <2>5, <2>6, RegisterIsAdd
  <2>8. QED
    BY <2>7 DEF L!Next
<1>4. CASE removeFile
  <2>1. eventLoop.type = "RemoveFile" /\ UNCHANGED <<caller, response>>
    BY <1>4 DEF removeFile
  <2>2. eventLoop \in Event
    BY <1>1, <2>1 DEF LoopTyped, Idle
  <2>3. PICK h \in Hash : h = eventLoop.hash
    BY <2>1, <2>2, EventFields
  <2>4. removeFormMap(h)
    BY <1>4, <2>3 DEF removeFile
  <2>5. UNCHANGED heardBy
    BY <2>1, HeardKept
  <2>6. L!Remove(h)
    BY <1>1, <2>4, <2>5, RemoveRemoves DEF L!Remove, heardBy
  <2>7. QED
    BY <2>6 DEF L!Next
<1>5. CASE answerRequest
  <2>1. \/ \E c \in Caller, q \in Request : L!Tell(c, q)
        \/ SameLibrary
    BY <1>1, <1>5, AnswerTells DEF SameLibrary
  <2>2. Request = L!Request
    BY DEF Request, L!Request
  <2>3. QED
    BY <2>1, <2>2 DEF L!Next
<1>6. QED
  BY <1>2, <1>3, <1>4, <1>5 DEF fileEventLoop

LEMMA CallerImplements ==
  ASSUME TypeOK, IndInv, NEW c \in Caller,
         \/ \E q \in Request : command(c, q)
         \/ \E i \in Index : SendFilePacket(c, i)
         \/ ask(c) \/ timeout(c) \/ callerStep(c)
  PROVE  L!Next \/ SameLibrary
<1>1. AskersTyped /\ Apart
  BY TypeParts, IndParts
<1>2. \A q \in Request : L!Ask(c, q) => L!Next
  <2>1. Request = L!Request
    BY DEF Request, L!Request
  <2>2. QED
    BY <2>1 DEF L!Next
<1>3. L!Leave(c) => L!Next
  BY DEF L!Next
<1>4. ASSUME NEW q \in Request, command(c, q) PROVE L!Next
  <2> DEFINE there == [at |-> "queue", request |-> q, deadline |-> TRUE, index |-> 0]
  <2>1. At(c, "free") /\ Goto(c, there) /\ UNCHANGED <<maps, response>>
    BY <1>4 DEF command
  <2>2. there.at = "queue" /\ there.request = q
    OBVIOUS
  <2> HIDE DEF there
  <2>3. L!Ask(c, q)
    BY <1>1, <2>1, <2>2, QueueAsks
  <2>4. QED
    BY <1>2, <2>3
<1>5. ASSUME NEW i \in Index, SendFilePacket(c, i) PROVE L!Next \/ SameLibrary
  <2>1. At(c, "free") /\ NoWait(c)
    BY <1>5 DEF SendFilePacket
  <2>2. CASE Goto(c, [at |-> "stat", index |-> i])
    <3>1. ~Asks(c)
      BY <2>1 DEF Asks, At
    <3>2. PICK there : Goto(c, there) /\ there.at = "stat"
      BY <2>2
    <3>3. QED
      BY <1>1, <2>1, <3>1, <3>2, WalkIsNoNews DEF SameLibrary
  <2>3. ASSUME NEW h \in Hash,
               Goto(c, [at |-> "queue", request |-> [type |-> "GetFile", hash |-> h],
                        deadline |-> FALSE, index |-> i])
        PROVE  L!Next
    <3>1. PICK q \in Request : q = [type |-> "GetFile", hash |-> h]
      BY DEF Request
    <3>2. PICK there : Goto(c, there) /\ there.at = "queue" /\ there.request = q
      BY <2>3, <3>1
    <3>3. UNCHANGED <<maps, response>>
      BY <2>1 DEF NoWait
    <3>4. L!Ask(c, q)
      BY <1>1, <2>1, <3>2, <3>3, QueueAsks
    <3>5. QED
      BY <1>2, <3>4
  <2>4. QED
    BY <1>5, <2>2, <2>3 DEF SendFilePacket
<1>6. CASE ask(c)
  BY <1>1, <1>6, AskIsNoNews DEF SameLibrary
<1>7. CASE timeout(c)
  <2>1. Asks(c) /\ Goto(c, Free) /\ UNCHANGED maps
    BY <1>7 DEF timeout, Asks
  <2>2. \A r \in Response :
          response'[r] = response[r] \/ (At(c, "answer") /\ r = caller[c].response)
    BY <1>7 DEF timeout
  <2>3. Free.at \notin {"queue", "answer"}
    BY DEF Free
  <2>4. L!Leave(c)
    BY <1>1, <2>1, <2>2, <2>3, AskerLeaves
  <2>5. QED
    BY <1>3, <2>4
<1>8. CASE receive(c)
  <2>1. At(c, "answer") /\ UNCHANGED maps
    BY <1>8 DEF receive
  <2>2. PICK there : Goto(c, there) /\ there.at \notin {"queue", "answer"}
    BY <1>8 DEF receive, Free
  <2>3. response' = [response EXCEPT ![caller[c].response] = Empty]
    BY <1>8 DEF receive
  <2>4. \A r \in Response : response'[r] = response[r] \/ r = caller[c].response
    BY <1>1, <2>3 DEF AskersTyped
  <2>5. L!Leave(c)
    BY <1>1, <2>1, <2>2, <2>4, AskerLeaves DEF Asks
  <2>6. QED
    BY <1>3, <2>5
<1>9. CASE stat(c) \/ read(c) \/ readDigest(c) \/ sendPacket(c)
  <2>1. ~Asks(c) /\ NoWait(c)
    BY <1>9 DEF stat, read, readDigest, sendPacket, Asks, At
  <2>2. PICK there : Goto(c, there) /\ there.at \notin {"queue", "answer"}
    <3>1. CASE stat(c)
      <4>1. CASE Goto(c, Free)
        BY <4>1 DEF Free
      <4>2. ASSUME NEW n \in Size, NEW same,
                   Goto(c, [at |-> "read", index |-> caller[c].index,
                            offset |-> ChunkOffset(caller[c].index),
                            wanted |-> ReadSize(ChunkOffset(caller[c].index), n),
                            same |-> same])
            PROVE  \E there : Goto(c, there) /\ there.at \notin {"queue", "answer"}
        BY <4>2
      <4>3. QED
        BY <3>1, <4>1, <4>2 DEF stat
    <3>2. CASE read(c)
      <4>1. CASE Goto(c, Free)
        BY <4>1 DEF Free
      <4>2. ASSUME NEW n \in Size, NEW same,
                   Goto(c, [at |-> "digest", index |-> caller[c].index,
                            from |-> caller[c].offset, same |-> same,
                            length |-> BytesRead(caller[c].offset,
                                                 caller[c].wanted, n)])
            PROVE  \E there : Goto(c, there) /\ there.at \notin {"queue", "answer"}
        BY <4>2
      <4>3. QED
        BY <3>2, <4>1, <4>2 DEF read
    <3>3. CASE readDigest(c)
      BY <3>3 DEF readDigest, Free
    <3>4. CASE sendPacket(c)
      BY <3>4 DEF sendPacket, Free
    <3>5. QED
      BY <1>9, <3>1, <3>2, <3>3, <3>4
  <2>3. QED
    BY <1>1, <2>1, <2>2, WalkIsNoNews DEF SameLibrary
<1>10. QED
  BY <1>4, <1>5, <1>6, <1>7, <1>8, <1>9 DEF callerStep

LEMMA LibraryStep ==
  ASSUME TypeOK, IndInv, [Next]_vars
  PROVE  L!Next \/ SameLibrary
<1>1. MapsTyped /\ IndexExact
  BY TypeParts, IndParts
<1>2. ASSUME NEW f \in Share, loadMetaDataFile(f) PROVE L!Next
  <2>1. /\ Len(files) < MaxFiles /\ registerFile(f)
        /\ UNCHANGED <<caller, response>>
    BY <1>2 DEF loadMetaDataFile
  <2>2. UNCHANGED heardBy
    BY <2>1, HeardKept
  <2>3. L!Add(f)
    BY <1>1, <2>1, <2>2, RegisterIsAdd
  <2>4. QED
    BY <2>3 DEF L!Next
<1>3. CASE \/ \E f \in Share : announce(f)
           \/ Initialize
           \/ \E p \in 1..Len(files) : announceRemoval(p)
           \/ UNCHANGED vars
  <2>1. UNCHANGED <<maps, caller, response>>
    BY <1>3 DEF announce, Initialize, announceRemoval, vars
  <2>2. QED
    BY <2>1, ShelvesKept, HeardKept DEF SameLibrary
<1>4. QED
  BY <1>2, <1>3, LoopImplements, CallerImplements DEF Next

\* The file manager is a library: whatever its queue holds and however its callers
\* interleave and give up, each addition and each removal takes effect in one
\* step, and each answer is what the library would tell at a moment between the
\* question and the receipt of the answer.
THEOREM IsALibrary == Spec => ImplementsLibrary
<1>1. Init => L!Init
  BY LibraryInit
<1>2. TypeOK /\ IndInv /\ [Next]_vars
        => [L!Next]_<<files, listedFiles, findableFiles, heardBy>>
  BY LibraryStep DEF SameLibrary
<1>3. QED
  BY <1>1, <1>2, TypeCorrect, Inductive, PTL DEF Spec, L!Spec, ImplementsLibrary, heardBy

=============================================================================
