------------------------------- MODULE Library -------------------------------
(***************************************************************************)
(* What the file manager promises to those who ask it: a set of listed     *)
(* files that additions and removals change in one step each, and answers  *)
(* that are exact at one moment between the question and the receipt.      *)
(* No queue, no maps, no keys and no channels.                             *)
(*                                                                         *)
(* Each addition makes an entry of its own, even of a file that was added  *)
(* before; an entry is its number.  An addition takes the place of the     *)
(* listed entry of the same content, which searches still find: nothing    *)
(* removes it any more.                                                    *)
(***************************************************************************)
EXTENDS Terms

CONSTANTS Hash, Share, Query, Caller

VARIABLES
  made,            \* the file of every entry made so far
  listed,          \* the entries that are listed
  findable,        \* the entries that searches find
  asked            \* what each caller has asked, and what it was told

Entry == 1..Len(made)

Request == [type : {"GetFiles"}] \cup [type : {"GetFile"}, hash : Hash]
             \cup [type : {"Search"}, text : Query]

Silent         == [has |-> "nothing"]
Waiting(q)     == [has |-> "asked", request |-> q]
Told(q, found) == [has |-> "answer", request |-> q, files |-> found]

Init ==
  /\ made = <<>>
  /\ listed = {}
  /\ findable = {}
  /\ asked = [c \in Caller |-> Silent]

Add(f) ==
  LET new == Len(made) + 1 IN
  /\ made' = Append(made, f)
  /\ listed' = {p \in listed : made[p].hash # f.hash} \cup {new}
  /\ findable' = findable \cup (IF HasWords(f) THEN {new} ELSE {})
  /\ UNCHANGED asked

Remove(h) ==
  LET gone == {p \in listed : made[p].hash = h} IN
  /\ listed' = listed \ gone
  /\ findable' = findable \ gone
  /\ UNCHANGED <<made, asked>>

Ask(c, q) ==
  /\ asked[c] = Silent
  /\ asked' = [asked EXCEPT ![c] = Waiting(q)]
  /\ UNCHANGED <<made, listed, findable>>

Matches(text) == {p \in findable : ShareAWord(made[p], text)}

\* A search tells one entry of each path.
OnePerPath(found, hits) ==
  /\ found \subseteq hits
  /\ \A p \in hits : \E q \in found : made[q].path = made[p].path
  /\ \A p, q \in found : made[p].path = made[q].path => p = q

\* A file that is asked for by its hash need not be found.
Exact(q, found) ==
  CASE q.type = "GetFiles" -> found = listed
    [] q.type = "GetFile"  -> found \subseteq {p \in listed : made[p].hash = q.hash}
    [] q.type = "Search"   -> OnePerPath(found, Matches(q.text))

Tell(c, q) ==
  /\ asked[c] = Waiting(q)
  /\ \E found \in SUBSET Entry :
       /\ Exact(q, found)
       /\ asked' = [asked EXCEPT ![c] = Told(q, found)]
  /\ UNCHANGED <<made, listed, findable>>

\* The answer is taken, or no longer wanted.
Leave(c) ==
  /\ asked[c] # Silent
  /\ asked' = [asked EXCEPT ![c] = Silent]
  /\ UNCHANGED <<made, listed, findable>>

Next ==
  \/ \E f \in Share : Add(f)
  \/ \E h \in Hash : Remove(h)
  \/ \E c \in Caller : \/ \E q \in Request : Ask(c, q) \/ Tell(c, q)
                       \/ Leave(c)

Spec == Init /\ [][Next]_<<made, listed, findable, asked>>

=============================================================================
