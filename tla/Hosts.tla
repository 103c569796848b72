------------------------------- MODULE Hosts --------------------------------
(***************************************************************************)
(* What the file tracker promises: it keeps a relation between files and   *)
(* the peers that host them, forgets a removed peer in one step, and tells *)
(* whoever asks for a file all of its hosts, or an error.                  *)
(***************************************************************************)
CONSTANTS File, Peer, Caller

VARIABLES
  hosts,   \* the pairs <<file, peer>> such that the peer hosts the file
  answer   \* the last answer each caller has had

vars == <<hosts, answer>>

HostsOf(f) == {p \in Peer : <<f, p>> \in hosts}

NoAnswer == [is |-> "none"]

\* An error tells of no hosts.
Answer(f, group) == [is |-> "answer", file |-> f, hosts |-> group]

Answers == {NoAnswer} \cup [is : {"answer"}, file : File, hosts : SUBSET Peer]

Init ==
  /\ hosts = {}
  /\ answer = [q \in Caller |-> NoAnswer]

Register(f, p) ==
  /\ hosts' = hosts \cup {<<f, p>>}
  /\ UNCHANGED answer

Drop(p) ==
  /\ hosts' = {h \in hosts : h[2] # p}
  /\ UNCHANGED answer

Tell(q, f) ==
  /\ answer' = [answer EXCEPT ![q] = Answer(f, HostsOf(f))]
  /\ UNCHANGED hosts

Fail(q, f) ==
  /\ answer' = [answer EXCEPT ![q] = Answer(f, {})]
  /\ UNCHANGED hosts

Next ==
  \/ \E f \in File, p \in Peer : Register(f, p)
  \/ \E p \in Peer : Drop(p)
  \/ \E q \in Caller, f \in File : Tell(q, f) \/ Fail(q, f)

Spec == Init /\ [][Next]_vars

=============================================================================
