------------------------------ MODULE StatusFeed ------------------------------
(***************************************************************************)
(* What a browser may expect of its web socket: after it has joined it is  *)
(* only ever shown the latest event of its document, each at most once,    *)
(* and none from before it joined.                                         *)
(***************************************************************************)
EXTENDS Naturals, Sequences, Documents

CONSTANTS Sockets, NoDoc

VARIABLES latest,   \* number of the latest event of a document
          topic,    \* the document of a socket
          since,    \* the latest event when the socket joined
          seen      \* numbers of the events it was shown

feedVars == <<latest, topic, since, seen>>

Init ==
    /\ latest = [d \in Docs |-> 0]
    /\ topic = [s \in Sockets |-> NoDoc]
    /\ since = [s \in Sockets |-> 0]
    /\ seen = [s \in Sockets |-> <<>>]

\* Events may be skipped, and none comes after a later one.
Advance(d, n) ==
    /\ n > latest[d]
    /\ latest' = [latest EXCEPT ![d] = n]
    /\ UNCHANGED <<topic, since, seen>>

Open(s, d) ==
    /\ topic[s] = NoDoc
    /\ topic' = [topic EXCEPT ![s] = d]
    /\ UNCHANGED <<latest, since, seen>>

Join(s) ==
    /\ topic[s] \in Docs
    /\ seen[s] = <<>>
    /\ since' = [since EXCEPT ![s] = latest[topic[s]]]
    /\ UNCHANGED <<latest, topic, seen>>

Show(s) ==
    /\ topic[s] \in Docs
    /\ latest[topic[s]] > since[s]
    /\ \A i \in DOMAIN seen[s] : seen[s][i] < latest[topic[s]]
    /\ seen' = [seen EXCEPT ![s] = Append(@, latest[topic[s]])]
    /\ UNCHANGED <<latest, topic, since>>

Next ==
    \/ \E d \in Docs, n \in Nat : Advance(d, n)
    \/ \E s \in Sockets : (\E d \in Docs : Open(s, d)) \/ Join(s) \/ Show(s)

Spec == Init /\ [][Next]_feedVars
=============================================================================
