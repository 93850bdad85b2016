------------------------------ MODULE StatusHub ------------------------------
(***************************************************************************)
(* How a status event reaches the browser: ListenForDocumentStatusEvents   *)
(* takes events from a Redis subscription and hands each one to            *)
(* DocumentStatusHub.Broadcast, which writes it to the web sockets of the  *)
(* document while it holds the hub's mutex.  DocumentStatusWSHandler adds  *)
(* its socket to the hub, waits, and removes it.  Add and Delete do        *)
(* nothing that blocks once they have the mutex: each is one step, taken   *)
(* when no broadcast holds it.                                             *)
(***************************************************************************)
EXTENDS Naturals, Sequences, Documents

CONSTANTS Sockets,     \* connections, each used once
          NoSocket,    \* no write is in progress
          NoDoc,       \* no broadcast is in progress, no document chosen yet
          MaxEvents    \* bound on the events published per document

ASSUME HubAssumption ==
    /\ NoSocket \notin Sockets
    /\ NoDoc \notin Docs
    /\ MaxEvents \in Nat

VARIABLES
    published,    \* events of a document so far, they are numbered
    channel,      \* events the subscription has delivered to the process
    current,      \* the document of the broadcast that holds the mutex
    number,       \* the number of its event
    left,         \* sockets the broadcast has not come to
    writing,      \* the socket WriteJSON writes to
    clients,      \* DocumentStatusHub.clients
    handler,      \* progress of each socket's handler
    topic,        \* the document it asked for
    peer,         \* what the browser does with the connection
    seen,         \* history: numbers of the events it has got
    since,        \* history: last event received when it was added
    received      \* history: last event of a document the listener took

castVars == <<channel, current, number, left, writing, received>>
socketVars == <<clients, handler, topic, since>>
vars == <<castVars, socketVars, published, peer, seen>>

Numbers == 0..MaxEvents
Events == [doc : Docs, number : Numbers]

TypeOK ==
    /\ published \in [Docs -> Numbers]
    /\ channel \in Seq(Events)
    /\ current \in Docs \cup {NoDoc}
    /\ number \in Numbers
    /\ left \subseteq Sockets
    /\ writing \in Sockets \cup {NoSocket}
    /\ clients \in [Docs -> SUBSET Sockets]
    /\ handler \in [Sockets -> {"none", "upgraded", "subscribed", "leaving", "closed"}]
    /\ topic \in [Sockets -> Docs \cup {NoDoc}]
    /\ peer \in [Sockets -> {"reading", "stalled", "gone"}]
    /\ seen \in [Sockets -> Seq(Numbers)]
    /\ since \in [Sockets -> Numbers]
    /\ received \in [Docs -> Numbers]
    /\ writing \notin left
    /\ current = NoDoc => left = {} /\ writing = NoSocket

Init ==
    /\ published = [d \in Docs |-> 0]
    /\ channel = <<>>
    /\ current = NoDoc
    /\ number = 0
    /\ left = {}
    /\ writing = NoSocket
    /\ clients = [d \in Docs |-> {}]
    /\ handler = [s \in Sockets |-> "none"]
    /\ topic = [s \in Sockets |-> NoDoc]
    /\ peer = [s \in Sockets |-> "reading"]
    /\ seen = [s \in Sockets |-> <<>>]
    /\ since = [s \in Sockets |-> 0]
    /\ received = [d \in Docs |-> 0]

MutexFree == current = NoDoc

-----------------------------------------------------------------------------
(* The worker and Redis. *)

\* Pub/sub delivers at most once: an event published while the subscription
\* reconnects, or while its channel stays full, is lost.
PublishStatus(d) ==
    /\ published[d] < MaxEvents
    /\ published' = [published EXCEPT ![d] = @ + 1]
    /\ \/ channel' = Append(channel, [doc |-> d, number |-> published[d] + 1])
       \/ UNCHANGED channel
    /\ UNCHANGED <<current, number, left, writing, received, socketVars, peer, seen>>

-----------------------------------------------------------------------------
(* The listener. *)

\* Slip: every event is broadcast by a goroutine of its own.
ReceiveAnyEvent ==
    /\ MutexFree
    /\ \E i \in DOMAIN channel :
          /\ current' = channel[i].doc
          /\ number' = channel[i].number
          /\ left' = clients[channel[i].doc]
          /\ received' = [received EXCEPT ![channel[i].doc] = channel[i].number]
          /\ channel' = SubSeq(channel, 1, i - 1) \o SubSeq(channel, i + 1, Len(channel))
    /\ UNCHANGED <<writing, socketVars, published, peer, seen>>

\* The listener takes an event and Broadcast locks the mutex.
ReceiveEvent ==
    /\ channel # <<>>
    /\ MutexFree
    /\ LET event == Head(channel)
       IN  /\ current' = event.doc
           /\ number' = event.number
           /\ left' = clients[event.doc]
           /\ received' = [received EXCEPT ![event.doc] = event.number]
    /\ channel' = Tail(channel)
    /\ UNCHANGED <<writing, socketVars, published, peer, seen>>

\* Slip: the loop comes to a socket twice.
StartWriteAgain(s) ==
    /\ s \in left
    /\ writing = NoSocket
    /\ writing' = s
    /\ UNCHANGED <<channel, current, number, left, received, socketVars, published, peer, seen>>

\* The range over the map of sockets, in no particular order.
StartWrite(s) ==
    /\ s \in left
    /\ writing = NoSocket
    /\ writing' = s
    /\ left' = left \ {s}
    /\ UNCHANGED <<channel, current, number, received, socketVars, published, peer, seen>>

\* Slip: the first error ends the broadcast.
StopAtError(s) ==
    /\ writing = s
    /\ \/ /\ peer[s] = "reading"
          /\ seen' = [seen EXCEPT ![s] = Append(@, number)]
          /\ UNCHANGED left
       \/ /\ peer[s] = "gone"
          /\ left' = {}
          /\ UNCHANGED seen
    /\ writing' = NoSocket
    /\ UNCHANGED <<channel, current, number, received, socketVars, published, peer>>

\* WriteJSON returns: its error is dropped.  It has no deadline, so it does not
\* return while the browser takes nothing from a full connection.
FinishWrite(s) ==
    /\ writing = s
    /\ \/ /\ peer[s] = "reading"
          /\ seen' = [seen EXCEPT ![s] = Append(@, number)]
       \/ /\ peer[s] = "gone"
          /\ UNCHANGED seen
    /\ writing' = NoSocket
    /\ UNCHANGED <<channel, current, number, left, received, socketVars, published, peer>>

\* Slip: a broadcast that finds nobody returns before it unlocks.
EndBroadcastToSomebody ==
    /\ current # NoDoc
    /\ clients[current] # {}
    /\ left = {}
    /\ writing = NoSocket
    /\ current' = NoDoc
    /\ number' = 0
    /\ UNCHANGED <<channel, left, writing, received, socketVars, published, peer, seen>>

\* Broadcast unlocks the mutex.
EndBroadcast ==
    /\ current # NoDoc
    /\ left = {}
    /\ writing = NoSocket
    /\ current' = NoDoc
    /\ number' = 0
    /\ UNCHANGED <<channel, left, writing, received, socketVars, published, peer, seen>>

-----------------------------------------------------------------------------
(* The handler of a socket. *)

\* Ownership is checked and the connection upgraded.
Upgrade(s, d) ==
    /\ handler[s] = "none"
    /\ handler' = [handler EXCEPT ![s] = "upgraded"]
    /\ topic' = [topic EXCEPT ![s] = d]
    /\ UNCHANGED <<castVars, clients, since, published, peer, seen>>

Add(s) ==
    /\ handler[s] = "upgraded"
    /\ MutexFree
    /\ clients' = [clients EXCEPT ![topic[s]] = @ \cup {s}]
    /\ handler' = [handler EXCEPT ![s] = "subscribed"]
    /\ since' = [since EXCEPT ![s] = received[topic[s]]]
    /\ UNCHANGED <<castVars, topic, published, peer, seen>>

\* The read goroutine ended (the browser left, or no pong came in time) or a
\* ping could not be written.
LeaveLoop(s) ==
    /\ handler[s] = "subscribed"
    /\ handler' = [handler EXCEPT ![s] = "leaving"]
    /\ UNCHANGED <<castVars, clients, topic, since, published, peer, seen>>

\* Slip: the connection is closed and stays in the hub.
CloseOnly(s) ==
    /\ handler[s] = "leaving"
    /\ handler' = [handler EXCEPT ![s] = "closed"]
    /\ UNCHANGED <<castVars, clients, topic, since, published, peer, seen>>

\* The deferred calls: docHub.Delete, then conn.Close.
Delete(s) ==
    /\ handler[s] = "leaving"
    /\ MutexFree
    /\ clients' = [clients EXCEPT ![topic[s]] = @ \ {s}]
    /\ handler' = [handler EXCEPT ![s] = "closed"]
    /\ UNCHANGED <<castVars, topic, since, published, peer, seen>>

\* The browser stops taking data and the buffers of its connection are full.
Stall(s) ==
    /\ peer[s] = "reading"
    /\ peer' = [peer EXCEPT ![s] = "stalled"]
    /\ UNCHANGED <<castVars, socketVars, published, seen>>

\* The connection is closed or reset.
Disconnect(s) ==
    /\ peer[s] = "reading"
    /\ peer' = [peer EXCEPT ![s] = "gone"]
    /\ UNCHANGED <<castVars, socketVars, published, seen>>

Broadcasting ==
    \/ ReceiveEvent
    \/ \E s \in Sockets : StartWrite(s) \/ FinishWrite(s)
    \/ EndBroadcast

Next ==
    \/ \E d \in Docs : PublishStatus(d)
    \/ Broadcasting
    \/ \E s \in Sockets : (\E d \in Docs : Upgrade(s, d)) \/ Add(s) \/ LeaveLoop(s) \/ Delete(s)
                          \/ Stall(s) \/ Disconnect(s)

Spec == Init /\ [][Next]_vars

\* The listener goes on when it can, a mutex that is free again and again is
\* granted, and a handler notices that its browser is silent: it answers no
\* ping within wsPongWait.  The router's timeout does not apply to web sockets.
FairSpec ==
    /\ Spec
    /\ WF_vars(Broadcasting)
    /\ \A s \in Sockets :
         /\ SF_vars(Add(s))
         /\ SF_vars(Delete(s))
         /\ WF_vars(peer[s] # "reading" /\ LeaveLoop(s))

-----------------------------------------------------------------------------
\* A socket sees the events of its document in the order in which they were
\* published and none twice: a browser never goes back from ready to failed
\* because of the way events travel.
SeenInOrder ==
    \A s \in Sockets : \A i, j \in DOMAIN seen[s] : i < j => seen[s][i] < seen[s][j]

\* Between two broadcasts every subscribed browser that reads has the last
\* event of its document the process has received since it subscribed,
\* whatever happened to the other sockets of that document.
SubscribersAreCurrent ==
    MutexFree =>
        \A s \in Sockets : handler[s] = "subscribed" /\ peer[s] = "reading"
                           /\ received[topic[s]] > since[s]
            => seen[s] # <<>> /\ seen[s][Len(seen[s])] = received[topic[s]]

\* The deferred Delete leaves no closed connection in the hub.
HubHoldsOpenSockets ==
    \A d \in Docs : \A s \in clients[d] : handler[s] \in {"subscribed", "leaving"} /\ topic[s] = d

\* As long as every connection takes data or is closed, events are broadcast
\* and handlers that end are gone.
HubMovesOn ==
    [](\A s \in Sockets : peer[s] # "stalled") =>
        /\ \A d \in Docs : current = d ~> current = NoDoc
        /\ \A s \in Sockets : handler[s] = "leaving" ~> handler[s] = "closed"

\* The API server broadcasts events to the connected clients: a browser that
\* reads gets an event the process has received, or its connection is closed.
ReadersAreServed ==
    \A s \in Sockets :
        handler[s] = "subscribed" /\ (\E i \in DOMAIN channel : channel[i].doc = topic[s])
            ~> \/ handler[s] = "closed"
               \/ peer[s] # "reading"
               \/ \A i \in DOMAIN channel : channel[i].doc # topic[s]
=============================================================================
