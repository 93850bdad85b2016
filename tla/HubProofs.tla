------------------------------ MODULE HubProofs ------------------------------
(***************************************************************************)
(* The hub for every set of documents and sockets and any number of events.*)
(***************************************************************************)
EXTENDS StatusHub, TLAPS

-----------------------------------------------------------------------------
(* Membership. *)

\* Every open subscription is in the hub, under the document it asked for,
\* and nothing else is.
SubscriptionsOK ==
    \A s \in Sockets :
        /\ topic[s] = NoDoc <=> handler[s] = "none"
        /\ \A d \in Docs :
              s \in clients[d] <=> handler[s] \in {"subscribed", "leaving"} /\ topic[s] = d

\* A broadcast goes to sockets of its document.
BroadcastOK ==
    \A s \in Sockets : s \in left \/ writing = s => current # NoDoc /\ topic[s] = current

HubInv == TypeOK /\ SubscriptionsOK /\ BroadcastOK

LEMMA HubInit == Init => HubInv
  BY HubAssumption
  DEF Init, HubInv, TypeOK, SubscriptionsOK, BroadcastOK, Numbers, Events

LEMMA HubStep == HubInv /\ [Next]_vars => HubInv'
<1> SUFFICES ASSUME HubInv, [Next]_vars PROVE HubInv'
  OBVIOUS
<1> USE HubAssumption DEF HubInv, castVars, socketVars
<1>1. ASSUME NEW d \in Docs, PublishStatus(d) PROVE HubInv'
  <2>1. published[d] + 1 \in Numbers
    BY <1>1 DEF PublishStatus, TypeOK, Numbers
  <2>2. [doc |-> d, number |-> published[d] + 1] \in Events
    BY <2>1 DEF Events
  <2>3. channel' \in Seq(Events)
    <3>1. Append(channel, [doc |-> d, number |-> published[d] + 1]) \in Seq(Events)
      BY <2>2 DEF TypeOK
    <3> QED BY <1>1, <3>1 DEF PublishStatus, TypeOK
  <2>4. TypeOK'
    BY <1>1, <2>1, <2>3 DEF PublishStatus, TypeOK
  <2> QED BY <1>1, <2>4 DEF PublishStatus, SubscriptionsOK, BroadcastOK
<1>2. CASE ReceiveEvent
  <2>1. Head(channel) \in Events /\ Tail(channel) \in Seq(Events)
    BY <1>2 DEF ReceiveEvent, TypeOK
  <2>2. Head(channel).doc \in Docs /\ Head(channel).number \in Numbers
    BY <2>1 DEF Events
  <2>3. TypeOK'
    BY <1>2, <2>1, <2>2 DEF ReceiveEvent, MutexFree, TypeOK
  <2> QED BY <1>2, <2>2, <2>3 DEF ReceiveEvent, MutexFree, TypeOK, SubscriptionsOK, BroadcastOK
<1>3. ASSUME NEW s \in Sockets, StartWrite(s) PROVE HubInv'
  BY <1>3 DEF StartWrite, TypeOK, SubscriptionsOK, BroadcastOK
<1>4. ASSUME NEW s \in Sockets, FinishWrite(s) PROVE HubInv'
  <2>1. seen' \in [Sockets -> Seq(Numbers)]
    <3>1. Append(seen[s], number) \in Seq(Numbers)
      BY DEF TypeOK
    <3> QED BY <1>4, <3>1 DEF FinishWrite, TypeOK
  <2> QED BY <1>4, <2>1 DEF FinishWrite, TypeOK, SubscriptionsOK, BroadcastOK
<1>5. CASE EndBroadcast
  BY <1>5 DEF EndBroadcast, Numbers, TypeOK, SubscriptionsOK, BroadcastOK
<1>6. ASSUME NEW s \in Sockets, NEW d \in Docs, Upgrade(s, d) PROVE HubInv'
  <2>1. TypeOK'
    BY <1>6 DEF Upgrade, TypeOK
  <2> QED BY <1>6, <2>1 DEF Upgrade, TypeOK, SubscriptionsOK, BroadcastOK
<1>7. ASSUME NEW s \in Sockets, Add(s) PROVE HubInv'
  <2>1. topic[s] \in Docs
    BY <1>7 DEF Add, TypeOK, SubscriptionsOK
  <2>2. TypeOK'
    BY <1>7, <2>1 DEF Add, MutexFree, TypeOK
  <2>3. SubscriptionsOK'
    BY <1>7, <2>1 DEF Add, TypeOK, SubscriptionsOK
  <2> QED BY <1>7, <2>2, <2>3 DEF Add, BroadcastOK
<1>8. ASSUME NEW s \in Sockets, LeaveLoop(s) PROVE HubInv'
  BY <1>8 DEF LeaveLoop, TypeOK, SubscriptionsOK, BroadcastOK
<1>9. ASSUME NEW s \in Sockets, Delete(s) PROVE HubInv'
  <2>1. topic[s] \in Docs
    BY <1>9 DEF Delete, TypeOK, SubscriptionsOK
  <2>2. TypeOK'
    BY <1>9, <2>1 DEF Delete, MutexFree, TypeOK
  <2>3. SubscriptionsOK'
    BY <1>9, <2>1 DEF Delete, TypeOK, SubscriptionsOK
  <2> QED BY <1>9, <2>2, <2>3 DEF Delete, BroadcastOK
<1>10. ASSUME NEW s \in Sockets, Stall(s) PROVE HubInv'
  BY <1>10 DEF Stall, TypeOK, SubscriptionsOK, BroadcastOK
<1>11. ASSUME NEW s \in Sockets, Disconnect(s) PROVE HubInv'
  BY <1>11 DEF Disconnect, TypeOK, SubscriptionsOK, BroadcastOK
<1>12. CASE UNCHANGED vars
  BY <1>12 DEF vars, TypeOK, SubscriptionsOK, BroadcastOK
<1> QED
  BY <1>1, <1>2, <1>3, <1>4, <1>5, <1>6, <1>7, <1>8, <1>9, <1>10, <1>11, <1>12
  DEF Next, Broadcasting

LEMMA HubInvariant == Spec => []HubInv
  BY HubInit, HubStep, PTL DEF Spec

\* Types; a write in progress is always that of a broadcast in progress.
THEOREM HubTypeCorrect == Spec => []TypeOK
<1>1. HubInv => TypeOK
  BY DEF HubInv
<1> QED BY <1>1, HubInvariant, PTL

\* No connection is left in the hub after its handler has closed it, however
\* many sockets subscribe and leave while broadcasts run.
THEOREM HubMembership == Spec => []HubHoldsOpenSockets
<1>1. HubInv => HubHoldsOpenSockets
  BY DEF HubInv, TypeOK, SubscriptionsOK, HubHoldsOpenSockets
<1> QED BY <1>1, HubInvariant, PTL

-----------------------------------------------------------------------------
(* Order. *)

\* The events of a document are numbered as they were published, and the
\* listener has received none of those still in the channel.
ChannelOK ==
    /\ \A i, j \in DOMAIN channel :
          i < j /\ channel[i].doc = channel[j].doc => channel[i].number < channel[j].number
    /\ \A i \in DOMAIN channel :
          /\ channel[i].number <= published[channel[i].doc]
          /\ channel[i].number > received[channel[i].doc]
    /\ \A d \in Docs : received[d] <= published[d]

\* A socket has seen nothing newer than what was received, and nothing yet of
\* the event that is on its way to it.
SeenOK ==
    /\ current # NoDoc => number = received[current]
    /\ \A s \in Sockets : \A i \in DOMAIN seen[s] :
          /\ topic[s] \in Docs
          /\ seen[s][i] <= received[topic[s]]
          /\ s \in left \/ writing = s => seen[s][i] < number

OrderInv == ChannelOK /\ SeenOK /\ SeenInOrder

LEMMA EventTypes ==
    ASSUME TypeOK
    PROVE  /\ Len(channel) \in Nat /\ DOMAIN channel = 1..Len(channel)
           /\ \A i \in DOMAIN channel : channel[i].doc \in Docs /\ channel[i].number \in Nat
<1>1. \A e \in Events : e.doc \in Docs /\ e.number \in Nat
  BY HubAssumption DEF Events, Numbers
<1>2. Len(channel) \in Nat /\ DOMAIN channel = 1..Len(channel)
      /\ \A i \in DOMAIN channel : channel[i] \in Events
  BY DEF TypeOK
<1> QED BY <1>1, <1>2

LEMMA OrderInit == Init => OrderInv
  BY DEF Init, OrderInv, ChannelOK, SeenOK, SeenInOrder

LEMMA ChannelStep == HubInv /\ ChannelOK /\ [Next]_vars => ChannelOK'
<1> SUFFICES ASSUME HubInv, ChannelOK, [Next]_vars PROVE ChannelOK'
  OBVIOUS
<1>0. TypeOK
  BY DEF HubInv
<1>1. ASSUME NEW d \in Docs, PublishStatus(d) PROVE ChannelOK'
  <2>1. published[d] \in Nat /\ \A e \in Docs : received[e] \in Nat /\ published[e] \in Nat
    BY <1>0, HubAssumption DEF TypeOK, Numbers
  <2>2. \A e \in Docs : published'[e] = IF e = d THEN published[d] + 1 ELSE published[e]
    BY <1>0, <1>1 DEF PublishStatus, TypeOK
  <2>3. \A i \in DOMAIN channel : channel[i].doc \in Docs /\ channel[i].number \in Nat
    BY <1>0, EventTypes
  <2>4. received' = received
    BY <1>1 DEF PublishStatus
  <2>5. CASE UNCHANGED channel
    BY <2>1, <2>2, <2>3, <2>4, <2>5 DEF ChannelOK
  <2> DEFINE event == [doc |-> d, number |-> published[d] + 1]
  <2>6. CASE channel' = Append(channel, event)
    <3>1. event.doc = d /\ event.number = published[d] + 1
      OBVIOUS
    <3>2. Len(channel) \in Nat /\ DOMAIN channel = 1..Len(channel)
          /\ DOMAIN channel' = 1..(Len(channel) + 1)
          /\ channel'[Len(channel) + 1] = event
          /\ \A i \in DOMAIN channel : channel'[i] = channel[i]
      BY <1>0, <2>6 DEF TypeOK
    <3> HIDE DEF event
    <3>3. ASSUME NEW i \in DOMAIN channel', NEW j \in DOMAIN channel', i < j,
                 channel'[i].doc = channel'[j].doc
          PROVE  channel'[i].number < channel'[j].number
      <4>1. i \in DOMAIN channel
        BY <3>2, <3>3
      <4>2. CASE j = Len(channel) + 1
        <5>1. channel[i].doc = d /\ channel[i].number <= published[d]
          BY <3>1, <3>2, <3>3, <4>1, <4>2 DEF ChannelOK
        <5> QED BY <2>1, <2>3, <3>1, <3>2, <4>1, <4>2, <5>1
      <4>3. CASE j \in DOMAIN channel
        BY <3>2, <3>3, <4>1, <4>3 DEF ChannelOK
      <4> QED BY <3>2, <4>2, <4>3
    <3>4. ASSUME NEW i \in DOMAIN channel'
          PROVE  /\ channel'[i].number <= published'[channel'[i].doc]
                 /\ channel'[i].number > received'[channel'[i].doc]
      <4>1. CASE i = Len(channel) + 1
        BY <2>1, <2>2, <2>4, <3>1, <3>2, <4>1 DEF ChannelOK
      <4>2. CASE i \in DOMAIN channel
        BY <2>1, <2>2, <2>3, <2>4, <3>2, <4>2 DEF ChannelOK
      <4> QED BY <3>2, <4>1, <4>2
    <3>5. \A e \in Docs : received'[e] <= published'[e]
      BY <2>1, <2>2, <2>4 DEF ChannelOK
    <3> QED BY <3>3, <3>4, <3>5 DEF ChannelOK
  <2> QED BY <1>1, <2>5, <2>6 DEF PublishStatus
<1>2. CASE ReceiveEvent
  <2> DEFINE event == Head(channel)
  <2>1. \A i \in DOMAIN channel : channel[i].doc \in Docs /\ channel[i].number \in Nat
    BY <1>0, EventTypes
  <2>2. Len(channel) \in Nat /\ Len(channel) > 0 /\ DOMAIN channel = 1..Len(channel)
        /\ event = channel[1]
        /\ DOMAIN channel' = 1..(Len(channel) - 1)
        /\ \A i \in DOMAIN channel' : channel'[i] = channel[i + 1]
    BY <1>0, <1>2 DEF ReceiveEvent, TypeOK
  <2>3. event.doc \in Docs /\ event.number \in Nat
        /\ \A e \in Docs : received'[e] = IF e = event.doc THEN event.number ELSE received[e]
    <3>1. event.doc \in Docs /\ event.number \in Nat
      BY <2>1, <2>2
    <3> QED BY <1>0, <1>2, <3>1 DEF ReceiveEvent, TypeOK
  <2>4. published' = published
    BY <1>2 DEF ReceiveEvent
  <2>5. \A i \in 1..Len(channel) : i > 1 /\ channel[i].doc = event.doc
            => channel[i].number > event.number
    BY <2>1, <2>2 DEF ChannelOK
  <2> HIDE DEF event
  <2>6. \A i \in DOMAIN channel' : i \in Nat /\ i + 1 \in DOMAIN channel /\ i + 1 > 1
    BY <2>2
  <2>7. ASSUME NEW i \in DOMAIN channel', NEW j \in DOMAIN channel', i < j,
               channel'[i].doc = channel'[j].doc
        PROVE  channel'[i].number < channel'[j].number
    <3>1. i + 1 < j + 1
      BY <2>6, <2>7
    <3> QED BY <2>2, <2>6, <2>7, <3>1 DEF ChannelOK
  <2>8. ASSUME NEW i \in DOMAIN channel'
        PROVE  /\ channel'[i].number <= published'[channel'[i].doc]
               /\ channel'[i].number > received'[channel'[i].doc]
    BY <2>1, <2>2, <2>3, <2>4, <2>5, <2>6 DEF ChannelOK
  <2>9. 1 \in DOMAIN channel
    BY <2>2
  <2>10. \A e \in Docs : received'[e] <= published'[e]
    BY <2>2, <2>3, <2>4, <2>9 DEF ChannelOK
  <2> QED BY <2>7, <2>8, <2>10 DEF ChannelOK
<1>3. CASE UNCHANGED <<channel, published, received>>
  BY <1>3 DEF ChannelOK
<1> QED
  BY <1>1, <1>2, <1>3
  DEF Next, Broadcasting, StartWrite, FinishWrite, EndBroadcast, Upgrade, Add, LeaveLoop, Delete,
      Stall, Disconnect, castVars, vars

LEMMA SeenStep == HubInv /\ OrderInv /\ [Next]_vars => SeenOK' /\ SeenInOrder'
<1> SUFFICES ASSUME HubInv, OrderInv, [Next]_vars PROVE SeenOK' /\ SeenInOrder'
  OBVIOUS
<1>0. TypeOK /\ SubscriptionsOK /\ BroadcastOK /\ SeenOK /\ SeenInOrder
  BY DEF HubInv, OrderInv
<1>a. /\ number \in Nat /\ \A d \in Docs : received[d] \in Nat
      /\ \A s \in Sockets : \A i \in DOMAIN seen[s] : seen[s][i] \in Nat
  BY <1>0, HubAssumption DEF TypeOK, Numbers
<1> USE DEF castVars, socketVars
<1>1. ASSUME NEW d \in Docs, PublishStatus(d) PROVE SeenOK' /\ SeenInOrder'
  BY <1>0, <1>1 DEF PublishStatus, SeenOK, SeenInOrder
<1>2. CASE ReceiveEvent
  <2> DEFINE event == Head(channel)
  <2>1. event.doc \in Docs /\ event.number \in Nat /\ event.number > received[event.doc]
    <3>1. event = channel[1] /\ 1 \in DOMAIN channel
      BY <1>0, <1>2 DEF ReceiveEvent, TypeOK
    <3>2. event.doc \in Docs /\ event.number \in Nat
      BY <1>0, <3>1, EventTypes
    <3> QED BY <3>1, <3>2 DEF OrderInv, ChannelOK
  <2>2. \A e \in Docs : received'[e] = IF e = event.doc THEN event.number ELSE received[e]
    BY <1>0, <1>2 DEF ReceiveEvent, TypeOK
  <2>3. seen' = seen /\ topic' = topic /\ writing' = writing /\ writing = NoSocket
        /\ current' = event.doc /\ number' = event.number /\ left' = clients[event.doc]
    BY <1>0, <1>2 DEF ReceiveEvent, MutexFree, TypeOK
  <2>4. \A s \in Sockets : s \in left' => topic[s] = event.doc
    BY <1>0, <2>1, <2>3 DEF SubscriptionsOK
  <2> HIDE DEF event
  <2>5. \A s \in Sockets : writing' # s
    BY <2>3, HubAssumption
  <2>6. \A s \in Sockets : \A i \in DOMAIN seen'[s] :
          /\ topic'[s] \in Docs
          /\ seen'[s][i] <= received'[topic'[s]]
          /\ s \in left' => seen'[s][i] < number'
    BY <1>0, <1>a, <2>1, <2>2, <2>3, <2>4 DEF SeenOK
  <2> QED BY <1>0, <2>1, <2>2, <2>3, <2>5, <2>6 DEF SeenOK, SeenInOrder
<1>3. ASSUME NEW s \in Sockets, StartWrite(s) PROVE SeenOK' /\ SeenInOrder'
  BY <1>0, <1>3 DEF StartWrite, SeenOK, SeenInOrder
<1>4. ASSUME NEW s \in Sockets, FinishWrite(s) PROVE SeenOK' /\ SeenInOrder'
  <2>1. writing = s /\ s \notin left /\ writing' = NoSocket /\ current # NoDoc /\ topic[s] = current
        /\ number = received[current] /\ current \in Docs
        /\ UNCHANGED <<current, number, left, received, topic>>
    BY <1>0, <1>4 DEF FinishWrite, BroadcastOK, SeenOK, TypeOK
  <2>2. CASE UNCHANGED seen
    BY <1>0, <2>1, <2>2, HubAssumption DEF SeenOK, SeenInOrder
  <2>3. CASE seen' = [seen EXCEPT ![s] = Append(@, number)]
    <3>1. seen[s] \in Seq(Numbers) /\ number \in Numbers
      BY <1>0 DEF TypeOK
    <3>2. seen'[s] = Append(seen[s], number) /\ \A t \in Sockets : t # s => seen'[t] = seen[t]
      BY <1>0, <2>3 DEF TypeOK
    <3>3. Len(seen[s]) \in Nat /\ DOMAIN seen[s] = 1..Len(seen[s])
          /\ DOMAIN seen'[s] = 1..(Len(seen[s]) + 1)
          /\ seen'[s][Len(seen[s]) + 1] = number
          /\ \A i \in DOMAIN seen[s] : seen'[s][i] = seen[s][i]
      BY <3>1, <3>2
    <3>4. \A i \in DOMAIN seen[s] : seen[s][i] < number
      BY <1>0, <2>1 DEF SeenOK
    <3>5. ASSUME NEW i \in DOMAIN seen'[s], NEW j \in DOMAIN seen'[s], i < j
          PROVE  seen'[s][i] < seen'[s][j]
      <4>1. i \in DOMAIN seen[s]
        BY <3>3, <3>5
      <4>2. CASE j \in DOMAIN seen[s]
        BY <1>0, <3>3, <3>5, <4>1, <4>2 DEF SeenInOrder
      <4>3. CASE j = Len(seen[s]) + 1
        BY <3>3, <3>4, <4>1, <4>3
      <4> QED BY <3>3, <4>2, <4>3
    <3>6. SeenInOrder'
      BY <1>0, <3>2, <3>5 DEF SeenInOrder
    <3> QED BY <1>0, <1>a, <2>1, <3>2, <3>3, <3>4, <3>6, HubAssumption DEF SeenOK
  <2> QED BY <1>4, <2>2, <2>3 DEF FinishWrite
<1>5. CASE EndBroadcast
  BY <1>0, <1>5, HubAssumption DEF EndBroadcast, SeenOK, SeenInOrder
<1>6. ASSUME NEW s \in Sockets, NEW d \in Docs, Upgrade(s, d) PROVE SeenOK' /\ SeenInOrder'
  <2>1. topic[s] = NoDoc /\ DOMAIN seen[s] = {}
    BY <1>0, <1>6, HubAssumption DEF Upgrade, SubscriptionsOK, SeenOK
  <2> QED BY <1>0, <1>6, <2>1 DEF Upgrade, SeenOK, SeenInOrder, TypeOK
<1>7. ASSUME NEW s \in Sockets, Add(s) PROVE SeenOK' /\ SeenInOrder'
  BY <1>0, <1>7 DEF Add, SeenOK, SeenInOrder
<1>8. ASSUME NEW s \in Sockets, LeaveLoop(s) PROVE SeenOK' /\ SeenInOrder'
  BY <1>0, <1>8 DEF LeaveLoop, SeenOK, SeenInOrder
<1>9. ASSUME NEW s \in Sockets, Delete(s) PROVE SeenOK' /\ SeenInOrder'
  BY <1>0, <1>9 DEF Delete, SeenOK, SeenInOrder
<1>10. ASSUME NEW s \in Sockets, Stall(s) \/ Disconnect(s) PROVE SeenOK' /\ SeenInOrder'
  BY <1>0, <1>10 DEF Stall, Disconnect, SeenOK, SeenInOrder
<1>11. CASE UNCHANGED vars
  BY <1>0, <1>11 DEF vars, SeenOK, SeenInOrder
<1> QED
  BY <1>1, <1>2, <1>3, <1>4, <1>5, <1>6, <1>7, <1>8, <1>9, <1>10, <1>11 DEF Next, Broadcasting

LEMMA OrderInvariant == Spec => []OrderInv
<1>1. HubInv /\ OrderInv /\ [Next]_vars => OrderInv'
  BY ChannelStep, SeenStep DEF OrderInv
<1> QED BY <1>1, HubInvariant, OrderInit, PTL DEF Spec

\* No browser sees an older status after a newer one, or the same event
\* twice, however many events, sockets and reconnections there are.
THEOREM HubOrder == Spec => []SeenInOrder
<1>1. OrderInv => SeenInOrder
  BY DEF OrderInv
<1> QED BY <1>1, OrderInvariant, PTL

-----------------------------------------------------------------------------
(* Currency. *)

\* SubscribersAreCurrent, also during a broadcast: it holds of the sockets the
\* broadcast has been at, and of those of other documents.
UpToDate(s) ==
    handler[s] = "subscribed" /\ peer[s] = "reading" /\ received[topic[s]] > since[s]
        => seen[s] # <<>> /\ seen[s][Len(seen[s])] = received[topic[s]]

CurrentInv == \A s \in Sockets : s \in left \/ writing = s \/ UpToDate(s)

LEMMA CurrentInit == Init => CurrentInv
  BY DEF Init, CurrentInv, UpToDate

LEMMA CurrentStep == HubInv /\ OrderInv /\ CurrentInv /\ [Next]_vars => CurrentInv'
<1> SUFFICES ASSUME HubInv, OrderInv, CurrentInv, [Next]_vars PROVE CurrentInv'
  OBVIOUS
<1>0. TypeOK /\ SubscriptionsOK /\ BroadcastOK /\ SeenOK
  BY DEF HubInv, OrderInv
<1> USE DEF castVars, socketVars
<1>1. ASSUME NEW d \in Docs, PublishStatus(d) PROVE CurrentInv'
  BY <1>1 DEF PublishStatus, CurrentInv, UpToDate
<1>2. CASE ReceiveEvent
  <2> DEFINE event == Head(channel)
  <2>1. event.doc \in Docs
    <3>1. event = channel[1] /\ 1 \in DOMAIN channel
      BY <1>0, <1>2 DEF ReceiveEvent, TypeOK
    <3> QED BY <1>0, <3>1, EventTypes
  <2>2. /\ left' = clients[event.doc] /\ left = {} /\ writing = NoSocket /\ writing' = NoSocket
        /\ received' = [received EXCEPT ![event.doc] = event.number]
        /\ UNCHANGED <<handler, topic, peer, seen, since>>
    BY <1>0, <1>2 DEF ReceiveEvent, MutexFree, TypeOK
  <2> HIDE DEF event
  <2>3. ASSUME NEW s \in Sockets, s \notin left' PROVE UpToDate(s)'
    <3>1. UpToDate(s)
      BY <2>2, HubAssumption DEF CurrentInv
    <3>2. CASE handler[s] = "subscribed"
      <4>1. topic[s] \in Docs /\ topic[s] # event.doc
        BY <1>0, <2>1, <2>2, <2>3, <3>2 DEF SubscriptionsOK, TypeOK
      <4>2. received'[topic[s]] = received[topic[s]]
        BY <1>0, <2>2, <4>1 DEF TypeOK
      <4> QED BY <2>2, <3>1, <4>2 DEF UpToDate
    <3>3. CASE handler[s] # "subscribed"
      BY <2>2, <3>3 DEF UpToDate
    <3> QED BY <3>2, <3>3
  <2> QED BY <2>3 DEF CurrentInv
<1>3. ASSUME NEW s \in Sockets, StartWrite(s) PROVE CurrentInv'
  BY <1>0, <1>3, HubAssumption DEF StartWrite, CurrentInv, UpToDate
<1>4. ASSUME NEW s \in Sockets, FinishWrite(s) PROVE CurrentInv'
  <2>1. writing = s /\ topic[s] = current /\ number = received[current]
        /\ UNCHANGED <<left, received, handler, topic, peer, since>>
    BY <1>0, <1>4 DEF FinishWrite, BroadcastOK, SeenOK
  <2>2. \A t \in Sockets : t # s => seen'[t] = seen[t]
    BY <1>0, <1>4 DEF FinishWrite, TypeOK
  <2>3. UpToDate(s)'
    <3>1. CASE peer[s] = "reading" /\ seen' = [seen EXCEPT ![s] = Append(@, number)]
      <4>1. seen[s] \in Seq(Numbers) /\ number \in Numbers /\ seen'[s] = Append(seen[s], number)
        BY <1>0, <3>1 DEF TypeOK
      <4>2. seen'[s] # <<>> /\ seen'[s][Len(seen'[s])] = number
        BY <4>1
      <4> QED BY <2>1, <4>2 DEF UpToDate
    <3>2. CASE peer[s] = "gone"
      BY <2>1, <3>2 DEF UpToDate
    <3> QED BY <1>4, <3>1, <3>2 DEF FinishWrite
  <2>4. ASSUME NEW t \in Sockets, t # s PROVE t \in left' \/ UpToDate(t)'
    BY <2>1, <2>2, <2>4 DEF CurrentInv, UpToDate
  <2> QED BY <2>3, <2>4 DEF CurrentInv
<1>5. CASE EndBroadcast
  BY <1>5 DEF EndBroadcast, CurrentInv, UpToDate
<1>6. ASSUME NEW s \in Sockets, NEW d \in Docs, Upgrade(s, d) PROVE CurrentInv'
  BY <1>0, <1>6 DEF Upgrade, CurrentInv, UpToDate, TypeOK
<1>7. ASSUME NEW s \in Sockets, Add(s) PROVE CurrentInv'
  <2>1. ~(received[topic[s]] > received[topic[s]])
    <3>1. received[topic[s]] \in Nat
      BY <1>0, <1>7, HubAssumption DEF Add, SubscriptionsOK, TypeOK, Numbers
    <3> QED BY <3>1
  <2>2. UpToDate(s)'
    BY <1>0, <1>7, <2>1 DEF Add, UpToDate, TypeOK
  <2>3. ASSUME NEW t \in Sockets, t # s PROVE UpToDate(t)' <=> UpToDate(t)
    BY <1>0, <1>7, <2>3 DEF Add, UpToDate, TypeOK
  <2> QED BY <1>7, <2>2, <2>3 DEF Add, CurrentInv
<1>8. ASSUME NEW s \in Sockets, LeaveLoop(s) PROVE CurrentInv'
  BY <1>0, <1>8 DEF LeaveLoop, CurrentInv, UpToDate, TypeOK
<1>9. ASSUME NEW s \in Sockets, Delete(s) PROVE CurrentInv'
  BY <1>0, <1>9 DEF Delete, CurrentInv, UpToDate, TypeOK
<1>10. ASSUME NEW s \in Sockets, Stall(s) \/ Disconnect(s) PROVE CurrentInv'
  <2>1. \A t \in Sockets : peer'[t] = "reading" => peer[t] = "reading"
    BY <1>0, <1>10 DEF Stall, Disconnect, TypeOK
  <2>2. UNCHANGED <<left, writing, handler, topic, received, since, seen>>
    BY <1>10 DEF Stall, Disconnect
  <2> QED BY <2>1, <2>2 DEF CurrentInv, UpToDate
<1>11. CASE UNCHANGED vars
  BY <1>11 DEF vars, CurrentInv, UpToDate
<1> QED
  BY <1>1, <1>2, <1>3, <1>4, <1>5, <1>6, <1>7, <1>8, <1>9, <1>10, <1>11 DEF Next, Broadcasting

\* A browser that stays connected and reads is never left behind by a
\* broadcast, however many other sockets break or are added meanwhile.
THEOREM HubCurrent == Spec => []SubscribersAreCurrent
<1>1. HubInv /\ CurrentInv => SubscribersAreCurrent
  BY HubAssumption DEF HubInv, TypeOK, CurrentInv, UpToDate, SubscribersAreCurrent, MutexFree
<1> QED BY <1>1, HubInvariant, OrderInvariant, CurrentInit, CurrentStep, PTL DEF Spec

-----------------------------------------------------------------------------
(* What a browser may expect. *)

Feed == INSTANCE StatusFeed WITH latest <- received

\* A broadcast goes to sockets that are in the hub, with an event from after
\* they were added; a socket that is not yet in the hub has seen nothing.
JoinedOK ==
    \A s \in Sockets :
        /\ s \in left \/ writing = s => handler[s] \in {"subscribed", "leaving"}
        /\ s \in left \/ writing = s => number > since[s]
        /\ topic[s] \in Docs => since[s] <= received[topic[s]]
        /\ handler[s] \in {"none", "upgraded"} => since[s] = 0 /\ seen[s] = <<>>

FeedInv == HubInv /\ OrderInv /\ JoinedOK

\* The listener takes an event that is newer than what it had of the document.
LEMMA NewerReceived ==
    ASSUME HubInv, OrderInv, ReceiveEvent
    PROVE  \E d \in Docs : \E n \in Nat :
              /\ n > received[d]
              /\ received' = [received EXCEPT ![d] = n]
              /\ current' = d /\ number' = n /\ left' = clients[d]
<1>1. Head(channel) = channel[1] /\ 1 \in DOMAIN channel
  BY DEF ReceiveEvent, HubInv, TypeOK
<1>2. Head(channel).doc \in Docs /\ Head(channel).number \in Nat
  BY <1>1, EventTypes DEF HubInv
<1>3. Head(channel).number > received[Head(channel).doc]
  BY <1>1 DEF OrderInv, ChannelOK
<1>4. /\ received' = [received EXCEPT ![Head(channel).doc] = Head(channel).number]
      /\ current' = Head(channel).doc /\ number' = Head(channel).number
      /\ left' = clients[Head(channel).doc]
  BY DEF ReceiveEvent
<1> QED BY <1>2, <1>3, <1>4

LEMMA JoinedStep == FeedInv /\ [Next]_vars => JoinedOK'
<1> SUFFICES ASSUME FeedInv, [Next]_vars PROVE JoinedOK'
  OBVIOUS
<1>0. HubInv /\ OrderInv /\ TypeOK /\ SubscriptionsOK /\ JoinedOK
  BY DEF FeedInv, HubInv
<1>a. \A d \in Docs : received[d] \in Nat
  BY <1>0, HubAssumption DEF TypeOK, Numbers
<1>b. \A s \in Sockets : since[s] \in Nat
  BY <1>0, HubAssumption DEF TypeOK, Numbers
<1> USE DEF castVars, socketVars
<1>1. ASSUME NEW d \in Docs, PublishStatus(d) PROVE JoinedOK'
  BY <1>0, <1>1 DEF PublishStatus, JoinedOK
<1>2. CASE ReceiveEvent
  <2>1. PICK d \in Docs : \E n \in Nat :
              /\ n > received[d]
              /\ received' = [received EXCEPT ![d] = n]
              /\ current' = d /\ number' = n /\ left' = clients[d]
    BY <1>0, <1>2, NewerReceived
  <2>2. PICK n \in Nat : /\ n > received[d]
                         /\ received' = [received EXCEPT ![d] = n]
                         /\ current' = d /\ number' = n /\ left' = clients[d]
    BY <2>1
  <2>3. writing = NoSocket /\ UNCHANGED <<writing, handler, topic, since, seen>>
    BY <1>0, <1>2 DEF ReceiveEvent, MutexFree, TypeOK
  <2>4. \A e \in Docs : received'[e] \in Nat /\ received'[e] >= received[e]
    BY <1>0, <1>a, <2>2 DEF TypeOK
  <2>5. ASSUME NEW s \in Sockets
        PROVE  /\ writing' # s
               /\ s \in left' => handler[s] \in {"subscribed", "leaving"} /\ topic[s] = d
    BY <1>0, <2>2, <2>3, HubAssumption DEF SubscriptionsOK
  <2>6. ASSUME NEW s \in Sockets, s \in left' PROVE number' > since'[s]
    <3>1. since[s] <= received[d]
      BY <1>0, <2>5, <2>6 DEF JoinedOK
    <3> QED BY <1>a, <1>b, <2>2, <2>3, <3>1
  <2>7. ASSUME NEW s \in Sockets, topic'[s] \in Docs PROVE since'[s] <= received'[topic'[s]]
    <3>1. since[s] <= received[topic[s]]
      BY <1>0, <2>3, <2>7 DEF JoinedOK
    <3> QED BY <1>a, <1>b, <2>3, <2>4, <2>7, <3>1
  <2> QED BY <1>0, <2>3, <2>5, <2>6, <2>7 DEF JoinedOK
<1>3. ASSUME NEW s \in Sockets, StartWrite(s) PROVE JoinedOK'
  BY <1>0, <1>3, HubAssumption DEF StartWrite, JoinedOK
<1>4. ASSUME NEW s \in Sockets, FinishWrite(s) PROVE JoinedOK'
  <2>1. handler[s] \in {"subscribed", "leaving"} /\ writing' = NoSocket
        /\ UNCHANGED <<number, left, received, handler, topic, since>>
        /\ \A t \in Sockets : t # s => seen'[t] = seen[t]
    BY <1>0, <1>4 DEF FinishWrite, JoinedOK, TypeOK
  <2> QED BY <1>0, <2>1, HubAssumption DEF JoinedOK
<1>5. CASE EndBroadcast
  BY <1>0, <1>5, HubAssumption DEF EndBroadcast, JoinedOK
<1>6. ASSUME NEW s \in Sockets, NEW d \in Docs, Upgrade(s, d) PROVE JoinedOK'
  BY <1>0, <1>a, <1>6 DEF Upgrade, JoinedOK, TypeOK
<1>7. ASSUME NEW s \in Sockets, Add(s) PROVE JoinedOK'
  <2>1. left = {} /\ writing = NoSocket
    BY <1>0, <1>7 DEF Add, MutexFree, TypeOK
  <2> QED BY <1>0, <1>a, <1>7, <2>1, HubAssumption DEF Add, JoinedOK, TypeOK
<1>8. ASSUME NEW s \in Sockets, LeaveLoop(s) PROVE JoinedOK'
  BY <1>0, <1>8 DEF LeaveLoop, JoinedOK, TypeOK
<1>9. ASSUME NEW s \in Sockets, Delete(s) PROVE JoinedOK'
  <2>1. left = {} /\ writing = NoSocket
    BY <1>0, <1>9 DEF Delete, MutexFree, TypeOK
  <2> QED BY <1>0, <1>9, <2>1, HubAssumption DEF Delete, JoinedOK, TypeOK
<1>10. ASSUME NEW s \in Sockets, Stall(s) \/ Disconnect(s) PROVE JoinedOK'
  BY <1>0, <1>10 DEF Stall, Disconnect, JoinedOK
<1>11. CASE UNCHANGED vars
  BY <1>0, <1>11 DEF vars, JoinedOK
<1> QED
  BY <1>1, <1>2, <1>3, <1>4, <1>5, <1>6, <1>7, <1>8, <1>9, <1>10, <1>11 DEF Next, Broadcasting

LEMMA FeedInvariant == Spec => []FeedInv
<1>1. Init => JoinedOK
  BY HubAssumption DEF Init, JoinedOK
<1> QED BY <1>1, HubInvariant, OrderInvariant, JoinedStep, PTL DEF Spec, FeedInv

LEMMA FeedStep == FeedInv /\ [Next]_vars => [Feed!Next]_(Feed!feedVars)
<1> SUFFICES ASSUME FeedInv, [Next]_vars
             PROVE  Feed!Next \/ UNCHANGED <<received, topic, since, seen>>
  BY DEF Feed!feedVars
<1>0. HubInv /\ OrderInv /\ TypeOK /\ SubscriptionsOK /\ BroadcastOK /\ SeenOK /\ JoinedOK
  BY DEF FeedInv, HubInv, OrderInv
<1> USE DEF castVars, socketVars
<1>1. CASE ReceiveEvent
  <2>1. PICK d \in Docs : \E n \in Nat : n > received[d] /\ received' = [received EXCEPT ![d] = n]
    BY <1>0, <1>1, NewerReceived
  <2>2. UNCHANGED <<topic, since, seen>>
    BY <1>1 DEF ReceiveEvent
  <2> QED BY <2>1, <2>2 DEF Feed!Next, Feed!Advance
<1>2. ASSUME NEW s \in Sockets, FinishWrite(s)
      PROVE  Feed!Next \/ UNCHANGED <<received, topic, since, seen>>
  <2>1. CASE UNCHANGED seen
    BY <1>2, <2>1 DEF FinishWrite
  <2>2. CASE seen' = [seen EXCEPT ![s] = Append(@, number)]
    <3>1. current \in Docs /\ topic[s] = current /\ number = received[current]
      BY <1>0, <1>2 DEF FinishWrite, BroadcastOK, SeenOK, TypeOK
    <3>2. number > since[s] /\ \A i \in DOMAIN seen[s] : seen[s][i] < number
      BY <1>0, <1>2 DEF FinishWrite, JoinedOK, SeenOK
    <3>3. Feed!Show(s)
      BY <1>2, <2>2, <3>1, <3>2 DEF FinishWrite, Feed!Show
    <3> QED BY <3>3 DEF Feed!Next
  <2> QED BY <1>2, <2>1, <2>2 DEF FinishWrite
<1>3. ASSUME NEW s \in Sockets, NEW d \in Docs, Upgrade(s, d) PROVE Feed!Next
  <2>1. Feed!Open(s, d)
    BY <1>0, <1>3 DEF Upgrade, SubscriptionsOK, Feed!Open
  <2> QED BY <2>1 DEF Feed!Next
<1>4. ASSUME NEW s \in Sockets, Add(s) PROVE Feed!Next
  <2>1. topic[s] \in Docs /\ seen[s] = <<>>
    BY <1>0, <1>4 DEF Add, SubscriptionsOK, TypeOK, JoinedOK
  <2>2. Feed!Join(s)
    BY <1>4, <2>1 DEF Add, Feed!Join
  <2> QED BY <2>2 DEF Feed!Next
<1>5. ASSUME NEW s \in Sockets,
             StartWrite(s) \/ LeaveLoop(s) \/ Delete(s) \/ Stall(s) \/ Disconnect(s)
      PROVE  UNCHANGED <<received, topic, since, seen>>
  BY <1>5 DEF StartWrite, LeaveLoop, Delete, Stall, Disconnect
<1>6. CASE (\E d \in Docs : PublishStatus(d)) \/ EndBroadcast \/ UNCHANGED vars
  BY <1>6 DEF PublishStatus, EndBroadcast, vars
<1> QED BY <1>1, <1>2, <1>3, <1>4, <1>5, <1>6 DEF Next, Broadcasting

\* Although a broadcast goes from socket to socket while events are published
\* and lost, sockets come and go and connections break, what a browser is shown
\* is the latest event of its document at that moment.
THEOREM HubImplementsFeed == Spec => Feed!Spec
<1>1. Init => Feed!Init
  BY DEF Init, Feed!Init
<1> QED BY <1>1, FeedInvariant, FeedStep, PTL DEF Spec, Feed!Spec
=============================================================================
