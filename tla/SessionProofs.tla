----------------------------- MODULE SessionProofs -----------------------------
(***************************************************************************)
(* Proofs about Session for any finite set of threads, any errors of the    *)
(* kernel's calls and any number of sends, with and without broadcasts.     *)
(***************************************************************************)
EXTENDS Session, SequenceTheorems, TLAPS

\* Where a thread is, and how it moves on, is expanded in every proof below.
USE DEF InDisconnect, InSend, InHandler, Idle, Handler, SendTo, DiscTo, Dequeue,
        sessionVars, serviceVars, historyVars

\* What one thread does in a step.
Step(t) == SendBegin(t) \/ BroadcastBegin(t) \/ Running(t) \/ Completion(t)

-------------------------------------------------------------------------------
(* Type correctness *)

\* The variables have their types, and the locks are free, in the initial state.
LEMMA InitType == Init => TypeOK
<1> SUFFICES ASSUME Init
             PROVE  TypeOK
  OBVIOUS
<1>1. sendQueue \in Seq(Nat) /\ sendBuffers \in Seq(Nat) /\ wire \in Seq(Nat)
  BY EmptySeq DEF Init
<1>2. \A t \in Threads : sessionLock # t /\ serviceLock # t
  BY ThreadsAssumption DEF Init
<1>3. \A t \in Threads : handlerPc[t] = "none"
  BY DEF Init
<1>4. QED
  BY <1>1, <1>2, <1>3 DEF Init, TypeOK, Events, HandlerPcs, SendPcs, DiscPcs

\* The threads are somewhere.
Pcs ==
    /\ handlerPc \in [Threads -> HandlerPcs]
    /\ sendPc \in [Threads -> SendPcs]
    /\ discPc \in [Threads -> DiscPcs]

\* As the types say.
LEMMA PcTypes == TypeOK => Pcs
BY DEF TypeOK, Pcs

\* Every step keeps the types, and what the two locks say.
LEMMA StepType ==
    ASSUME TypeOK, NEW t \in Threads, Step(t)
    PROVE  TypeOK'
<1>1. CASE SendBegin(t)
  BY <1>1 DEF SendBegin, TypeOK, Events, HandlerPcs, SendPcs, DiscPcs
<1>2. CASE BroadcastBegin(t)
  BY <1>2, ThreadsAssumption DEF BroadcastBegin, TypeOK, Events, HandlerPcs, SendPcs,
     DiscPcs
<1>3. CASE BroadcastEnd(t)
  BY <1>3, ThreadsAssumption DEF BroadcastEnd, TypeOK, Events, HandlerPcs, SendPcs,
     DiscPcs
<1>4. CASE SendCheck(t)
  BY <1>4 DEF SendCheck, TypeOK, Events, HandlerPcs, SendPcs, DiscPcs
<1>5. CASE SendQueue(t)
  BY <1>5 DEF SendQueue, TypeOK, Events, HandlerPcs, SendPcs, DiscPcs
<1>6. CASE RegisterSend(t)
  <2>1. UNCHANGED <<connected, sendRegistered, sendQueue, sessionLock, inService, serviceLock,
                    sends, pushed, wire, onConnected, onDisconnected>>
    BY <1>6 DEF RegisterSend
  <2>2. owner' \subseteq Events /\ pending' \subseteq Events /\ sendBuffers' \in Seq(Nat)
    BY <1>6 DEF RegisterSend, TypeOK, Events
  <2>3. /\ handlerPc' \in [Threads -> HandlerPcs] /\ sendPc' \in [Threads -> SendPcs]
        /\ discPc' \in [Threads -> DiscPcs]
        /\ \A u \in Threads : /\ handlerPc'[u] = "unlock" <=> handlerPc[u] = "unlock"
                              /\ handlerPc'[u] = "broadcast" <=> handlerPc[u] = "broadcast"
    <3>1. CASE connected
      BY <1>6, <3>1, PcTypes DEF RegisterSend, Pcs, HandlerPcs, SendPcs, DiscPcs
    <3>2. CASE ~connected
      BY <1>6, <3>2, PcTypes DEF RegisterSend, Pcs, HandlerPcs, SendPcs, DiscPcs
    <3>3. QED
      BY <3>1, <3>2 DEF TypeOK
  <2>4. connected' \in BOOLEAN /\ sendRegistered' \in BOOLEAN /\ inService' \in BOOLEAN
    BY <2>1, Zenon DEF TypeOK
  <2>5. /\ \A u \in Threads : sessionLock' = u <=> handlerPc'[u] = "unlock"
        /\ \A u \in Threads : serviceLock' = u <=> handlerPc'[u] = "broadcast"
    <3>1. sessionLock' = sessionLock /\ serviceLock' = serviceLock
      BY <2>1, Zenon
    <3>2. \A u \in Threads : /\ sessionLock = u <=> handlerPc[u] = "unlock"
                             /\ serviceLock = u <=> handlerPc[u] = "broadcast"
      BY DEF TypeOK
    <3>3. QED
      BY <2>3, <3>1, <3>2
  <2>6. QED
    BY <2>1, <2>2, <2>3, <2>4, <2>5 DEF TypeOK
<1>7. CASE DrainQueue(t)
  BY <1>7, EmptySeq, ConcatProperties DEF DrainQueue, TypeOK, Events, HandlerPcs,
     SendPcs, DiscPcs
<1>8. CASE WSASendAccepted(t)
  BY <1>8, ConcatProperties DEF WSASendAccepted, TypeOK, Events, HandlerPcs, SendPcs,
     DiscPcs
<1>9. CASE \E error \in SendErrors : WSASendFailed(t, error)
  BY <1>9 DEF WSASendFailed, TypeOK, Events, HandlerPcs, SendPcs, DiscPcs
<1>10. CASE SendFailed(t)
  BY <1>10, EmptySeq DEF SendFailed, TypeOK, Events, HandlerPcs, SendPcs, DiscPcs
<1>11. CASE DisconnectExchange(t)
  BY <1>11 DEF DisconnectExchange, TypeOK, Events, HandlerPcs, SendPcs, DiscPcs
<1>12. CASE DisconnectExAccepted(t)
  BY <1>12 DEF DisconnectExAccepted, TypeOK, Events, HandlerPcs, SendPcs, DiscPcs
<1>13. CASE DisconnectExFailed(t)
  BY <1>13 DEF DisconnectExFailed, TypeOK, Events, HandlerPcs, SendPcs, DiscPcs
<1>14. CASE ProcessConnect(t)
  BY <1>14 DEF ProcessConnect, TypeOK, Events, HandlerPcs, SendPcs, DiscPcs
<1>15. CASE AddSession(t)
  BY <1>15 DEF AddSession, TypeOK, Events, HandlerPcs, SendPcs, DiscPcs
<1>16. CASE OnConnectedBegin(t)
  BY <1>16 DEF OnConnectedBegin, TypeOK, Events, HandlerPcs, SendPcs, DiscPcs
<1>17. CASE OnConnectedEnd(t)
  BY <1>17 DEF OnConnectedEnd, TypeOK, Events, HandlerPcs, SendPcs, DiscPcs
<1>18. CASE RegisterRecv(t)
  <2>1. UNCHANGED <<connected, sendRegistered, sendQueue, sessionLock, inService, serviceLock,
                    sends, pushed, wire, onConnected, onDisconnected>>
    BY <1>18 DEF RegisterRecv
  <2>2. owner' \subseteq Events /\ pending' \subseteq Events /\ sendBuffers' \in Seq(Nat)
    BY <1>18 DEF RegisterRecv, TypeOK, Events
  <2>3. /\ handlerPc' \in [Threads -> HandlerPcs] /\ sendPc' \in [Threads -> SendPcs]
        /\ discPc' \in [Threads -> DiscPcs]
        /\ \A u \in Threads : /\ handlerPc'[u] = "unlock" <=> handlerPc[u] = "unlock"
                              /\ handlerPc'[u] = "broadcast" <=> handlerPc[u] = "broadcast"
    <3>1. CASE connected
      BY <1>18, <3>1, PcTypes DEF RegisterRecv, Pcs, HandlerPcs, SendPcs, DiscPcs
    <3>2. CASE ~connected
      BY <1>18, <3>2, PcTypes DEF RegisterRecv, Pcs, HandlerPcs, SendPcs, DiscPcs
    <3>3. QED
      BY <3>1, <3>2 DEF TypeOK
  <2>4. connected' \in BOOLEAN /\ sendRegistered' \in BOOLEAN /\ inService' \in BOOLEAN
    BY <2>1, Zenon DEF TypeOK
  <2>5. /\ \A u \in Threads : sessionLock' = u <=> handlerPc'[u] = "unlock"
        /\ \A u \in Threads : serviceLock' = u <=> handlerPc'[u] = "broadcast"
    <3>1. sessionLock' = sessionLock /\ serviceLock' = serviceLock
      BY <2>1, Zenon
    <3>2. \A u \in Threads : /\ sessionLock = u <=> handlerPc[u] = "unlock"
                             /\ serviceLock = u <=> handlerPc[u] = "broadcast"
      BY DEF TypeOK
    <3>3. QED
      BY <2>3, <3>1, <3>2
  <2>6. QED
    BY <2>1, <2>2, <2>3, <2>4, <2>5 DEF TypeOK
<1>19. CASE WSARecvAccepted(t)
  BY <1>19 DEF WSARecvAccepted, TypeOK, Events, HandlerPcs, SendPcs, DiscPcs
<1>20. CASE \E error \in SendErrors : WSARecvFailed(t, error)
  BY <1>20 DEF WSARecvFailed, TypeOK, Events, HandlerPcs, SendPcs, DiscPcs
<1>21. CASE RecvFailed(t)
  BY <1>21 DEF RecvFailed, TypeOK, Events, HandlerPcs, SendPcs, DiscPcs
<1>22. CASE OnRecvEnd(t)
  BY <1>22 DEF OnRecvEnd, TypeOK, Events, HandlerPcs, SendPcs, DiscPcs
<1>23. CASE OnRecvBad(t)
  BY <1>23 DEF OnRecvBad, TypeOK, Events, HandlerPcs, SendPcs, DiscPcs
<1>24. ASSUME NEW bytes \in {0, 1}, ProcessRecv(t, bytes)
       PROVE  TypeOK'
  <2>1. UNCHANGED <<connected, sendRegistered, sendQueue, sessionLock, inService, serviceLock,
                    sends, pushed, wire, onConnected, onDisconnected>>
    BY <1>24 DEF ProcessRecv
  <2>2. owner' \subseteq Events /\ pending' \subseteq Events /\ sendBuffers' \in Seq(Nat)
    BY <1>24 DEF ProcessRecv, TypeOK, Events
  <2>3. /\ handlerPc' \in [Threads -> HandlerPcs] /\ sendPc' \in [Threads -> SendPcs]
        /\ discPc' \in [Threads -> DiscPcs]
        /\ \A u \in Threads : /\ handlerPc'[u] = "unlock" <=> handlerPc[u] = "unlock"
                              /\ handlerPc'[u] = "broadcast" <=> handlerPc[u] = "broadcast"
    <3>1. CASE bytes = 0
      BY <1>24, <3>1, PcTypes DEF ProcessRecv, Pcs, HandlerPcs, SendPcs, DiscPcs
    <3>2. CASE bytes # 0
      BY <1>24, <3>2, PcTypes DEF ProcessRecv, Pcs, HandlerPcs, SendPcs, DiscPcs
    <3>3. QED
      BY <3>1, <3>2
  <2>4. connected' \in BOOLEAN /\ sendRegistered' \in BOOLEAN /\ inService' \in BOOLEAN
    BY <2>1, Zenon DEF TypeOK
  <2>5. /\ \A u \in Threads : sessionLock' = u <=> handlerPc'[u] = "unlock"
        /\ \A u \in Threads : serviceLock' = u <=> handlerPc'[u] = "broadcast"
    <3>1. sessionLock' = sessionLock /\ serviceLock' = serviceLock
      BY <2>1, Zenon
    <3>2. \A u \in Threads : /\ sessionLock = u <=> handlerPc[u] = "unlock"
                             /\ serviceLock = u <=> handlerPc[u] = "broadcast"
      BY DEF TypeOK
    <3>3. QED
      BY <2>3, <3>1, <3>2
  <2>6. QED
    BY <2>1, <2>2, <2>3, <2>4, <2>5 DEF TypeOK
<1>25. ASSUME NEW bytes \in {0, 1}, ProcessSend(t, bytes)
       PROVE  TypeOK'
  <2>1. UNCHANGED <<connected, sendRegistered, sendQueue, sessionLock, inService, serviceLock,
                    sends, pushed, wire, onConnected, onDisconnected>>
    BY <1>25 DEF ProcessSend
  <2>2. owner' \subseteq Events /\ pending' \subseteq Events /\ sendBuffers' \in Seq(Nat)
    BY <1>25, EmptySeq DEF ProcessSend, TypeOK, Events
  <2>3. /\ handlerPc' \in [Threads -> HandlerPcs] /\ sendPc' \in [Threads -> SendPcs]
        /\ discPc' \in [Threads -> DiscPcs]
        /\ \A u \in Threads : /\ handlerPc'[u] = "unlock" <=> handlerPc[u] = "unlock"
                              /\ handlerPc'[u] = "broadcast" <=> handlerPc[u] = "broadcast"
    <3>1. CASE bytes = 0
      BY <1>25, <3>1, PcTypes DEF ProcessSend, Pcs, HandlerPcs, SendPcs, DiscPcs
    <3>2. CASE bytes # 0
      BY <1>25, <3>2, PcTypes DEF ProcessSend, Pcs, HandlerPcs, SendPcs, DiscPcs
    <3>3. QED
      BY <3>1, <3>2
  <2>4. connected' \in BOOLEAN /\ sendRegistered' \in BOOLEAN /\ inService' \in BOOLEAN
    BY <2>1, Zenon DEF TypeOK
  <2>5. /\ \A u \in Threads : sessionLock' = u <=> handlerPc'[u] = "unlock"
        /\ \A u \in Threads : serviceLock' = u <=> handlerPc'[u] = "broadcast"
    <3>1. sessionLock' = sessionLock /\ serviceLock' = serviceLock
      BY <2>1, Zenon
    <3>2. \A u \in Threads : /\ sessionLock = u <=> handlerPc[u] = "unlock"
                             /\ serviceLock = u <=> handlerPc[u] = "broadcast"
      BY DEF TypeOK
    <3>3. QED
      BY <2>3, <3>1, <3>2
  <2>6. QED
    BY <2>1, <2>2, <2>3, <2>4, <2>5 DEF TypeOK
<1>26. CASE SendDoneEmpty(t)
  BY <1>26 DEF SendDoneEmpty, TypeOK, Events, HandlerPcs, SendPcs, DiscPcs
<1>27. CASE SendDoneMore(t)
  BY <1>27, ThreadsAssumption DEF SendDoneMore, TypeOK, Events, HandlerPcs, SendPcs,
     DiscPcs
<1>28. CASE Unlock(t)
  BY <1>28, ThreadsAssumption DEF Unlock, TypeOK, Events, HandlerPcs, SendPcs, DiscPcs
<1>29. CASE ProcessDisconnect(t)
  BY <1>29 DEF ProcessDisconnect, TypeOK, Events, HandlerPcs, SendPcs, DiscPcs
<1>30. CASE OnDisconnectedEnd(t)
  BY <1>30 DEF OnDisconnectedEnd, TypeOK, Events, HandlerPcs, SendPcs, DiscPcs
<1>31. CASE ReleaseSession(t)
  BY <1>31 DEF ReleaseSession, TypeOK, Events, HandlerPcs, SendPcs, DiscPcs
<1>32. QED
  BY <1>1, <1>2, <1>3, <1>4, <1>5, <1>6, <1>7, <1>8, <1>9, <1>10, <1>11, <1>12, <1>13,
     <1>14, <1>15, <1>16, <1>17, <1>18, <1>19, <1>20, <1>21, <1>22, <1>23, <1>24, <1>25,
     <1>26, <1>27, <1>28, <1>29, <1>30, <1>31 DEF Step, Running, SendStep, DisconnectStep,
     HandlerStep, Completion

-------------------------------------------------------------------------------
(* The inductive invariant *)

\* A call of RegisterSend or Disconnect is made from the places that call them.
Frames == \A t \in Threads :
    /\ sendPc[t] # "none" =>
           handlerPc[t] \in {"none", "onConnected", "onRecv", "unlock", "broadcast"}
    /\ discPc[t] # "none" =>
           \/ sendPc[t] = "failed"
           \/ sendPc[t] = "none" /\ handlerPc[t] \in {"none", "recvFailed"}

\* The connection is not established, or nobody has heard of it yet.
Opening == "connect" \in pending \/ \E t \in Threads : handlerPc[t] = "addSession"

\* Until the session is in the service there is nothing but its connection.
Alone ==
    /\ Opening =>
           /\ pending \subseteq {"connect"} /\ ~inService
           /\ onConnected = "no" /\ onDisconnected = "no"
           /\ ~sendRegistered /\ sendQueue = <<>>
           /\ \A t \in Threads : /\ handlerPc[t] \in {"none", "addSession"}
                                 /\ sendPc[t] = "none" /\ discPc[t] = "none"
    /\ "connect" \in pending => ~connected
    /\ ~Opening /\ onDisconnected # "done" => inService

\* The right to register a receive passes from the connection to the receive that
\* is under way, to the worker in its handler and on to the next receive.
HoldsRecv(t) == handlerPc[t] \in
    {"addSession", "enter", "onConnected", "registerRecv", "wsaRecv", "recvFailed", "onRecv"}

OneReceiver ==
    /\ \A t, u \in Threads : HoldsRecv(t) /\ HoldsRecv(u) => t = u
    /\ \A t \in Threads : HoldsRecv(t) => "recv" \notin pending /\ "connect" \notin pending
    /\ \A t \in Threads : handlerPc[t] = "wsaRecv" => "recv" \in owner

\* How far OnConnected is shows in the handler that calls it.
Greeting ==
    /\ onConnected = "no" =>
           \/ "connect" \in pending
           \/ \E t \in Threads : handlerPc[t] \in {"addSession", "enter"}
    /\ onConnected = "in" => \E t \in Threads : handlerPc[t] = "onConnected"
    /\ \A t \in Threads :
           /\ handlerPc[t] \in {"addSession", "enter"} => onConnected = "no"
           /\ handlerPc[t] = "onConnected" => onConnected = "in"

\* _sendRegistered is the right to use _sendEvent: who has it found messages, or
\* took them, and the buffers of the event are empty until then.
SendRight ==
    /\ SendExclusive
    /\ ~sendRegistered => sendBuffers = <<>>
    /\ "send" \in pending => sendBuffers # <<>>
    /\ \A t \in Threads :
           /\ sendPc[t] \in {"register", "drain"} => sendQueue # <<>> /\ sendBuffers = <<>>
           /\ sendPc[t] = "wsaSend" => sendBuffers # <<>>
           /\ sendPc[t] \in {"drain", "wsaSend"} => "send" \in owner
           /\ handlerPc[t] = "sendDone" => sendBuffers = <<>>

\* Setting _connected to false is the right to disconnect.
HoldsClose(t) == discPc[t] = "disconnectEx" \/ handlerPc[t] \in {"onDisconnected", "release"}

CloseOnce ==
    /\ \A t, u \in Threads : HoldsClose(t) /\ HoldsClose(u) => t = u
    /\ \A t \in Threads :
           /\ HoldsClose(t) => ~connected /\ "disconnect" \notin pending
           /\ discPc[t] = "disconnectEx" => onDisconnected = "no"
           /\ handlerPc[t] = "onDisconnected" => onDisconnected = "in"
           /\ handlerPc[t] = "release" => onDisconnected = "done"
    /\ "disconnect" \in pending => ~connected /\ onDisconnected = "no"
    /\ onDisconnected # "no" => ~connected

\* The wire, the buffers about to be sent and the queue hold the messages in the
\* order of their pushes.
Increasing(s) == \A i, k \in DOMAIN s : i < k => s[i] < s[k]
Below(s, r) == \A i \in DOMAIN s, k \in DOMAIN r : s[i] < r[k]
UpTo(s, n) == \A i \in DOMAIN s : s[i] <= n

PushOrder ==
    /\ Increasing(wire) /\ UpTo(wire, pushed)
    /\ Increasing(sendQueue) /\ UpTo(sendQueue, pushed)
    /\ Below(wire, sendQueue)
    /\ \A t \in Threads : sendPc[t] = "wsaSend" =>
           /\ Increasing(sendBuffers) /\ UpTo(sendBuffers, pushed)
           /\ Below(wire, sendBuffers) /\ Below(sendBuffers, sendQueue)

\* What every reachable state has: the conjuncts need one another to be preserved.
IInv ==
    /\ TypeOK
    /\ Frames
    /\ Alone
    /\ OneReceiver
    /\ Greeting
    /\ SendRight
    /\ CloseOnce
    /\ PushOrder
    /\ pending \subseteq owner
    /\ ReleaseInService

\* Without broadcasts nobody closes the session, or sends on it, before OnConnected.
GreetFirst ==
    onConnected = "no" =>
        /\ \A t \in Threads : sendPc[t] = "none" /\ discPc[t] = "none"
        /\ pending \subseteq {"connect"}
        /\ \A t \in Threads : handlerPc[t] \in {"none", "addSession", "enter"}
        /\ connected <=> "connect" \notin pending

\* What keeps a message from being stranded when WSASend fails with a reset only.
SendAlive ==
    connected =>
        /\ \A t \in Threads : sendPc[t] = "failed" => WillDisconnect(t)
        /\ \/ \E t \in Threads : WillDisconnect(t)
           \/ /\ sendQueue # <<>> => sendRegistered
              /\ sendRegistered => "send" \in pending \/ \E t \in Threads : HoldsSend(t)

-------------------------------------------------------------------------------
(* Every step keeps every part of the invariant *)

\* RegisterSend and Disconnect are called from where they are called.
LEMMA FramesStep ==
    ASSUME IInv, NEW t \in Threads, Step(t)
    PROVE  Frames'
<1>1. CASE SendBegin(t) \/ BroadcastBegin(t) \/ BroadcastEnd(t)
  BY <1>1, PcTypes DEF SendBegin, BroadcastBegin, BroadcastEnd, IInv, Pcs, Frames
<1>2. CASE SendCheck(t) \/ SendQueue(t) \/ RegisterSend(t) \/ DrainQueue(t) \/
           WSASendAccepted(t) \/ (\E error \in SendErrors : WSASendFailed(t, error)) \/
           SendFailed(t)
  BY <1>2, PcTypes DEF SendCheck, SendQueue, RegisterSend, DrainQueue, WSASendAccepted,
     WSASendFailed, SendFailed, IInv, Pcs, Frames
<1>3. CASE DisconnectExchange(t) \/ DisconnectExAccepted(t) \/ DisconnectExFailed(t)
  BY <1>3, PcTypes DEF DisconnectExchange, DisconnectExAccepted, DisconnectExFailed,
     IInv, Pcs, Frames
<1>4. CASE ProcessConnect(t) \/ AddSession(t) \/ OnConnectedBegin(t) \/ OnConnectedEnd(t)
  BY <1>4, PcTypes DEF ProcessConnect, AddSession, OnConnectedBegin, OnConnectedEnd,
     IInv, Pcs, Frames
<1>5. CASE RegisterRecv(t)
  BY <1>5, PcTypes DEF RegisterRecv, IInv, Pcs, Frames
<1>6. CASE WSARecvAccepted(t)
  BY <1>6, PcTypes DEF WSARecvAccepted, IInv, Pcs, Frames
<1>7. CASE \E error \in SendErrors : WSARecvFailed(t, error)
  BY <1>7, PcTypes DEF WSARecvFailed, IInv, Pcs, Frames
<1>8. CASE RecvFailed(t)
  BY <1>8, PcTypes DEF RecvFailed, IInv, Pcs, Frames
<1>9. CASE OnRecvEnd(t)
  BY <1>9, PcTypes DEF OnRecvEnd, IInv, Pcs, Frames
<1>10. CASE OnRecvBad(t)
  BY <1>10, PcTypes DEF OnRecvBad, IInv, Pcs, Frames
<1>11. ASSUME NEW bytes \in {0, 1}, ProcessRecv(t, bytes)
       PROVE  Frames'
  <2>1. CASE bytes = 0
    BY <1>11, <2>1, PcTypes DEF ProcessRecv, IInv, Pcs, Frames
  <2>2. CASE bytes # 0
    BY <1>11, <2>2, PcTypes DEF ProcessRecv, IInv, Pcs, Frames
  <2>3. QED
    BY <2>1, <2>2
<1>12. ASSUME NEW bytes \in {0, 1}, ProcessSend(t, bytes)
       PROVE  Frames'
  <2>1. CASE bytes = 0
    BY <1>12, <2>1, PcTypes DEF ProcessSend, IInv, Pcs, Frames
  <2>2. CASE bytes # 0
    BY <1>12, <2>2, PcTypes DEF ProcessSend, IInv, Pcs, Frames
  <2>3. QED
    BY <2>1, <2>2
<1>13. CASE SendDoneEmpty(t)
  BY <1>13, PcTypes DEF SendDoneEmpty, IInv, Pcs, Frames
<1>14. CASE SendDoneMore(t)
  BY <1>14, PcTypes DEF SendDoneMore, IInv, Pcs, Frames
<1>15. CASE Unlock(t)
  BY <1>15, PcTypes DEF Unlock, IInv, Pcs, Frames
<1>16. CASE ProcessDisconnect(t)
  BY <1>16, PcTypes DEF ProcessDisconnect, IInv, Pcs, Frames
<1>17. CASE OnDisconnectedEnd(t)
  BY <1>17, PcTypes DEF OnDisconnectedEnd, IInv, Pcs, Frames
<1>18. CASE ReleaseSession(t)
  BY <1>18, PcTypes DEF ReleaseSession, IInv, Pcs, Frames
<1>19. QED
  BY <1>1, <1>2, <1>3, <1>4, <1>5, <1>6, <1>7, <1>8, <1>9, <1>10, <1>11, <1>12, <1>13,
     <1>14, <1>15, <1>16, <1>17, <1>18 DEF Step, Running, SendStep, DisconnectStep,
     HandlerStep, Completion

\* Nothing happens before the session is in the service but its connection.
LEMMA AloneStep ==
    ASSUME IInv, NEW t \in Threads, Step(t)
    PROVE  Alone'
<1>1. CASE SendBegin(t) \/ BroadcastBegin(t) \/ BroadcastEnd(t)
  BY <1>1, PcTypes DEF SendBegin, BroadcastBegin, BroadcastEnd, IInv, Pcs, Alone,
     Opening, CloseOnce, OneReceiver, HoldsRecv, HoldsClose
<1>2. CASE SendCheck(t) \/ SendQueue(t) \/ RegisterSend(t) \/ DrainQueue(t) \/
           WSASendAccepted(t) \/ (\E error \in SendErrors : WSASendFailed(t, error)) \/
           SendFailed(t)
  BY <1>2, PcTypes DEF SendCheck, SendQueue, RegisterSend, DrainQueue, WSASendAccepted,
     WSASendFailed, SendFailed, IInv, Pcs, Alone, Opening, CloseOnce, OneReceiver,
     HoldsRecv, HoldsClose
<1>3. CASE DisconnectExchange(t) \/ DisconnectExAccepted(t) \/ DisconnectExFailed(t)
  BY <1>3, PcTypes DEF DisconnectExchange, DisconnectExAccepted, DisconnectExFailed,
     IInv, Pcs, Alone, Opening, CloseOnce, OneReceiver, HoldsRecv, HoldsClose
<1>4. CASE ProcessConnect(t)
  BY <1>4, PcTypes DEF ProcessConnect, IInv, Pcs, Alone, Opening, CloseOnce, OneReceiver,
     HoldsRecv, HoldsClose
<1>5. CASE AddSession(t)
  BY <1>5, PcTypes DEF AddSession, IInv, Pcs, Alone, Opening, CloseOnce, OneReceiver,
     HoldsRecv, HoldsClose
<1>6. CASE OnConnectedBegin(t)
  BY <1>6, PcTypes DEF OnConnectedBegin, IInv, Pcs, Alone, Opening, CloseOnce,
     OneReceiver, HoldsRecv, HoldsClose
<1>7. CASE OnConnectedEnd(t)
  BY <1>7, PcTypes DEF OnConnectedEnd, IInv, Pcs, Alone, Opening, CloseOnce, OneReceiver,
     HoldsRecv, HoldsClose
<1>8. CASE RegisterRecv(t) \/ WSARecvAccepted(t) \/ (\E error \in SendErrors :
           WSARecvFailed(t, error)) \/ RecvFailed(t) \/ OnRecvEnd(t) \/ OnRecvBad(t)
  BY <1>8, PcTypes DEF RegisterRecv, WSARecvAccepted, WSARecvFailed, RecvFailed,
     OnRecvEnd, OnRecvBad, IInv, Pcs, Alone, Opening, CloseOnce, OneReceiver, HoldsRecv,
     HoldsClose
<1>9. ASSUME NEW bytes \in {0, 1}, ProcessRecv(t, bytes)
      PROVE  Alone'
  <2>1. CASE bytes = 0
    BY <1>9, <2>1, PcTypes DEF ProcessRecv, IInv, Pcs, Alone, Opening, CloseOnce,
       OneReceiver, HoldsRecv, HoldsClose
  <2>2. CASE bytes # 0
    BY <1>9, <2>2, PcTypes DEF ProcessRecv, IInv, Pcs, Alone, Opening, CloseOnce,
       OneReceiver, HoldsRecv, HoldsClose
  <2>3. QED
    BY <2>1, <2>2
<1>10. ASSUME NEW bytes \in {0, 1}, ProcessSend(t, bytes)
       PROVE  Alone'
  <2>1. CASE bytes = 0
    BY <1>10, <2>1, PcTypes DEF ProcessSend, IInv, Pcs, Alone, Opening, CloseOnce,
       OneReceiver, HoldsRecv, HoldsClose
  <2>2. CASE bytes # 0
    BY <1>10, <2>2, PcTypes DEF ProcessSend, IInv, Pcs, Alone, Opening, CloseOnce,
       OneReceiver, HoldsRecv, HoldsClose
  <2>3. QED
    BY <2>1, <2>2
<1>11. CASE SendDoneEmpty(t) \/ SendDoneMore(t) \/ Unlock(t)
  BY <1>11, PcTypes DEF SendDoneEmpty, SendDoneMore, Unlock, IInv, Pcs, Alone, Opening,
     CloseOnce, OneReceiver, HoldsRecv, HoldsClose
<1>12. CASE ProcessDisconnect(t) \/ OnDisconnectedEnd(t) \/ ReleaseSession(t)
  BY <1>12, PcTypes DEF ProcessDisconnect, OnDisconnectedEnd, ReleaseSession, IInv, Pcs,
     Alone, Opening, CloseOnce, OneReceiver, HoldsRecv, HoldsClose
<1>13. QED
  BY <1>1, <1>2, <1>3, <1>4, <1>5, <1>6, <1>7, <1>8, <1>9, <1>10, <1>11, <1>12 DEF Step,
     Running, SendStep, DisconnectStep, HandlerStep, Completion

\* The right to receive is handed on, given up, and never doubled.
LEMMA OneReceiverStep ==
    ASSUME IInv, NEW t \in Threads, Step(t)
    PROVE  OneReceiver'
<1>1. CASE SendBegin(t) \/ BroadcastBegin(t) \/ BroadcastEnd(t)
  BY <1>1, PcTypes DEF SendBegin, BroadcastBegin, BroadcastEnd, IInv, Pcs, OneReceiver,
     HoldsRecv, Alone, Opening
<1>2. CASE SendCheck(t) \/ SendQueue(t) \/ RegisterSend(t) \/ DrainQueue(t) \/
           WSASendAccepted(t) \/ (\E error \in SendErrors : WSASendFailed(t, error)) \/
           SendFailed(t)
  BY <1>2, PcTypes DEF SendCheck, SendQueue, RegisterSend, DrainQueue, WSASendAccepted,
     WSASendFailed, SendFailed, IInv, Pcs, OneReceiver, HoldsRecv, Alone, Opening
<1>3. CASE DisconnectExchange(t) \/ DisconnectExAccepted(t) \/ DisconnectExFailed(t)
  BY <1>3, PcTypes DEF DisconnectExchange, DisconnectExAccepted, DisconnectExFailed,
     IInv, Pcs, OneReceiver, HoldsRecv, Alone, Opening
<1>4. CASE ProcessConnect(t)
  BY <1>4, PcTypes DEF ProcessConnect, IInv, Pcs, OneReceiver, HoldsRecv, Alone, Opening
<1>5. CASE AddSession(t)
  BY <1>5, PcTypes DEF AddSession, IInv, Pcs, OneReceiver, HoldsRecv, Alone, Opening
<1>6. CASE OnConnectedBegin(t)
  BY <1>6, PcTypes DEF OnConnectedBegin, IInv, Pcs, OneReceiver, HoldsRecv, Alone,
     Opening
<1>7. CASE OnConnectedEnd(t)
  BY <1>7, PcTypes DEF OnConnectedEnd, IInv, Pcs, OneReceiver, HoldsRecv, Alone, Opening
<1>8. CASE RegisterRecv(t)
  BY <1>8, PcTypes DEF RegisterRecv, IInv, Pcs, OneReceiver, HoldsRecv, Alone, Opening
<1>9. CASE WSARecvAccepted(t)
  BY <1>9, PcTypes DEF WSARecvAccepted, IInv, Pcs, OneReceiver, HoldsRecv, Alone, Opening
<1>10. CASE \E error \in SendErrors : WSARecvFailed(t, error)
  BY <1>10, PcTypes DEF WSARecvFailed, IInv, Pcs, OneReceiver, HoldsRecv, Alone, Opening
<1>11. CASE RecvFailed(t)
  BY <1>11, PcTypes DEF RecvFailed, IInv, Pcs, OneReceiver, HoldsRecv, Alone, Opening
<1>12. CASE OnRecvEnd(t)
  BY <1>12, PcTypes DEF OnRecvEnd, IInv, Pcs, OneReceiver, HoldsRecv, Alone, Opening
<1>13. CASE OnRecvBad(t)
  BY <1>13, PcTypes DEF OnRecvBad, IInv, Pcs, OneReceiver, HoldsRecv, Alone, Opening
<1>14. ASSUME NEW bytes \in {0, 1}, ProcessRecv(t, bytes)
       PROVE  OneReceiver'
  <2>1. CASE bytes = 0
    BY <1>14, <2>1, PcTypes DEF ProcessRecv, IInv, Pcs, OneReceiver, HoldsRecv, Alone,
       Opening
  <2>2. CASE bytes # 0
    BY <1>14, <2>2, PcTypes DEF ProcessRecv, IInv, Pcs, OneReceiver, HoldsRecv, Alone,
       Opening
  <2>3. QED
    BY <2>1, <2>2
<1>15. ASSUME NEW bytes \in {0, 1}, ProcessSend(t, bytes)
       PROVE  OneReceiver'
  <2>1. CASE bytes = 0
    BY <1>15, <2>1, PcTypes DEF ProcessSend, IInv, Pcs, OneReceiver, HoldsRecv, Alone,
       Opening
  <2>2. CASE bytes # 0
    BY <1>15, <2>2, PcTypes DEF ProcessSend, IInv, Pcs, OneReceiver, HoldsRecv, Alone,
       Opening
  <2>3. QED
    BY <2>1, <2>2
<1>16. CASE SendDoneEmpty(t)
  BY <1>16, PcTypes DEF SendDoneEmpty, IInv, Pcs, OneReceiver, HoldsRecv, Alone, Opening
<1>17. CASE SendDoneMore(t)
  BY <1>17, PcTypes DEF SendDoneMore, IInv, Pcs, OneReceiver, HoldsRecv, Alone, Opening
<1>18. CASE Unlock(t)
  BY <1>18, PcTypes DEF Unlock, IInv, Pcs, OneReceiver, HoldsRecv, Alone, Opening
<1>19. CASE ProcessDisconnect(t)
  BY <1>19, PcTypes DEF ProcessDisconnect, IInv, Pcs, OneReceiver, HoldsRecv, Alone,
     Opening
<1>20. CASE OnDisconnectedEnd(t)
  BY <1>20, PcTypes DEF OnDisconnectedEnd, IInv, Pcs, OneReceiver, HoldsRecv, Alone,
     Opening
<1>21. CASE ReleaseSession(t)
  BY <1>21, PcTypes DEF ReleaseSession, IInv, Pcs, OneReceiver, HoldsRecv, Alone, Opening
<1>22. QED
  BY <1>1, <1>2, <1>3, <1>4, <1>5, <1>6, <1>7, <1>8, <1>9, <1>10, <1>11, <1>12, <1>13,
     <1>14, <1>15, <1>16, <1>17, <1>18, <1>19, <1>20, <1>21 DEF Step, Running, SendStep,
     DisconnectStep, HandlerStep, Completion

\* OnConnected is called by the worker that connected the session.
LEMMA GreetingStep ==
    ASSUME IInv, NEW t \in Threads, Step(t)
    PROVE  Greeting'
<1>1. CASE SendBegin(t) \/ BroadcastBegin(t) \/ BroadcastEnd(t)
  BY <1>1, PcTypes DEF SendBegin, BroadcastBegin, BroadcastEnd, IInv, Pcs, Greeting,
     OneReceiver, HoldsRecv, Alone, Opening
<1>2. CASE SendCheck(t) \/ SendQueue(t) \/ RegisterSend(t) \/ DrainQueue(t) \/
           WSASendAccepted(t) \/ (\E error \in SendErrors : WSASendFailed(t, error)) \/
           SendFailed(t)
  BY <1>2, PcTypes DEF SendCheck, SendQueue, RegisterSend, DrainQueue, WSASendAccepted,
     WSASendFailed, SendFailed, IInv, Pcs, Greeting, OneReceiver, HoldsRecv, Alone, Opening
<1>3. CASE DisconnectExchange(t) \/ DisconnectExAccepted(t) \/ DisconnectExFailed(t)
  BY <1>3, PcTypes DEF DisconnectExchange, DisconnectExAccepted, DisconnectExFailed,
     IInv, Pcs, Greeting, OneReceiver, HoldsRecv, Alone, Opening
<1>4. CASE ProcessConnect(t)
  BY <1>4, PcTypes DEF ProcessConnect, IInv, Pcs, Greeting, OneReceiver, HoldsRecv,
     Alone, Opening
<1>5. CASE AddSession(t)
  BY <1>5, PcTypes DEF AddSession, IInv, Pcs, Greeting, OneReceiver, HoldsRecv, Alone,
     Opening
<1>6. CASE OnConnectedBegin(t)
  BY <1>6, PcTypes DEF OnConnectedBegin, IInv, Pcs, Greeting, OneReceiver, HoldsRecv,
     Alone, Opening
<1>7. CASE OnConnectedEnd(t)
  BY <1>7, PcTypes DEF OnConnectedEnd, IInv, Pcs, Greeting, OneReceiver, HoldsRecv,
     Alone, Opening
<1>8. CASE RegisterRecv(t)
  BY <1>8, PcTypes DEF RegisterRecv, IInv, Pcs, Greeting, OneReceiver, HoldsRecv, Alone,
     Opening
<1>9. CASE WSARecvAccepted(t)
  BY <1>9, PcTypes DEF WSARecvAccepted, IInv, Pcs, Greeting, OneReceiver, HoldsRecv,
     Alone, Opening
<1>10. CASE \E error \in SendErrors : WSARecvFailed(t, error)
  BY <1>10, PcTypes DEF WSARecvFailed, IInv, Pcs, Greeting, OneReceiver, HoldsRecv,
     Alone, Opening
<1>11. CASE RecvFailed(t)
  BY <1>11, PcTypes DEF RecvFailed, IInv, Pcs, Greeting, OneReceiver, HoldsRecv, Alone,
     Opening
<1>12. CASE OnRecvEnd(t)
  BY <1>12, PcTypes DEF OnRecvEnd, IInv, Pcs, Greeting, OneReceiver, HoldsRecv, Alone,
     Opening
<1>13. CASE OnRecvBad(t)
  BY <1>13, PcTypes DEF OnRecvBad, IInv, Pcs, Greeting, OneReceiver, HoldsRecv, Alone,
     Opening
<1>14. ASSUME NEW bytes \in {0, 1}, ProcessRecv(t, bytes)
       PROVE  Greeting'
  <2>1. CASE bytes = 0
    BY <1>14, <2>1, PcTypes DEF ProcessRecv, IInv, Pcs, Greeting, OneReceiver, HoldsRecv,
       Alone, Opening
  <2>2. CASE bytes # 0
    BY <1>14, <2>2, PcTypes DEF ProcessRecv, IInv, Pcs, Greeting, OneReceiver, HoldsRecv,
       Alone, Opening
  <2>3. QED
    BY <2>1, <2>2
<1>15. ASSUME NEW bytes \in {0, 1}, ProcessSend(t, bytes)
       PROVE  Greeting'
  <2>1. CASE bytes = 0
    BY <1>15, <2>1, PcTypes DEF ProcessSend, IInv, Pcs, Greeting, OneReceiver, HoldsRecv,
       Alone, Opening
  <2>2. CASE bytes # 0
    BY <1>15, <2>2, PcTypes DEF ProcessSend, IInv, Pcs, Greeting, OneReceiver, HoldsRecv,
       Alone, Opening
  <2>3. QED
    BY <2>1, <2>2
<1>16. CASE SendDoneEmpty(t) \/ SendDoneMore(t) \/ Unlock(t)
  BY <1>16, PcTypes DEF SendDoneEmpty, SendDoneMore, Unlock, IInv, Pcs, Greeting,
     OneReceiver, HoldsRecv, Alone, Opening
<1>17. CASE ProcessDisconnect(t) \/ OnDisconnectedEnd(t) \/ ReleaseSession(t)
  BY <1>17, PcTypes DEF ProcessDisconnect, OnDisconnectedEnd, ReleaseSession, IInv, Pcs,
     Greeting, OneReceiver, HoldsRecv, Alone, Opening
<1>18. QED
  BY <1>1, <1>2, <1>3, <1>4, <1>5, <1>6, <1>7, <1>8, <1>9, <1>10, <1>11, <1>12, <1>13,
     <1>14, <1>15, <1>16, <1>17 DEF Step, Running, SendStep, DisconnectStep, HandlerStep,
     Completion

\* Who sets _connected to false is the only one to disconnect.
LEMMA CloseOnceStep ==
    ASSUME IInv, NEW t \in Threads, Step(t)
    PROVE  CloseOnce'
<1>1. CASE SendBegin(t) \/ BroadcastBegin(t) \/ BroadcastEnd(t)
  BY <1>1, PcTypes DEF SendBegin, BroadcastBegin, BroadcastEnd, IInv, Pcs, CloseOnce,
     HoldsClose, Alone, Opening
<1>2. CASE SendCheck(t) \/ SendQueue(t) \/ RegisterSend(t) \/ DrainQueue(t) \/
           WSASendAccepted(t)
  BY <1>2, PcTypes DEF SendCheck, SendQueue, RegisterSend, DrainQueue, WSASendAccepted,
     IInv, Pcs, CloseOnce, HoldsClose, Alone, Opening
<1>3. CASE \E error \in SendErrors : WSASendFailed(t, error)
  BY <1>3, PcTypes DEF WSASendFailed, IInv, Pcs, CloseOnce, HoldsClose, Alone, Opening
<1>4. CASE SendFailed(t)
  BY <1>4, PcTypes DEF SendFailed, IInv, Pcs, CloseOnce, HoldsClose, Alone, Opening
<1>5. CASE DisconnectExchange(t)
  BY <1>5, PcTypes DEF DisconnectExchange, IInv, Pcs, CloseOnce, HoldsClose, Alone,
     Opening
<1>6. CASE DisconnectExAccepted(t)
  BY <1>6, PcTypes DEF DisconnectExAccepted, IInv, Pcs, CloseOnce, HoldsClose, Alone,
     Opening
<1>7. CASE DisconnectExFailed(t)
  BY <1>7, PcTypes DEF DisconnectExFailed, IInv, Pcs, CloseOnce, HoldsClose, Alone,
     Opening
<1>8. CASE ProcessConnect(t)
  BY <1>8, PcTypes DEF ProcessConnect, IInv, Pcs, CloseOnce, HoldsClose, Alone, Opening
<1>9. CASE AddSession(t)
  BY <1>9, PcTypes DEF AddSession, IInv, Pcs, CloseOnce, HoldsClose, Alone, Opening
<1>10. CASE OnConnectedBegin(t)
  BY <1>10, PcTypes DEF OnConnectedBegin, IInv, Pcs, CloseOnce, HoldsClose, Alone,
     Opening
<1>11. CASE OnConnectedEnd(t)
  BY <1>11, PcTypes DEF OnConnectedEnd, IInv, Pcs, CloseOnce, HoldsClose, Alone, Opening
<1>12. CASE RegisterRecv(t)
  BY <1>12, PcTypes DEF RegisterRecv, IInv, Pcs, CloseOnce, HoldsClose, Alone, Opening
<1>13. CASE WSARecvAccepted(t)
  BY <1>13, PcTypes DEF WSARecvAccepted, IInv, Pcs, CloseOnce, HoldsClose, Alone, Opening
<1>14. CASE \E error \in SendErrors : WSARecvFailed(t, error)
  BY <1>14, PcTypes DEF WSARecvFailed, IInv, Pcs, CloseOnce, HoldsClose, Alone, Opening
<1>15. CASE RecvFailed(t)
  BY <1>15, PcTypes DEF RecvFailed, IInv, Pcs, CloseOnce, HoldsClose, Alone, Opening
<1>16. CASE OnRecvEnd(t)
  BY <1>16, PcTypes DEF OnRecvEnd, IInv, Pcs, CloseOnce, HoldsClose, Alone, Opening
<1>17. CASE OnRecvBad(t)
  BY <1>17, PcTypes DEF OnRecvBad, IInv, Pcs, CloseOnce, HoldsClose, Alone, Opening
<1>18. ASSUME NEW bytes \in {0, 1}, ProcessRecv(t, bytes)
       PROVE  CloseOnce'
  <2>1. CASE bytes = 0
    BY <1>18, <2>1, PcTypes DEF ProcessRecv, IInv, Pcs, CloseOnce, HoldsClose, Alone,
       Opening
  <2>2. CASE bytes # 0
    BY <1>18, <2>2, PcTypes DEF ProcessRecv, IInv, Pcs, CloseOnce, HoldsClose, Alone,
       Opening
  <2>3. QED
    BY <2>1, <2>2
<1>19. ASSUME NEW bytes \in {0, 1}, ProcessSend(t, bytes)
       PROVE  CloseOnce'
  <2>1. CASE bytes = 0
    BY <1>19, <2>1, PcTypes DEF ProcessSend, IInv, Pcs, CloseOnce, HoldsClose, Alone,
       Opening
  <2>2. CASE bytes # 0
    BY <1>19, <2>2, PcTypes DEF ProcessSend, IInv, Pcs, CloseOnce, HoldsClose, Alone,
       Opening
  <2>3. QED
    BY <2>1, <2>2
<1>20. CASE SendDoneEmpty(t)
  BY <1>20, PcTypes DEF SendDoneEmpty, IInv, Pcs, CloseOnce, HoldsClose, Alone, Opening
<1>21. CASE SendDoneMore(t)
  BY <1>21, PcTypes DEF SendDoneMore, IInv, Pcs, CloseOnce, HoldsClose, Alone, Opening
<1>22. CASE Unlock(t)
  BY <1>22, PcTypes DEF Unlock, IInv, Pcs, CloseOnce, HoldsClose, Alone, Opening
<1>23. CASE ProcessDisconnect(t)
  BY <1>23, PcTypes DEF ProcessDisconnect, IInv, Pcs, CloseOnce, HoldsClose, Alone,
     Opening
<1>24. CASE OnDisconnectedEnd(t)
  BY <1>24, PcTypes DEF OnDisconnectedEnd, IInv, Pcs, CloseOnce, HoldsClose, Alone,
     Opening
<1>25. CASE ReleaseSession(t)
  BY <1>25, PcTypes DEF ReleaseSession, IInv, Pcs, CloseOnce, HoldsClose, Alone, Opening
<1>26. QED
  BY <1>1, <1>2, <1>3, <1>4, <1>5, <1>6, <1>7, <1>8, <1>9, <1>10, <1>11, <1>12, <1>13,
     <1>14, <1>15, <1>16, <1>17, <1>18, <1>19, <1>20, <1>21, <1>22, <1>23, <1>24, <1>25 DEF
     Step, Running, SendStep, DisconnectStep, HandlerStep, Completion

\* An event gets its owner before the kernel, and loses it after.
LEMMA OwnedStep ==
    ASSUME IInv, NEW t \in Threads, Step(t)
    PROVE  pending' \subseteq owner'
<1>1. CASE SendBegin(t) \/ BroadcastBegin(t) \/ BroadcastEnd(t)
  BY <1>1, PcTypes DEF SendBegin, BroadcastBegin, BroadcastEnd, IInv, Pcs, OneReceiver,
     HoldsRecv, SendRight, SendExclusive, HoldsSend, CloseOnce, HoldsClose
<1>2. CASE SendCheck(t) \/ SendQueue(t) \/ RegisterSend(t) \/ DrainQueue(t) \/
           WSASendAccepted(t) \/ (\E error \in SendErrors : WSASendFailed(t, error))
  BY <1>2, PcTypes DEF SendCheck, SendQueue, RegisterSend, DrainQueue, WSASendAccepted,
     WSASendFailed, IInv, Pcs, OneReceiver, HoldsRecv, SendRight, SendExclusive, HoldsSend,
     CloseOnce, HoldsClose
<1>3. CASE SendFailed(t)
  BY <1>3, PcTypes DEF SendFailed, IInv, Pcs, OneReceiver, HoldsRecv, SendRight,
     SendExclusive, HoldsSend, CloseOnce, HoldsClose
<1>4. CASE DisconnectExchange(t) \/ DisconnectExAccepted(t)
  BY <1>4, PcTypes DEF DisconnectExchange, DisconnectExAccepted, IInv, Pcs, OneReceiver,
     HoldsRecv, SendRight, SendExclusive, HoldsSend, CloseOnce, HoldsClose
<1>5. CASE DisconnectExFailed(t)
  BY <1>5, PcTypes DEF DisconnectExFailed, IInv, Pcs, OneReceiver, HoldsRecv, SendRight,
     SendExclusive, HoldsSend, CloseOnce, HoldsClose
<1>6. CASE ProcessConnect(t) \/ AddSession(t) \/ OnConnectedBegin(t) \/ OnConnectedEnd(t)
  BY <1>6, PcTypes DEF ProcessConnect, AddSession, OnConnectedBegin, OnConnectedEnd,
     IInv, Pcs, OneReceiver, HoldsRecv, SendRight, SendExclusive, HoldsSend, CloseOnce,
     HoldsClose
<1>7. CASE RegisterRecv(t) \/ WSARecvAccepted(t) \/ (\E error \in SendErrors :
           WSARecvFailed(t, error)) \/ OnRecvEnd(t) \/ OnRecvBad(t)
  BY <1>7, PcTypes DEF RegisterRecv, WSARecvAccepted, WSARecvFailed, OnRecvEnd,
     OnRecvBad, IInv, Pcs, OneReceiver, HoldsRecv, SendRight, SendExclusive, HoldsSend,
     CloseOnce, HoldsClose
<1>8. CASE RecvFailed(t)
  BY <1>8, PcTypes DEF RecvFailed, IInv, Pcs, OneReceiver, HoldsRecv, SendRight,
     SendExclusive, HoldsSend, CloseOnce, HoldsClose
<1>9. ASSUME NEW bytes \in {0, 1}, ProcessRecv(t, bytes)
      PROVE  pending' \subseteq owner'
  <2>1. CASE bytes = 0
    BY <1>9, <2>1, PcTypes DEF ProcessRecv, IInv, Pcs, OneReceiver, HoldsRecv, SendRight,
       SendExclusive, HoldsSend, CloseOnce, HoldsClose
  <2>2. CASE bytes # 0
    BY <1>9, <2>2, PcTypes DEF ProcessRecv, IInv, Pcs, OneReceiver, HoldsRecv, SendRight,
       SendExclusive, HoldsSend, CloseOnce, HoldsClose
  <2>3. QED
    BY <2>1, <2>2
<1>10. ASSUME NEW bytes \in {0, 1}, ProcessSend(t, bytes)
       PROVE  pending' \subseteq owner'
  <2>1. CASE bytes = 0
    BY <1>10, <2>1, PcTypes DEF ProcessSend, IInv, Pcs, OneReceiver, HoldsRecv,
       SendRight, SendExclusive, HoldsSend, CloseOnce, HoldsClose
  <2>2. CASE bytes # 0
    BY <1>10, <2>2, PcTypes DEF ProcessSend, IInv, Pcs, OneReceiver, HoldsRecv,
       SendRight, SendExclusive, HoldsSend, CloseOnce, HoldsClose
  <2>3. QED
    BY <2>1, <2>2
<1>11. CASE SendDoneEmpty(t) \/ SendDoneMore(t) \/ Unlock(t)
  BY <1>11, PcTypes DEF SendDoneEmpty, SendDoneMore, Unlock, IInv, Pcs, OneReceiver,
     HoldsRecv, SendRight, SendExclusive, HoldsSend, CloseOnce, HoldsClose
<1>12. CASE ProcessDisconnect(t) \/ OnDisconnectedEnd(t) \/ ReleaseSession(t)
  BY <1>12, PcTypes DEF ProcessDisconnect, OnDisconnectedEnd, ReleaseSession, IInv, Pcs,
     OneReceiver, HoldsRecv, SendRight, SendExclusive, HoldsSend, CloseOnce, HoldsClose
<1>13. QED
  BY <1>1, <1>2, <1>3, <1>4, <1>5, <1>6, <1>7, <1>8, <1>9, <1>10, <1>11, <1>12 DEF Step,
     Running, SendStep, DisconnectStep, HandlerStep, Completion

\* Only the worker in ReleaseSession takes the session out of the service.
LEMMA ReleaseStep ==
    ASSUME IInv, NEW t \in Threads, Step(t)
    PROVE  ReleaseInService'
<1>1. CASE SendBegin(t) \/ BroadcastBegin(t) \/ BroadcastEnd(t)
  BY <1>1, PcTypes DEF SendBegin, BroadcastBegin, BroadcastEnd, IInv, Pcs,
     ReleaseInService, CloseOnce, HoldsClose, Alone, Opening
<1>2. CASE SendCheck(t) \/ SendQueue(t) \/ RegisterSend(t) \/ DrainQueue(t) \/
           WSASendAccepted(t) \/ (\E error \in SendErrors : WSASendFailed(t, error)) \/
           SendFailed(t)
  BY <1>2, PcTypes DEF SendCheck, SendQueue, RegisterSend, DrainQueue, WSASendAccepted,
     WSASendFailed, SendFailed, IInv, Pcs, ReleaseInService, CloseOnce, HoldsClose, Alone,
     Opening
<1>3. CASE DisconnectExchange(t) \/ DisconnectExAccepted(t) \/ DisconnectExFailed(t)
  BY <1>3, PcTypes DEF DisconnectExchange, DisconnectExAccepted, DisconnectExFailed,
     IInv, Pcs, ReleaseInService, CloseOnce, HoldsClose, Alone, Opening
<1>4. CASE ProcessConnect(t) \/ AddSession(t) \/ OnConnectedBegin(t) \/ OnConnectedEnd(t)
  BY <1>4, PcTypes DEF ProcessConnect, AddSession, OnConnectedBegin, OnConnectedEnd,
     IInv, Pcs, ReleaseInService, CloseOnce, HoldsClose, Alone, Opening
<1>5. CASE RegisterRecv(t) \/ WSARecvAccepted(t) \/ (\E error \in SendErrors :
           WSARecvFailed(t, error)) \/ RecvFailed(t) \/ OnRecvEnd(t) \/ OnRecvBad(t)
  BY <1>5, PcTypes DEF RegisterRecv, WSARecvAccepted, WSARecvFailed, RecvFailed,
     OnRecvEnd, OnRecvBad, IInv, Pcs, ReleaseInService, CloseOnce, HoldsClose, Alone,
     Opening
<1>6. ASSUME NEW bytes \in {0, 1}, ProcessRecv(t, bytes)
      PROVE  ReleaseInService'
  <2>1. CASE bytes = 0
    BY <1>6, <2>1, PcTypes DEF ProcessRecv, IInv, Pcs, ReleaseInService, CloseOnce,
       HoldsClose, Alone, Opening
  <2>2. CASE bytes # 0
    BY <1>6, <2>2, PcTypes DEF ProcessRecv, IInv, Pcs, ReleaseInService, CloseOnce,
       HoldsClose, Alone, Opening
  <2>3. QED
    BY <2>1, <2>2
<1>7. ASSUME NEW bytes \in {0, 1}, ProcessSend(t, bytes)
      PROVE  ReleaseInService'
  <2>1. CASE bytes = 0
    BY <1>7, <2>1, PcTypes DEF ProcessSend, IInv, Pcs, ReleaseInService, CloseOnce,
       HoldsClose, Alone, Opening
  <2>2. CASE bytes # 0
    BY <1>7, <2>2, PcTypes DEF ProcessSend, IInv, Pcs, ReleaseInService, CloseOnce,
       HoldsClose, Alone, Opening
  <2>3. QED
    BY <2>1, <2>2
<1>8. CASE SendDoneEmpty(t) \/ SendDoneMore(t) \/ Unlock(t)
  BY <1>8, PcTypes DEF SendDoneEmpty, SendDoneMore, Unlock, IInv, Pcs, ReleaseInService,
     CloseOnce, HoldsClose, Alone, Opening
<1>9. CASE ProcessDisconnect(t)
  BY <1>9, PcTypes DEF ProcessDisconnect, IInv, Pcs, ReleaseInService, CloseOnce,
     HoldsClose, Alone, Opening
<1>10. CASE OnDisconnectedEnd(t)
  BY <1>10, PcTypes DEF OnDisconnectedEnd, IInv, Pcs, ReleaseInService, CloseOnce,
     HoldsClose, Alone, Opening
<1>11. CASE ReleaseSession(t)
  BY <1>11, PcTypes DEF ReleaseSession, IInv, Pcs, ReleaseInService, CloseOnce,
     HoldsClose, Alone, Opening
<1>12. QED
  BY <1>1, <1>2, <1>3, <1>4, <1>5, <1>6, <1>7, <1>8, <1>9, <1>10, <1>11 DEF Step,
     Running, SendStep, DisconnectStep, HandlerStep, Completion

\* The right to send is handed on, given up, and never doubled.
LEMMA SendRightStep ==
    ASSUME IInv, NEW t \in Threads, Step(t)
    PROVE  SendRight'
<1>1. CASE SendBegin(t) \/ BroadcastBegin(t) \/ BroadcastEnd(t)
  BY <1>1, PcTypes DEF SendBegin, BroadcastBegin, BroadcastEnd, IInv, Pcs, SendRight,
     SendExclusive, HoldsSend, Frames
<1>2. CASE SendCheck(t)
  BY <1>2, PcTypes DEF SendCheck, IInv, Pcs, SendRight, SendExclusive, HoldsSend, Frames
<1>3. CASE SendQueue(t)
  <2>1. sendQueue' # <<>>
    <3>1. sendQueue' = Append(sendQueue, pushed + 1)
      BY <1>3 DEF SendQueue
    <3>2. sendQueue \in Seq(Nat) /\ pushed + 1 \in Nat
      BY DEF IInv, TypeOK
    <3>3. QED
      BY <3>1, <3>2, AppendProperties
  <2>2. sendRegistered' /\ UNCHANGED <<sendBuffers, pending, owner, handlerPc>>
    BY <1>3 DEF SendQueue
  <2>3. SendExclusive'
    BY <1>3, <2>2 DEF SendQueue, IInv, TypeOK, SendRight, SendExclusive, HoldsSend
  <2>4. \A u \in Threads :
            /\ sendPc'[u] = "register" => sendPc[u] = "register" \/ ~sendRegistered
            /\ sendPc'[u] \in {"drain", "wsaSend"} => sendPc'[u] = sendPc[u]
    BY <1>3 DEF SendQueue, IInv, TypeOK
  <2>5. QED
    BY <2>1, <2>2, <2>3, <2>4 DEF IInv, SendRight
<1>4. CASE RegisterSend(t)
  BY <1>4, PcTypes DEF RegisterSend, IInv, Pcs, SendRight, SendExclusive, HoldsSend,
     Frames
<1>5. CASE DrainQueue(t)
  <2>1. sendQueue # <<>> /\ sendBuffers = <<>>
    BY <1>5 DEF DrainQueue, IInv, SendRight
  <2>2. sendBuffers' # <<>>
    BY <1>5, <2>1, ConcatEmptySeq DEF DrainQueue, IInv, TypeOK
  <2>3. UNCHANGED <<sendRegistered, pending, owner, handlerPc>>
    BY <1>5 DEF DrainQueue
  <2>4. SendExclusive' /\ sendRegistered /\ "send" \notin pending
    BY <1>5, <2>3 DEF DrainQueue, IInv, TypeOK, SendRight, SendExclusive, HoldsSend
  <2>5. \A u \in Threads :
            /\ sendPc'[u] \in {"register", "drain", "wsaSend"} => u = t
            /\ handlerPc[u] = "sendDone" => u = t
    BY <1>5 DEF DrainQueue, IInv, TypeOK, SendRight, SendExclusive, HoldsSend
  <2>6. sendPc'[t] = "wsaSend" /\ "send" \in owner /\ handlerPc[t] # "sendDone"
    BY <1>5 DEF DrainQueue, IInv, TypeOK, SendRight, Frames
  <2>7. QED
    BY <2>2, <2>3, <2>4, <2>5, <2>6 DEF SendRight
<1>6. CASE WSASendAccepted(t)
  BY <1>6, PcTypes DEF WSASendAccepted, IInv, Pcs, SendRight, SendExclusive, HoldsSend,
     Frames
<1>7. CASE \E error \in SendErrors : WSASendFailed(t, error)
  BY <1>7, PcTypes DEF WSASendFailed, IInv, Pcs, SendRight, SendExclusive, HoldsSend,
     Frames
<1>8. CASE SendFailed(t)
  BY <1>8, PcTypes DEF SendFailed, IInv, Pcs, SendRight, SendExclusive, HoldsSend, Frames
<1>9. CASE DisconnectExchange(t) \/ DisconnectExAccepted(t) \/ DisconnectExFailed(t)
  BY <1>9, PcTypes DEF DisconnectExchange, DisconnectExAccepted, DisconnectExFailed,
     IInv, Pcs, SendRight, SendExclusive, HoldsSend, Frames
<1>10. CASE ProcessConnect(t) \/ AddSession(t) \/ OnConnectedBegin(t) \/ OnConnectedEnd(t)
  BY <1>10, PcTypes DEF ProcessConnect, AddSession, OnConnectedBegin, OnConnectedEnd,
     IInv, Pcs, SendRight, SendExclusive, HoldsSend, Frames
<1>11. CASE RegisterRecv(t) \/ WSARecvAccepted(t) \/ (\E error \in SendErrors :
            WSARecvFailed(t, error)) \/ RecvFailed(t) \/ OnRecvEnd(t) \/ OnRecvBad(t)
  BY <1>11, PcTypes DEF RegisterRecv, WSARecvAccepted, WSARecvFailed, RecvFailed,
     OnRecvEnd, OnRecvBad, IInv, Pcs, SendRight, SendExclusive, HoldsSend, Frames
<1>12. ASSUME NEW bytes \in {0, 1}, ProcessRecv(t, bytes)
       PROVE  SendRight'
  <2>1. CASE bytes = 0
    BY <1>12, <2>1, PcTypes DEF ProcessRecv, IInv, Pcs, SendRight, SendExclusive,
       HoldsSend, Frames
  <2>2. CASE bytes # 0
    BY <1>12, <2>2, PcTypes DEF ProcessRecv, IInv, Pcs, SendRight, SendExclusive,
       HoldsSend, Frames
  <2>3. QED
    BY <2>1, <2>2
<1>13. ASSUME NEW bytes \in {0, 1}, ProcessSend(t, bytes)
       PROVE  SendRight'
  <2>1. CASE bytes = 0
    BY <1>13, <2>1, PcTypes DEF ProcessSend, IInv, Pcs, SendRight, SendExclusive,
       HoldsSend, Frames
  <2>2. CASE bytes # 0
    BY <1>13, <2>2, PcTypes DEF ProcessSend, IInv, Pcs, SendRight, SendExclusive,
       HoldsSend, Frames
  <2>3. QED
    BY <2>1, <2>2
<1>14. CASE SendDoneEmpty(t)
  BY <1>14, PcTypes DEF SendDoneEmpty, IInv, Pcs, SendRight, SendExclusive, HoldsSend,
     Frames
<1>15. CASE SendDoneMore(t)
  BY <1>15, PcTypes DEF SendDoneMore, IInv, Pcs, SendRight, SendExclusive, HoldsSend,
     Frames
<1>16. CASE Unlock(t)
  BY <1>16, PcTypes DEF Unlock, IInv, Pcs, SendRight, SendExclusive, HoldsSend, Frames
<1>17. CASE ProcessDisconnect(t) \/ OnDisconnectedEnd(t) \/ ReleaseSession(t)
  BY <1>17, PcTypes DEF ProcessDisconnect, OnDisconnectedEnd, ReleaseSession, IInv, Pcs,
     SendRight, SendExclusive, HoldsSend, Frames
<1>18. QED
  BY <1>1, <1>2, <1>3, <1>4, <1>5, <1>6, <1>7, <1>8, <1>9, <1>10, <1>11, <1>12, <1>13,
     <1>14, <1>15, <1>16, <1>17 DEF Step, Running, SendStep, DisconnectStep, HandlerStep,
     Completion

\* A larger number may be appended to increasing ones.
LEMMA AppendOrder ==
    ASSUME NEW s \in Seq(Nat), NEW n \in Nat, Increasing(s), UpTo(s, n)
    PROVE  /\ Append(s, n + 1) \in Seq(Nat)
           /\ Increasing(Append(s, n + 1)) /\ UpTo(Append(s, n + 1), n + 1)
           /\ \A r \in Seq(Nat) : Below(r, s) /\ UpTo(r, n) => Below(r, Append(s, n + 1))
<1> DEFINE a == Append(s, n + 1)
<1>1. /\ a \in Seq(Nat) /\ Len(s) \in Nat
      /\ DOMAIN a = 1 .. Len(s) + 1 /\ DOMAIN s = 1 .. Len(s)
      /\ a[Len(s) + 1] = n + 1 /\ \A i \in 1 .. Len(s) : a[i] = s[i] /\ s[i] \in Nat
  BY AppendProperties, LenProperties, ElementOfSeq
<1> HIDE DEF a
<1>2. Increasing(a) /\ UpTo(a, n + 1)
  <2>1. \A i \in DOMAIN s : a[i] = s[i] /\ s[i] <= n /\ s[i] \in Nat
    BY <1>1 DEF UpTo
  <2>2. \A i \in DOMAIN a : i \in DOMAIN s \/ (i = Len(s) + 1 /\ a[i] = n + 1)
    BY <1>1
  <2>3. \A i, k \in DOMAIN a : i < k => i \in DOMAIN s
    BY <1>1
  <2>4. UpTo(a, n + 1)
    BY <2>1, <2>2 DEF UpTo
  <2>5. Increasing(a)
    <3> SUFFICES ASSUME NEW i \in DOMAIN a, NEW k \in DOMAIN a, i < k
                 PROVE  a[i] < a[k]
      BY DEF Increasing
    <3>1. CASE k \in DOMAIN s
      BY <2>1, <2>3, <3>1 DEF Increasing
    <3>2. CASE a[k] = n + 1
      BY <2>1, <2>3, <3>2
    <3>3. QED
      BY <2>2, <3>1, <3>2
  <2>6. QED
    BY <2>4, <2>5
<1>3. ASSUME NEW r \in Seq(Nat), Below(r, s), UpTo(r, n)
      PROVE  Below(r, a)
  <2>1. \A i \in DOMAIN r : r[i] \in Nat
    BY LenProperties, ElementOfSeq
  <2>2. ASSUME NEW i \in DOMAIN r, NEW k \in DOMAIN a
        PROVE  r[i] < a[k]
    <3>1. CASE k \in DOMAIN s
      BY <1>1, <1>3, <3>1 DEF Below
    <3>2. CASE k = Len(s) + 1
      BY <1>1, <1>3, <2>1, <3>2 DEF UpTo
    <3>3. QED
      BY <1>1, <3>1, <3>2
  <2>3. QED
    BY <2>2 DEF Below
<1>4. QED
  BY <1>1, <1>2, <1>3 DEF a

\* What is above increasing numbers may be concatenated to them.
LEMMA ConcatOrder ==
    ASSUME NEW s \in Seq(Nat), NEW r \in Seq(Nat), NEW n \in Nat,
           Increasing(s), Increasing(r), Below(s, r), UpTo(s, n), UpTo(r, n)
    PROVE  /\ Increasing(s \o r) /\ UpTo(s \o r, n)
           /\ \A q \in Seq(Nat) : Below(s, q) /\ Below(r, q) => Below(s \o r, q)
<1> DEFINE a == s \o r
<1>1. /\ a \in Seq(Nat) /\ Len(s) \in Nat /\ Len(r) \in Nat
      /\ DOMAIN a = 1 .. Len(s) + Len(r)
      /\ DOMAIN s = 1 .. Len(s) /\ DOMAIN r = 1 .. Len(r)
      /\ \A i \in 1 .. Len(s) + Len(r) : a[i] = IF i <= Len(s) THEN s[i] ELSE r[i - Len(s)]
  BY ConcatProperties, LenProperties
<1> HIDE DEF a
<1>2. \A i \in DOMAIN a : \/ i \in DOMAIN s /\ a[i] = s[i]
                          \/ /\ i - Len(s) \in DOMAIN r /\ a[i] = r[i - Len(s)]
                             /\ i \notin DOMAIN s
  <2> SUFFICES ASSUME NEW i \in DOMAIN a
               PROVE  \/ i \in DOMAIN s /\ a[i] = s[i]
                      \/ /\ i - Len(s) \in DOMAIN r /\ a[i] = r[i - Len(s)]
                         /\ i \notin DOMAIN s
    OBVIOUS
  <2>1. CASE i <= Len(s)
    BY <1>1, <2>1
  <2>2. CASE ~(i <= Len(s))
    BY <1>1, <2>2
  <2>3. QED
    BY <2>1, <2>2
<1>3. \A i, k \in DOMAIN a : i < k /\ k \in DOMAIN s => i \in DOMAIN s
  BY <1>1
<1>4. \A i, k \in DOMAIN a : i < k => i - Len(s) < k - Len(s)
  BY <1>1
<1>5. Increasing(a)
  BY <1>2, <1>3, <1>4 DEF Increasing, Below
<1>6. UpTo(a, n) /\ \A q \in Seq(Nat) : Below(s, q) /\ Below(r, q) => Below(a, q)
  BY <1>2 DEF UpTo, Below
<1>7. QED
  BY <1>5, <1>6 DEF a

\* The messages move from the queue over the buffers to the wire in their order.
LEMMA PushOrderStep ==
    ASSUME IInv, NEW t \in Threads, Step(t)
    PROVE  PushOrder'
<1>1. CASE SendQueue(t)
  <2>1. /\ sendQueue' = Append(sendQueue, pushed + 1) /\ pushed' = pushed + 1
        /\ UNCHANGED <<wire, sendBuffers>>
    BY <1>1 DEF SendQueue
  <2>2. /\ sendQueue \in Seq(Nat) /\ wire \in Seq(Nat) /\ sendBuffers \in Seq(Nat)
        /\ pushed \in Nat
    BY DEF IInv, TypeOK
  <2>3. \A u \in Threads : sendPc'[u] = "wsaSend" => sendPc[u] = "wsaSend"
    BY <1>1 DEF SendQueue, IInv, TypeOK
  <2>4. \A q \in Seq(Nat) : UpTo(q, pushed) => UpTo(q, pushed')
    <3>1. \A q \in Seq(Nat) : \A i \in DOMAIN q : q[i] \in Nat
      BY LenProperties, ElementOfSeq
    <3>2. QED
      BY <2>1, <2>2, <3>1 DEF UpTo
  <2>5. QED
    BY <2>1, <2>2, <2>3, <2>4, AppendOrder DEF IInv, PushOrder
<1>2. CASE DrainQueue(t)
  <2>1. sendBuffers = <<>>
    BY <1>2 DEF DrainQueue, IInv, SendRight
  <2>2. /\ sendBuffers' = sendQueue /\ sendQueue' = <<>>
        /\ UNCHANGED <<wire, pushed>>
    BY <1>2, <2>1, ConcatEmptySeq DEF DrainQueue, IInv, TypeOK
  <2>3. /\ \A q \in Seq(Nat) : Below(q, <<>>)
        /\ Increasing(<<>>) /\ UpTo(<<>>, pushed)
    BY DEF Below, Increasing, UpTo
  <2>4. wire \in Seq(Nat) /\ sendQueue \in Seq(Nat)
    BY DEF IInv, TypeOK
  <2>5. QED
    BY <2>2, <2>3, <2>4 DEF IInv, PushOrder
<1>3. CASE WSASendAccepted(t)
  <2>1. wire' = wire \o sendBuffers /\ UNCHANGED <<pushed, sendQueue, sendBuffers>>
    BY <1>3 DEF WSASendAccepted
  <2>2. \A u \in Threads : sendPc'[u] # "wsaSend"
    BY <1>3 DEF WSASendAccepted, IInv, TypeOK, SendRight, SendExclusive, HoldsSend
  <2>3. /\ Increasing(sendBuffers) /\ UpTo(sendBuffers, pushed)
        /\ Below(wire, sendBuffers) /\ Below(sendBuffers, sendQueue)
    BY <1>3 DEF WSASendAccepted, IInv, PushOrder
  <2>4. /\ sendQueue \in Seq(Nat) /\ wire \in Seq(Nat) /\ sendBuffers \in Seq(Nat)
        /\ pushed \in Nat
    BY DEF IInv, TypeOK
  <2>5. QED
    BY <2>1, <2>2, <2>3, <2>4, ConcatOrder DEF IInv, PushOrder
<1>4. CASE SendBegin(t) \/ BroadcastBegin(t) \/ BroadcastEnd(t)
  <2>1. UNCHANGED <<wire, pushed, sendQueue>>
    BY <1>4 DEF SendBegin, BroadcastBegin, BroadcastEnd
  <2>2. \A u \in Threads :
            sendPc'[u] = "wsaSend" => sendPc[u] = "wsaSend" /\ sendBuffers' = sendBuffers
    BY <1>4, PcTypes DEF SendBegin, BroadcastBegin, BroadcastEnd, IInv, Pcs, SendRight,
       SendExclusive, HoldsSend
  <2>3. QED
    BY <2>1, <2>2 DEF IInv, PushOrder
<1>5. CASE SendCheck(t) \/ RegisterSend(t) \/ (\E error \in SendErrors : WSASendFailed(t,
           error))
  <2>1. UNCHANGED <<wire, pushed, sendQueue>>
    BY <1>5 DEF SendCheck, RegisterSend, WSASendFailed
  <2>2. \A u \in Threads :
            sendPc'[u] = "wsaSend" => sendPc[u] = "wsaSend" /\ sendBuffers' = sendBuffers
    BY <1>5, PcTypes DEF SendCheck, RegisterSend, WSASendFailed, IInv, Pcs, SendRight,
       SendExclusive, HoldsSend
  <2>3. QED
    BY <2>1, <2>2 DEF IInv, PushOrder
<1>6. CASE SendFailed(t)
  <2>1. UNCHANGED <<wire, pushed, sendQueue>>
    BY <1>6 DEF SendFailed
  <2>2. \A u \in Threads :
            sendPc'[u] = "wsaSend" => sendPc[u] = "wsaSend" /\ sendBuffers' = sendBuffers
    BY <1>6, PcTypes DEF SendFailed, IInv, Pcs, SendRight, SendExclusive, HoldsSend
  <2>3. QED
    BY <2>1, <2>2 DEF IInv, PushOrder
<1>7. CASE DisconnectExchange(t) \/ DisconnectExAccepted(t) \/ DisconnectExFailed(t)
  <2>1. UNCHANGED <<wire, pushed, sendQueue>>
    BY <1>7 DEF DisconnectExchange, DisconnectExAccepted, DisconnectExFailed
  <2>2. \A u \in Threads :
            sendPc'[u] = "wsaSend" => sendPc[u] = "wsaSend" /\ sendBuffers' = sendBuffers
    BY <1>7, PcTypes DEF DisconnectExchange, DisconnectExAccepted, DisconnectExFailed,
       IInv, Pcs, SendRight, SendExclusive, HoldsSend
  <2>3. QED
    BY <2>1, <2>2 DEF IInv, PushOrder
<1>8. CASE ProcessConnect(t) \/ AddSession(t) \/ OnConnectedBegin(t) \/ OnConnectedEnd(t)
  <2>1. UNCHANGED <<wire, pushed, sendQueue>>
    BY <1>8 DEF ProcessConnect, AddSession, OnConnectedBegin, OnConnectedEnd
  <2>2. \A u \in Threads :
            sendPc'[u] = "wsaSend" => sendPc[u] = "wsaSend" /\ sendBuffers' = sendBuffers
    BY <1>8, PcTypes DEF ProcessConnect, AddSession, OnConnectedBegin, OnConnectedEnd,
       IInv, Pcs, SendRight, SendExclusive, HoldsSend
  <2>3. QED
    BY <2>1, <2>2 DEF IInv, PushOrder
<1>9. CASE RegisterRecv(t) \/ WSARecvAccepted(t) \/ (\E error \in SendErrors :
           WSARecvFailed(t, error)) \/ RecvFailed(t) \/ OnRecvEnd(t) \/ OnRecvBad(t)
  <2>1. UNCHANGED <<wire, pushed, sendQueue>>
    BY <1>9 DEF RegisterRecv, WSARecvAccepted, WSARecvFailed, RecvFailed, OnRecvEnd,
       OnRecvBad
  <2>2. \A u \in Threads :
            sendPc'[u] = "wsaSend" => sendPc[u] = "wsaSend" /\ sendBuffers' = sendBuffers
    BY <1>9, PcTypes DEF RegisterRecv, WSARecvAccepted, WSARecvFailed, RecvFailed,
       OnRecvEnd, OnRecvBad, IInv, Pcs, SendRight, SendExclusive, HoldsSend
  <2>3. QED
    BY <2>1, <2>2 DEF IInv, PushOrder
<1>10. ASSUME NEW bytes \in {0, 1}, ProcessRecv(t, bytes)
       PROVE  PushOrder'
  <2>1. UNCHANGED <<wire, pushed, sendQueue>>
    BY <1>10 DEF ProcessRecv
  <2>2. \A u \in Threads :
            sendPc'[u] = "wsaSend" => sendPc[u] = "wsaSend" /\ sendBuffers' = sendBuffers
    BY <1>10, PcTypes DEF ProcessRecv, IInv, Pcs, SendRight, SendExclusive, HoldsSend
  <2>3. QED
    BY <2>1, <2>2 DEF IInv, PushOrder
<1>11. ASSUME NEW bytes \in {0, 1}, ProcessSend(t, bytes)
       PROVE  PushOrder'
  <2>1. UNCHANGED <<wire, pushed, sendQueue>>
    BY <1>11 DEF ProcessSend
  <2>2. \A u \in Threads :
            sendPc'[u] = "wsaSend" => sendPc[u] = "wsaSend" /\ sendBuffers' = sendBuffers
    BY <1>11, PcTypes DEF ProcessSend, IInv, Pcs, SendRight, SendExclusive, HoldsSend
  <2>3. QED
    BY <2>1, <2>2 DEF IInv, PushOrder
<1>12. CASE SendDoneEmpty(t) \/ SendDoneMore(t) \/ Unlock(t)
  <2>1. UNCHANGED <<wire, pushed, sendQueue>>
    BY <1>12 DEF SendDoneEmpty, SendDoneMore, Unlock
  <2>2. \A u \in Threads :
            sendPc'[u] = "wsaSend" => sendPc[u] = "wsaSend" /\ sendBuffers' = sendBuffers
    BY <1>12, PcTypes DEF SendDoneEmpty, SendDoneMore, Unlock, IInv, Pcs, SendRight,
       SendExclusive, HoldsSend
  <2>3. QED
    BY <2>1, <2>2 DEF IInv, PushOrder
<1>13. CASE ProcessDisconnect(t) \/ OnDisconnectedEnd(t) \/ ReleaseSession(t)
  <2>1. UNCHANGED <<wire, pushed, sendQueue>>
    BY <1>13 DEF ProcessDisconnect, OnDisconnectedEnd, ReleaseSession
  <2>2. \A u \in Threads :
            sendPc'[u] = "wsaSend" => sendPc[u] = "wsaSend" /\ sendBuffers' = sendBuffers
    BY <1>13, PcTypes DEF ProcessDisconnect, OnDisconnectedEnd, ReleaseSession, IInv, Pcs,
       SendRight, SendExclusive, HoldsSend
  <2>3. QED
    BY <2>1, <2>2 DEF IInv, PushOrder
<1>14. QED
  BY <1>1, <1>2, <1>3, <1>4, <1>5, <1>6, <1>7, <1>8, <1>9, <1>10, <1>11, <1>12, <1>13 DEF
     Step, Running, SendStep, DisconnectStep, HandlerStep, Completion

-------------------------------------------------------------------------------
(* What holds in every reachable state *)

\* The initial state satisfies the invariant.
LEMMA InitInv == Init => IInv
<1> SUFFICES ASSUME Init
             PROVE  IInv
  OBVIOUS
<1>1. Frames /\ OneReceiver /\ Greeting /\ CloseOnce
  BY DEF Init, Frames, OneReceiver, HoldsRecv, Greeting, CloseOnce, HoldsClose
<1>2. Alone
  BY DEF Init, Alone, Opening
<1>3. SendRight /\ ReleaseInService
  BY DEF Init, SendRight, SendExclusive, HoldsSend, ReleaseInService
<1>4. PushOrder
  BY DEF Init, PushOrder, Increasing, Below, UpTo
<1>5. pending \subseteq owner
  BY DEF Init
<1>6. QED
  BY <1>1, <1>2, <1>3, <1>4, <1>5, InitType DEF IInv

\* A step of the whole system keeps the invariant.
LEMMA NextInv == IInv /\ [Next]_vars => IInv'
<1>1. ASSUME IInv, NEW t \in Threads, Step(t)
      PROVE  IInv'
  BY <1>1, StepType, FramesStep, AloneStep, OneReceiverStep, GreetingStep, CloseOnceStep,
     OwnedStep, ReleaseStep, SendRightStep, PushOrderStep DEF IInv
<1>2. ASSUME IInv, UNCHANGED vars
      PROVE  IInv'
  <2>1. UNCHANGED <<connected, sendRegistered, sendQueue, sendBuffers, owner, sessionLock,
                    inService, serviceLock, pending, handlerPc, sendPc, discPc, sends,
                    pushed, wire, onConnected, onDisconnected>>
    BY <1>2 DEF vars, pcVars
  <2>2. TypeOK' /\ Frames' /\ Alone' /\ OneReceiver' /\ Greeting'
    BY <1>2, <2>1 DEF IInv, TypeOK, Frames, Alone, Opening, OneReceiver, HoldsRecv, Greeting
  <2>3. SendRight' /\ CloseOnce' /\ ReleaseInService' /\ pending' \subseteq owner'
    BY <1>2, <2>1 DEF IInv, SendRight, SendExclusive, HoldsSend, CloseOnce, HoldsClose,
       ReleaseInService
  <2>4. PushOrder'
    BY <1>2, <2>1 DEF IInv, PushOrder, Increasing, Below, UpTo
  <2>5. QED
    BY <2>2, <2>3, <2>4 DEF IInv
<1>3. QED
  BY <1>1, <1>2 DEF Next, Step

\* The invariant holds in every reachable state.
THEOREM SessionInvariant == Spec => []IInv
BY InitInv, NextInv, PTL DEF Spec

\* One thread or the kernel uses the send event and its buffers, however many
\* workers and senders there are.
THEOREM OneSender == Spec => []SendExclusive
<1>1. IInv => SendExclusive
  BY DEF IInv, SendRight
<1>2. QED
  BY <1>1, SessionInvariant, PTL

\* The kernel never works on an event without an owner or on buffers that are gone.
THEOREM PendingOwned == Spec => []OwnerWhilePending
<1>1. IInv => OwnerWhilePending
  BY DEF IInv, SendRight, OwnerWhilePending
<1>2. QED
  BY <1>1, SessionInvariant, PTL

\* The messages reach the kernel in the order of their pushes and at most once.
THEOREM MessagesInOrder == Spec => []WireOrdered
<1>1. IInv => WireOrdered
  <2> SUFFICES ASSUME IInv
               PROVE  WireOrdered
    OBVIOUS
  <2>1. wire \in Seq(Nat) /\ sendQueue \in Seq(Nat) /\ pushed \in Nat
    BY DEF IInv, TypeOK
  <2>2. Increasing(wire \o sendQueue)
    BY <2>1, ConcatOrder DEF IInv, PushOrder
  <2>3. QED
    BY <2>2 DEF Increasing, WireOrdered
<1>2. QED
  BY <1>1, SessionInvariant, PTL

\* The assertion of Service::ReleaseSession never fires.
THEOREM ReleaseFindsSession == Spec => []ReleaseInService
<1>1. IInv => ReleaseInService
  BY DEF IInv
<1>2. QED
  BY <1>1, SessionInvariant, PTL

-------------------------------------------------------------------------------
(* Nothing is stranded when the kernel's calls fail with a reset only *)

\* WSASend and WSARecv fail at once with a reset connection, or not at all.
OnlyResets == "other" \notin Errors

\* The right to receive is given up only by who disconnects, or has disconnected.
LEMMA ReceiveAliveStep ==
    ASSUME OnlyResets, IInv, ReceiveAlive, NEW t \in Threads, Step(t)
    PROVE  ReceiveAlive'
<1>1. CASE SendBegin(t) \/ BroadcastBegin(t) \/ BroadcastEnd(t)
  BY <1>1, PcTypes DEF SendBegin, BroadcastBegin, BroadcastEnd, IInv, Pcs, ReceiveAlive,
     Receiving, WillDisconnect, OnlyResets, SendErrors, Alone, Opening, OneReceiver,
     HoldsRecv
<1>2. CASE SendCheck(t) \/ SendQueue(t) \/ RegisterSend(t) \/ DrainQueue(t) \/
           WSASendAccepted(t) \/ (\E error \in SendErrors : WSASendFailed(t, error)) \/
           SendFailed(t)
  BY <1>2, PcTypes DEF SendCheck, SendQueue, RegisterSend, DrainQueue, WSASendAccepted,
     WSASendFailed, SendFailed, IInv, Pcs, ReceiveAlive, Receiving, WillDisconnect,
     OnlyResets, SendErrors, Alone, Opening, OneReceiver, HoldsRecv
<1>3. CASE DisconnectExAccepted(t) \/ DisconnectExFailed(t)
  BY <1>3, PcTypes DEF DisconnectExAccepted, DisconnectExFailed, IInv, Pcs, ReceiveAlive,
     Receiving, WillDisconnect, OnlyResets, SendErrors, Alone, Opening, OneReceiver,
     HoldsRecv
<1>4. CASE DisconnectExchange(t)
  BY <1>4, PcTypes DEF DisconnectExchange, IInv, Pcs, ReceiveAlive, Receiving,
     WillDisconnect, OnlyResets, SendErrors, Alone, Opening, OneReceiver, HoldsRecv
<1>5. CASE ProcessConnect(t)
  BY <1>5, PcTypes DEF ProcessConnect, IInv, Pcs, ReceiveAlive, Receiving,
     WillDisconnect, OnlyResets, SendErrors, Alone, Opening, OneReceiver, HoldsRecv
<1>6. CASE AddSession(t)
  BY <1>6, PcTypes DEF AddSession, IInv, Pcs, ReceiveAlive, Receiving, WillDisconnect,
     OnlyResets, SendErrors, Alone, Opening, OneReceiver, HoldsRecv
<1>7. CASE OnConnectedBegin(t)
  BY <1>7, PcTypes DEF OnConnectedBegin, IInv, Pcs, ReceiveAlive, Receiving,
     WillDisconnect, OnlyResets, SendErrors, Alone, Opening, OneReceiver, HoldsRecv
<1>8. CASE OnConnectedEnd(t)
  BY <1>8, PcTypes DEF OnConnectedEnd, IInv, Pcs, ReceiveAlive, Receiving,
     WillDisconnect, OnlyResets, SendErrors, Alone, Opening, OneReceiver, HoldsRecv
<1>9. CASE RegisterRecv(t)
  BY <1>9, PcTypes DEF RegisterRecv, IInv, Pcs, ReceiveAlive, Receiving, WillDisconnect,
     OnlyResets, SendErrors, Alone, Opening, OneReceiver, HoldsRecv
<1>10. CASE WSARecvAccepted(t)
  BY <1>10, PcTypes DEF WSARecvAccepted, IInv, Pcs, ReceiveAlive, Receiving,
     WillDisconnect, OnlyResets, SendErrors, Alone, Opening, OneReceiver, HoldsRecv
<1>11. CASE \E error \in SendErrors : WSARecvFailed(t, error)
  BY <1>11, PcTypes DEF WSARecvFailed, IInv, Pcs, ReceiveAlive, Receiving,
     WillDisconnect, OnlyResets, SendErrors, Alone, Opening, OneReceiver, HoldsRecv
<1>12. CASE RecvFailed(t)
  BY <1>12, PcTypes DEF RecvFailed, IInv, Pcs, ReceiveAlive, Receiving, WillDisconnect,
     OnlyResets, SendErrors, Alone, Opening, OneReceiver, HoldsRecv
<1>13. CASE OnRecvEnd(t)
  BY <1>13, PcTypes DEF OnRecvEnd, IInv, Pcs, ReceiveAlive, Receiving, WillDisconnect,
     OnlyResets, SendErrors, Alone, Opening, OneReceiver, HoldsRecv
<1>14. CASE OnRecvBad(t)
  BY <1>14, PcTypes DEF OnRecvBad, IInv, Pcs, ReceiveAlive, Receiving, WillDisconnect,
     OnlyResets, SendErrors, Alone, Opening, OneReceiver, HoldsRecv
<1>15. ASSUME NEW bytes \in {0, 1}, ProcessRecv(t, bytes)
       PROVE  ReceiveAlive'
  <2>1. CASE bytes = 0
    BY <1>15, <2>1, PcTypes DEF ProcessRecv, IInv, Pcs, ReceiveAlive, Receiving,
       WillDisconnect, OnlyResets, SendErrors, Alone, Opening, OneReceiver, HoldsRecv
  <2>2. CASE bytes # 0
    BY <1>15, <2>2, PcTypes DEF ProcessRecv, IInv, Pcs, ReceiveAlive, Receiving,
       WillDisconnect, OnlyResets, SendErrors, Alone, Opening, OneReceiver, HoldsRecv
  <2>3. QED
    BY <2>1, <2>2
<1>16. ASSUME NEW bytes \in {0, 1}, ProcessSend(t, bytes)
       PROVE  ReceiveAlive'
  <2>1. CASE bytes = 0
    BY <1>16, <2>1, PcTypes DEF ProcessSend, IInv, Pcs, ReceiveAlive, Receiving,
       WillDisconnect, OnlyResets, SendErrors, Alone, Opening, OneReceiver, HoldsRecv
  <2>2. CASE bytes # 0
    BY <1>16, <2>2, PcTypes DEF ProcessSend, IInv, Pcs, ReceiveAlive, Receiving,
       WillDisconnect, OnlyResets, SendErrors, Alone, Opening, OneReceiver, HoldsRecv
  <2>3. QED
    BY <2>1, <2>2
<1>17. CASE SendDoneEmpty(t) \/ SendDoneMore(t) \/ Unlock(t)
  BY <1>17, PcTypes DEF SendDoneEmpty, SendDoneMore, Unlock, IInv, Pcs, ReceiveAlive,
     Receiving, WillDisconnect, OnlyResets, SendErrors, Alone, Opening, OneReceiver,
     HoldsRecv
<1>18. CASE ProcessDisconnect(t)
  BY <1>18, PcTypes DEF ProcessDisconnect, IInv, Pcs, ReceiveAlive, Receiving,
     WillDisconnect, OnlyResets, SendErrors, Alone, Opening, OneReceiver, HoldsRecv
<1>19. CASE OnDisconnectedEnd(t)
  BY <1>19, PcTypes DEF OnDisconnectedEnd, IInv, Pcs, ReceiveAlive, Receiving,
     WillDisconnect, OnlyResets, SendErrors, Alone, Opening, OneReceiver, HoldsRecv
<1>20. CASE ReleaseSession(t)
  BY <1>20, PcTypes DEF ReleaseSession, IInv, Pcs, ReceiveAlive, Receiving,
     WillDisconnect, OnlyResets, SendErrors, Alone, Opening, OneReceiver, HoldsRecv
<1>21. QED
  BY <1>1, <1>2, <1>3, <1>4, <1>5, <1>6, <1>7, <1>8, <1>9, <1>10, <1>11, <1>12, <1>13,
     <1>14, <1>15, <1>16, <1>17, <1>18, <1>19, <1>20 DEF Step, Running, SendStep,
     DisconnectStep, HandlerStep, Completion

\* The right to send is given up only with nothing to send, or by who disconnects.
LEMMA SendAliveStep ==
    ASSUME OnlyResets, IInv, SendAlive, NEW t \in Threads, Step(t)
    PROVE  SendAlive'
<1>1. CASE SendBegin(t) \/ BroadcastBegin(t) \/ BroadcastEnd(t)
  <2>1. UNCHANGED <<connected, sendRegistered, sendQueue, pending, discPc>>
    BY <1>1 DEF SendBegin, BroadcastBegin, BroadcastEnd
  <2>2. \A u \in Threads : \A pc \in {"register", "drain", "wsaSend", "failed"} :
            sendPc'[u] = pc <=> sendPc[u] = pc
    BY <1>1, PcTypes DEF SendBegin, BroadcastBegin, BroadcastEnd, IInv, Pcs
  <2>3. \A u \in Threads : handlerPc'[u] = "sendDone" <=> handlerPc[u] = "sendDone"
    BY <1>1, PcTypes DEF SendBegin, BroadcastBegin, BroadcastEnd, IInv, Pcs
  <2>4. QED
    BY <2>1, <2>2, <2>3 DEF SendAlive, HoldsSend, WillDisconnect
<1>2. CASE SendCheck(t)
  BY <1>2, PcTypes DEF SendCheck, IInv, Pcs, SendAlive, HoldsSend, WillDisconnect,
     OnlyResets, SendErrors, Alone, Opening, Frames
<1>3. CASE SendQueue(t)
  BY <1>3, PcTypes DEF SendQueue, IInv, Pcs, SendAlive, HoldsSend, WillDisconnect,
     OnlyResets, SendErrors, Alone, Opening, Frames
<1>4. CASE RegisterSend(t)
  BY <1>4, PcTypes DEF RegisterSend, IInv, Pcs, SendAlive, HoldsSend, WillDisconnect,
     OnlyResets, SendErrors, Alone, Opening, Frames
<1>5. CASE DrainQueue(t)
  BY <1>5, PcTypes DEF DrainQueue, IInv, Pcs, SendAlive, HoldsSend, WillDisconnect,
     OnlyResets, SendErrors, Alone, Opening, Frames
<1>6. CASE WSASendAccepted(t)
  BY <1>6, PcTypes DEF WSASendAccepted, IInv, Pcs, SendAlive, HoldsSend, WillDisconnect,
     OnlyResets, SendErrors, Alone, Opening, Frames
<1>7. CASE \E error \in SendErrors : WSASendFailed(t, error)
  BY <1>7, PcTypes DEF WSASendFailed, IInv, Pcs, SendAlive, HoldsSend, WillDisconnect,
     OnlyResets, SendErrors, Alone, Opening, Frames
<1>8. CASE SendFailed(t)
  BY <1>8, PcTypes DEF SendFailed, IInv, Pcs, SendAlive, HoldsSend, WillDisconnect,
     OnlyResets, SendErrors, Alone, Opening, Frames
<1>9. CASE DisconnectExchange(t)
  BY <1>9, PcTypes DEF DisconnectExchange, IInv, Pcs, SendAlive, HoldsSend,
     WillDisconnect, OnlyResets, SendErrors, Alone, Opening, Frames
<1>10. CASE DisconnectExAccepted(t)
  BY <1>10, PcTypes DEF DisconnectExAccepted, IInv, Pcs, SendAlive, HoldsSend,
     WillDisconnect, OnlyResets, SendErrors, Alone, Opening, Frames
<1>11. CASE DisconnectExFailed(t)
  BY <1>11, PcTypes DEF DisconnectExFailed, IInv, Pcs, SendAlive, HoldsSend,
     WillDisconnect, OnlyResets, SendErrors, Alone, Opening, Frames
<1>12. CASE ProcessConnect(t)
  BY <1>12, PcTypes DEF ProcessConnect, IInv, Pcs, SendAlive, HoldsSend, WillDisconnect,
     OnlyResets, SendErrors, Alone, Opening, Frames
<1>13. CASE AddSession(t)
  BY <1>13, PcTypes DEF AddSession, IInv, Pcs, SendAlive, HoldsSend, WillDisconnect,
     OnlyResets, SendErrors, Alone, Opening, Frames
<1>14. CASE OnConnectedBegin(t)
  BY <1>14, PcTypes DEF OnConnectedBegin, IInv, Pcs, SendAlive, HoldsSend,
     WillDisconnect, OnlyResets, SendErrors, Alone, Opening, Frames
<1>15. CASE OnConnectedEnd(t)
  BY <1>15, PcTypes DEF OnConnectedEnd, IInv, Pcs, SendAlive, HoldsSend, WillDisconnect,
     OnlyResets, SendErrors, Alone, Opening, Frames
<1>16. CASE RegisterRecv(t) \/ RecvFailed(t) \/ OnRecvEnd(t)
  <2>1. UNCHANGED <<connected, sendRegistered, sendQueue, pending, discPc>>
    BY <1>16 DEF RegisterRecv, RecvFailed, OnRecvEnd
  <2>2. \A u \in Threads : \A pc \in {"register", "drain", "wsaSend", "failed"} :
            sendPc'[u] = pc <=> sendPc[u] = pc
    BY <1>16, PcTypes DEF RegisterRecv, RecvFailed, OnRecvEnd, IInv, Pcs
  <2>3. \A u \in Threads : handlerPc'[u] = "sendDone" <=> handlerPc[u] = "sendDone"
    BY <1>16, PcTypes DEF RegisterRecv, RecvFailed, OnRecvEnd, IInv, Pcs
  <2>4. QED
    BY <2>1, <2>2, <2>3 DEF SendAlive, HoldsSend, WillDisconnect
<1>17. CASE WSARecvAccepted(t)
  BY <1>17, PcTypes DEF WSARecvAccepted, IInv, Pcs, SendAlive, HoldsSend, WillDisconnect,
     OnlyResets, SendErrors, Alone, Opening, Frames
<1>18. CASE \E error \in SendErrors : WSARecvFailed(t, error)
  BY <1>18, PcTypes DEF WSARecvFailed, IInv, Pcs, SendAlive, HoldsSend, WillDisconnect,
     OnlyResets, SendErrors, Alone, Opening, Frames
<1>19. CASE OnRecvBad(t)
  BY <1>19, PcTypes DEF OnRecvBad, IInv, Pcs, SendAlive, HoldsSend, WillDisconnect,
     OnlyResets, SendErrors, Alone, Opening, Frames
<1>20. ASSUME NEW bytes \in {0, 1}, ProcessRecv(t, bytes)
       PROVE  SendAlive'
  <2>1. CASE bytes = 0
    BY <1>20, <2>1, PcTypes DEF ProcessRecv, IInv, Pcs, SendAlive, HoldsSend,
       WillDisconnect, OnlyResets, SendErrors, Alone, Opening, Frames
  <2>2. CASE bytes # 0
    BY <1>20, <2>2, PcTypes DEF ProcessRecv, IInv, Pcs, SendAlive, HoldsSend,
       WillDisconnect, OnlyResets, SendErrors, Alone, Opening, Frames
  <2>3. QED
    BY <2>1, <2>2
<1>21. ASSUME NEW bytes \in {0, 1}, ProcessSend(t, bytes)
       PROVE  SendAlive'
  <2>1. CASE bytes = 0
    BY <1>21, <2>1, PcTypes DEF ProcessSend, IInv, Pcs, SendAlive, HoldsSend,
       WillDisconnect, OnlyResets, SendErrors, Alone, Opening, Frames
  <2>2. CASE bytes # 0
    BY <1>21, <2>2, PcTypes DEF ProcessSend, IInv, Pcs, SendAlive, HoldsSend,
       WillDisconnect, OnlyResets, SendErrors, Alone, Opening, Frames
  <2>3. QED
    BY <2>1, <2>2
<1>22. CASE SendDoneEmpty(t)
  BY <1>22, PcTypes DEF SendDoneEmpty, IInv, Pcs, SendAlive, HoldsSend, WillDisconnect,
     OnlyResets, SendErrors, Alone, Opening, Frames
<1>23. CASE SendDoneMore(t)
  BY <1>23, PcTypes DEF SendDoneMore, IInv, Pcs, SendAlive, HoldsSend, WillDisconnect,
     OnlyResets, SendErrors, Alone, Opening, Frames
<1>24. CASE Unlock(t)
  BY <1>24, PcTypes DEF Unlock, IInv, Pcs, SendAlive, HoldsSend, WillDisconnect,
     OnlyResets, SendErrors, Alone, Opening, Frames
<1>25. CASE ProcessDisconnect(t)
  BY <1>25, PcTypes DEF ProcessDisconnect, IInv, Pcs, SendAlive, HoldsSend,
     WillDisconnect, OnlyResets, SendErrors, Alone, Opening, Frames
<1>26. CASE OnDisconnectedEnd(t)
  BY <1>26, PcTypes DEF OnDisconnectedEnd, IInv, Pcs, SendAlive, HoldsSend,
     WillDisconnect, OnlyResets, SendErrors, Alone, Opening, Frames
<1>27. CASE ReleaseSession(t)
  BY <1>27, PcTypes DEF ReleaseSession, IInv, Pcs, SendAlive, HoldsSend, WillDisconnect,
     OnlyResets, SendErrors, Alone, Opening, Frames
<1>28. QED
  BY <1>1, <1>2, <1>3, <1>4, <1>5, <1>6, <1>7, <1>8, <1>9, <1>10, <1>11, <1>12, <1>13,
     <1>14, <1>15, <1>16, <1>17, <1>18, <1>19, <1>20, <1>21, <1>22, <1>23, <1>24, <1>25,
     <1>26, <1>27 DEF Step, Running, SendStep, DisconnectStep, HandlerStep, Completion

\* A connected session always has a receive under way, or somebody on the way to
\* register one or to disconnect, if WSARecv fails with a reset only.
THEOREM ReceiverAlive ==
    ASSUME OnlyResets
    PROVE  Spec => []ReceiveAlive
<1>1. Init => ReceiveAlive
  BY DEF Init, ReceiveAlive
<1>2. IInv /\ ReceiveAlive /\ [Next]_vars => ReceiveAlive'
  <2>1. ASSUME ReceiveAlive, UNCHANGED vars
        PROVE  ReceiveAlive'
    BY <2>1 DEF vars, pcVars, ReceiveAlive, Receiving, WillDisconnect
  <2>2. QED
    BY <2>1, ReceiveAliveStep DEF Next, Step
<1>3. QED
  BY <1>1, <1>2, SessionInvariant, PTL DEF Spec

\* No message is left in the queue of a connected session without somebody who
\* will send it or disconnect, if WSASend fails with a reset only.
THEOREM SenderAlive ==
    ASSUME OnlyResets
    PROVE  Spec => []NoStrandedSend
<1>1. Init => SendAlive
  BY DEF Init, SendAlive
<1>2. IInv /\ SendAlive /\ [Next]_vars => SendAlive'
  <2>1. ASSUME SendAlive, UNCHANGED vars
        PROVE  SendAlive'
    BY <2>1 DEF vars, pcVars, SendAlive, HoldsSend, WillDisconnect
  <2>2. QED
    BY <2>1, SendAliveStep DEF Next, Step
<1>3. SendAlive => NoStrandedSend
  BY DEF SendAlive, NoStrandedSend
<1>4. QED
  BY <1>1, <1>2, <1>3, SessionInvariant, PTL DEF Spec

-------------------------------------------------------------------------------
(* Session implements SessionLife when nobody broadcasts *)

NobodyBroadcasts == ~Broadcasts

\* What the application sees does not change.
Unseen == UNCHANGED <<onConnected, Reading, Closed, onDisconnected, LetGo>>

\* Who sends on a session, or disconnects it, has it from OnConnected or from a receive.
LEMMA GreetFirstStep ==
    ASSUME NobodyBroadcasts, IInv, GreetFirst, NEW t \in Threads, Step(t)
    PROVE  GreetFirst'
<1>1. CASE SendBegin(t)
  BY <1>1, PcTypes DEF SendBegin, IInv, Pcs, GreetFirst, NobodyBroadcasts, Alone,
     Opening, Frames
<1>2. CASE BroadcastBegin(t)
  BY <1>2, PcTypes DEF BroadcastBegin, IInv, Pcs, GreetFirst, NobodyBroadcasts, Alone,
     Opening, Frames
<1>3. CASE BroadcastEnd(t)
  BY <1>3, PcTypes DEF BroadcastEnd, IInv, Pcs, GreetFirst, NobodyBroadcasts, Alone,
     Opening, Frames
<1>4. CASE SendCheck(t) \/ SendQueue(t) \/ RegisterSend(t) \/ DrainQueue(t) \/
           WSASendAccepted(t) \/ (\E error \in SendErrors : WSASendFailed(t, error)) \/
           SendFailed(t)
  BY <1>4, PcTypes DEF SendCheck, SendQueue, RegisterSend, DrainQueue, WSASendAccepted,
     WSASendFailed, SendFailed, IInv, Pcs, GreetFirst, NobodyBroadcasts, Alone, Opening,
     Frames
<1>5. CASE DisconnectExchange(t)
  BY <1>5, PcTypes DEF DisconnectExchange, IInv, Pcs, GreetFirst, NobodyBroadcasts,
     Alone, Opening, Frames
<1>6. CASE DisconnectExAccepted(t)
  BY <1>6, PcTypes DEF DisconnectExAccepted, IInv, Pcs, GreetFirst, NobodyBroadcasts,
     Alone, Opening, Frames
<1>7. CASE DisconnectExFailed(t)
  BY <1>7, PcTypes DEF DisconnectExFailed, IInv, Pcs, GreetFirst, NobodyBroadcasts,
     Alone, Opening, Frames
<1>8. CASE ProcessConnect(t)
  BY <1>8, PcTypes DEF ProcessConnect, IInv, Pcs, GreetFirst, NobodyBroadcasts, Alone,
     Opening, Frames
<1>9. CASE AddSession(t)
  BY <1>9, PcTypes DEF AddSession, IInv, Pcs, GreetFirst, NobodyBroadcasts, Alone,
     Opening, Frames
<1>10. CASE OnConnectedBegin(t)
  BY <1>10, PcTypes DEF OnConnectedBegin, IInv, Pcs, GreetFirst, NobodyBroadcasts, Alone,
     Opening, Frames
<1>11. CASE OnConnectedEnd(t)
  BY <1>11, PcTypes DEF OnConnectedEnd, IInv, Pcs, GreetFirst, NobodyBroadcasts, Alone,
     Opening, Frames
<1>12. CASE RegisterRecv(t) \/ WSARecvAccepted(t) \/ (\E error \in SendErrors :
            WSARecvFailed(t, error)) \/ RecvFailed(t) \/ OnRecvEnd(t) \/ OnRecvBad(t)
  BY <1>12, PcTypes DEF RegisterRecv, WSARecvAccepted, WSARecvFailed, RecvFailed,
     OnRecvEnd, OnRecvBad, IInv, Pcs, GreetFirst, NobodyBroadcasts, Alone, Opening, Frames
<1>13. ASSUME NEW bytes \in {0, 1}, ProcessRecv(t, bytes)
       PROVE  GreetFirst'
  <2>1. CASE bytes = 0
    BY <1>13, <2>1, PcTypes DEF ProcessRecv, IInv, Pcs, GreetFirst, NobodyBroadcasts,
       Alone, Opening, Frames
  <2>2. CASE bytes # 0
    BY <1>13, <2>2, PcTypes DEF ProcessRecv, IInv, Pcs, GreetFirst, NobodyBroadcasts,
       Alone, Opening, Frames
  <2>3. QED
    BY <2>1, <2>2
<1>14. ASSUME NEW bytes \in {0, 1}, ProcessSend(t, bytes)
       PROVE  GreetFirst'
  <2>1. CASE bytes = 0
    BY <1>14, <2>1, PcTypes DEF ProcessSend, IInv, Pcs, GreetFirst, NobodyBroadcasts,
       Alone, Opening, Frames
  <2>2. CASE bytes # 0
    BY <1>14, <2>2, PcTypes DEF ProcessSend, IInv, Pcs, GreetFirst, NobodyBroadcasts,
       Alone, Opening, Frames
  <2>3. QED
    BY <2>1, <2>2
<1>15. CASE SendDoneEmpty(t) \/ SendDoneMore(t) \/ Unlock(t)
  BY <1>15, PcTypes DEF SendDoneEmpty, SendDoneMore, Unlock, IInv, Pcs, GreetFirst,
     NobodyBroadcasts, Alone, Opening, Frames
<1>16. CASE ProcessDisconnect(t) \/ OnDisconnectedEnd(t) \/ ReleaseSession(t)
  BY <1>16, PcTypes DEF ProcessDisconnect, OnDisconnectedEnd, ReleaseSession, IInv, Pcs,
     GreetFirst, NobodyBroadcasts, Alone, Opening, Frames
<1>17. QED
  BY <1>1, <1>2, <1>3, <1>4, <1>5, <1>6, <1>7, <1>8, <1>9, <1>10, <1>11, <1>12, <1>13,
     <1>14, <1>15, <1>16 DEF Step, Running, SendStep, DisconnectStep, HandlerStep,
     Completion

\* Every step is one of SessionLife, or the application does not see it.
LEMMA LifeStep ==
    ASSUME NobodyBroadcasts, IInv, GreetFirst, NEW t \in Threads, Step(t)
    PROVE  Life!Next \/ Unseen
<1>1. CASE SendBegin(t) \/ BroadcastBegin(t) \/ BroadcastEnd(t)
  <2>1. UNCHANGED <<connected, inService, onConnected, onDisconnected>>
    BY <1>1 DEF SendBegin, BroadcastBegin, BroadcastEnd
  <2>2. \A u \in Threads : handlerPc'[u] = "onRecv" <=> handlerPc[u] = "onRecv"
    BY <1>1, PcTypes DEF SendBegin, BroadcastBegin, BroadcastEnd, IInv, Pcs
  <2>3. QED
    BY <2>1, <2>2 DEF Unseen, Reading, Closed, LetGo
<1>2. CASE SendCheck(t) \/ SendQueue(t) \/ RegisterSend(t) \/ DrainQueue(t) \/
           WSASendAccepted(t) \/ (\E error \in SendErrors : WSASendFailed(t, error)) \/
           SendFailed(t)
  <2>1. UNCHANGED <<connected, inService, onConnected, onDisconnected>>
    BY <1>2 DEF SendCheck, SendQueue, RegisterSend, DrainQueue, WSASendAccepted,
       WSASendFailed, SendFailed
  <2>2. \A u \in Threads : handlerPc'[u] = "onRecv" <=> handlerPc[u] = "onRecv"
    BY <1>2, PcTypes DEF SendCheck, SendQueue, RegisterSend, DrainQueue, WSASendAccepted,
       WSASendFailed, SendFailed, IInv, Pcs
  <2>3. QED
    BY <2>1, <2>2 DEF Unseen, Reading, Closed, LetGo
<1>3. CASE DisconnectExchange(t)
  <2>1. \A u \in Threads : handlerPc'[u] = "onRecv" <=> handlerPc[u] = "onRecv"
    BY <1>3, PcTypes DEF DisconnectExchange, IInv, Pcs
  <2>2. Reading' = Reading
    BY <2>1 DEF Reading
  <2>3. /\ UNCHANGED <<onConnected, onDisconnected, LetGo>>
        /\ \/ UNCHANGED Closed
           \/ onConnected # "no" /\ ~Closed /\ Closed' = TRUE
    BY <1>3, PcTypes DEF DisconnectExchange, IInv, Pcs, GreetFirst, Closed, LetGo,
       CloseOnce
  <2>4. QED
    BY <2>2, <2>3 DEF Unseen, Life!Next, Life!Greet, Life!Close, Life!Leave, Life!Release
<1>4. CASE DisconnectExAccepted(t) \/ DisconnectExFailed(t)
  <2>1. UNCHANGED <<connected, inService, onConnected, onDisconnected>>
    BY <1>4 DEF DisconnectExAccepted, DisconnectExFailed
  <2>2. \A u \in Threads : handlerPc'[u] = "onRecv" <=> handlerPc[u] = "onRecv"
    BY <1>4, PcTypes DEF DisconnectExAccepted, DisconnectExFailed, IInv, Pcs
  <2>3. QED
    BY <2>1, <2>2 DEF Unseen, Reading, Closed, LetGo
<1>5. CASE ProcessConnect(t)
  <2>1. \A u \in Threads : handlerPc'[u] = "onRecv" <=> handlerPc[u] = "onRecv"
    BY <1>5, PcTypes DEF ProcessConnect, IInv, Pcs
  <2>2. Reading' = Reading
    BY <2>1 DEF Reading
  <2>3. UNCHANGED <<onConnected, onDisconnected, Closed, LetGo>>
    BY <1>5, PcTypes DEF ProcessConnect, IInv, Pcs, GreetFirst, Closed, LetGo, Alone,
       Opening
  <2>4. QED
    BY <2>2, <2>3 DEF Unseen, Life!Next, Life!Greet, Life!Close, Life!Leave, Life!Release
<1>6. CASE AddSession(t)
  <2>1. \A u \in Threads : handlerPc'[u] = "onRecv" <=> handlerPc[u] = "onRecv"
    BY <1>6, PcTypes DEF AddSession, IInv, Pcs
  <2>2. Reading' = Reading
    BY <2>1 DEF Reading
  <2>3. UNCHANGED <<onConnected, onDisconnected, Closed, LetGo>>
    BY <1>6, PcTypes DEF AddSession, IInv, Pcs, GreetFirst, Closed, LetGo, Alone, Opening
  <2>4. QED
    BY <2>2, <2>3 DEF Unseen, Life!Next, Life!Greet, Life!Close, Life!Leave, Life!Release
<1>7. CASE OnConnectedBegin(t)
  <2>1. \A u \in Threads : handlerPc'[u] = "onRecv" <=> handlerPc[u] = "onRecv"
    BY <1>7, PcTypes DEF OnConnectedBegin, IInv, Pcs
  <2>2. Reading' = Reading
    BY <2>1 DEF Reading
  <2>3. onConnected = "no" /\ onConnected' = "in" /\ UNCHANGED <<onDisconnected, Closed, LetGo>>
    BY <1>7, PcTypes DEF OnConnectedBegin, IInv, Pcs, GreetFirst, Closed, LetGo,
       Greeting, OneReceiver, HoldsRecv
  <2>4. QED
    BY <2>2, <2>3 DEF Unseen, Life!Next, Life!Greet, Life!Close, Life!Leave, Life!Release
<1>8. CASE OnConnectedEnd(t)
  <2>1. \A u \in Threads : handlerPc'[u] = "onRecv" <=> handlerPc[u] = "onRecv"
    BY <1>8, PcTypes DEF OnConnectedEnd, IInv, Pcs
  <2>2. Reading' = Reading
    BY <2>1 DEF Reading
  <2>3. onConnected = "in" /\ onConnected' = "done" /\ UNCHANGED <<onDisconnected, Closed, LetGo>>
    BY <1>8, PcTypes DEF OnConnectedEnd, IInv, Pcs, GreetFirst, Closed, LetGo, Greeting
  <2>4. QED
    BY <2>2, <2>3 DEF Unseen, Life!Next, Life!Greet, Life!Close, Life!Leave, Life!Release
<1>9. CASE RegisterRecv(t) \/ WSARecvAccepted(t) \/ (\E error \in SendErrors :
           WSARecvFailed(t, error)) \/ RecvFailed(t)
  <2>1. UNCHANGED <<connected, inService, onConnected, onDisconnected>>
    BY <1>9 DEF RegisterRecv, WSARecvAccepted, WSARecvFailed, RecvFailed
  <2>2. \A u \in Threads : handlerPc'[u] = "onRecv" <=> handlerPc[u] = "onRecv"
    BY <1>9, PcTypes DEF RegisterRecv, WSARecvAccepted, WSARecvFailed, RecvFailed, IInv,
       Pcs
  <2>3. QED
    BY <2>1, <2>2 DEF Unseen, Reading, Closed, LetGo
<1>10. CASE OnRecvEnd(t) \/ OnRecvBad(t)
  <2>1. UNCHANGED <<onConnected, onDisconnected, Closed, LetGo>>
    BY <1>10 DEF OnRecvEnd, OnRecvBad, Closed, LetGo
  <2>2. /\ handlerPc[t] = "onRecv"
        /\ \E pc \in {"none", "registerRecv"} : handlerPc' = [handlerPc EXCEPT ![t] = pc]
    BY <1>10 DEF OnRecvEnd, OnRecvBad
  <2>3. \A u \in Threads : handlerPc[u] = "onRecv" => u = t
    BY <2>2 DEF IInv, OneReceiver, HoldsRecv
  <2>4. Reading = {t} /\ Reading' = {}
    BY <2>2, <2>3, PcTypes DEF IInv, Pcs, Reading
  <2>5. Life!EndRead(t)
    BY <2>1, <2>4 DEF Life!EndRead
  <2>6. QED
    BY <2>5 DEF Life!Next
<1>11. ASSUME NEW bytes \in {0, 1}, ProcessRecv(t, bytes)
       PROVE  Life!Next \/ Unseen
  <2>1. UNCHANGED <<onConnected, onDisconnected, Closed, LetGo>>
    BY <1>11 DEF ProcessRecv, Closed, LetGo
  <2>2. CASE bytes = 0
    <3>1. Reading' = Reading
      BY <1>11, <2>2 DEF ProcessRecv, Reading
    <3>2. QED
      BY <2>1, <3>1 DEF Unseen
  <2>3. CASE bytes # 0
    <3>1. "recv" \in pending /\ handlerPc' = [handlerPc EXCEPT ![t] = "onRecv"]
      BY <1>11, <2>3 DEF ProcessRecv
    <3>2. \A u \in Threads : ~HoldsRecv(u)
      BY <3>1 DEF IInv, OneReceiver
    <3>3. Reading = {} /\ Reading' = {t}
      BY <3>1, <3>2, PcTypes DEF IInv, Pcs, Reading, HoldsRecv
    <3>4. onConnected # "no"
      BY <3>1 DEF GreetFirst
    <3>5. onConnected # "in"
      BY <3>2 DEF IInv, Greeting, HoldsRecv
    <3>6. onConnected = "done"
      BY <3>4, <3>5 DEF IInv, TypeOK
    <3>7. Life!BeginRead(t)
      BY <2>1, <3>3, <3>6 DEF Life!BeginRead
    <3>8. QED
      BY <3>7 DEF Life!Next
  <2>4. QED
    BY <2>2, <2>3
<1>12. ASSUME NEW bytes \in {0, 1}, ProcessSend(t, bytes)
       PROVE  Life!Next \/ Unseen
  <2>1. UNCHANGED <<connected, inService, onConnected, onDisconnected>>
    BY <1>12 DEF ProcessSend
  <2>2. \A u \in Threads : handlerPc'[u] = "onRecv" <=> handlerPc[u] = "onRecv"
    BY <1>12, PcTypes DEF ProcessSend, IInv, Pcs
  <2>3. QED
    BY <2>1, <2>2 DEF Unseen, Reading, Closed, LetGo
<1>13. CASE SendDoneEmpty(t) \/ SendDoneMore(t) \/ Unlock(t)
  <2>1. UNCHANGED <<connected, inService, onConnected, onDisconnected>>
    BY <1>13 DEF SendDoneEmpty, SendDoneMore, Unlock
  <2>2. \A u \in Threads : handlerPc'[u] = "onRecv" <=> handlerPc[u] = "onRecv"
    BY <1>13, PcTypes DEF SendDoneEmpty, SendDoneMore, Unlock, IInv, Pcs
  <2>3. QED
    BY <2>1, <2>2 DEF Unseen, Reading, Closed, LetGo
<1>14. CASE ProcessDisconnect(t)
  <2>1. \A u \in Threads : handlerPc'[u] = "onRecv" <=> handlerPc[u] = "onRecv"
    BY <1>14, PcTypes DEF ProcessDisconnect, IInv, Pcs
  <2>2. Reading' = Reading
    BY <2>1 DEF Reading
  <2>3. /\ Closed /\ onDisconnected = "no" /\ onDisconnected' = "in"
        /\ UNCHANGED <<onConnected, Closed, LetGo>>
    BY <1>14, PcTypes DEF ProcessDisconnect, IInv, Pcs, GreetFirst, Closed, LetGo,
       CloseOnce
  <2>4. QED
    BY <2>2, <2>3 DEF Unseen, Life!Next, Life!Greet, Life!Close, Life!Leave, Life!Release
<1>15. CASE OnDisconnectedEnd(t)
  <2>1. \A u \in Threads : handlerPc'[u] = "onRecv" <=> handlerPc[u] = "onRecv"
    BY <1>15, PcTypes DEF OnDisconnectedEnd, IInv, Pcs
  <2>2. Reading' = Reading
    BY <2>1 DEF Reading
  <2>3. /\ Closed /\ onDisconnected = "in" /\ onDisconnected' = "done"
        /\ UNCHANGED <<onConnected, Closed, LetGo>>
    BY <1>15, PcTypes DEF OnDisconnectedEnd, IInv, Pcs, GreetFirst, Closed, LetGo,
       CloseOnce, HoldsClose, Alone, Opening
  <2>4. QED
    BY <2>2, <2>3 DEF Unseen, Life!Next, Life!Greet, Life!Close, Life!Leave, Life!Release
<1>16. CASE ReleaseSession(t)
  <2>1. \A u \in Threads : handlerPc'[u] = "onRecv" <=> handlerPc[u] = "onRecv"
    BY <1>16, PcTypes DEF ReleaseSession, IInv, Pcs
  <2>2. Reading' = Reading
    BY <2>1 DEF Reading
  <2>3. /\ onDisconnected = "done" /\ ~LetGo /\ LetGo' = TRUE
        /\ UNCHANGED <<onConnected, onDisconnected, Closed>>
    BY <1>16, PcTypes DEF ReleaseSession, IInv, Pcs, GreetFirst, Closed, LetGo, CloseOnce,
       HoldsClose, ReleaseInService
  <2>4. QED
    BY <2>2, <2>3 DEF Unseen, Life!Next, Life!Greet, Life!Close, Life!Leave, Life!Release
<1>17. QED
  BY <1>1, <1>2, <1>3, <1>4, <1>5, <1>6, <1>7, <1>8, <1>9, <1>10, <1>11, <1>12, <1>13,
     <1>14, <1>15, <1>16 DEF Step, Running, SendStep, DisconnectStep, HandlerStep,
     Completion

\* The callbacks of a session come in the order of SessionLife, whatever the workers,
\* the senders and the errors of the kernel do, as long as nobody broadcasts.
THEOREM SessionImplementsLife ==
    ASSUME NobodyBroadcasts
    PROVE  Spec => ImplementsSessionLife
<1>1. Init => Life!Init
  BY DEF Init, Life!Init, Reading, Closed, LetGo
<1>2. Init => GreetFirst
  BY DEF Init, GreetFirst
<1>3. IInv /\ GreetFirst /\ [Next]_vars => GreetFirst'
  <2>1. ASSUME GreetFirst, UNCHANGED vars
        PROVE  GreetFirst'
    BY <2>1 DEF vars, pcVars, GreetFirst
  <2>2. QED
    BY <2>1, GreetFirstStep DEF Next, Step
<1>4. IInv /\ GreetFirst /\ [Next]_vars => [Life!Next]_Life!vars
  <2>1. ASSUME UNCHANGED vars
        PROVE  Unseen
    BY <2>1 DEF vars, pcVars, Unseen, Reading, Closed, LetGo
  <2>2. Unseen => UNCHANGED Life!vars
    BY DEF Unseen, Life!vars
  <2>3. QED
    BY <2>1, <2>2, LifeStep DEF Next, Step
<1>5. QED
  BY <1>1, <1>2, <1>3, <1>4, SessionInvariant, PTL
     DEF Spec, ImplementsSessionLife, Life!Spec

===============================================================================
