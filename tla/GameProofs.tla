------------------------------ MODULE GameProofs -------------------------------
(***************************************************************************)
(* Proofs about Accept and Game for any number of accept events, sessions,   *)
(* players of a session and chats.                                          *)
(***************************************************************************)
EXTENDS Game, FiniteSetTheorems, SequenceTheorems, TLAPS

-------------------------------------------------------------------------------
(* The inductive invariant *)

\* Who has not come to OnConnected; whom OnDisconnected has made leave; whom it has
\* cleared.
Early(s) == life[s] \in {"unused", "created", "added"}
Left(s) == life[s] \in {"clear", "release", "released"}
Cleared(s) == life[s] \in {"release", "released"}

\* The jobs of the Room.
EnterOf(p) == [kind |-> "enter", player |-> p]
LeaveOf(p) == [kind |-> "leave", player |-> p]
NullOf(s) == [kind |-> "null", session |-> s]
ChatOf(n) == [kind |-> "chat", chat |-> n]

\* An accept that is under way has a session of its own, which nobody else has touched.
AcceptOwn ==
    /\ \A e, f \in AcceptEvents :
           /\ acceptPc[e] # "register" /\ acceptPc[f] # "register"
           /\ acceptSession[e] = acceptSession[f]
           => e = f
    /\ \A e \in AcceptEvents :
           /\ acceptPc[e] \in {"pending", "add"} => life[acceptSession[e]] = "created"
           /\ acceptPc[e] = "onConnected" => life[acceptSession[e]] = "added"

\* What a session has of its client, and how far its handlers are.
ReceivingOf(s) ==
    /\ Early(s) => recv[s] = "none" /\ asked[s] = {}
    /\ Handling(s) /\ s \notin late => life[s] \in {"open", "closing"}
    /\ players[s] \subseteq {s} \X Indices
    /\ currentPlayer[s] \in ({s} \X Indices) \cup {NoPlayer}
    /\ "login" \in asked[s] /\ ~Cleared(s) => players[s] = {s} \X Indices
    /\ "enter" \in asked[s] /\ ~Cleared(s) => currentPlayer[s] # NoPlayer
    /\ "enter" \notin asked[s] => currentPlayer[s] = NoPlayer
    /\ recv[s] \in {"enterJob", "enterSend"} => "enter" \in asked[s]
Receiving == \A s \in Sessions : ReceivingOf(s)

\* A player that enters, is in the room or is reached by a broadcast is the current
\* player of its session, until the session is cleared or its client enters again.
InJobs(job) == \E i \in DOMAIN jobs : jobs[i] = job
Reached(p) == \E b \in broadcasts : p \in b.rest
Present(p) == InJobs(EnterOf(p)) \/ p \in roomPlayers \/ Reached(p)
Again(s) == "again" \in asked[s]
Entered ==
    /\ \A p \in Players : Present(p) =>
           /\ "enter" \in asked[p[1]]
           /\ currentPlayer[p[1]] = p \/ Cleared(p[1]) \/ Again(p[1])
    /\ \A p \in Players : InJobs(LeaveOf(p)) => Left(p[1])
    /\ \A s \in Sessions : InJobs(NullOf(s)) => s \in late

\* A player of a session that has left has a Leave behind his Enter, or in the room.
LeftFollowed ==
    \A p \in Players : Left(p[1]) /\ p[1] \notin late /\ ~Again(p[1]) =>
        /\ p \in roomPlayers => InJobs(LeaveOf(p))
        /\ \A i \in DOMAIN jobs : jobs[i] = EnterOf(p) =>
               \E k \in DOMAIN jobs : k > i /\ jobs[k] = LeaveOf(p)

\* Chats wait in their order, one is broadcast at a time, and a member that it has not
\* reached has only earlier ones, unless it has reached another player of his session.
ChatsWait ==
    /\ \A i, k \in DOMAIN jobs : \A m, n \in 1 .. MaxChats :
           i < k /\ jobs[i] = ChatOf(m) /\ jobs[k] = ChatOf(n) => m < n
    /\ \A i \in DOMAIN jobs : \A n \in 1 .. MaxChats : jobs[i] = ChatOf(n) =>
           /\ n <= Len(authors)
           /\ \A b \in broadcasts : b.chat < n
           /\ \A s \in Sessions : \A k \in DOMAIN inbox[s] : inbox[s][k] < n
    /\ \A b, c \in broadcasts : b = c
    /\ \A b \in broadcasts : b.chat <= Len(authors)
    /\ \A b \in broadcasts : \A s \in Sessions : \A k \in DOMAIN inbox[s] : inbox[s][k] <= b.chat
    /\ \A b \in broadcasts : \A p \in b.rest : ~Again(p[1]) =>
           \A k \in DOMAIN inbox[p[1]] : inbox[p[1]][k] < b.chat
    /\ \A s \in Sessions : \A k \in DOMAIN inbox[s] : inbox[s][k] <= Len(authors)

\* An open session that has entered has a player in the room or about to enter it,
\* before its chats.
PlayersOf(s) == {p \in Players : p[1] = s}
Member(s) == \E p \in PlayersOf(s) : p \in roomPlayers
EnterWaits(s) == \E p \in PlayersOf(s) : InJobs(EnterOf(p))
ChatWaits(n, s) ==
    \E k \in DOMAIN jobs :
        /\ jobs[k] = ChatOf(n)
        /\ Member(s) \/ \E i \in DOMAIN jobs : i < k /\ \E p \in PlayersOf(s) : jobs[i] = EnterOf(p)
ChatReaches(n, s) == \E b \in broadcasts : b.chat = n /\ \E p \in PlayersOf(s) : p \in b.rest
Heard(n, s) == \E k \in DOMAIN inbox[s] : inbox[s][k] = n
Joined ==
    /\ \A s \in Sessions : "enter" \in asked[s] /\ recv[s] # "enterJob" /\ life[s] = "open" =>
           Member(s) \/ EnterWaits(s)
    /\ \A n \in DOMAIN authors : authors[n] # NoPlayer => "enter" \in asked[authors[n]]
    /\ \A n \in DOMAIN authors : authors[n] # NoPlayer /\ life[authors[n]] = "open" =>
           ChatWaits(n, authors[n]) \/ ChatReaches(n, authors[n]) \/ Heard(n, authors[n])

\* What every reachable state has: the conjuncts need one another to be preserved.
IInv ==
    /\ ServiceExact
    /\ AcceptOwn
    /\ TypeOK
    /\ Receiving
    /\ Entered
    /\ LeftFollowed
    /\ ChatsWait
    /\ CrashOnlyLate
    /\ ChatOrder
    /\ Joined

-------------------------------------------------------------------------------
(* Accept: the sets of the service and of the manager *)

\* The part of it that is about Accept alone.
AInv == ServiceExact /\ AcceptOwn

\* The initial state: accepts wait with new sessions, the sets are empty.
LEMMA InitAccept == Init => AInv
<1> SUFFICES ASSUME Init
             PROVE  AInv
  OBVIOUS
<1>1. /\ acceptSession \in [AcceptEvents -> Sessions]
      /\ \A e, f \in AcceptEvents : acceptSession[e] = acceptSession[f] => e = f
      /\ acceptPc = [e \in AcceptEvents |-> "pending"]
      /\ life = [s \in Sessions |->
             IF \E e \in AcceptEvents : acceptSession[e] = s THEN "created" ELSE "unused"]
      /\ sessions = {} /\ sessionCount = 0 /\ manager = {} /\ crash = "no"
  BY DEF Init, AcceptInit
<1>2. AcceptTypeOK
  BY <1>1 DEF AcceptTypeOK, AcceptPcs, Lives
<1>3. \A s \in Sessions : life[s] \in {"created", "unused"}
  BY <1>1
<1>4. \A e \in AcceptEvents : acceptPc[e] = "pending" /\ life[acceptSession[e]] = "created"
  BY <1>1
<1>5. sessionCount = Cardinality(sessions)
  BY <1>1, FS_EmptySet
<1>6. /\ sessions = {s \in Sessions : life[s] \notin {"unused", "created", "released"}}
      /\ manager = {s \in Sessions : life[s] \in {"open", "closing"}}
  BY <1>1, <1>3
<1>7. ServiceExact
  BY <1>1, <1>2, <1>4, <1>5, <1>6 DEF ServiceExact
<1>8. AcceptOwn
  BY <1>1, <1>4 DEF AcceptOwn
<1>9. QED
  BY <1>7, <1>8 DEF AInv

\* A session that is open or on its way to the release is nobody's accept; the service
\* has it until it is released.
LEMMA InnerMove ==
    ASSUME AInv, NEW s \in Sessions,
           life[s] \in {"open", "closing", "leave", "clear"},
           \E now \in {"closing", "leave", "clear", "release"} : life' = [life EXCEPT ![s] = now],
           manager' = {t \in Sessions : life'[t] \in {"open", "closing"}},
           UNCHANGED <<acceptSession, acceptPc, sessions, sessionCount>>,
           crash' # "notInService"
    PROVE  AInv'
<1>1. /\ AcceptTypeOK /\ AcceptOwn
      /\ sessions = {t \in Sessions : life[t] \notin {"unused", "created", "released"}}
      /\ sessionCount = Cardinality(sessions)
      /\ \A e \in AcceptEvents : acceptPc[e] = "pending" => life[acceptSession[e]] = "created"
  BY DEF AInv, ServiceExact
<1> PICK now \in {"closing", "leave", "clear", "release"} : life' = [life EXCEPT ![s] = now]
  OBVIOUS
<1>2. \A t \in Sessions : life'[t] = IF t = s THEN now ELSE life[t]
  BY <1>1 DEF AcceptTypeOK
<1>3. \A e \in AcceptEvents : acceptSession[e] \in Sessions
  BY <1>1 DEF AcceptTypeOK
<1>4. AcceptTypeOK'
  <2>1. manager' \subseteq Sessions
    OBVIOUS
  <2>2. life' \in [Sessions -> Lives]
    BY <1>1 DEF AcceptTypeOK, Lives
  <2>3. QED
    BY <1>1, <2>1, <2>2 DEF AcceptTypeOK
<1>5. sessions' = {t \in Sessions : life'[t] \notin {"unused", "created", "released"}}
  BY <1>1, <1>2
<1>6. \A e \in AcceptEvents : acceptSession[e] = s =>
          acceptPc[e] \notin {"pending", "add", "onConnected"}
  BY <1>1 DEF AcceptOwn
<1>7. \A e \in AcceptEvents : acceptPc[e] \in {"pending", "add", "onConnected"} =>
          life'[acceptSession[e]] = life[acceptSession[e]]
  BY <1>2, <1>3, <1>6
<1>8. AcceptOwn'
  BY <1>1, <1>7 DEF AcceptOwn
<1>9. ServiceExact'
  BY <1>1, <1>4, <1>5, <1>7 DEF ServiceExact
<1>10. QED
  BY <1>8, <1>9 DEF AInv

\* RegisterAccept takes a session that was unused.
LEMMA RegisterAcceptInv ==
    ASSUME AInv, NEW e \in AcceptEvents, RegisterAccept(e)
    PROVE  AInv'
<1>1. /\ AcceptTypeOK /\ AcceptOwn /\ crash = "no"
      /\ sessions = {t \in Sessions : life[t] \notin {"unused", "created", "released"}}
      /\ sessionCount = Cardinality(sessions)
      /\ manager = {t \in Sessions : life[t] \in {"open", "closing"}}
      /\ \A f \in AcceptEvents : acceptPc[f] = "pending" => life[acceptSession[f]] = "created"
  BY DEF AInv, ServiceExact, RegisterAccept, Handles
<1>2. PICK s \in Sessions : /\ life[s] = "unused"
                            /\ life' = [life EXCEPT ![s] = "created"]
                            /\ acceptSession' = [acceptSession EXCEPT ![e] = s]
  BY DEF RegisterAccept, Becomes
<1>3. /\ acceptPc[e] = "register"
      /\ acceptPc' = [acceptPc EXCEPT ![e] = "pending"] \/ acceptPc' = acceptPc
      /\ UNCHANGED <<sessions, sessionCount, manager, crash>>
  BY DEF RegisterAccept, Handles, Goto
<1>4. /\ \A t \in Sessions : life'[t] = IF t = s THEN "created" ELSE life[t]
      /\ \A f \in AcceptEvents : acceptSession'[f] = IF f = e THEN s ELSE acceptSession[f]
      /\ \A f \in AcceptEvents : acceptSession[f] \in Sessions
      /\ \A f \in AcceptEvents : f # e => acceptPc'[f] = acceptPc[f]
      /\ acceptPc'[e] \in {"pending", "register"}
  BY <1>1, <1>2, <1>3 DEF AcceptTypeOK
<1>5. AcceptTypeOK'
  BY <1>1, <1>2, <1>3 DEF AcceptTypeOK, AcceptPcs, Lives
<1>6. \A f \in AcceptEvents : acceptPc[f] # "register" => acceptSession[f] # s
  <2>1. \A f \in AcceptEvents : acceptPc[f] \in {"pending", "add", "onConnected", "register"}
    BY <1>1 DEF AcceptTypeOK, AcceptPcs
  <2>2. QED
    BY <1>1, <1>2, <2>1 DEF AcceptOwn
<1>7. AcceptOwn'
  <2>1. \A f, g \in AcceptEvents :
            /\ acceptPc'[f] # "register" /\ acceptPc'[g] # "register"
            /\ acceptSession'[f] = acceptSession'[g]
            => f = g
    BY <1>1, <1>4, <1>6 DEF AcceptOwn
  <2>2. \A f \in AcceptEvents :
            /\ acceptPc'[f] \in {"pending", "add"} => life'[acceptSession'[f]] = "created"
            /\ acceptPc'[f] = "onConnected" => life'[acceptSession'[f]] = "added"
    BY <1>1, <1>4, <1>6 DEF AcceptOwn
  <2>3. QED
    BY <2>1, <2>2 DEF AcceptOwn
<1>8. /\ sessions' = {t \in Sessions : life'[t] \notin {"unused", "created", "released"}}
      /\ manager' = {t \in Sessions : life'[t] \in {"open", "closing"}}
  BY <1>1, <1>2, <1>3, <1>4
<1>9. ServiceExact'
  <2>1. \A f \in AcceptEvents : acceptPc'[f] = "pending" => life'[acceptSession'[f]] = "created"
    BY <1>7 DEF AcceptOwn
  <2>2. sessionCount' = Cardinality(sessions')
    BY <1>1, <1>3
  <2>3. QED
    BY <1>1, <1>3, <1>5, <1>8, <2>1, <2>2 DEF ServiceExact
<1>10. QED
  BY <1>7, <1>9 DEF AInv

\* A completed accept goes on, or is registered again.
LEMMA AcceptCompletedInv ==
    ASSUME AInv, NEW e \in AcceptEvents, AcceptCompleted(e)
    PROVE  AInv'
<1>1. /\ AcceptTypeOK /\ AcceptOwn
      /\ acceptPc[e] = "pending" /\ life[acceptSession[e]] = "created"
      /\ acceptPc' = [acceptPc EXCEPT ![e] = "add"] \/ acceptPc' = [acceptPc EXCEPT ![e] = "register"]
      /\ UNCHANGED <<acceptSession, life, recv, sessions, sessionCount, manager, crash>>
  BY DEF AInv, ServiceExact, AcceptCompleted, Handles, Goto
<1>2. /\ \A f \in AcceptEvents : f # e => acceptPc'[f] = acceptPc[f]
      /\ acceptPc'[e] \in {"add", "register"}
  BY <1>1 DEF AcceptTypeOK
<1>3. AcceptTypeOK'
  BY <1>1 DEF AcceptTypeOK, AcceptPcs
<1>4. AcceptOwn'
  BY <1>1, <1>2 DEF AcceptOwn
<1>5. ServiceExact'
  BY <1>1, <1>2, <1>3 DEF AInv, ServiceExact
<1>6. QED
  BY <1>4, <1>5 DEF AInv

\* Sets of sessions are finite: there are finitely many sessions.
LEMMA SessionsFinite ==
    ASSUME AcceptTypeOK
    PROVE  IsFiniteSet(sessions) /\ Cardinality(sessions) \in Nat
BY SessionsAssumption, FS_Subset, FS_CardinalityType DEF AcceptTypeOK

\* AddSession counts a session that the service has not.
LEMMA AddSessionInv ==
    ASSUME AInv, NEW e \in AcceptEvents, AddSession(e)
    PROVE  AInv'
<1> DEFINE s == acceptSession[e]
<1>1. /\ AcceptTypeOK /\ AcceptOwn /\ crash = "no"
      /\ sessions = {t \in Sessions : life[t] \notin {"unused", "created", "released"}}
      /\ sessionCount = Cardinality(sessions)
      /\ manager = {t \in Sessions : life[t] \in {"open", "closing"}}
  BY DEF AInv, ServiceExact, AddSession, Handles
<1>2. /\ acceptPc[e] = "add" /\ s \in Sessions /\ life[s] = "created"
      /\ sessions' = sessions \cup {s} /\ sessionCount' = sessionCount + 1
      /\ life' = [life EXCEPT ![s] = "added"]
      /\ acceptPc' = [acceptPc EXCEPT ![e] = "onConnected"]
      /\ UNCHANGED <<acceptSession, manager, crash>>
  BY <1>1 DEF AddSession, Handles, Becomes, Goto, AcceptTypeOK, AcceptOwn
<1> HIDE DEF s
<1>3. /\ \A t \in Sessions : life'[t] = IF t = s THEN "added" ELSE life[t]
      /\ \A f \in AcceptEvents : acceptPc'[f] = IF f = e THEN "onConnected" ELSE acceptPc[f]
      /\ \A f \in AcceptEvents : acceptSession[f] \in Sessions
  BY <1>1, <1>2 DEF AcceptTypeOK
<1>4. \A f \in AcceptEvents : f # e /\ acceptPc[f] # "register" => acceptSession[f] # s
  BY <1>1, <1>2 DEF AcceptOwn, s
<1>5. sessionCount' = Cardinality(sessions') /\ sessionCount' \in Nat
  <2>1. s \notin sessions
    BY <1>1, <1>2
  <2>2. QED
    <3>1. IsFiniteSet(sessions) /\ Cardinality(sessions) \in Nat
      BY <1>1, SessionsFinite
    <3>2. Cardinality(sessions \cup {s}) = Cardinality(sessions) + 1
      BY <2>1, <3>1, FS_AddElement
    <3>3. QED
      BY <1>1, <1>2, <3>1, <3>2
<1>6. AcceptTypeOK'
  BY <1>1, <1>2, <1>5 DEF AcceptTypeOK, AcceptPcs, Lives
<1>7. AcceptOwn'
  <2>1. \A f, g \in AcceptEvents :
            /\ acceptPc'[f] # "register" /\ acceptPc'[g] # "register"
            /\ acceptSession'[f] = acceptSession'[g]
            => f = g
    BY <1>1, <1>2, <1>3 DEF AcceptOwn
  <2>2. \A f \in AcceptEvents :
            /\ acceptPc'[f] \in {"pending", "add"} => life'[acceptSession'[f]] = "created"
            /\ acceptPc'[f] = "onConnected" => life'[acceptSession'[f]] = "added"
    <3>1. ASSUME NEW f \in AcceptEvents
          PROVE  /\ acceptPc'[f] \in {"pending", "add"} => life'[acceptSession[f]] = "created"
                 /\ acceptPc'[f] = "onConnected" => life'[acceptSession[f]] = "added"
      <4>1. CASE f = e
        BY <1>2, <1>3, <4>1 DEF s
      <4>2. CASE f # e
        BY <1>1, <1>3, <1>4, <4>2 DEF AcceptOwn
      <4>3. QED
        BY <4>1, <4>2
    <3>2. QED
      BY <1>2, <3>1
  <2>3. QED
    BY <2>1, <2>2 DEF AcceptOwn
<1>8. /\ sessions' = {t \in Sessions : life'[t] \notin {"unused", "created", "released"}}
      /\ manager' = {t \in Sessions : life'[t] \in {"open", "closing"}}
  BY <1>1, <1>2, <1>3
<1>9. ServiceExact'
  BY <1>1, <1>2, <1>5, <1>6, <1>7, <1>8 DEF ServiceExact, AcceptOwn
<1>10. QED
  BY <1>7, <1>9 DEF AInv

\* GameSession::OnConnected, of a session that the service has and the manager has not.
LEMMA OnConnectedInv ==
    ASSUME AInv, NEW e \in AcceptEvents, OnConnected(e)
    PROVE  AInv'
<1> DEFINE s == acceptSession[e]
<1>1. /\ AcceptTypeOK /\ AcceptOwn /\ crash = "no"
      /\ sessions = {t \in Sessions : life[t] \notin {"unused", "created", "released"}}
      /\ sessionCount = Cardinality(sessions)
      /\ manager = {t \in Sessions : life[t] \in {"open", "closing"}}
  BY DEF AInv, ServiceExact, OnConnected, Handles
<1>2. /\ acceptPc[e] = "onConnected" /\ s \in Sessions /\ life[s] = "added"
      /\ manager' = manager \cup {s}
      /\ life' = [life EXCEPT ![s] = "open"]
      /\ acceptPc' = [acceptPc EXCEPT ![e] = "register"]
      /\ UNCHANGED <<acceptSession, sessions, sessionCount, crash>>
  BY <1>1 DEF OnConnected, Handles, Becomes, Goto, AcceptTypeOK, AcceptOwn
<1> HIDE DEF s
<1>3. /\ \A t \in Sessions : life'[t] = IF t = s THEN "open" ELSE life[t]
      /\ \A f \in AcceptEvents : acceptPc'[f] = IF f = e THEN "register" ELSE acceptPc[f]
      /\ \A f \in AcceptEvents : acceptSession[f] \in Sessions
  BY <1>1, <1>2 DEF AcceptTypeOK
<1>4. \A f \in AcceptEvents : f # e /\ acceptPc[f] # "register" => acceptSession[f] # s
  BY <1>1, <1>2 DEF AcceptOwn, s
<1>5. AcceptTypeOK'
  BY <1>1, <1>2 DEF AcceptTypeOK, AcceptPcs, Lives
<1>6. AcceptOwn'
  <2>1. \A f, g \in AcceptEvents :
            /\ acceptPc'[f] # "register" /\ acceptPc'[g] # "register"
            /\ acceptSession'[f] = acceptSession'[g]
            => f = g
    BY <1>1, <1>2, <1>3 DEF AcceptOwn
  <2>2. \A f \in AcceptEvents :
            /\ acceptPc'[f] \in {"pending", "add"} => life'[acceptSession'[f]] = "created"
            /\ acceptPc'[f] = "onConnected" => life'[acceptSession'[f]] = "added"
    BY <1>1, <1>2, <1>3, <1>4 DEF AcceptOwn
  <2>3. QED
    BY <2>1, <2>2 DEF AcceptOwn
<1>7. /\ sessions' = {t \in Sessions : life'[t] \notin {"unused", "created", "released"}}
      /\ manager' = {t \in Sessions : life'[t] \in {"open", "closing"}}
  BY <1>1, <1>2, <1>3
<1>8. ServiceExact'
  BY <1>1, <1>2, <1>5, <1>6, <1>7 DEF ServiceExact, AcceptOwn
<1>9. QED
  BY <1>6, <1>8 DEF AInv

\* ReleaseSession finds its session in the service, and counts it down once.
LEMMA ReleaseSessionInv ==
    ASSUME AInv, NEW s \in Sessions, ReleaseSession(s)
    PROVE  AInv' /\ UNCHANGED crash /\ life' = [life EXCEPT ![s] = "released"]
<1>1. /\ AcceptTypeOK /\ AcceptOwn /\ crash = "no" /\ life[s] = "release"
      /\ sessions = {t \in Sessions : life[t] \notin {"unused", "created", "released"}}
      /\ sessionCount = Cardinality(sessions)
      /\ manager = {t \in Sessions : life[t] \in {"open", "closing"}}
  BY DEF AInv, ServiceExact, ReleaseSession
<1>2. s \in sessions
  BY <1>1
<1>3. /\ sessions' = sessions \ {s} /\ sessionCount' = sessionCount - 1
      /\ life' = [life EXCEPT ![s] = "released"]
      /\ UNCHANGED <<acceptSession, acceptPc, manager, crash>>
  BY <1>2 DEF ReleaseSession, Becomes
<1>4. /\ \A t \in Sessions : life'[t] = IF t = s THEN "released" ELSE life[t]
      /\ \A f \in AcceptEvents : acceptSession[f] \in Sessions
  BY <1>1, <1>3 DEF AcceptTypeOK
<1>5. sessionCount' = Cardinality(sessions') /\ sessionCount' \in Nat
  <2>1. IsFiniteSet(sessions)
    BY <1>1, SessionsFinite
  <2>2. Cardinality(sessions') = Cardinality(sessions) - 1 /\ IsFiniteSet(sessions')
    BY <1>2, <1>3, <2>1, FS_RemoveElement
  <2>3. QED
    BY <1>1, <1>3, <2>2, FS_CardinalityType
<1>6. AcceptTypeOK'
  BY <1>1, <1>3, <1>5 DEF AcceptTypeOK, Lives
<1>7. \A e \in AcceptEvents : acceptPc[e] \in {"pending", "add", "onConnected"} =>
          life'[acceptSession[e]] = life[acceptSession[e]]
  BY <1>1, <1>4 DEF AcceptOwn
<1>8. AcceptOwn'
  BY <1>1, <1>3, <1>7 DEF AcceptOwn
<1>9. /\ sessions' = {t \in Sessions : life'[t] \notin {"unused", "created", "released"}}
      /\ manager' = {t \in Sessions : life'[t] \in {"open", "closing"}}
  BY <1>1, <1>3, <1>4
<1>10. ServiceExact'
  BY <1>1, <1>3, <1>5, <1>6, <1>8, <1>9 DEF ServiceExact, AcceptOwn
<1>11. QED
  BY <1>3, <1>8, <1>10 DEF AInv
\* The handlers and the room leave the sessions where they are.
LEMMA AcceptSame ==
    ASSUME AInv, UNCHANGED <<life, acceptRest>>, crash' # "notInService"
    PROVE  AInv'
<1> USE DEF acceptRest
<1>1. AcceptTypeOK' /\ AcceptOwn'
  BY DEF AInv, ServiceExact, AcceptTypeOK, AcceptOwn
<1>2. ServiceExact'
  BY <1>1 DEF AInv, ServiceExact
<1>3. QED
  BY <1>1, <1>2 DEF AInv

\* An open session is closed.
LEMMA DisconnectInv ==
    ASSUME AInv, NEW s \in Sessions, Disconnect(s), UNCHANGED <<acceptRest, crash>>
    PROVE  AInv'
<1>1. /\ AcceptTypeOK /\ crash' # "notInService"
      /\ manager = {t \in Sessions : life[t] \in {"open", "closing"}}
  BY DEF AInv, ServiceExact
<1>2. life[s] = "open" /\ life' = [life EXCEPT ![s] = "closing"]
  BY DEF Disconnect, Becomes
<1>3. manager' = {t \in Sessions : life'[t] \in {"open", "closing"}}
  BY <1>1, <1>2 DEF AcceptTypeOK, acceptRest
<1>4. \E now \in {"closing", "leave", "clear", "release"} : life' = [life EXCEPT ![s] = now]
  BY <1>2
<1>5. QED
  BY <1>1, <1>2, <1>3, <1>4, InnerMove DEF acceptRest

\* OnDisconnected takes the session out of the manager before it clears it.
LEMMA CloseInv ==
    ASSUME AInv, NEW s \in Sessions, OnDisconnected(s) \/ Leave(s) \/ Clear(s)
    PROVE  AInv'
<1>1. /\ AcceptTypeOK /\ crash # "notInService"
      /\ manager = {t \in Sessions : life[t] \in {"open", "closing"}}
  BY DEF AInv, ServiceExact
<1>2. CASE OnDisconnected(s)
  <2>1. /\ life[s] = "closing" /\ life' = [life EXCEPT ![s] = "leave"]
        /\ manager' = manager \ {s}
        /\ UNCHANGED <<acceptSession, acceptPc, sessions, sessionCount, crash>>
    BY <1>2 DEF OnDisconnected, Remove, Becomes
  <2>2. manager' = {t \in Sessions : life'[t] \in {"open", "closing"}}
    BY <1>1, <2>1 DEF AcceptTypeOK
  <2>3. /\ life[s] \in {"open", "closing", "leave", "clear"}
        /\ \E now \in {"closing", "leave", "clear", "release"} : life' = [life EXCEPT ![s] = now]
        /\ UNCHANGED <<acceptSession, acceptPc, sessions, sessionCount>> /\ crash' # "notInService"
    BY <1>1, <2>1
  <2>4. QED
    BY <2>2, <2>3, InnerMove
<1>3. CASE Leave(s)
  <2>1. /\ life[s] = "leave" /\ life' = [life EXCEPT ![s] = "clear"]
        /\ UNCHANGED <<acceptSession, acceptPc, sessions, sessionCount, manager, crash>>
    BY <1>3 DEF Leave, Becomes, acceptRest
  <2>2. manager' = {t \in Sessions : life'[t] \in {"open", "closing"}}
    BY <1>1, <2>1 DEF AcceptTypeOK
  <2>3. /\ life[s] \in {"open", "closing", "leave", "clear"}
        /\ \E now \in {"closing", "leave", "clear", "release"} : life' = [life EXCEPT ![s] = now]
        /\ UNCHANGED <<acceptSession, acceptPc, sessions, sessionCount>> /\ crash' # "notInService"
    BY <1>1, <2>1
  <2>4. QED
    BY <2>2, <2>3, InnerMove
<1>4. CASE Clear(s)
  <2>1. /\ life[s] = "clear" /\ life' = [life EXCEPT ![s] = "release"]
        /\ UNCHANGED <<acceptSession, acceptPc, sessions, sessionCount, manager, crash>>
    BY <1>4 DEF Clear, Becomes, acceptRest
  <2>2. manager' = {t \in Sessions : life'[t] \in {"open", "closing"}}
    BY <1>1, <2>1 DEF AcceptTypeOK
  <2>3. /\ life[s] \in {"open", "closing", "leave", "clear"}
        /\ \E now \in {"closing", "leave", "clear", "release"} : life' = [life EXCEPT ![s] = now]
        /\ UNCHANGED <<acceptSession, acceptPc, sessions, sessionCount>> /\ crash' # "notInService"
    BY <1>1, <2>1
  <2>4. QED
    BY <2>2, <2>3, InnerMove
<1>5. QED
  BY <1>2, <1>3, <1>4

\* The steps that leave life and the sets of the sessions alone.
Quiet(s) ==
    \/ RecvBegin(s) \/ Handle_C_LOGIN(s) \/ Handle_C_ENTER_GAME(s) \/ EnterJob(s)
    \/ EnterSend(s) \/ Handle_C_CHAT(s) \/ RecvEnd(s)

\* Every step keeps the sets exact.
LEMMA AcceptNext ==
    ASSUME AInv, [Next]_vars
    PROVE  AInv'
<1>1. crash # "notInService"
  BY DEF AInv, ServiceExact
<1>2. ASSUME NEW e \in AcceptEvents, AcceptStep(e)
      PROVE  AInv'
  BY <1>2, RegisterAcceptInv, AcceptCompletedInv, AddSessionInv, OnConnectedInv DEF AcceptStep
<1>3. ASSUME NEW s \in Sessions, Quiet(s)
      PROVE  AInv'
  <2>1. UNCHANGED <<life, acceptRest>>
    BY <1>3 DEF Quiet, RecvBegin, Handle_C_LOGIN, Handle_C_ENTER_GAME, EnterJob, EnterSend,
       Handle_C_CHAT, RecvEnd, acceptVars, acceptRest
  <2>2. crash' \in {crash, "noPlayer", "nullPlayer"}
    BY <1>3 DEF Quiet, RecvBegin, Handle_C_LOGIN, Handle_C_ENTER_GAME, EnterJob, EnterSend,
       Handle_C_CHAT, RecvEnd, Dies, acceptVars
  <2>3. QED
    BY <1>1, <2>1, <2>2, AcceptSame
<1>4. ASSUME NEW s \in Sessions, RecvNothing(s) \/ SendFails(s)
      PROVE  AInv'
  <2>1. UNCHANGED <<acceptRest, crash>> /\ (Disconnect(s) \/ UNCHANGED life)
    BY <1>4 DEF RecvNothing, SendFails
  <2>2. QED
    BY <1>1, <2>1, AcceptSame, DisconnectInv
<1>5. CASE RoomStep
  <2>1. UNCHANGED <<life, acceptRest>> /\ crash' \in {crash, "nullPlayer"}
    BY <1>5 DEF RoomStep, EnterOrLeave, NullPlayerJob, Dies, BroadCast, SendChat, acceptVars, acceptRest
  <2>2. QED
    BY <1>1, <2>1, AcceptSame
<1>6. CASE UNCHANGED vars
  BY <1>1, <1>6, AcceptSame DEF vars, acceptVars, acceptRest
<1>7. QED
  BY <1>2, <1>3, <1>4, <1>5, <1>6, CloseInv, ReleaseSessionInv DEF Next, HandlerStep, CloseStep, Quiet

-------------------------------------------------------------------------------
(* Game: players, jobs and their queue *)

\* A player is that of its session, and no null player.
LEMMA PlayerFacts ==
    /\ NoPlayer \notin Players
    /\ \A p \in Players : p[1] \in Sessions /\ p \in {p[1]} \X Indices
    /\ \A s \in Sessions : \A p \in {s} \X Indices : p \in Players /\ p[1] = s /\ p # NoPlayer
    /\ \A s \in Sessions : {s} \X Indices # {}
<1>1. \A p \in Players : p[1] \in Sessions /\ p \in {p[1]} \X Indices
  BY DEF Players
<1>2. \A s \in Sessions : \A p \in {s} \X Indices : p \in Players /\ p[1] = s
  BY DEF Players
<1>3. ASSUME NEW s \in Sessions
      PROVE  {s} \X Indices # {}
  <2>1. PICK i \in Indices : TRUE
    BY IndicesAssumption
  <2>2. <<s, i>> \in {s} \X Indices
    OBVIOUS
  <2>3. QED
    BY <2>2
<1>4. QED
  BY <1>1, <1>2, <1>3, NoPlayerAssumption DEF Players

\* The kinds of jobs differ, and a job is one of them.
LEMMA JobFacts ==
    /\ \A p, q : (EnterOf(p) = EnterOf(q) <=> p = q) /\ (LeaveOf(p) = LeaveOf(q) <=> p = q)
    /\ \A m, n : (ChatOf(m) = ChatOf(n) <=> m = n) /\ (NullOf(m) = NullOf(n) <=> m = n)
    /\ \A p, q : EnterOf(p) # LeaveOf(q)
    /\ \A p, n : EnterOf(p) # ChatOf(n) /\ LeaveOf(p) # ChatOf(n)
    /\ \A p, n : EnterOf(p) # NullOf(n) /\ LeaveOf(p) # NullOf(n) /\ ChatOf(p) # NullOf(n)
    /\ \A p \in Players : EnterOf(p) \in Jobs /\ LeaveOf(p) \in Jobs
    /\ \A s \in Sessions : NullOf(s) \in Jobs
    /\ \A n \in 1 .. MaxChats : ChatOf(n) \in Jobs
    /\ \A p : EnterOf(p).kind = "enter" /\ EnterOf(p).player = p
    /\ \A p : LeaveOf(p).kind = "leave" /\ LeaveOf(p).player = p
    /\ \A n : ChatOf(n).kind = "chat" /\ ChatOf(n).chat = n
    /\ \A s : NullOf(s).kind = "null" /\ NullOf(s).session = s
    /\ \A job \in Jobs :
           \/ \E p \in Players : job = EnterOf(p) \/ job = LeaveOf(p)
           \/ \E s \in Sessions : job = NullOf(s)
           \/ \E n \in 1 .. MaxChats : job = ChatOf(n)
<1>1. /\ \A p : EnterOf(p).kind = "enter" /\ EnterOf(p).player = p
      /\ \A p : LeaveOf(p).kind = "leave" /\ LeaveOf(p).player = p
      /\ \A n : ChatOf(n).kind = "chat" /\ ChatOf(n).chat = n
      /\ \A s : NullOf(s).kind = "null" /\ NullOf(s).session = s
  BY DEF EnterOf, LeaveOf, ChatOf, NullOf
<1>2. /\ \A p \in Players : EnterOf(p) \in Jobs /\ LeaveOf(p) \in Jobs
      /\ \A s \in Sessions : NullOf(s) \in Jobs
      /\ \A n \in 1 .. MaxChats : ChatOf(n) \in Jobs
  BY DEF Jobs, EnterOf, LeaveOf, ChatOf, NullOf
<1>3. ASSUME NEW job \in Jobs
      PROVE  \/ \E p \in Players : job = EnterOf(p) \/ job = LeaveOf(p)
             \/ \E s \in Sessions : job = NullOf(s)
             \/ \E n \in 1 .. MaxChats : job = ChatOf(n)
  <2>1. CASE job \in [kind : {"enter", "leave"}, player : Players]
    <3>1. job.player \in Players /\ job = [kind |-> job.kind, player |-> job.player]
          /\ job.kind \in {"enter", "leave"}
      BY <2>1
    <3>2. QED
      BY <3>1 DEF EnterOf, LeaveOf
  <2>2. CASE job \in [kind : {"chat"}, chat : 1 .. MaxChats]
    <3>1. job.chat \in 1 .. MaxChats /\ job = [kind |-> "chat", chat |-> job.chat]
      BY <2>2
    <3>2. QED
      BY <3>1 DEF ChatOf
  <2>3. CASE job \in [kind : {"null"}, session : Sessions]
    <3>1. job.session \in Sessions /\ job = [kind |-> "null", session |-> job.session]
      BY <2>3
    <3>2. QED
      BY <3>1 DEF NullOf
  <2>4. QED
    BY <2>1, <2>2, <2>3 DEF Jobs
<1>4. /\ \A p, q : EnterOf(p) = EnterOf(q) => p = q
      /\ \A p, q : LeaveOf(p) = LeaveOf(q) => p = q
  BY <1>1
<1>5. /\ \A m, n : ChatOf(m) = ChatOf(n) => m = n
      /\ \A m, n : NullOf(m) = NullOf(n) => m = n
  BY <1>1
<1>6. /\ \A p, q : EnterOf(p) # LeaveOf(q)
      /\ \A p, n : EnterOf(p) # ChatOf(n) /\ LeaveOf(p) # ChatOf(n)
      /\ \A p, n : EnterOf(p) # NullOf(n) /\ LeaveOf(p) # NullOf(n) /\ ChatOf(p) # NullOf(n)
  <2>1. /\ "enter" # "leave" /\ "enter" # "chat" /\ "leave" # "chat"
        /\ "enter" # "null" /\ "leave" # "null" /\ "chat" # "null"
    OBVIOUS
  <2>2. QED
    BY <1>1, <2>1
<1>7. QED
  BY <1>1, <1>2, <1>3, <1>4, <1>5, <1>6

\* DoAsync appends a job.
LEMMA JobsAppend ==
    ASSUME jobs \in Seq(Jobs), NEW job \in Jobs, DoAsync(job)
    PROVE  /\ jobs' \in Seq(Jobs) /\ Len(jobs) \in Nat
           /\ DOMAIN jobs = 1 .. Len(jobs) /\ DOMAIN jobs' = 1 .. Len(jobs) + 1
           /\ \A i \in 1 .. Len(jobs) : jobs'[i] = jobs[i]
           /\ jobs'[Len(jobs) + 1] = job
           /\ \A j : InJobs(j)' <=> InJobs(j) \/ j = job
<1>1. /\ jobs' \in Seq(Jobs) /\ Len(jobs') = Len(jobs) + 1
      /\ \A i \in 1 .. Len(jobs) : jobs'[i] = jobs[i]
      /\ jobs'[Len(jobs) + 1] = job
  BY AppendProperties DEF DoAsync
<1>2. /\ Len(jobs) \in Nat /\ DOMAIN jobs = 1 .. Len(jobs) /\ DOMAIN jobs' = 1 .. Len(jobs) + 1
  BY <1>1, LenProperties
<1>3. ASSUME NEW j, InJobs(j) \/ j = job
      PROVE  InJobs(j)'
  <2>1. CASE j = job
    BY <1>1, <1>2, <2>1 DEF InJobs
  <2>2. CASE InJobs(j)
    BY <1>1, <1>2, <2>2 DEF InJobs
  <2>3. QED
    BY <1>3, <2>1, <2>2
<1>4. ASSUME NEW j, InJobs(j)'
      PROVE  InJobs(j) \/ j = job
  BY <1>1, <1>2, <1>4 DEF InJobs
<1>5. QED
  BY <1>1, <1>2, <1>3, <1>4

\* The Room takes the first job.
LEMMA JobsTail ==
    ASSUME jobs \in Seq(Jobs), jobs # <<>>, jobs' = Tail(jobs)
    PROVE  /\ jobs' \in Seq(Jobs) /\ Len(jobs) \in Nat /\ Len(jobs) >= 1
           /\ DOMAIN jobs = 1 .. Len(jobs) /\ DOMAIN jobs' = 1 .. Len(jobs) - 1
           /\ \A i \in 1 .. Len(jobs) - 1 : jobs'[i] = jobs[i + 1]
           /\ Head(jobs) = jobs[1] /\ Head(jobs) \in Jobs
           /\ \A j : InJobs(j) <=> InJobs(j)' \/ j = Head(jobs)
<1>1. /\ jobs' \in Seq(Jobs) /\ Head(jobs) \in Jobs /\ Len(jobs') = Len(jobs) - 1
      /\ \A i \in 1 .. Len(jobs) - 1 : jobs'[i] = jobs[i + 1]
      /\ Head(jobs) = jobs[1]
  BY HeadTailProperties
<1>2. /\ Len(jobs) \in Nat /\ DOMAIN jobs = 1 .. Len(jobs) /\ DOMAIN jobs' = 1 .. Len(jobs) - 1
  BY <1>1, LenProperties
<1>3. Len(jobs) >= 1
  BY <1>2, EmptySeq
<1>4. ASSUME NEW j, InJobs(j)' \/ j = Head(jobs)
      PROVE  InJobs(j)
  <2>1. CASE j = Head(jobs)
    BY <1>1, <1>2, <1>3, <2>1 DEF InJobs
  <2>2. CASE InJobs(j)'
    <3>1. PICK i \in 1 .. Len(jobs) - 1 : jobs'[i] = j
      BY <1>2, <2>2 DEF InJobs
    <3>2. i + 1 \in 1 .. Len(jobs) /\ jobs[i + 1] = j
      BY <1>1, <1>2, <3>1
    <3>3. QED
      BY <1>2, <3>2 DEF InJobs
  <2>3. QED
    BY <1>4, <2>1, <2>2
<1>5. ASSUME NEW j, InJobs(j), j # Head(jobs)
      PROVE  InJobs(j)'
  <2>1. PICK i \in 1 .. Len(jobs) : jobs[i] = j
    BY <1>2, <1>5 DEF InJobs
  <2>2. i # 1
    BY <1>1, <1>5, <2>1
  <2>3. i - 1 \in 1 .. Len(jobs) - 1 /\ (i - 1) + 1 = i
    BY <1>2, <2>1, <2>2
  <2>4. jobs'[i - 1] = j
    BY <1>1, <2>1, <2>3
  <2>5. QED
    BY <1>2, <2>3, <2>4 DEF InJobs
<1>6. QED
  BY <1>1, <1>2, <1>3, <1>4, <1>5

-------------------------------------------------------------------------------
(* Steps that do not touch the room *)

\* A session of which nothing changes keeps what is said of it.
LEMMA ReceivingKept ==
    ASSUME Receiving, late \subseteq late', NEW s \in Sessions,
           life'[s] = life[s], recv'[s] = recv[s], asked'[s] = asked[s],
           players'[s] = players[s], currentPlayer'[s] = currentPlayer[s]
    PROVE  ReceivingOf(s)'
<1>1. ReceivingOf(s)
  BY DEF Receiving
<1>2. QED
  BY <1>1 DEF ReceivingOf, Early, Cleared, Handling

\* A step of the session that the room cannot notice: of a session that has entered the
\* current player changes only when it is cleared or its client enters again, and nobody
\* enters, leaves or opens.
KeepsRoom(s) ==
    /\ asked[s] \subseteq asked'[s]
    /\ "enter" \in asked[s] =>
           /\ currentPlayer'[s] = currentPlayer[s] \/ Cleared(s)' \/ Again(s)'
           /\ life'[s] = "open" => life[s] = "open"
    /\ Cleared(s) => Cleared(s)'
    /\ Left(s) <=> Left(s)'
    /\ "enter" \in asked'[s] /\ recv'[s] # "enterJob" /\ life'[s] = "open" =>
           "enter" \in asked[s] /\ recv[s] # "enterJob"

\* Nobody in the room, in its jobs or in its broadcasts: what is said there stays.
LEMMA RoomSame ==
    ASSUME UNCHANGED roomVars
    PROVE  /\ UNCHANGED <<jobs, broadcasts, roomPlayers, inbox>>
           /\ \A job : InJobs(job)' <=> InJobs(job)
           /\ \A p : Reached(p)' <=> Reached(p)
           /\ \A p : Present(p)' <=> Present(p)
           /\ \A s : (Member(s)' <=> Member(s)) /\ (EnterWaits(s)' <=> EnterWaits(s))
           /\ \A n, s : ChatWaits(n, s) \/ ChatReaches(n, s) \/ Heard(n, s) =>
                  (ChatWaits(n, s) \/ ChatReaches(n, s) \/ Heard(n, s))'
<1>1. UNCHANGED <<jobs, broadcasts, roomPlayers, inbox>>
  BY DEF roomVars
<1>2. /\ \A job : InJobs(job)' <=> InJobs(job)
      /\ \A p : Reached(p)' <=> Reached(p)
  BY <1>1 DEF InJobs, Reached
<1>3. /\ \A p : Present(p)' <=> Present(p)
      /\ \A s : (Member(s)' <=> Member(s)) /\ (EnterWaits(s)' <=> EnterWaits(s))
  BY <1>1, <1>2 DEF Present, Member, EnterWaits, PlayersOf
<1>4. ASSUME NEW n, NEW s, ChatWaits(n, s) \/ ChatReaches(n, s) \/ Heard(n, s)
      PROVE  (ChatWaits(n, s) \/ ChatReaches(n, s) \/ Heard(n, s))'
  BY <1>1, <1>3, <1>4 DEF ChatWaits, ChatReaches, Heard, PlayersOf, Member
<1>5. QED
  BY <1>1, <1>2, <1>3, <1>4

\* The room keeps its invariants in such steps, when its jobs and its state stay.
LEMMA RoomQuiet ==
    ASSUME IInv, UNCHANGED <<roomVars, authors>>, late \subseteq late',
           \A s \in Sessions : KeepsRoom(s)
    PROVE  Entered' /\ LeftFollowed' /\ ChatsWait' /\ ChatOrder' /\ Joined'
<1>1. /\ Entered /\ LeftFollowed /\ ChatsWait /\ ChatOrder /\ Joined
      /\ \A n \in DOMAIN authors : authors[n] # NoPlayer => authors[n] \in Sessions
      /\ broadcasts \subseteq [chat : 1 .. MaxChats, rest : SUBSET Players]
  BY ElementOfSeq DEF IInv, TypeOK
<1>2. /\ \A job : InJobs(job)' <=> InJobs(job)
      /\ \A p : Present(p)' <=> Present(p)
      /\ UNCHANGED <<jobs, broadcasts, roomPlayers, inbox, authors>>
  BY RoomSame
<1>3. /\ \A p \in Players : p[1] \in Sessions
      /\ \A b \in broadcasts : \A p \in b.rest : p[1] \in Sessions
      /\ \A s \in Sessions : Again(s) => Again(s)'
  <2>1. \A b \in broadcasts : \A p \in b.rest : p \in Players
    BY <1>1
  <2>2. \A s \in Sessions : Again(s) => Again(s)'
    BY DEF KeepsRoom, Again
  <2>3. QED
    BY <2>1, <2>2, PlayerFacts
<1>4. Entered'
  <2>1. ASSUME NEW p \in Players, Present(p)'
        PROVE  "enter" \in asked'[p[1]] /\ (currentPlayer'[p[1]] = p \/ Cleared(p[1])' \/ Again(p[1])')
    <3>1. /\ "enter" \in asked[p[1]] /\ KeepsRoom(p[1])
          /\ currentPlayer[p[1]] = p \/ Cleared(p[1]) \/ Again(p[1])
      BY <1>1, <1>2, <1>3, <2>1 DEF Entered
    <3>2. QED
      BY <1>3, <3>1 DEF KeepsRoom
  <2>2. \A p \in Players : InJobs(LeaveOf(p))' => Left(p[1])'
    BY <1>1, <1>2, <1>3 DEF Entered, KeepsRoom, LeaveOf
  <2>3. \A s \in Sessions : InJobs(NullOf(s))' => s \in late'
    BY <1>1, <1>2 DEF Entered
  <2>4. QED
    BY <2>1, <2>2, <2>3 DEF Entered
<1>5. LeftFollowed'
  <2>1. ASSUME NEW p \in Players, Left(p[1])', p[1] \notin late', ~Again(p[1])'
        PROVE  Left(p[1]) /\ p[1] \notin late /\ ~Again(p[1])
    BY <1>3, <2>1 DEF KeepsRoom
  <2>2. QED
    BY <1>1, <1>2, <2>1 DEF LeftFollowed
<1>6. ChatsWait' /\ ChatOrder'
  <2>1. \A b \in broadcasts : \A p \in b.rest : ~Again(p[1])' =>
            \A k \in DOMAIN inbox[p[1]] : inbox[p[1]][k] < b.chat
    BY <1>1, <1>3 DEF ChatsWait
  <2>2. ChatsWait'
    BY <1>1, <1>2, <2>1 DEF ChatsWait
  <2>3. ChatOrder'
    BY <1>1, <1>2, <1>3 DEF ChatOrder, Again
  <2>4. QED
    BY <2>2, <2>3
<1>7. Joined'
  <2>1. ASSUME NEW s \in Sessions, "enter" \in asked'[s], recv'[s] # "enterJob", life'[s] = "open"
        PROVE  Member(s)' \/ EnterWaits(s)'
    <3>1. "enter" \in asked[s] /\ recv[s] # "enterJob" /\ life[s] = "open"
      BY <2>1 DEF KeepsRoom
    <3>2. QED
      BY <1>1, <3>1, RoomSame DEF Joined
  <2>2. ASSUME NEW n \in DOMAIN authors, authors[n] # NoPlayer
        PROVE  /\ "enter" \in asked'[authors[n]]
               /\ life'[authors[n]] = "open" => life[authors[n]] = "open"
    BY <1>1, <2>2 DEF Joined, KeepsRoom
  <2>3. ASSUME NEW n \in DOMAIN authors, NEW s, s = authors[n], s # NoPlayer, life'[s] = "open"
        PROVE  ChatWaits(n, s)' \/ ChatReaches(n, s)' \/ Heard(n, s)'
    <3>1. ChatWaits(n, s) \/ ChatReaches(n, s) \/ Heard(n, s)
      BY <1>1, <2>2, <2>3 DEF Joined
    <3>2. QED
      BY <3>1, RoomSame
  <2>4. QED
    BY <1>2, <2>1, <2>2, <2>3 DEF Joined
<1>8. QED
  BY <1>4, <1>5, <1>6, <1>7

\* The steps of the listener.
LEMMA AcceptStepInv ==
    ASSUME IInv, NEW e \in AcceptEvents, AcceptStep(e), UNCHANGED gameVars
    PROVE  IInv'
<1>1. /\ AcceptTypeOK /\ TypeOK /\ Receiving /\ CrashOnlyLate /\ AInv
  BY DEF IInv, AInv, ServiceExact
<1>2. AInv'
  BY <1>1, AcceptNext DEF Next
<1>3. /\ UNCHANGED <<crash, crashed, repeats, late>>
      /\ UNCHANGED <<roomVars, authors, asked, players, currentPlayer>>
  BY DEF AcceptStep, RegisterAccept, AcceptCompleted, AddSession, OnConnected, gameVars
<1>4. ASSUME NEW s \in Sessions
      PROVE  \/ life'[s] = life[s] /\ recv'[s] = recv[s]
             \/ Early(s) /\ life'[s] \in {"created", "added"} /\ recv'[s] = recv[s]
             \/ Early(s) /\ life'[s] = "open" /\ recv'[s] = "registered"
  <2>1. CASE RegisterAccept(e)
    BY <1>1, <2>1 DEF RegisterAccept, Becomes, AcceptTypeOK, Early
  <2>2. CASE AcceptCompleted(e)
    BY <2>2 DEF AcceptCompleted
  <2>3. CASE AddSession(e)
    <3>1. acceptSession[e] \in Sessions /\ life[acceptSession[e]] = "created"
      BY <1>1, <2>3 DEF AddSession, Handles, AcceptTypeOK, AInv, AcceptOwn
    <3>2. life' = [life EXCEPT ![acceptSession[e]] = "added"] /\ recv' = recv
      BY <2>3 DEF AddSession, Becomes
    <3>3. QED
      BY <1>1, <3>1, <3>2 DEF AcceptTypeOK, Early
  <2>4. CASE OnConnected(e)
    <3>1. acceptSession[e] \in Sessions /\ life[acceptSession[e]] = "added"
      BY <1>1, <2>4 DEF OnConnected, Handles, AcceptTypeOK, AInv, AcceptOwn
    <3>2. /\ life' = [life EXCEPT ![acceptSession[e]] = "open"]
          /\ recv' = [recv EXCEPT ![acceptSession[e]] = "registered"]
      BY <2>4 DEF OnConnected, Becomes
    <3>3. QED
      BY <1>1, <3>1, <3>2 DEF AcceptTypeOK, TypeOK, Early
  <2>5. QED
    BY <2>1, <2>2, <2>3, <2>4 DEF AcceptStep
<1>5. recv' \in [Sessions -> RecvPcs]
  BY <1>1 DEF AcceptStep, RegisterAccept, AcceptCompleted, AddSession, OnConnected, TypeOK, RecvPcs
<1>6. TypeOK'
  BY <1>1, <1>3, <1>5 DEF TypeOK, roomVars
<1>7. ASSUME NEW s \in Sessions
      PROVE  ReceivingOf(s)'
  <2>1. CASE life'[s] = life[s] /\ recv'[s] = recv[s]
    BY <1>1, <1>3, <2>1, ReceivingKept
  <2>2. CASE Early(s) /\ life'[s] \in {"created", "added", "open"} /\
             (recv'[s] = recv[s] \/ (life'[s] = "open" /\ recv'[s] = "registered"))
    <3>1. ReceivingOf(s)
      BY <1>1 DEF Receiving
    <3>2. recv'[s] \in {"none", "registered"} /\ asked'[s] = {} /\ currentPlayer'[s] = NoPlayer
      BY <1>3, <2>2, <3>1 DEF ReceivingOf
    <3>3. QED
      BY <1>3, <2>2, <3>1, <3>2 DEF ReceivingOf, Early, Handling
  <2>3. QED
    BY <1>4, <2>1, <2>2
<1>8. Entered' /\ LeftFollowed' /\ ChatsWait' /\ ChatOrder' /\ Joined'
  <2>1. \A s \in Sessions : KeepsRoom(s)
    <3>1. ASSUME NEW s \in Sessions, Early(s)
          PROVE  "enter" \notin asked[s]
      BY <1>1, <3>1 DEF Receiving, ReceivingOf
    <3>2. QED
      BY <1>3, <1>4, <3>1 DEF KeepsRoom, Cleared, Left, Early
  <2>2. QED
    BY <1>3, <2>1, RoomQuiet
<1>9. CrashOnlyLate'
  BY <1>1, <1>3 DEF CrashOnlyLate
<1>10. QED
  BY <1>2, <1>6, <1>7, <1>8, <1>9 DEF IInv, AInv, Receiving
\* Only a session of which a handler met OnDisconnected, or whose client did wrong, dies.
DiesRight(s) ==
    \/ UNCHANGED <<crash, crashed>>
    \/ /\ crash' \in {"noPlayer", "nullPlayer"} /\ crashed' = {s}
       /\ s \in late \/ (crash' = "noPlayer" /\ "wrong" \in asked'[s])

\* The process still dies of late sessions only.
LEMMA CrashKept ==
    ASSUME CrashOnlyLate, crashed \subseteq Sessions, late \subseteq late', NEW s \in Sessions,
           \A t \in Sessions : asked[t] \subseteq asked'[t], DiesRight(s)
    PROVE  CrashOnlyLate' /\ crashed' \subseteq Sessions
<1>1. CASE UNCHANGED <<crash, crashed>>
  BY <1>1 DEF CrashOnlyLate
<1>2. CASE ~UNCHANGED <<crash, crashed>>
  BY <1>2 DEF CrashOnlyLate, DiesRight
<1>3. QED
  BY <1>1, <1>2

\* A step of one session that the room does not notice.
LEMMA OneSession ==
    ASSUME IInv, [Next]_vars, NEW s \in Sessions, UNCHANGED <<roomVars, authors>>,
           late \subseteq late', late' \subseteq Sessions, repeats' \in Nat,
           \A t \in Sessions \ {s} :
               /\ life'[t] = life[t] /\ recv'[t] = recv[t] /\ asked'[t] = asked[t]
               /\ players'[t] = players[t] /\ currentPlayer'[t] = currentPlayer[t],
           recv' \in [Sessions -> RecvPcs], players' \in [Sessions -> SUBSET Players],
           currentPlayer' \in [Sessions -> Players \cup {NoPlayer}],
           asked' \in [Sessions -> SUBSET Requests],
           DiesRight(s), ReceivingOf(s)', KeepsRoom(s)
    PROVE  IInv'
<1>1. /\ TypeOK /\ Receiving /\ CrashOnlyLate /\ AInv
  BY DEF IInv, AInv
<1>2. AInv'
  BY <1>1, AcceptNext
<1>3. crash' \in {"no", "notInService", "noPlayer", "nullPlayer"}
  BY <1>1 DEF TypeOK, DiesRight
<1>4. ASSUME NEW t \in Sessions
      PROVE  ReceivingOf(t)'
  <2>1. CASE t = s
    BY <2>1
  <2>2. CASE t # s
    <3>1. /\ life'[t] = life[t] /\ recv'[t] = recv[t] /\ asked'[t] = asked[t]
          /\ players'[t] = players[t] /\ currentPlayer'[t] = currentPlayer[t]
      BY <2>2
    <3>2. QED
      BY <1>1, <3>1, ReceivingKept
  <2>3. QED
    BY <2>1, <2>2
<1>5. ASSUME NEW t \in Sessions
      PROVE  KeepsRoom(t)
  <2>1. CASE t = s
    BY <2>1
  <2>2. CASE t # s
    BY <2>2 DEF KeepsRoom, Cleared, Left
  <2>3. QED
    BY <2>1, <2>2
<1>6. Entered' /\ LeftFollowed' /\ ChatsWait' /\ ChatOrder' /\ Joined'
  BY <1>5, RoomQuiet
<1>7. CrashOnlyLate' /\ crashed' \subseteq Sessions
  <2>1. crashed \subseteq Sessions /\ \A t \in Sessions : asked[t] \subseteq asked'[t]
    BY <1>1, <1>5 DEF TypeOK, KeepsRoom
  <2>2. QED
    BY <1>1, <2>1, CrashKept
<1>8. TypeOK'
  BY <1>1, <1>3, <1>7 DEF TypeOK, roomVars
<1>9. QED
  BY <1>2, <1>4, <1>6, <1>7, <1>8 DEF IInv, AInv, Receiving

\* Bytes that arrive at a session that is gone make it a late one.
LEMMA RecvBeginInv ==
    ASSUME IInv, NEW s \in Sessions, RecvBegin(s)
    PROVE  IInv'
<1>1. /\ TypeOK /\ AcceptTypeOK /\ ReceivingOf(s)
  BY DEF IInv, ServiceExact, Receiving
<1>2. /\ recv[s] = "registered" /\ recv' = [recv EXCEPT ![s] = "packet"]
      /\ late' = (IF Gone(s) THEN late \cup {s} ELSE late)
      /\ UNCHANGED <<life, crash, crashed, repeats, players, currentPlayer, roomVars, asked, authors>>
  BY DEF RecvBegin, InRecv, RecvTo
<1>3. [Next]_vars
  BY DEF Next
<1>4. \A t \in Sessions : recv'[t] = IF t = s THEN "packet" ELSE recv[t]
  BY <1>1, <1>2 DEF TypeOK
<1>5. /\ recv' \in [Sessions -> RecvPcs] /\ late \subseteq late' /\ late' \subseteq Sessions
  BY <1>1, <1>2 DEF TypeOK, RecvPcs
<1>6. ReceivingOf(s)'
  <2>1. ~Early(s) /\ (s \notin late' => life[s] \in {"open", "closing"})
    BY <1>1, <1>2 DEF ReceivingOf, Early, Gone, AcceptTypeOK, Lives
  <2>2. QED
    BY <1>1, <1>2, <1>4, <2>1 DEF ReceivingOf, Early, Cleared, Handling
<1>7. KeepsRoom(s)
  BY <1>2, <1>4 DEF KeepsRoom, Cleared, Left, Again
<1>8. QED
  BY <1>1, <1>2, <1>3, <1>4, <1>5, <1>6, <1>7, OneSession DEF TypeOK, DiesRight

\* A receive without bytes ends the receives, and closes the session.
LEMMA RecvNothingInv ==
    ASSUME IInv, NEW s \in Sessions, RecvNothing(s)
    PROVE  IInv'
<1>1. /\ TypeOK /\ AcceptTypeOK /\ ReceivingOf(s)
  BY DEF IInv, ServiceExact, Receiving
<1>2. /\ recv[s] = "registered" /\ recv' = [recv EXCEPT ![s] = "none"]
      /\ \/ life[s] = "open" /\ life' = [life EXCEPT ![s] = "closing"]
         \/ life[s] # "open" /\ UNCHANGED life
      /\ UNCHANGED <<crash, crashed, repeats, players, currentPlayer, roomVars, asked, authors, late>>
  BY DEF RecvNothing, InRecv, RecvTo, Disconnect, Becomes, gameVars
<1>3. [Next]_vars
  BY DEF Next
<1>4. /\ \A t \in Sessions : recv'[t] = IF t = s THEN "none" ELSE recv[t]
      /\ \A t \in Sessions \ {s} : life'[t] = life[t]
      /\ life'[s] = IF life[s] = "open" THEN "closing" ELSE life[s]
  BY <1>1, <1>2 DEF TypeOK, AcceptTypeOK
<1>5. recv' \in [Sessions -> RecvPcs] /\ late \subseteq late' /\ late' \subseteq Sessions
  BY <1>1, <1>2 DEF TypeOK, RecvPcs
<1>6. ReceivingOf(s)'
  BY <1>1, <1>2, <1>4 DEF ReceivingOf, Early, Cleared, Handling
<1>7. KeepsRoom(s)
  BY <1>2, <1>4 DEF KeepsRoom, Cleared, Left, Again
<1>8. QED
  BY <1>1, <1>2, <1>3, <1>4, <1>5, <1>6, <1>7, OneSession DEF TypeOK, DiesRight

\* The players of a session are made.
LEMMA LoginInv ==
    ASSUME IInv, NEW s \in Sessions, Handle_C_LOGIN(s)
    PROVE  IInv'
<1>1. /\ TypeOK /\ ReceivingOf(s)
  BY DEF IInv, Receiving
<1>2. /\ recv[s] = "packet" /\ "login" \notin asked[s]
      /\ asked' = [asked EXCEPT ![s] = @ \cup {"login"}]
      /\ players' = [players EXCEPT ![s] = {s} \X Indices]
      /\ UNCHANGED <<life, recv, crash, crashed, repeats, currentPlayer, roomVars, authors, late>>
  BY DEF Handle_C_LOGIN, InRecv, Asks, acceptVars
<1>3. [Next]_vars
  BY DEF Next, HandlerStep
<1>4. /\ \A t \in Sessions : asked'[t] = IF t = s THEN asked[s] \cup {"login"} ELSE asked[t]
      /\ \A t \in Sessions : players'[t] = IF t = s THEN {s} \X Indices ELSE players[t]
  BY <1>1, <1>2 DEF TypeOK
<1>5. /\ asked' \in [Sessions -> SUBSET Requests]
      /\ players' \in [Sessions -> SUBSET Players]
  BY <1>1, <1>2, PlayerFacts DEF TypeOK, Requests
<1>6. ReceivingOf(s)'
  BY <1>1, <1>2, <1>4 DEF ReceivingOf, Early, Cleared, Handling
<1>7. KeepsRoom(s)
  BY <1>2, <1>4 DEF KeepsRoom, Cleared, Left, Again
<1>8. QED
  BY <1>1, <1>2, <1>3, <1>4, <1>5, <1>6, <1>7, OneSession DEF TypeOK, DiesRight

\* A player is chosen, or there is none, because the session was cleared or because its
\* client is not entitled to him.
LEMMA EnterGameInv ==
    ASSUME IInv, NEW s \in Sessions, Handle_C_ENTER_GAME(s)
    PROVE  IInv'
<1>1. /\ TypeOK /\ ReceivingOf(s)
  BY DEF IInv, Receiving
<1>2. /\ recv[s] = "packet"
      /\ UNCHANGED <<life, players, roomVars, authors, late>>
  BY DEF Handle_C_ENTER_GAME, InRecv
<1>3. [Next]_vars
  BY DEF Next, HandlerStep
<1>4. PICK p \in ({s} \X Indices) \cup {NoPlayer} :
          IF p \in players[s]
          THEN /\ currentPlayer' = [currentPlayer EXCEPT ![s] = p]
               /\ RecvTo(s, "enterJob")
               /\ Asks(s, IF "enter" \in asked[s] THEN "again" ELSE "enter")
               /\ repeats' = IF "enter" \in asked[s] THEN repeats + 1 ELSE repeats
               /\ UNCHANGED <<crash, crashed>>
          ELSE /\ Dies(s, "noPlayer")
               /\ IF p = NoPlayer \/ "login" \notin asked[s]
                  THEN Asks(s, "wrong") ELSE UNCHANGED asked
               /\ UNCHANGED <<recv, currentPlayer, repeats>>
  BY DEF Handle_C_ENTER_GAME
<1>5. CASE p \notin players[s]
  <2>1. /\ crash' = "noPlayer" /\ crashed' = {s} /\ UNCHANGED <<recv, currentPlayer, repeats>>
        /\ IF p = NoPlayer \/ "login" \notin asked[s]
           THEN asked' = [asked EXCEPT ![s] = @ \cup {"wrong"}] ELSE asked' = asked
    BY <1>4, <1>5 DEF Dies, Asks
  <2>2. /\ asked' \in [Sessions -> SUBSET Requests]
        /\ \A t \in Sessions \ {s} : asked'[t] = asked[t]
        /\ asked'[s] = asked[s] \cup {"wrong"}
           \/ (p # NoPlayer /\ "login" \in asked[s] /\ asked'[s] = asked[s])
    <3>1. asked \in [Sessions -> SUBSET Requests] /\ "wrong" \in Requests
      BY <1>1 DEF TypeOK, Requests
    <3>2. CASE p = NoPlayer \/ "login" \notin asked[s]
      <4>1. asked' = [asked EXCEPT ![s] = @ \cup {"wrong"}]
        BY <2>1, <3>2
      <4>2. asked[s] \cup {"wrong"} \in SUBSET Requests
        BY <3>1
      <4>3. QED
        BY <3>1, <4>1, <4>2
    <3>3. CASE ~(p = NoPlayer \/ "login" \notin asked[s])
      BY <2>1, <3>1, <3>3
    <3>4. QED
      BY <3>2, <3>3
  <2>3. s \in late \/ "wrong" \in asked'[s]
    <3>1. CASE p # NoPlayer /\ "login" \in asked[s]
      <4>1. Cleared(s)
        BY <1>1, <1>4, <1>5, <3>1 DEF ReceivingOf
      <4>2. QED
        BY <1>1, <1>2, <4>1 DEF ReceivingOf, Handling, Cleared
    <3>2. QED
      BY <2>2, <3>1
  <2>4. ReceivingOf(s)'
    BY <1>1, <1>2, <2>1, <2>2 DEF ReceivingOf, Early, Cleared, Handling
  <2>5. KeepsRoom(s)
    BY <1>2, <2>1, <2>2 DEF KeepsRoom, Cleared, Left
  <2>6. DiesRight(s)
    BY <2>1, <2>3 DEF DiesRight
  <2>7. QED
    BY <1>1, <1>2, <1>3, <2>1, <2>2, <2>4, <2>5, <2>6, OneSession DEF TypeOK
<1>6. CASE p \in players[s]
  <2>1. /\ currentPlayer' = [currentPlayer EXCEPT ![s] = p]
        /\ recv' = [recv EXCEPT ![s] = "enterJob"]
        /\ asked' = [asked EXCEPT
                        ![s] = @ \cup {IF "enter" \in asked[s] THEN "again" ELSE "enter"}]
        /\ repeats' \in {repeats, repeats + 1}
        /\ UNCHANGED <<crash, crashed>>
    BY <1>4, <1>6 DEF RecvTo, Asks
  <2>2. p \in {s} \X Indices /\ p \in Players /\ p # NoPlayer
    BY <1>1, <1>6, PlayerFacts DEF ReceivingOf
  <2>3. /\ \A t \in Sessions : recv'[t] = IF t = s THEN "enterJob" ELSE recv[t]
        /\ \A t \in Sessions \ {s} : asked'[t] = asked[t]
        /\ asked'[s] = asked[s] \cup {IF "enter" \in asked[s] THEN "again" ELSE "enter"}
        /\ \A t \in Sessions : currentPlayer'[t] = IF t = s THEN p ELSE currentPlayer[t]
    BY <1>1, <1>2, <2>1 DEF TypeOK
  <2>4. /\ recv' \in [Sessions -> RecvPcs] /\ repeats' \in Nat
        /\ asked' \in [Sessions -> SUBSET Requests]
        /\ currentPlayer' \in [Sessions -> Players \cup {NoPlayer}]
    BY <1>1, <2>1, <2>2 DEF TypeOK, RecvPcs, Requests
  <2>5. ReceivingOf(s)'
    BY <1>1, <1>2, <2>2, <2>3 DEF ReceivingOf, Early, Cleared, Handling
  <2>6. KeepsRoom(s)
    BY <1>2, <2>3 DEF KeepsRoom, Cleared, Left, Again
  <2>7. DiesRight(s)
    BY <2>1 DEF DiesRight
  <2>8. QED
    BY <1>1, <1>2, <1>3, <2>3, <2>4, <2>5, <2>6, <2>7, OneSession DEF TypeOK
<1>7. QED
  BY <1>5, <1>6

\* The answer uses the current player, which only a late session may have lost.
LEMMA EnterSendInv ==
    ASSUME IInv, NEW s \in Sessions, EnterSend(s)
    PROVE  IInv'
<1>1. /\ TypeOK /\ ReceivingOf(s)
  BY DEF IInv, Receiving
<1>2. /\ recv[s] = "enterSend" /\ recv' = [recv EXCEPT ![s] = "packet"]
      /\ IF currentPlayer[s] = NoPlayer THEN crash' = "nullPlayer" /\ crashed' = {s}
         ELSE UNCHANGED <<crash, crashed>>
      /\ UNCHANGED <<life, players, currentPlayer, roomVars, asked, authors, late, repeats>>
  BY DEF EnterSend, InRecv, RecvTo, Dies, gameVars
<1>3. [Next]_vars
  BY DEF Next, HandlerStep
<1>4. \A t \in Sessions : recv'[t] = IF t = s THEN "packet" ELSE recv[t]
  BY <1>1, <1>2 DEF TypeOK
<1>5. recv' \in [Sessions -> RecvPcs]
  BY <1>1, <1>2 DEF TypeOK, RecvPcs
<1>6. DiesRight(s)
  <2>1. ASSUME currentPlayer[s] = NoPlayer
        PROVE  s \in late
    <3>1. Cleared(s)
      BY <1>1, <1>2, <2>1 DEF ReceivingOf
    <3>2. QED
      BY <1>1, <1>2, <3>1 DEF ReceivingOf, Handling, Cleared
  <2>2. QED
    BY <1>2, <2>1 DEF DiesRight
<1>7. ReceivingOf(s)'
  BY <1>1, <1>2, <1>4 DEF ReceivingOf, Early, Cleared, Handling
<1>8. KeepsRoom(s)
  BY <1>2, <1>4 DEF KeepsRoom, Cleared, Left, Again
<1>9. QED
  BY <1>1, <1>2, <1>3, <1>4, <1>5, <1>6, <1>7, <1>8, OneSession DEF TypeOK, DiesRight

\* The next receive is registered while the session is open.
LEMMA RecvEndInv ==
    ASSUME IInv, NEW s \in Sessions, RecvEnd(s)
    PROVE  IInv'
<1>1. /\ TypeOK /\ ReceivingOf(s)
  BY DEF IInv, Receiving
<1>2. /\ recv[s] = "packet"
      /\ recv' = [recv EXCEPT ![s] = IF life[s] = "open" THEN "registered" ELSE "none"]
      /\ UNCHANGED <<life, crash, crashed, repeats, players, currentPlayer, roomVars, asked, authors, late>>
  BY DEF RecvEnd, InRecv, RecvTo, gameVars
<1>3. [Next]_vars
  BY DEF Next, HandlerStep
<1>4. /\ \A t \in Sessions \ {s} : recv'[t] = recv[t]
      /\ recv'[s] \in {"registered", "none"}
  BY <1>1, <1>2 DEF TypeOK
<1>5. recv' \in [Sessions -> RecvPcs]
  BY <1>1, <1>2 DEF TypeOK, RecvPcs
<1>6. ReceivingOf(s)'
  BY <1>1, <1>2, <1>4 DEF ReceivingOf, Early, Cleared, Handling
<1>7. KeepsRoom(s)
  BY <1>2, <1>4 DEF KeepsRoom, Cleared, Left, Again
<1>8. QED
  BY <1>1, <1>2, <1>3, <1>4, <1>5, <1>6, <1>7, OneSession DEF TypeOK, DiesRight

\* A send that fails closes the session.
LEMMA SendFailsInv ==
    ASSUME IInv, NEW s \in Sessions, SendFails(s)
    PROVE  IInv'
<1>1. /\ TypeOK /\ AcceptTypeOK /\ ReceivingOf(s)
  BY DEF IInv, ServiceExact, Receiving
<1>2. /\ life[s] = "open" /\ life' = [life EXCEPT ![s] = "closing"]
      /\ UNCHANGED <<recv, crash, crashed, repeats, players, currentPlayer, roomVars, asked, authors, late>>
  BY DEF SendFails, Disconnect, Becomes, gameVars
<1>3. [Next]_vars
  BY DEF Next
<1>4. \A t \in Sessions : life'[t] = IF t = s THEN "closing" ELSE life[t]
  BY <1>1, <1>2 DEF AcceptTypeOK
<1>5. ReceivingOf(s)'
  BY <1>1, <1>2, <1>4 DEF ReceivingOf, Early, Cleared, Handling
<1>6. KeepsRoom(s)
  BY <1>2, <1>4 DEF KeepsRoom, Cleared, Left, Again
<1>7. QED
  BY <1>1, <1>2, <1>3, <1>4, <1>5, <1>6, OneSession DEF TypeOK, DiesRight

\* A handler that is interrupted by OnDisconnected makes its session a late one.
LEMMA OnDisconnectedInv ==
    ASSUME IInv, NEW s \in Sessions, OnDisconnected(s)
    PROVE  IInv'
<1>1. /\ TypeOK /\ AcceptTypeOK /\ ReceivingOf(s)
  BY DEF IInv, ServiceExact, Receiving
<1>2. /\ life[s] = "closing" /\ life' = [life EXCEPT ![s] = "leave"]
      /\ late' = (IF Handling(s) THEN late \cup {s} ELSE late)
      /\ UNCHANGED <<recv, crash, crashed, repeats, players, currentPlayer, roomVars, asked, authors>>
  BY DEF OnDisconnected, Remove, Becomes
<1>3. [Next]_vars
  BY DEF Next, CloseStep
<1>4. \A t \in Sessions : life'[t] = IF t = s THEN "leave" ELSE life[t]
  BY <1>1, <1>2 DEF AcceptTypeOK
<1>5. late \subseteq late' /\ late' \subseteq Sessions
  BY <1>1, <1>2 DEF TypeOK
<1>6. ReceivingOf(s)'
  BY <1>1, <1>2, <1>4 DEF ReceivingOf, Early, Cleared, Handling
<1>7. KeepsRoom(s)
  BY <1>2, <1>4 DEF KeepsRoom, Cleared, Left, Again
<1>8. QED
  BY <1>1, <1>2, <1>3, <1>4, <1>5, <1>6, <1>7, OneSession DEF TypeOK, DiesRight

\* The session is cleared after its Leave was pushed.
LEMMA ClearInv ==
    ASSUME IInv, NEW s \in Sessions, Clear(s)
    PROVE  IInv'
<1>1. /\ TypeOK /\ AcceptTypeOK /\ ReceivingOf(s)
  BY DEF IInv, ServiceExact, Receiving
<1>2. /\ life[s] = "clear" /\ life' = [life EXCEPT ![s] = "release"]
      /\ currentPlayer' = [currentPlayer EXCEPT ![s] = NoPlayer]
      /\ players' = [players EXCEPT ![s] = {}]
      /\ UNCHANGED <<recv, crash, crashed, repeats, roomVars, asked, authors, late>>
  BY DEF Clear, Becomes
<1>3. [Next]_vars
  BY DEF Next, CloseStep
<1>4. /\ \A t \in Sessions : life'[t] = IF t = s THEN "release" ELSE life[t]
      /\ \A t \in Sessions : currentPlayer'[t] = IF t = s THEN NoPlayer ELSE currentPlayer[t]
      /\ \A t \in Sessions : players'[t] = IF t = s THEN {} ELSE players[t]
  BY <1>1, <1>2 DEF TypeOK, AcceptTypeOK
<1>5. /\ currentPlayer' \in [Sessions -> Players \cup {NoPlayer}]
      /\ players' \in [Sessions -> SUBSET Players]
  BY <1>1, <1>2 DEF TypeOK
<1>6. ReceivingOf(s)'
  BY <1>1, <1>2, <1>4 DEF ReceivingOf, Early, Cleared, Handling
<1>7. KeepsRoom(s)
  BY <1>2, <1>4 DEF KeepsRoom, Cleared, Left, Again
<1>8. QED
  BY <1>1, <1>2, <1>3, <1>4, <1>5, <1>6, <1>7, OneSession DEF TypeOK, DiesRight

\* The session is released.
LEMMA ReleaseInv ==
    ASSUME IInv, NEW s \in Sessions, ReleaseSession(s), UNCHANGED gameVars
    PROVE  IInv'
<1>1. /\ TypeOK /\ AcceptTypeOK /\ ReceivingOf(s) /\ AInv
  BY DEF IInv, ServiceExact, Receiving, AInv
<1>2. /\ life[s] = "release" /\ life' = [life EXCEPT ![s] = "released"]
      /\ UNCHANGED <<recv, crash, crashed, repeats, players, currentPlayer, roomVars, asked, authors, late>>
  BY <1>1, ReleaseSessionInv DEF ReleaseSession, gameVars
<1>3. [Next]_vars
  BY DEF Next, CloseStep
<1>4. \A t \in Sessions : life'[t] = IF t = s THEN "released" ELSE life[t]
  BY <1>1, <1>2 DEF AcceptTypeOK
<1>5. ReceivingOf(s)'
  BY <1>1, <1>2, <1>4 DEF ReceivingOf, Early, Cleared, Handling
<1>6. KeepsRoom(s)
  BY <1>2, <1>4 DEF KeepsRoom, Cleared, Left, Again
<1>7. QED
  BY <1>1, <1>2, <1>3, <1>4, <1>5, <1>6, OneSession DEF TypeOK, DiesRight

-------------------------------------------------------------------------------
(* Steps that push a job *)

\* What an appended job leaves as it was: a Leave stays behind its Enter, a chat and an
\* Enter wait on.
LEMMA AppendKeeps ==
    ASSUME jobs \in Seq(Jobs), NEW job \in Jobs, DoAsync(job)
    PROVE  /\ \A p : \A i \in DOMAIN jobs :
                  /\ (\E k \in DOMAIN jobs : k > i /\ jobs[k] = LeaveOf(p))
                  => \E k \in DOMAIN jobs' : k > i /\ jobs'[k] = LeaveOf(p)
           /\ \A s : EnterWaits(s) => EnterWaits(s)'
           /\ UNCHANGED roomPlayers => \A n, s : ChatWaits(n, s) => ChatWaits(n, s)'
<1>1. /\ DOMAIN jobs = 1 .. Len(jobs) /\ DOMAIN jobs' = 1 .. Len(jobs) + 1
      /\ Len(jobs) \in Nat /\ \A i \in 1 .. Len(jobs) : jobs'[i] = jobs[i]
  BY JobsAppend
<1>2. \A i \in DOMAIN jobs : i \in DOMAIN jobs' /\ jobs'[i] = jobs[i]
  BY <1>1
<1>3. ASSUME NEW p, NEW i \in DOMAIN jobs, \E k \in DOMAIN jobs : k > i /\ jobs[k] = LeaveOf(p)
      PROVE  \E k \in DOMAIN jobs' : k > i /\ jobs'[k] = LeaveOf(p)
  BY <1>2, <1>3
<1>4. ASSUME UNCHANGED roomPlayers, NEW n, NEW s, ChatWaits(n, s)
      PROVE  ChatWaits(n, s)'
  BY <1>2, <1>4 DEF ChatWaits, Member, PlayersOf
<1>5. ASSUME NEW s, EnterWaits(s)
      PROVE  EnterWaits(s)'
  BY <1>2, <1>5 DEF EnterWaits, PlayersOf, InJobs
<1>6. QED
  BY <1>3, <1>4, <1>5

\* The order of the chats survives a job that is no chat.
LEMMA ChatsKept ==
    ASSUME ChatsWait, ChatOrder, jobs \in Seq(Jobs), NEW job \in Jobs,
           \A n : job # ChatOf(n), DoAsync(job), UNCHANGED <<broadcasts, inbox, authors, asked>>
    PROVE  ChatsWait' /\ ChatOrder'
<1>1. /\ DOMAIN jobs = 1 .. Len(jobs) /\ DOMAIN jobs' = 1 .. Len(jobs) + 1
      /\ Len(jobs) \in Nat /\ \A i \in 1 .. Len(jobs) : jobs'[i] = jobs[i]
      /\ jobs'[Len(jobs) + 1] = job
  BY JobsAppend
<1>2. \A i \in DOMAIN jobs' : \A n : jobs'[i] = ChatOf(n) => i \in DOMAIN jobs /\ jobs[i] = ChatOf(n)
  BY <1>1
<1>3. /\ \A i, k \in DOMAIN jobs' : \A m, n \in 1 .. MaxChats :
             i < k /\ jobs'[i] = ChatOf(m) /\ jobs'[k] = ChatOf(n) => m < n
      /\ \A i \in DOMAIN jobs' : \A n \in 1 .. MaxChats : jobs'[i] = ChatOf(n) =>
             /\ n <= Len(authors)
             /\ \A b \in broadcasts : b.chat < n
             /\ \A s \in Sessions : \A k \in DOMAIN inbox[s] : inbox[s][k] < n
  BY <1>2 DEF ChatsWait
<1>4. ChatsWait'
  BY <1>3 DEF ChatsWait, Again
<1>5. ChatOrder'
  BY DEF ChatOrder
<1>6. QED
  BY <1>4, <1>5

\* The Enter that is pushed is that of the current player of a session that has not left,
\* or of a late one, which may have lost him.
LEMMA EnterJobInv ==
    ASSUME IInv, NEW s \in Sessions, EnterJob(s)
    PROVE  IInv'
<1> DEFINE p == currentPlayer[s]
           job == PlayerJob(s, "enter")
<1>1. /\ TypeOK /\ AInv /\ Receiving /\ ReceivingOf(s) /\ Entered /\ LeftFollowed
      /\ ChatsWait /\ ChatOrder /\ CrashOnlyLate /\ Joined /\ jobs \in Seq(Jobs)
  BY DEF IInv, AInv, Receiving, TypeOK
<1>2. /\ recv[s] = "enterJob" /\ DoAsync(job)
      /\ recv' = [recv EXCEPT ![s] = "enterSend"]
      /\ UNCHANGED <<life, crash, crashed, repeats, players, currentPlayer, broadcasts, roomPlayers,
                     inbox, asked, authors, late>>
  BY DEF EnterJob, InRecv, RecvTo
<1>3. /\ "enter" \in asked[s] /\ (Left(s) => s \in late)
      /\ \/ p = NoPlayer /\ job = NullOf(s) /\ s \in late /\ life[s] # "open"
         \/ p \in Players /\ p[1] = s /\ job = EnterOf(p)
  <2>1. p \in Players \cup {NoPlayer} /\ (p \in Players => p[1] = s) /\ "enter" \in asked[s]
    BY <1>1, <1>2, PlayerFacts DEF ReceivingOf
  <2>2. Handling(s)
    BY <1>2 DEF Handling
  <2>3. (Left(s) => s \in late) /\ (p = NoPlayer => Cleared(s) /\ s \in late)
    BY <1>1, <2>1, <2>2 DEF ReceivingOf, Left, Cleared
  <2>4. CASE p = NoPlayer
    BY <2>1, <2>3, <2>4 DEF PlayerJob, NullOf, Cleared
  <2>5. CASE p # NoPlayer
    BY <2>1, <2>3, <2>5 DEF PlayerJob, EnterOf
  <2>6. QED
    BY <2>4, <2>5
<1> HIDE DEF p, job
<1>4. job \in Jobs /\ (\A q : job # LeaveOf(q)) /\ (\A n : job # ChatOf(n))
  BY <1>3, JobFacts
<1>5. /\ jobs' \in Seq(Jobs) /\ Len(jobs) \in Nat
      /\ DOMAIN jobs = 1 .. Len(jobs) /\ DOMAIN jobs' = 1 .. Len(jobs) + 1
      /\ \A i \in 1 .. Len(jobs) : jobs'[i] = jobs[i]
      /\ jobs'[Len(jobs) + 1] = job
      /\ \A j : InJobs(j)' <=> InJobs(j) \/ j = job
  BY <1>1, <1>2, <1>4, JobsAppend
<1>6. \A t \in Sessions : recv'[t] = IF t = s THEN "enterSend" ELSE recv[t]
  BY <1>1, <1>2 DEF TypeOK
<1>7. AInv'
  <2>1. [Next]_vars
    BY DEF Next, HandlerStep
  <2>2. QED
    BY <1>1, <2>1, AcceptNext
<1>8. TypeOK'
  <2>1. recv' \in [Sessions -> RecvPcs]
    BY <1>1, <1>2 DEF TypeOK, RecvPcs
  <2>2. QED
    BY <1>1, <1>2, <1>5, <2>1 DEF TypeOK
<1>9. ASSUME NEW t \in Sessions
      PROVE  ReceivingOf(t)'
  <2>1. CASE t = s
    BY <1>1, <1>2, <1>3, <1>6, <2>1 DEF ReceivingOf, Early, Cleared, Handling
  <2>2. CASE t # s
    BY <1>1, <1>2, <1>6, <2>2, ReceivingKept
  <2>3. QED
    BY <2>1, <2>2
<1>10. Entered'
  <2>1. ASSUME NEW q \in Players, Present(q)'
        PROVE  /\ "enter" \in asked'[q[1]]
               /\ currentPlayer'[q[1]] = q \/ Cleared(q[1])' \/ Again(q[1])'
    <3>1. Present(q) \/ (q = p /\ p \in Players)
      BY <1>2, <1>3, <1>5, <2>1, JobFacts DEF Present, Reached
    <3>2. CASE Present(q)
      BY <1>1, <1>2, <3>2 DEF Entered, Cleared, Again
    <3>3. CASE q = p /\ p \in Players
      BY <1>2, <1>3, <3>3, PlayerFacts DEF p
    <3>4. QED
      BY <3>1, <3>2, <3>3
  <2>2. \A q \in Players : InJobs(LeaveOf(q))' => Left(q[1])'
    BY <1>1, <1>2, <1>4, <1>5 DEF Entered, Left
  <2>3. ASSUME NEW t \in Sessions, InJobs(NullOf(t))'
        PROVE  t \in late'
    <3>1. InJobs(NullOf(t)) \/ (t = s /\ s \in late)
      BY <1>3, <1>5, <2>3, JobFacts
    <3>2. QED
      BY <1>1, <1>2, <3>1 DEF Entered
  <2>4. QED
    BY <2>1, <2>2, <2>3 DEF Entered
<1>11. LeftFollowed'
  <2>1. ASSUME NEW q \in Players, Left(q[1]), q[1] \notin late, ~Again(q[1])
        PROVE  /\ q \in roomPlayers => InJobs(LeaveOf(q))'
               /\ \A i \in DOMAIN jobs' : jobs'[i] = EnterOf(q) =>
                      \E k \in DOMAIN jobs' : k > i /\ jobs'[k] = LeaveOf(q)
    <3>1. job # EnterOf(q)
      BY <1>3, <2>1, JobFacts
    <3>2. ASSUME NEW i \in DOMAIN jobs', jobs'[i] = EnterOf(q)
          PROVE  \E k \in DOMAIN jobs' : k > i /\ jobs'[k] = LeaveOf(q)
      <4>1. i \in DOMAIN jobs /\ jobs[i] = EnterOf(q)
        BY <1>5, <3>1, <3>2
      <4>2. \E k \in DOMAIN jobs : k > i /\ jobs[k] = LeaveOf(q)
        BY <1>1, <2>1, <4>1 DEF LeftFollowed
      <4>3. QED
        BY <1>1, <1>2, <1>4, <4>1, <4>2, AppendKeeps
    <3>3. QED
      BY <1>1, <1>5, <2>1, <3>2 DEF LeftFollowed
  <2>2. QED
    BY <1>2, <2>1 DEF LeftFollowed, Left, Again
<1>12. ChatsWait' /\ ChatOrder'
  BY <1>1, <1>2, <1>4, ChatsKept
<1>13. Joined'
  <2>1. ASSUME NEW t \in Sessions, "enter" \in asked[t], recv'[t] # "enterJob", life[t] = "open"
        PROVE  Member(t)' \/ EnterWaits(t)'
    <3>1. CASE t = s
      <4>1. PICK q \in Players : q = p
        BY <1>3, <2>1, <3>1
      <4>2. q[1] = t /\ job = EnterOf(q)
        BY <1>3, <2>1, <3>1, <4>1
      <4>3. InJobs(EnterOf(q))'
        BY <1>5, <4>2
      <4>4. QED
        BY <4>2, <4>3 DEF EnterWaits, PlayersOf
    <3>2. CASE t # s
      <4>1. Member(t) \/ EnterWaits(t)
        BY <1>1, <1>6, <2>1, <3>2 DEF Joined
      <4>2. QED
        BY <1>1, <1>2, <1>4, <4>1, AppendKeeps DEF Member, PlayersOf
    <3>3. QED
      BY <3>1, <3>2
  <2>2. ASSUME NEW n \in DOMAIN authors, NEW t, t = authors[n], t # NoPlayer, life[t] = "open"
        PROVE  ChatWaits(n, t)' \/ ChatReaches(n, t)' \/ Heard(n, t)'
    <3>1. ChatWaits(n, t) \/ ChatReaches(n, t) \/ Heard(n, t)
      BY <1>1, <2>2 DEF Joined
    <3>2. ChatWaits(n, t) => ChatWaits(n, t)'
      BY <1>1, <1>2, <1>4, AppendKeeps
    <3>3. (ChatReaches(n, t) => ChatReaches(n, t)') /\ (Heard(n, t) => Heard(n, t)')
      BY <1>2 DEF ChatReaches, Heard, PlayersOf
    <3>4. QED
      BY <3>1, <3>2, <3>3
  <2>3. QED
    BY <1>1, <1>2, <2>1, <2>2 DEF Joined
<1>14. CrashOnlyLate'
  BY <1>1, <1>2 DEF CrashOnlyLate
<1>15. QED
  BY <1>7, <1>8, <1>9, <1>10, <1>11, <1>12, <1>13, <1>14 DEF IInv, AInv, Receiving

\* The Leave that is pushed is the last of its player; who is in the room, or waits to
\* enter, is the player that leaves.
LEMMA LeaveInv ==
    ASSUME IInv, NEW s \in Sessions, Leave(s)
    PROVE  IInv'
<1> DEFINE p == currentPlayer[s]
<1>1. /\ TypeOK /\ AcceptTypeOK /\ AInv /\ Receiving /\ ReceivingOf(s) /\ Entered /\ LeftFollowed
      /\ ChatsWait /\ ChatOrder /\ CrashOnlyLate /\ Joined /\ jobs \in Seq(Jobs)
  BY DEF IInv, AInv, ServiceExact, Receiving, TypeOK
<1>2. /\ life[s] = "leave" /\ life' = [life EXCEPT ![s] = "clear"]
      /\ (IF p = NoPlayer THEN UNCHANGED jobs ELSE DoAsync(LeaveOf(p)))
      /\ UNCHANGED <<recv, crash, crashed, repeats, players, currentPlayer, broadcasts, roomPlayers,
                     inbox, asked, authors, late>>
  BY DEF Leave, Becomes, LeaveOf, PlayerJob
<1>3. /\ p \in Players \cup {NoPlayer}
      /\ p # NoPlayer => p \in Players /\ p[1] = s /\ LeaveOf(p) \in Jobs
  BY <1>1, PlayerFacts, JobFacts DEF ReceivingOf
<1>4. \A t \in Sessions : life'[t] = IF t = s THEN "clear" ELSE life[t]
  BY <1>1, <1>2 DEF AcceptTypeOK
<1>5. AInv'
  <2>1. [Next]_vars
    BY DEF Next, CloseStep
  <2>2. QED
    BY <1>1, <2>1, AcceptNext
<1>6. ASSUME NEW t \in Sessions
      PROVE  ReceivingOf(t)'
  <2>1. CASE t = s
    BY <1>1, <1>2, <1>4, <2>1 DEF ReceivingOf, Early, Cleared, Handling
  <2>2. CASE t # s
    BY <1>1, <1>2, <1>4, <2>2, ReceivingKept
  <2>3. QED
    BY <2>1, <2>2
<1>7. \A q \in Players : q[1] = s /\ Present(q) /\ ~Again(s) => q = p
  BY <1>1, <1>2 DEF Entered, Cleared
<1>8. \A t \in Sessions : /\ Cleared(t)' <=> Cleared(t)
                          /\ Left(t) => Left(t)'
                          /\ Left(t)' => t = s \/ Left(t)
                          /\ life'[t] = "open" => life[t] = "open"
  BY <1>2, <1>4 DEF Cleared, Left
<1>18. p' = p
  BY <1>2
<1> HIDE DEF p
<1>9. /\ jobs' \in Seq(Jobs) /\ Len(jobs) \in Nat /\ DOMAIN jobs = 1 .. Len(jobs)
      /\ \A i \in DOMAIN jobs : i \in DOMAIN jobs' /\ jobs'[i] = jobs[i]
      /\ \A i \in DOMAIN jobs' : i \notin DOMAIN jobs =>
             i = Len(jobs) + 1 /\ jobs'[i] = LeaveOf(p) /\ p # NoPlayer
      /\ p # NoPlayer => Len(jobs) + 1 \in DOMAIN jobs' /\ jobs'[Len(jobs) + 1] = LeaveOf(p)
  <2>1. CASE p = NoPlayer
    BY <1>1, <1>2, <2>1, LenProperties
  <2>2. CASE p # NoPlayer
    BY <1>1, <1>2, <1>3, <2>2, JobsAppend
  <2>3. QED
    BY <2>1, <2>2
<1>10. /\ \A job : InJobs(job) => InJobs(job)'
       /\ \A job : InJobs(job)' => InJobs(job) \/ (job = LeaveOf(p) /\ p # NoPlayer)
       /\ p # NoPlayer => InJobs(LeaveOf(p))'
  <2>1. ASSUME NEW job, InJobs(job)
        PROVE  InJobs(job)'
    <3>1. PICK i \in DOMAIN jobs : jobs[i] = job
      BY <2>1 DEF InJobs
    <3>2. i \in DOMAIN jobs' /\ jobs'[i] = job
      BY <1>9, <3>1
    <3>3. QED
      BY <3>2 DEF InJobs
  <2>2. ASSUME NEW job, InJobs(job)'
        PROVE  InJobs(job) \/ (job = LeaveOf(p) /\ p # NoPlayer)
    <3>1. PICK i \in DOMAIN jobs' : jobs'[i] = job
      BY <2>2 DEF InJobs
    <3>2. (i \in DOMAIN jobs /\ jobs[i] = job) \/ (job = LeaveOf(p) /\ p # NoPlayer)
      BY <1>9, <3>1
    <3>3. QED
      BY <3>2 DEF InJobs
  <2>3. ASSUME p # NoPlayer
        PROVE  InJobs(LeaveOf(p))'
    <3>1. Len(jobs) + 1 \in DOMAIN jobs' /\ jobs'[Len(jobs) + 1] = LeaveOf(p)
      BY <1>9, <2>3
    <3>2. QED
      BY <1>18, <3>1 DEF InJobs
  <2>4. QED
    BY <2>1, <2>2, <2>3
<1>11. TypeOK'
  BY <1>1, <1>2, <1>9 DEF TypeOK
<1>12. Entered'
  <2>1. ASSUME NEW q \in Players, Present(q)'
        PROVE  /\ "enter" \in asked'[q[1]]
               /\ currentPlayer'[q[1]] = q \/ Cleared(q[1])' \/ Again(q[1])'
    <3>1. Present(q)
      BY <1>2, <1>10, <2>1, JobFacts DEF Present, Reached
    <3>2. QED
      BY <1>1, <1>2, <1>8, <3>1, PlayerFacts DEF Entered, Again
  <2>2. ASSUME NEW q \in Players, InJobs(LeaveOf(q))'
        PROVE  Left(q[1])'
    <3>1. InJobs(LeaveOf(q)) \/ q = p
      BY <1>10, <2>2, JobFacts
    <3>2. CASE InJobs(LeaveOf(q))
      BY <1>1, <1>8, <3>2, PlayerFacts DEF Entered
    <3>3. CASE q = p
      BY <1>3, <1>4, <3>3, PlayerFacts DEF Left
    <3>4. QED
      BY <3>1, <3>2, <3>3
  <2>3. \A t \in Sessions : InJobs(NullOf(t))' => t \in late'
    BY <1>1, <1>2, <1>10, JobFacts DEF Entered
  <2>4. QED
    BY <2>1, <2>2, <2>3 DEF Entered
<1>13. LeftFollowed'
  <2>1. ASSUME NEW q \in Players, Left(q[1])', q[1] \notin late, ~Again(q[1])
        PROVE  /\ q \in roomPlayers => InJobs(LeaveOf(q))'
               /\ \A i \in DOMAIN jobs' : jobs'[i] = EnterOf(q) =>
                      \E k \in DOMAIN jobs' : k > i /\ jobs'[k] = LeaveOf(q)
    <3>1. \A i \in DOMAIN jobs' : jobs'[i] = EnterOf(q) =>
              i \in DOMAIN jobs /\ jobs[i] = EnterOf(q) /\ i < Len(jobs) + 1
      BY <1>9, JobFacts
    <3>2. CASE q[1] = s
      <4>1. Present(q) => q = p /\ p # NoPlayer
        BY <1>7, <2>1, <3>2, PlayerFacts
      <4>2. ASSUME q \in roomPlayers
            PROVE  InJobs(LeaveOf(q))'
        <5>1. q = p /\ p # NoPlayer
          BY <4>1, <4>2 DEF Present
        <5>2. QED
          BY <1>10, <1>18, <5>1
      <4>3. ASSUME NEW i \in DOMAIN jobs', jobs'[i] = EnterOf(q)
            PROVE  \E k \in DOMAIN jobs' : k > i /\ jobs'[k] = LeaveOf(q)
        <5>1. i \in DOMAIN jobs /\ jobs[i] = EnterOf(q) /\ i < Len(jobs) + 1
          BY <3>1, <4>3
        <5>2. q = p /\ p # NoPlayer
          BY <4>1, <5>1 DEF Present, InJobs
        <5>3. QED
          BY <1>9, <5>1, <5>2
      <4>4. QED
        BY <4>2, <4>3
    <3>3. CASE q[1] # s
      <4>1. /\ q \in roomPlayers => InJobs(LeaveOf(q))
            /\ \A i \in DOMAIN jobs : jobs[i] = EnterOf(q) =>
                   \E k \in DOMAIN jobs : k > i /\ jobs[k] = LeaveOf(q)
        BY <1>1, <1>8, <2>1, <3>3, PlayerFacts DEF LeftFollowed
      <4>2. QED
        BY <1>9, <1>10, <3>1, <4>1
    <3>4. QED
      BY <3>2, <3>3
  <2>2. QED
    BY <1>2, <2>1 DEF LeftFollowed, Again
<1>14. ChatsWait' /\ ChatOrder'
  <2>1. CASE p = NoPlayer
    BY <1>1, <1>2, <2>1 DEF ChatsWait, ChatOrder, Again
  <2>2. CASE p # NoPlayer
    BY <1>1, <1>2, <1>3, <2>2, ChatsKept, JobFacts
  <2>3. QED
    BY <2>1, <2>2
<1>15. Joined'
  <2>1. \A t : (Member(t) => Member(t)') /\ (EnterWaits(t) => EnterWaits(t)')
    BY <1>2, <1>10 DEF Member, EnterWaits, PlayersOf
  <2>2. \A n, t : ChatWaits(n, t) => ChatWaits(n, t)'
    BY <1>2, <1>9 DEF ChatWaits, Member, PlayersOf
  <2>3. \A n, t : /\ ChatReaches(n, t) => ChatReaches(n, t)'
                  /\ Heard(n, t) => Heard(n, t)'
    BY <1>2 DEF ChatReaches, Heard, PlayersOf
  <2>4. \A n \in DOMAIN authors : authors[n] # NoPlayer => authors[n] \in Sessions
    BY <1>1, ElementOfSeq DEF TypeOK
  <2>5. \A t \in Sessions : "enter" \in asked'[t] /\ recv'[t] # "enterJob" /\ life'[t] = "open" =>
            Member(t)' \/ EnterWaits(t)'
    BY <1>1, <1>2, <1>8, <2>1 DEF Joined
  <2>6. ASSUME NEW n \in DOMAIN authors, NEW t, t = authors[n], t # NoPlayer, life'[t] = "open"
        PROVE  ChatWaits(n, t)' \/ ChatReaches(n, t)' \/ Heard(n, t)'
    <3>1. ChatWaits(n, t) \/ ChatReaches(n, t) \/ Heard(n, t)
      BY <1>1, <1>8, <2>4, <2>6 DEF Joined
    <3>2. QED
      BY <2>2, <2>3, <3>1
  <2>7. QED
    BY <1>1, <1>2, <2>5, <2>6 DEF Joined
<1>16. CrashOnlyLate'
  BY <1>1, <1>2 DEF CrashOnlyLate
<1>17. QED
  BY <1>5, <1>6, <1>11, <1>12, <1>13, <1>14, <1>15, <1>16 DEF IInv, AInv, Receiving

\* What a session has got are numbers of chats.
LEMMA InboxFacts ==
    ASSUME TypeOK, NEW t \in Sessions, NEW k \in DOMAIN inbox[t]
    PROVE  inbox[t][k] \in 1 .. MaxChats /\ inbox[t][k] \in Nat
<1>1. inbox[t] \in Seq(1 .. MaxChats)
  BY DEF TypeOK
<1>2. DOMAIN inbox[t] = 1 .. Len(inbox[t])
  BY <1>1, LenProperties
<1>3. inbox[t][k] \in 1 .. MaxChats
  BY <1>1, <1>2, ElementOfSeq
<1>4. QED
  BY <1>3

\* A chat is pushed behind the Enter of its author, with the next number.
LEMMA ChatInv ==
    ASSUME IInv, NEW s \in Sessions, Handle_C_CHAT(s)
    PROVE  IInv'
<1> DEFINE N == Len(authors) + 1
           a == IF "enter" \in asked[s] THEN s ELSE NoPlayer
<1>1. /\ TypeOK /\ AInv /\ Receiving /\ Entered /\ LeftFollowed
      /\ ChatsWait /\ ChatOrder /\ CrashOnlyLate /\ Joined
      /\ jobs \in Seq(Jobs) /\ authors \in Seq(Sessions \cup {NoPlayer})
  BY DEF IInv, AInv, TypeOK
<1>2. /\ recv[s] = "packet" /\ Len(authors) + repeats < MaxChats /\ repeats \in Nat
      /\ authors' = Append(authors, a) /\ DoAsync(ChatOf(N))
      /\ UNCHANGED <<acceptVars, players, currentPlayer, broadcasts, roomPlayers, inbox, asked, late,
                     repeats, crashed>>
  BY <1>1 DEF Handle_C_CHAT, InRecv, ChatOf, TypeOK
<1>3. UNCHANGED <<life, recv, crash>>
  BY <1>2 DEF acceptVars
<1>4. a \in Sessions \cup {NoPlayer} /\ (a # NoPlayer => a = s /\ "enter" \in asked[s])
  OBVIOUS
<1>5. Len(authors) \in Nat /\ N \in 1 .. MaxChats /\ N \in Nat /\ Len(authors) < N /\ ChatOf(N) \in Jobs
  <2>1. Len(authors) \in Nat
    BY <1>1, LenProperties
  <2>2. N \in 1 .. MaxChats
    BY <1>2, <2>1, ChatsAssumption
  <2>3. QED
    BY <2>1, <2>2, JobFacts
<1> HIDE DEF a
<1>6. /\ authors' \in Seq(Sessions \cup {NoPlayer}) /\ Len(authors') = N
      /\ DOMAIN authors = 1 .. Len(authors) /\ DOMAIN authors' = 1 .. N
      /\ \A n \in 1 .. Len(authors) : authors'[n] = authors[n]
      /\ authors'[N] = a
  <2>1. /\ authors' \in Seq(Sessions \cup {NoPlayer}) /\ Len(authors') = Len(authors) + 1
        /\ \A n \in 1 .. Len(authors) : authors'[n] = authors[n]
        /\ authors'[Len(authors) + 1] = a
    BY <1>1, <1>2, <1>4, AppendProperties
  <2>2. DOMAIN authors = 1 .. Len(authors) /\ DOMAIN authors' = 1 .. Len(authors')
    BY <1>1, <2>1, LenProperties
  <2>3. QED
    BY <2>1, <2>2
<1> HIDE DEF N
<1>7. /\ jobs' \in Seq(Jobs) /\ Len(jobs) \in Nat
      /\ DOMAIN jobs = 1 .. Len(jobs) /\ DOMAIN jobs' = 1 .. Len(jobs) + 1
      /\ \A i \in 1 .. Len(jobs) : jobs'[i] = jobs[i]
      /\ jobs'[Len(jobs) + 1] = ChatOf(N)
      /\ \A j : InJobs(j)' <=> InJobs(j) \/ j = ChatOf(N)
  BY <1>1, <1>2, <1>5, JobsAppend
<1>8. /\ \A i \in DOMAIN jobs : i \in DOMAIN jobs' /\ jobs'[i] = jobs[i] /\ i < Len(jobs) + 1
      /\ \A i \in DOMAIN jobs' : i \notin DOMAIN jobs => i = Len(jobs) + 1 /\ jobs'[i] = ChatOf(N)
      /\ Len(jobs) + 1 \in DOMAIN jobs'
  BY <1>7
<1>9. AInv'
  <2>1. [Next]_vars
    BY DEF Next, HandlerStep
  <2>2. QED
    BY <1>1, <2>1, AcceptNext
<1>10. TypeOK'
  BY <1>1, <1>2, <1>3, <1>6, <1>7 DEF TypeOK
<1>11. Receiving'
  BY <1>1, <1>2, <1>3, ReceivingKept DEF Receiving
<1>12. Entered'
  <2>1. \A q \in Players : Present(q)' => Present(q)
    BY <1>2, <1>7, JobFacts DEF Present, Reached
  <2>2. \A q \in Players : InJobs(LeaveOf(q))' => InJobs(LeaveOf(q))
    BY <1>7, JobFacts
  <2>3. \A t \in Sessions : InJobs(NullOf(t))' => InJobs(NullOf(t))
    BY <1>7, JobFacts
  <2>4. QED
    BY <1>1, <1>2, <1>3, <2>1, <2>2, <2>3 DEF Entered, Cleared, Left, Again
<1>13. LeftFollowed'
  <2>1. ASSUME NEW q \in Players, Left(q[1]), q[1] \notin late, ~Again(q[1])
        PROVE  /\ q \in roomPlayers => InJobs(LeaveOf(q))'
               /\ \A i \in DOMAIN jobs' : jobs'[i] = EnterOf(q) =>
                      \E k \in DOMAIN jobs' : k > i /\ jobs'[k] = LeaveOf(q)
    <3>1. \A i \in DOMAIN jobs' : jobs'[i] = EnterOf(q) => i \in DOMAIN jobs /\ jobs[i] = EnterOf(q)
      BY <1>8, JobFacts
    <3>2. /\ q \in roomPlayers => InJobs(LeaveOf(q))
          /\ \A i \in DOMAIN jobs : jobs[i] = EnterOf(q) =>
                 \E k \in DOMAIN jobs : k > i /\ jobs[k] = LeaveOf(q)
      BY <1>1, <2>1 DEF LeftFollowed
    <3>3. QED
      BY <1>7, <1>8, <3>1, <3>2
  <2>2. QED
    BY <1>2, <1>3, <2>1 DEF LeftFollowed, Left, Again
<1>14. ChatsWait' /\ ChatOrder'
  <2>1. /\ \A i \in DOMAIN jobs : \A n \in 1 .. MaxChats : jobs[i] = ChatOf(n) => n < N
        /\ \A b \in broadcasts : b.chat < N
        /\ \A t \in Sessions : \A k \in DOMAIN inbox[t] : inbox[t][k] < N
    <3>1. \A m \in 1 .. MaxChats : m <= Len(authors) => m < N
      BY <1>5
    <3>2. \A b \in broadcasts : b.chat \in 1 .. MaxChats
      BY <1>1 DEF TypeOK
    <3>3. \A t \in Sessions : \A k \in DOMAIN inbox[t] : inbox[t][k] \in 1 .. MaxChats
      BY <1>1, InboxFacts
    <3>4. QED
      BY <1>1, <3>1, <3>2, <3>3 DEF ChatsWait
  <2>2. ASSUME NEW i \in DOMAIN jobs', NEW k \in DOMAIN jobs', NEW m \in 1 .. MaxChats,
               NEW n \in 1 .. MaxChats, i < k, jobs'[i] = ChatOf(m), jobs'[k] = ChatOf(n)
        PROVE  m < n
    <3>1. i \in DOMAIN jobs
      BY <1>7, <1>8, <2>2
    <3>2. CASE k \in DOMAIN jobs
      BY <1>1, <1>8, <2>2, <3>1, <3>2 DEF ChatsWait
    <3>3. CASE k \notin DOMAIN jobs
      <4>1. n = N
        BY <1>8, <2>2, <3>3, JobFacts
      <4>2. QED
        BY <1>8, <2>1, <2>2, <3>1, <4>1
    <3>4. QED
      BY <3>2, <3>3
  <2>3. ASSUME NEW i \in DOMAIN jobs', NEW n \in 1 .. MaxChats, jobs'[i] = ChatOf(n)
        PROVE  /\ n <= N
               /\ \A b \in broadcasts : b.chat < n
               /\ \A t \in Sessions : \A k \in DOMAIN inbox[t] : inbox[t][k] < n
    <3>1. CASE i \in DOMAIN jobs
      <4>1. jobs[i] = ChatOf(n)
        BY <1>8, <2>3, <3>1
      <4>2. n < N /\ n \in Nat
        BY <2>1, <3>1, <4>1
      <4>3. QED
        BY <1>1, <1>5, <3>1, <4>1, <4>2 DEF ChatsWait
    <3>2. CASE i \notin DOMAIN jobs
      <4>1. n = N
        BY <1>8, <2>3, <3>2, JobFacts
      <4>2. QED
        BY <1>5, <2>1, <4>1
    <3>3. QED
      BY <3>1, <3>2
  <2>4. /\ \A b \in broadcasts : b.chat <= N
        /\ \A t \in Sessions : \A k \in DOMAIN inbox[t] : inbox[t][k] <= N
    <3>1. \A b \in broadcasts : b.chat \in Nat
      BY <1>1 DEF TypeOK
    <3>2. \A t \in Sessions : \A k \in DOMAIN inbox[t] : inbox[t][k] \in Nat
      BY <1>1, InboxFacts
    <3>3. \A m \in Nat : m < N => m <= N
      BY <1>5
    <3>4. QED
      BY <2>1, <3>1, <3>2, <3>3
  <2>5. ChatsWait'
    BY <1>1, <1>2, <1>6, <2>2, <2>3, <2>4 DEF ChatsWait, Again
  <2>6. ChatOrder'
    BY <1>1, <1>2 DEF ChatOrder
  <2>7. QED
    BY <2>5, <2>6
<1>15. Joined'
  <2>1. /\ \A t : (Member(t) => Member(t)') /\ (EnterWaits(t) => EnterWaits(t)')
        /\ \A n, t : ChatWaits(n, t) => ChatWaits(n, t)'
        /\ \A n, t : ChatReaches(n, t) => ChatReaches(n, t)'
        /\ \A n, t : Heard(n, t) => Heard(n, t)'
    <3>1. \A t : Member(t) => Member(t)'
      BY <1>2 DEF Member, PlayersOf
    <3>2. (\A t : EnterWaits(t) => EnterWaits(t)') /\ \A n, t : ChatWaits(n, t) => ChatWaits(n, t)'
      BY <1>1, <1>2, <1>5, AppendKeeps
    <3>3. \A n, t : (ChatReaches(n, t) => ChatReaches(n, t)') /\ (Heard(n, t) => Heard(n, t)')
      BY <1>2 DEF ChatReaches, Heard, PlayersOf
    <3>4. QED
      BY <3>1, <3>2, <3>3
  <2>2. \A t \in Sessions : "enter" \in asked'[t] /\ recv'[t] # "enterJob" /\ life'[t] = "open" =>
            Member(t)' \/ EnterWaits(t)'
    BY <1>1, <1>2, <1>3, <2>1 DEF Joined
  <2>3. ASSUME NEW n \in DOMAIN authors', NEW t, t = authors'[n], t # NoPlayer
        PROVE  /\ "enter" \in asked'[t]
               /\ life'[t] = "open" => ChatWaits(n, t)' \/ ChatReaches(n, t)' \/ Heard(n, t)'
    <3>1. CASE n \in 1 .. Len(authors)
      <4>1. n \in DOMAIN authors /\ authors[n] = t
        BY <1>6, <2>3, <3>1
      <4>2. /\ "enter" \in asked[t]
            /\ life[t] = "open" => ChatWaits(n, t) \/ ChatReaches(n, t) \/ Heard(n, t)
        BY <1>1, <2>3, <4>1 DEF Joined
      <4>3. QED
        BY <1>2, <1>3, <2>1, <4>2
    <3>2. CASE n = N
      <4>1. t = s /\ "enter" \in asked[s]
        BY <1>4, <1>6, <2>3, <3>2
      <4>2. ASSUME life[s] = "open"
            PROVE  ChatWaits(n, s)'
        <5>1. Member(s) \/ EnterWaits(s)
          BY <1>1, <1>2, <4>1, <4>2 DEF Joined
        <5>2. Len(jobs) + 1 \in DOMAIN jobs' /\ jobs'[Len(jobs) + 1] = ChatOf(n)
          BY <1>7, <1>8, <3>2
        <5>3. ASSUME EnterWaits(s)
              PROVE  \E i \in DOMAIN jobs' :
                         i < Len(jobs) + 1 /\ \E p \in PlayersOf(s) : jobs'[i] = EnterOf(p)
          BY <1>8, <5>3 DEF EnterWaits, InJobs
        <5>4. QED
          BY <2>1, <5>1, <5>2, <5>3 DEF ChatWaits, PlayersOf
      <4>3. QED
        BY <1>2, <1>3, <4>1, <4>2
    <3>3. QED
      BY <1>5, <1>6, <2>3, <3>1, <3>2 DEF N
  <2>4. QED
    BY <2>2, <2>3 DEF Joined
<1>16. CrashOnlyLate'
  BY <1>1, <1>2, <1>3 DEF CrashOnlyLate
<1>17. QED
  BY <1>9, <1>10, <1>11, <1>12, <1>13, <1>14, <1>15, <1>16 DEF IInv, AInv

-------------------------------------------------------------------------------
(* Steps that take a job *)

\* The jobs that remain have moved up by one.
LEMMA TailShift ==
    ASSUME jobs \in Seq(Jobs), jobs # <<>>, jobs' = Tail(jobs)
    PROVE  /\ \A i \in DOMAIN jobs' : i \in Nat /\ i + 1 \in DOMAIN jobs /\ jobs'[i] = jobs[i + 1]
           /\ \A i \in DOMAIN jobs : i # 1 =>
                  i \in Nat /\ i > 1 /\ i - 1 \in DOMAIN jobs' /\ jobs'[i - 1] = jobs[i]
           /\ 1 \in DOMAIN jobs /\ jobs[1] = Head(jobs)
<1>1. /\ Len(jobs) \in Nat /\ Len(jobs) >= 1
      /\ DOMAIN jobs = 1 .. Len(jobs) /\ DOMAIN jobs' = 1 .. Len(jobs) - 1
      /\ \A i \in 1 .. Len(jobs) - 1 : jobs'[i] = jobs[i + 1]
      /\ Head(jobs) = jobs[1]
  BY JobsTail
<1>2. ASSUME NEW i \in DOMAIN jobs'
      PROVE  i \in Nat /\ i + 1 \in DOMAIN jobs /\ jobs'[i] = jobs[i + 1]
  BY <1>1, <1>2
<1>3. ASSUME NEW i \in DOMAIN jobs, i # 1
      PROVE  i \in Nat /\ i > 1 /\ i - 1 \in DOMAIN jobs' /\ jobs'[i - 1] = jobs[i]
  <2>1. i \in Nat /\ i > 1 /\ i - 1 \in 1 .. Len(jobs) - 1 /\ (i - 1) + 1 = i
    BY <1>1, <1>3
  <2>2. jobs'[i - 1] = jobs[(i - 1) + 1]
    BY <1>1, <2>1
  <2>3. QED
    BY <1>1, <2>1, <2>2
<1>4. 1 \in DOMAIN jobs
  BY <1>1
<1>5. QED
  BY <1>1, <1>2, <1>3, <1>4

\* A Leave stays behind its Enter.
LEMMA TailLeave ==
    ASSUME jobs \in Seq(Jobs), jobs # <<>>, jobs' = Tail(jobs), NEW p,
           \A i \in DOMAIN jobs : jobs[i] = EnterOf(p) =>
               \E k \in DOMAIN jobs : k > i /\ jobs[k] = LeaveOf(p)
    PROVE  \A i \in DOMAIN jobs' : jobs'[i] = EnterOf(p) =>
               \E k \in DOMAIN jobs' : k > i /\ jobs'[k] = LeaveOf(p)
<1>1. SUFFICES ASSUME NEW i \in DOMAIN jobs', jobs'[i] = EnterOf(p)
               PROVE  \E k \in DOMAIN jobs' : k > i /\ jobs'[k] = LeaveOf(p)
  OBVIOUS
<1>2. i \in Nat /\ i + 1 \in DOMAIN jobs /\ jobs[i + 1] = EnterOf(p)
  BY <1>1, TailShift
<1>3. PICK k \in DOMAIN jobs : k > i + 1 /\ jobs[k] = LeaveOf(p)
  BY <1>2
<1>4. k # 1 /\ k \in Nat
  <2>1. k # 1
    BY <1>2, <1>3
  <2>2. QED
    BY <2>1, TailShift
<1>5. k - 1 \in DOMAIN jobs' /\ jobs'[k - 1] = LeaveOf(p)
  BY <1>3, <1>4, TailShift
<1>6. k - 1 > i
  BY <1>2, <1>3, <1>4
<1>7. QED
  BY <1>5, <1>6

\* The chats that remain are in their order, behind what has been broadcast.
LEMMA TailChats ==
    ASSUME jobs \in Seq(Jobs), jobs # <<>>, jobs' = Tail(jobs), ChatsWait
    PROVE  /\ \A i, k \in DOMAIN jobs' : \A m, n \in 1 .. MaxChats :
                  i < k /\ jobs'[i] = ChatOf(m) /\ jobs'[k] = ChatOf(n) => m < n
           /\ \A i \in DOMAIN jobs' : \A n \in 1 .. MaxChats : jobs'[i] = ChatOf(n) =>
                  /\ n <= Len(authors)
                  /\ \A b \in broadcasts : b.chat < n
                  /\ \A s \in Sessions : \A k \in DOMAIN inbox[s] : inbox[s][k] < n
                  /\ \A m \in 1 .. MaxChats : Head(jobs) = ChatOf(m) => m < n
<1>1. /\ \A i \in DOMAIN jobs' : i \in Nat /\ i + 1 \in DOMAIN jobs /\ jobs'[i] = jobs[i + 1]
      /\ 1 \in DOMAIN jobs /\ jobs[1] = Head(jobs)
      /\ \A i \in DOMAIN jobs' : i >= 1
  <2>1. \A i \in DOMAIN jobs' : i >= 1
    BY JobsTail
  <2>2. QED
    BY <2>1, TailShift
<1>2. ASSUME NEW i \in DOMAIN jobs', NEW k \in DOMAIN jobs', NEW m \in 1 .. MaxChats,
             NEW n \in 1 .. MaxChats, i < k, jobs'[i] = ChatOf(m), jobs'[k] = ChatOf(n)
      PROVE  m < n
  <2>1. /\ i + 1 \in DOMAIN jobs /\ k + 1 \in DOMAIN jobs
        /\ jobs[i + 1] = ChatOf(m) /\ jobs[k + 1] = ChatOf(n) /\ i + 1 < k + 1
    BY <1>1, <1>2
  <2>2. QED
    BY <2>1 DEF ChatsWait
<1>3. ASSUME NEW i \in DOMAIN jobs', NEW n \in 1 .. MaxChats, jobs'[i] = ChatOf(n)
      PROVE  /\ n <= Len(authors)
             /\ \A b \in broadcasts : b.chat < n
             /\ \A s \in Sessions : \A k \in DOMAIN inbox[s] : inbox[s][k] < n
             /\ \A m \in 1 .. MaxChats : Head(jobs) = ChatOf(m) => m < n
  <2>1. i + 1 \in DOMAIN jobs /\ jobs[i + 1] = ChatOf(n) /\ 1 < i + 1
    BY <1>1, <1>3
  <2>2. /\ n <= Len(authors)
        /\ \A b \in broadcasts : b.chat < n
        /\ \A s \in Sessions : \A k \in DOMAIN inbox[s] : inbox[s][k] < n
    BY <2>1 DEF ChatsWait
  <2>3. \A m \in 1 .. MaxChats : Head(jobs) = ChatOf(m) => m < n
    BY <1>1, <2>1 DEF ChatsWait
  <2>4. QED
    BY <2>2, <2>3
<1>4. QED
  BY <1>2, <1>3

\* A chat that is not the first job waits on behind the Enter of its author, or behind
\* the member its author has become.
LEMMA TailWaits ==
    ASSUME jobs \in Seq(Jobs), jobs # <<>>, jobs' = Tail(jobs),
           NEW n, NEW s, ChatWaits(n, s), Head(jobs) # ChatOf(n),
           Member(s) \/ (\E p \in PlayersOf(s) : Head(jobs) = EnterOf(p)) => Member(s)'
    PROVE  ChatWaits(n, s)'
<1> DEFINE Enters(job) == \E p \in PlayersOf(s) : job = EnterOf(p)
<1>1. PICK k \in DOMAIN jobs :
          /\ jobs[k] = ChatOf(n)
          /\ Member(s) \/ \E i \in DOMAIN jobs : i < k /\ Enters(jobs[i])
  BY DEF ChatWaits
<1>2. k # 1
  BY <1>1, TailShift
<1>3. k \in Nat /\ k - 1 \in DOMAIN jobs' /\ jobs'[k - 1] = ChatOf(n)
  BY <1>1, <1>2, TailShift
<1>4. \/ Member(s)'
      \/ \E i \in DOMAIN jobs' : i < k - 1 /\ Enters(jobs'[i])
  <2>1. CASE Member(s)
    BY <2>1
  <2>2. ASSUME NEW i \in DOMAIN jobs, i < k, Enters(jobs[i])
        PROVE  \/ Member(s)'
               \/ \E j \in DOMAIN jobs' : j < k - 1 /\ Enters(jobs'[j])
    <3>1. CASE i = 1
      BY <2>2, <3>1, TailShift
    <3>2. CASE i # 1
      <4>1. i \in Nat /\ i - 1 \in DOMAIN jobs' /\ Enters(jobs'[i - 1])
        BY <2>2, <3>2, TailShift
      <4>2. i - 1 < k - 1
        BY <1>3, <2>2, <4>1
      <4>3. QED
        BY <4>1, <4>2
    <3>3. QED
      BY <3>1, <3>2
  <2>3. QED
    BY <1>1, <2>1, <2>2
<1>5. QED
  BY <1>3, <1>4 DEF ChatWaits, PlayersOf

\* No player of an open session has a Leave among the jobs.
LEMMA OpenStays ==
    ASSUME Entered, NEW s \in Sessions, life[s] = "open", NEW p \in PlayersOf(s)
    PROVE  ~InJobs(LeaveOf(p))
BY DEF Entered, Left, PlayersOf

\* A player enters the room, who is the current player of an open session or has a Leave
\* behind him; or he leaves, when his session has.
LEMMA EnterOrLeaveInv ==
    ASSUME IInv, EnterOrLeave
    PROVE  IInv'
<1>1. /\ TypeOK /\ AInv /\ Receiving /\ Entered /\ LeftFollowed
      /\ ChatsWait /\ ChatOrder /\ CrashOnlyLate /\ Joined /\ jobs \in Seq(Jobs)
  BY DEF IInv, AInv, TypeOK
<1>2. /\ jobs # <<>> /\ broadcasts = {} /\ jobs' = Tail(jobs)
      /\ Head(jobs).kind \in {"enter", "leave"}
      /\ roomPlayers' = IF Head(jobs).kind = "enter" THEN roomPlayers \cup {Head(jobs).player}
                        ELSE roomPlayers \ {Head(jobs).player}
      /\ UNCHANGED <<acceptVars, players, currentPlayer, broadcasts, inbox, asked,
                     authors, late, repeats, crashed>>
      /\ UNCHANGED <<life, recv, crash>>
  BY DEF EnterOrLeave, RoomJob, MayRun, acceptVars
<1>3. PICK p \in Players : Head(jobs) = EnterOf(p) \/ Head(jobs) = LeaveOf(p)
  <2>1. Head(jobs) \in Jobs
    BY <1>1, <1>2, JobsTail
  <2>2. (\A n : Head(jobs) # ChatOf(n)) /\ (\A t : Head(jobs) # NullOf(t))
    BY <1>2, JobFacts
  <2>3. QED
    BY <2>1, <2>2, JobFacts
<1>4. /\ jobs' \in Seq(Jobs)
      /\ \A j : InJobs(j) <=> InJobs(j)' \/ j = Head(jobs)
  BY <1>1, <1>2, JobsTail
<1>5. 1 \in DOMAIN jobs /\ jobs[1] = Head(jobs) /\ InJobs(Head(jobs))
  <2>1. 1 \in DOMAIN jobs /\ jobs[1] = Head(jobs)
    BY <1>1, <1>2, TailShift
  <2>2. QED
    BY <2>1 DEF InJobs
<1>6. /\ Head(jobs) = EnterOf(p) => roomPlayers' = roomPlayers \cup {p}
      /\ Head(jobs) = LeaveOf(p) => roomPlayers' = roomPlayers \ {p}
  BY <1>2, JobFacts
<1>7. AInv'
  <2>1. [Next]_vars
    BY DEF Next, RoomStep
  <2>2. QED
    BY <1>1, <2>1, AcceptNext
<1>8. TypeOK'
  <2>1. roomPlayers' \subseteq Players
    BY <1>1, <1>3, <1>6 DEF TypeOK
  <2>2. QED
    BY <1>1, <1>2, <1>4, <2>1 DEF TypeOK
<1>9. Receiving'
  BY <1>1, <1>2, ReceivingKept DEF Receiving
<1>10. Entered'
  <2>1. ASSUME NEW q \in Players, Present(q)'
        PROVE  Present(q)
    <3>1. CASE InJobs(EnterOf(q))'
      BY <1>4, <3>1 DEF Present
    <3>2. CASE q \in roomPlayers'
      <4>1. q \in roomPlayers \/ (q = p /\ Head(jobs) = EnterOf(p))
        BY <1>3, <1>6, <3>2
      <4>2. QED
        BY <1>5, <4>1 DEF Present
    <3>3. ~Reached(q)'
      BY <1>2 DEF Reached
    <3>4. QED
      BY <2>1, <3>1, <3>2, <3>3 DEF Present
  <2>2. \A j : InJobs(j)' => InJobs(j)
    BY <1>4
  <2>3. QED
    BY <1>1, <1>2, <2>1, <2>2 DEF Entered, Cleared, Left, Again, LeaveOf, NullOf
<1>11. LeftFollowed'
  <2>1. ASSUME NEW q \in Players, Left(q[1]), q[1] \notin late, ~Again(q[1])
        PROVE  /\ q \in roomPlayers' => InJobs(LeaveOf(q))'
               /\ \A i \in DOMAIN jobs' : jobs'[i] = EnterOf(q) =>
                      \E k \in DOMAIN jobs' : k > i /\ jobs'[k] = LeaveOf(q)
    <3>1. /\ q \in roomPlayers => InJobs(LeaveOf(q))
          /\ \A i \in DOMAIN jobs : jobs[i] = EnterOf(q) =>
                 \E k \in DOMAIN jobs : k > i /\ jobs[k] = LeaveOf(q)
      BY <1>1, <2>1 DEF LeftFollowed
    <3>2. \A i \in DOMAIN jobs' : jobs'[i] = EnterOf(q) =>
              \E k \in DOMAIN jobs' : k > i /\ jobs'[k] = LeaveOf(q)
      BY <1>1, <1>2, <3>1, TailLeave
    <3>3. ASSUME q \in roomPlayers'
          PROVE  InJobs(LeaveOf(q))'
      <4>1. InJobs(LeaveOf(q)) /\ Head(jobs) # LeaveOf(q)
        <5>1. CASE Head(jobs) = EnterOf(q)
          BY <1>5, <3>1, <5>1, JobFacts DEF InJobs
        <5>2. CASE Head(jobs) # EnterOf(q)
          <6>1. q \in roomPlayers /\ (p = q => Head(jobs) # LeaveOf(q))
            BY <1>3, <1>6, <3>3, <5>2
          <6>2. Head(jobs) = LeaveOf(q) => p = q
            BY <1>3, JobFacts
          <6>3. QED
            BY <3>1, <6>1, <6>2
        <5>3. QED
          BY <5>1, <5>2
      <4>2. QED
        BY <1>4, <4>1
    <3>4. QED
      BY <3>2, <3>3
  <2>2. QED
    BY <1>2, <2>1 DEF LeftFollowed, Left, Again
<1>12. ChatsWait'
  <2>1. /\ \A i, k \in DOMAIN jobs' : \A m, n \in 1 .. MaxChats :
               i < k /\ jobs'[i] = ChatOf(m) /\ jobs'[k] = ChatOf(n) => m < n
        /\ \A i \in DOMAIN jobs' : \A n \in 1 .. MaxChats : jobs'[i] = ChatOf(n) =>
               /\ n <= Len(authors)
               /\ \A b \in broadcasts : b.chat < n
               /\ \A s \in Sessions : \A k \in DOMAIN inbox[s] : inbox[s][k] < n
    BY <1>1, <1>2, TailChats
  <2>2. QED
    BY <1>1, <1>2, <2>1 DEF ChatsWait
<1>13. ChatOrder'
  BY <1>1, <1>2 DEF ChatOrder
<1>14. ASSUME NEW t \in Sessions, life[t] = "open",
              Member(t) \/ \E q \in PlayersOf(t) : Head(jobs) = EnterOf(q)
       PROVE  Member(t)'
  <2>1. CASE \E q \in PlayersOf(t) : Head(jobs) = EnterOf(q)
    <3>1. p \in PlayersOf(t) /\ Head(jobs) = EnterOf(p)
      BY <1>3, <2>1, JobFacts
    <3>2. QED
      BY <1>6, <3>1 DEF Member, PlayersOf
  <2>2. CASE Member(t)
    <3>1. PICK q \in PlayersOf(t) : q \in roomPlayers
      BY <2>2 DEF Member
    <3>2. Head(jobs) # LeaveOf(q)
      BY <1>1, <1>5, <1>14, <3>1, OpenStays
    <3>3. q \in roomPlayers'
      BY <1>3, <1>6, <3>1, <3>2
    <3>4. QED
      BY <3>1, <3>3 DEF Member, PlayersOf
  <2>3. QED
    BY <1>14, <2>1, <2>2
<1>15. Joined'
  <2>1. ASSUME NEW t \in Sessions, "enter" \in asked[t], recv[t] # "enterJob", life[t] = "open"
        PROVE  Member(t)' \/ EnterWaits(t)'
    <3>1. CASE Member(t)
      BY <1>14, <2>1, <3>1
    <3>2. CASE EnterWaits(t)
      <4>1. PICK q \in PlayersOf(t) : InJobs(EnterOf(q))
        BY <3>2 DEF EnterWaits
      <4>2. InJobs(EnterOf(q))' \/ Head(jobs) = EnterOf(q)
        BY <1>4, <4>1
      <4>3. QED
        BY <1>14, <2>1, <4>1, <4>2 DEF EnterWaits, PlayersOf
    <3>3. QED
      BY <1>1, <2>1, <3>1, <3>2 DEF Joined
  <2>2. ASSUME NEW n \in DOMAIN authors, NEW s, s = authors[n], s # NoPlayer, life[s] = "open"
        PROVE  ChatWaits(n, s)' \/ ChatReaches(n, s)' \/ Heard(n, s)'
    <3>1. /\ s \in Sessions
          /\ ChatWaits(n, s) \/ ChatReaches(n, s) \/ Heard(n, s)
      <4>1. s \in Sessions
        BY <1>1, <2>2, ElementOfSeq DEF TypeOK
      <4>2. QED
        BY <1>1, <2>2, <4>1 DEF Joined
    <3>2. ASSUME ChatWaits(n, s)
          PROVE  ChatWaits(n, s)'
      <4>1. Head(jobs) # ChatOf(n)
        BY <1>3, JobFacts
      <4>2. Member(s) \/ (\E q \in PlayersOf(s) : Head(jobs) = EnterOf(q)) => Member(s)'
        BY <1>14, <2>2, <3>1
      <4>3. QED
        BY <1>1, <1>2, <3>2, <4>1, <4>2, TailWaits
    <3>3. ~ChatReaches(n, s)
      BY <1>2 DEF ChatReaches
    <3>4. Heard(n, s) => Heard(n, s)'
      BY <1>2 DEF Heard
    <3>5. QED
      BY <3>1, <3>2, <3>3, <3>4
  <2>3. QED
    BY <1>1, <1>2, <2>1, <2>2 DEF Joined
<1>16. CrashOnlyLate'
  BY <1>1, <1>2 DEF CrashOnlyLate
<1>17. QED
  BY <1>7, <1>8, <1>9, <1>10, <1>11, <1>12, <1>13, <1>15, <1>16 DEF IInv, AInv

\* The job of a player that OnDisconnected had cleared kills the process: its session is
\* a late one.  Everybody else goes as the job goes.
LEMMA NullPlayerJobInv ==
    ASSUME IInv, NullPlayerJob
    PROVE  IInv'
<1>1. /\ TypeOK /\ AInv /\ Receiving /\ Entered /\ LeftFollowed
      /\ ChatsWait /\ ChatOrder /\ CrashOnlyLate /\ Joined /\ jobs \in Seq(Jobs)
  BY DEF IInv, AInv, TypeOK
<1>2. /\ jobs # <<>> /\ broadcasts = {} /\ jobs' = Tail(jobs) /\ Head(jobs).kind = "null"
      /\ crash' = "nullPlayer" /\ crashed' = {Head(jobs).session}
      /\ UNCHANGED <<life, recv, players, currentPlayer, broadcasts, roomPlayers, inbox, asked,
                     authors, late, repeats>>
  BY DEF NullPlayerJob, RoomJob, MayRun, Dies
<1>3. PICK s \in Sessions : Head(jobs) = NullOf(s)
  <2>1. Head(jobs) \in Jobs
    BY <1>1, <1>2, JobsTail
  <2>2. (\A n : Head(jobs) # ChatOf(n)) /\ (\A q : Head(jobs) # EnterOf(q) /\ Head(jobs) # LeaveOf(q))
    BY <1>2, JobFacts
  <2>3. QED
    BY <2>1, <2>2, JobFacts
<1>4. /\ jobs' \in Seq(Jobs)
      /\ \A j : InJobs(j) <=> InJobs(j)' \/ j = Head(jobs)
  BY <1>1, <1>2, JobsTail
<1>5. crashed' = {s} /\ s \in late
  <2>1. InJobs(NullOf(s))
    BY <1>3, <1>4
  <2>2. QED
    BY <1>1, <1>2, <1>3, <2>1, JobFacts DEF Entered
<1>6. AInv'
  <2>1. [Next]_vars
    BY DEF Next, RoomStep
  <2>2. QED
    BY <1>1, <2>1, AcceptNext
<1>7. TypeOK'
  BY <1>1, <1>2, <1>4, <1>5 DEF TypeOK
<1>8. Receiving'
  BY <1>1, <1>2, ReceivingKept DEF Receiving
<1>9. /\ \A q : InJobs(EnterOf(q))' <=> InJobs(EnterOf(q))
      /\ \A q : InJobs(LeaveOf(q))' <=> InJobs(LeaveOf(q))
      /\ \A j : InJobs(j)' => InJobs(j)
  BY <1>3, <1>4, JobFacts
<1>10. Entered'
  <2>1. \A q \in Players : Present(q)' => Present(q)
    BY <1>2, <1>9 DEF Present, Reached
  <2>2. QED
    BY <1>1, <1>2, <1>9, <2>1 DEF Entered, Cleared, Left, Again, LeaveOf, NullOf
<1>11. LeftFollowed'
  <2>1. ASSUME NEW q \in Players, Left(q[1]), q[1] \notin late, ~Again(q[1])
        PROVE  /\ q \in roomPlayers' => InJobs(LeaveOf(q))'
               /\ \A i \in DOMAIN jobs' : jobs'[i] = EnterOf(q) =>
                      \E k \in DOMAIN jobs' : k > i /\ jobs'[k] = LeaveOf(q)
    <3>1. /\ q \in roomPlayers => InJobs(LeaveOf(q))
          /\ \A i \in DOMAIN jobs : jobs[i] = EnterOf(q) =>
                 \E k \in DOMAIN jobs : k > i /\ jobs[k] = LeaveOf(q)
      BY <1>1, <2>1 DEF LeftFollowed
    <3>2. QED
      BY <1>1, <1>2, <1>9, <3>1, TailLeave
  <2>2. QED
    BY <1>2, <2>1 DEF LeftFollowed, Left, Again
<1>12. ChatsWait' /\ ChatOrder'
  <2>1. /\ \A i, k \in DOMAIN jobs' : \A m, n \in 1 .. MaxChats :
               i < k /\ jobs'[i] = ChatOf(m) /\ jobs'[k] = ChatOf(n) => m < n
        /\ \A i \in DOMAIN jobs' : \A n \in 1 .. MaxChats : jobs'[i] = ChatOf(n) =>
               /\ n <= Len(authors)
               /\ \A b \in broadcasts : b.chat < n
               /\ \A t \in Sessions : \A k \in DOMAIN inbox[t] : inbox[t][k] < n
    BY <1>1, <1>2, TailChats
  <2>2. ChatsWait'
    BY <1>1, <1>2, <2>1 DEF ChatsWait
  <2>3. QED
    BY <1>1, <1>2, <2>2 DEF ChatOrder
<1>13. Joined'
  <2>1. /\ \A t : Member(t) => Member(t)'
        /\ \A t : EnterWaits(t) => EnterWaits(t)'
    BY <1>2, <1>9 DEF Member, EnterWaits, PlayersOf
  <2>2. ASSUME NEW n, NEW t, ChatWaits(n, t) \/ ChatReaches(n, t) \/ Heard(n, t)
        PROVE  ChatWaits(n, t)' \/ ChatReaches(n, t)' \/ Heard(n, t)'
    <3>1. Head(jobs) # ChatOf(n) /\ \A q \in PlayersOf(t) : Head(jobs) # EnterOf(q)
      BY <1>3, JobFacts
    <3>2. ChatWaits(n, t) => ChatWaits(n, t)'
      BY <1>1, <1>2, <2>1, <3>1, TailWaits
    <3>3. QED
      BY <1>2, <2>2, <3>2 DEF ChatReaches, Heard
  <2>3. QED
    BY <1>1, <1>2, <2>1, <2>2 DEF Joined
<1>14. CrashOnlyLate'
  BY <1>2, <1>5 DEF CrashOnlyLate
<1>15. QED
  BY <1>6, <1>7, <1>8, <1>10, <1>11, <1>12, <1>13, <1>14 DEF IInv, AInv

\* The broadcast begins: it is the first chat that was waiting, and its author is in the
\* room by now.
LEMMA BroadCastInv ==
    ASSUME IInv, BroadCast
    PROVE  IInv'
<1>1. /\ TypeOK /\ AInv /\ Receiving /\ Entered /\ LeftFollowed
      /\ ChatsWait /\ ChatOrder /\ CrashOnlyLate /\ Joined /\ jobs \in Seq(Jobs)
  BY DEF IInv, AInv, TypeOK
<1>2. /\ jobs # <<>> /\ broadcasts = {} /\ jobs' = Tail(jobs) /\ Head(jobs).kind = "chat"
      /\ broadcasts' = broadcasts \cup
             {b \in {[chat |-> Head(jobs).chat, rest |-> roomPlayers]} : b.rest # {}}
      /\ UNCHANGED <<life, recv, crash, crashed, repeats, players, currentPlayer, roomPlayers, inbox,
                     asked, authors, late>>
  BY DEF BroadCast, RoomJob, MayRun, acceptVars
<1>3. PICK c \in 1 .. MaxChats : Head(jobs) = ChatOf(c)
  <2>1. Head(jobs) \in Jobs
    BY <1>1, <1>2, JobsTail
  <2>2. \A q : Head(jobs) # EnterOf(q) /\ Head(jobs) # LeaveOf(q) /\ Head(jobs) # NullOf(q)
    BY <1>2, JobFacts
  <2>3. QED
    BY <2>1, <2>2, JobFacts
<1>4. /\ jobs' \in Seq(Jobs)
      /\ \A j : InJobs(j) <=> InJobs(j)' \/ j = Head(jobs)
  BY <1>1, <1>2, JobsTail
<1>5. 1 \in DOMAIN jobs /\ jobs[1] = ChatOf(c)
  BY <1>1, <1>2, <1>3, TailShift
<1>6. /\ \A b \in broadcasts' : b = [chat |-> c, rest |-> roomPlayers]
      /\ roomPlayers # {} => [chat |-> c, rest |-> roomPlayers] \in broadcasts'
  <2>1. Head(jobs).chat = c
    BY <1>3, JobFacts
  <2>2. QED
    BY <1>2, <2>1
<1>7. \A b \in broadcasts' : b.chat = c /\ b.rest = roomPlayers
  BY <1>6
<1>8. AInv'
  <2>1. [Next]_vars
    BY DEF Next, RoomStep
  <2>2. QED
    BY <1>1, <2>1, AcceptNext
<1>9. TypeOK'
  <2>1. broadcasts' \subseteq [chat : 1 .. MaxChats, rest : SUBSET Players]
    BY <1>1, <1>6 DEF TypeOK
  <2>2. QED
    BY <1>1, <1>2, <1>4, <2>1 DEF TypeOK
<1>10. Receiving'
  BY <1>1, <1>2, ReceivingKept DEF Receiving
<1>11. Entered'
  <2>1. ASSUME NEW q \in Players, Present(q)'
        PROVE  Present(q)
    <3>1. InJobs(EnterOf(q))' => InJobs(EnterOf(q))
      BY <1>4
    <3>2. Reached(q)' => q \in roomPlayers
      BY <1>7 DEF Reached
    <3>3. QED
      BY <1>2, <2>1, <3>1, <3>2 DEF Present
  <2>2. \A j : InJobs(j)' => InJobs(j)
    BY <1>4
  <2>3. QED
    BY <1>1, <1>2, <2>1, <2>2 DEF Entered, Cleared, Left, Again, LeaveOf, NullOf
<1>12. LeftFollowed'
  <2>1. ASSUME NEW q \in Players, Left(q[1]), q[1] \notin late, ~Again(q[1])
        PROVE  /\ q \in roomPlayers => InJobs(LeaveOf(q))'
               /\ \A i \in DOMAIN jobs' : jobs'[i] = EnterOf(q) =>
                      \E k \in DOMAIN jobs' : k > i /\ jobs'[k] = LeaveOf(q)
    <3>1. /\ q \in roomPlayers => InJobs(LeaveOf(q))
          /\ \A i \in DOMAIN jobs : jobs[i] = EnterOf(q) =>
                 \E k \in DOMAIN jobs : k > i /\ jobs[k] = LeaveOf(q)
      BY <1>1, <2>1 DEF LeftFollowed
    <3>2. \A i \in DOMAIN jobs' : jobs'[i] = EnterOf(q) =>
              \E k \in DOMAIN jobs' : k > i /\ jobs'[k] = LeaveOf(q)
      BY <1>1, <1>2, <3>1, TailLeave
    <3>3. InJobs(LeaveOf(q)) => InJobs(LeaveOf(q))'
      BY <1>3, <1>4, JobFacts
    <3>4. QED
      BY <3>1, <3>2, <3>3
  <2>2. QED
    BY <1>2, <2>1 DEF LeftFollowed, Left, Again
<1>13. ChatsWait'
  <2>1. /\ c <= Len(authors)
        /\ \A s \in Sessions : \A k \in DOMAIN inbox[s] : inbox[s][k] < c
    BY <1>1, <1>5 DEF ChatsWait
  <2>2. \A s \in Sessions : \A k \in DOMAIN inbox[s] : inbox[s][k] <= c
    <3>1. \A s \in Sessions : \A k \in DOMAIN inbox[s] : inbox[s][k] \in Nat
      BY <1>1, InboxFacts
    <3>2. \A m \in Nat : m < c => m <= c
      OBVIOUS
    <3>3. QED
      BY <2>1, <3>1, <3>2
  <2>3. /\ \A i, k \in DOMAIN jobs' : \A m, n \in 1 .. MaxChats :
               i < k /\ jobs'[i] = ChatOf(m) /\ jobs'[k] = ChatOf(n) => m < n
        /\ \A i \in DOMAIN jobs' : \A n \in 1 .. MaxChats : jobs'[i] = ChatOf(n) =>
               /\ n <= Len(authors)
               /\ c < n
               /\ \A s \in Sessions : \A k \in DOMAIN inbox[s] : inbox[s][k] < n
    BY <1>1, <1>2, <1>3, TailChats
  <2>4. \A b \in broadcasts' : \A q \in b.rest : q[1] \in Sessions
    BY <1>1, <1>7, PlayerFacts DEF TypeOK
  <2>5. \A i \in DOMAIN jobs' : \A n \in 1 .. MaxChats : jobs'[i] = ChatOf(n) =>
               /\ n <= Len(authors)
               /\ \A b \in broadcasts' : b.chat < n
               /\ \A s \in Sessions : \A k \in DOMAIN inbox[s] : inbox[s][k] < n
    BY <1>7, <2>3
  <2>6. /\ \A b, d \in broadcasts' : b = d
        /\ \A b \in broadcasts' : b.chat <= Len(authors)
        /\ \A b \in broadcasts' : \A s \in Sessions : \A k \in DOMAIN inbox[s] : inbox[s][k] <= b.chat
        /\ \A b \in broadcasts' : \A q \in b.rest :
               \A k \in DOMAIN inbox[q[1]] : inbox[q[1]][k] < b.chat
    BY <1>6, <1>7, <2>1, <2>2, <2>4
  <2>7. QED
    BY <1>1, <1>2, <2>3, <2>5, <2>6 DEF ChatsWait
<1>14. ChatOrder'
  BY <1>1, <1>2 DEF ChatOrder
<1>15. Joined'
  <2>1. (\A t : Member(t) => Member(t)') /\ (\A t : EnterWaits(t) => EnterWaits(t)')
    <3>1. \A q : InJobs(EnterOf(q)) => InJobs(EnterOf(q))'
      BY <1>3, <1>4, JobFacts
    <3>2. QED
      BY <1>2, <3>1 DEF Member, EnterWaits, PlayersOf
  <2>2. ASSUME NEW n \in DOMAIN authors, NEW s, s = authors[n], s # NoPlayer, life[s] = "open"
        PROVE  ChatWaits(n, s)' \/ ChatReaches(n, s)' \/ Heard(n, s)'
    <3>1. /\ s \in Sessions
          /\ ChatWaits(n, s) \/ ChatReaches(n, s) \/ Heard(n, s)
      <4>1. s \in Sessions
        BY <1>1, <2>2, ElementOfSeq DEF TypeOK
      <4>2. QED
        BY <1>1, <2>2, <4>1 DEF Joined
    <3>2. ASSUME ChatWaits(n, s)
          PROVE  ChatWaits(n, s)' \/ ChatReaches(n, s)'
      <4>1. CASE Head(jobs) # ChatOf(n)
        <5>1. \A q \in PlayersOf(s) : Head(jobs) # EnterOf(q)
          BY <1>3, JobFacts
        <5>2. QED
          BY <1>1, <1>2, <2>1, <3>2, <4>1, <5>1, TailWaits
      <4>2. CASE Head(jobs) = ChatOf(n) /\ Member(s)
        <5>1. PICK q \in PlayersOf(s) : q \in roomPlayers
          BY <4>2 DEF Member
        <5>2. c = n /\ [chat |-> c, rest |-> roomPlayers] \in broadcasts'
          BY <1>3, <1>6, <4>2, <5>1, JobFacts
        <5>3. QED
          BY <1>7, <5>1, <5>2 DEF ChatReaches, PlayersOf
      <4>3. CASE Head(jobs) = ChatOf(n) /\ ~Member(s)
        <5>1. PICK k \in DOMAIN jobs :
                  /\ jobs[k] = ChatOf(n)
                  /\ \E i \in DOMAIN jobs : i < k /\ \E q \in PlayersOf(s) : jobs[i] = EnterOf(q)
          BY <3>2, <4>3 DEF ChatWaits
        <5>2. PICK i \in DOMAIN jobs : i < k /\ \E q \in PlayersOf(s) : jobs[i] = EnterOf(q)
          BY <5>1
        <5>3. n = c
          BY <1>3, <4>3, JobFacts
        <5>4. i # 1
          BY <1>5, <5>2, JobFacts
        <5>5. i > 1 /\ i \in Nat
          BY <1>1, <1>2, <5>4, TailShift
        <5>6. k \in Nat
          BY <1>1, <1>2, <5>5, TailShift, <5>1, JobsTail
        <5>7. 1 < k
          BY <5>2, <5>5, <5>6
        <5>8. c < c
          BY <1>1, <1>5, <5>1, <5>3, <5>7 DEF ChatsWait
        <5>9. QED
          BY <5>8
      <4>4. QED
        BY <4>1, <4>2, <4>3
    <3>3. ~ChatReaches(n, s)
      BY <1>2 DEF ChatReaches
    <3>4. Heard(n, s) => Heard(n, s)'
      BY <1>2 DEF Heard
    <3>5. QED
      BY <3>1, <3>2, <3>3, <3>4
  <2>3. QED
    BY <1>1, <1>2, <2>1, <2>2 DEF Joined
<1>16. CrashOnlyLate'
  BY <1>1, <1>2 DEF CrashOnlyLate
<1>17. QED
  BY <1>8, <1>9, <1>10, <1>11, <1>12, <1>13, <1>14, <1>15, <1>16 DEF IInv, AInv

-------------------------------------------------------------------------------
(* A step of a broadcast *)

\* The broadcast reaches one player, whose session gets the chat if it is open.
LEMMA SendChatInv ==
    ASSUME IInv, NEW b \in broadcasts, SendChat(b)
    PROVE  IInv'
<1>1. /\ TypeOK /\ AInv /\ Receiving /\ Entered /\ LeftFollowed
      /\ ChatsWait /\ ChatOrder /\ CrashOnlyLate /\ Joined
  BY DEF IInv, AInv
<1>2. UNCHANGED <<life, recv, crash, crashed, repeats, players, currentPlayer, jobs, roomPlayers, asked,
                 authors, late>>
  BY DEF SendChat, acceptVars
<1>3. PICK p \in b.rest :
          /\ inbox' = IF life[p[1]] = "open"
                      THEN [inbox EXCEPT ![p[1]] = Append(@, b.chat)] ELSE inbox
          /\ broadcasts' = (broadcasts \ {b}) \cup
                 {d \in {[b EXCEPT !.rest = @ \ {p}]} : d.rest # {}}
  BY DEF SendChat
<1>4. PICK c, rest : b = [chat |-> c, rest |-> rest] /\ c \in 1 .. MaxChats /\ rest \subseteq Players
  BY <1>1 DEF TypeOK
<1>5. b.chat = c /\ b.rest = rest /\ p \in rest /\ p \in Players /\ p[1] \in Sessions
  BY <1>3, <1>4, PlayerFacts
<1>6. /\ \A d \in broadcasts : d = b
      /\ \A d \in broadcasts' : d = [chat |-> c, rest |-> rest \ {p}]
      /\ rest \ {p} # {} => [chat |-> c, rest |-> rest \ {p}] \in broadcasts'
  <2>1. \A d \in broadcasts : d = b
    BY <1>1 DEF ChatsWait
  <2>2. [b EXCEPT !.rest = @ \ {p}] = [chat |-> c, rest |-> rest \ {p}]
    BY <1>4
  <2>3. [chat |-> c, rest |-> rest \ {p}].rest = rest \ {p}
    OBVIOUS
  <2>4. QED
    BY <1>3, <2>1, <2>2, <2>3
<1>7. \A d \in broadcasts' : d.chat = c /\ d.rest = rest \ {p}
  BY <1>6
<1>8. /\ inbox' \in [Sessions -> Seq(1 .. MaxChats)]
      /\ \A t \in Sessions : inbox[t] \in Seq(1 .. MaxChats)
      /\ \A t \in Sessions : inbox'[t] = IF t = p[1] /\ life[t] = "open"
                                         THEN Append(inbox[t], c) ELSE inbox[t]
  <2>1. inbox \in [Sessions -> Seq(1 .. MaxChats)]
    BY <1>1 DEF TypeOK
  <2>2. Append(inbox[p[1]], c) \in Seq(1 .. MaxChats)
    BY <1>4, <1>5, <2>1, AppendProperties
  <2>3. QED
    BY <1>3, <1>5, <2>1, <2>2
<1>9. ASSUME NEW t \in Sessions
      PROVE  /\ \A k \in DOMAIN inbox[t] : k \in DOMAIN inbox'[t] /\ inbox'[t][k] = inbox[t][k]
             /\ \A k \in DOMAIN inbox'[t] :
                    \/ k \in DOMAIN inbox[t] /\ inbox'[t][k] = inbox[t][k]
                    \/ /\ t = p[1] /\ life[t] = "open" /\ inbox'[t][k] = c
                       /\ \A i \in DOMAIN inbox[t] : i < k
             /\ t = p[1] /\ life[t] = "open" => \E k \in DOMAIN inbox'[t] : inbox'[t][k] = c
  <2>1. CASE t = p[1] /\ life[t] = "open"
    <3>1. inbox[t] \in Seq(1 .. MaxChats) /\ inbox'[t] = Append(inbox[t], c)
      BY <1>8, <2>1
    <3>2. DOMAIN inbox[t] = 1 .. Len(inbox[t]) /\ Len(inbox[t]) \in Nat
      BY <3>1, LenProperties
    <3>3. /\ DOMAIN inbox'[t] = 1 .. Len(inbox[t]) + 1
          /\ \A k \in 1 .. Len(inbox[t]) : inbox'[t][k] = inbox[t][k]
          /\ inbox'[t][Len(inbox[t]) + 1] = c
      <4>1. /\ inbox'[t] \in Seq(1 .. MaxChats) /\ Len(inbox'[t]) = Len(inbox[t]) + 1
            /\ \A k \in 1 .. Len(inbox[t]) : inbox'[t][k] = inbox[t][k]
            /\ inbox'[t][Len(inbox[t]) + 1] = c
        BY <1>4, <3>1, AppendProperties
      <4>2. DOMAIN inbox'[t] = 1 .. Len(inbox'[t])
        BY <4>1, LenProperties
      <4>3. QED
        BY <4>1, <4>2
    <3>4. \A k \in DOMAIN inbox[t] : k \in DOMAIN inbox'[t] /\ inbox'[t][k] = inbox[t][k]
      BY <3>2, <3>3
    <3>5. \A k \in DOMAIN inbox'[t] :
              k \in DOMAIN inbox[t] \/ (k = Len(inbox[t]) + 1 /\ inbox'[t][k] = c)
      BY <3>2, <3>3
    <3>6. \A i \in DOMAIN inbox[t] : i < Len(inbox[t]) + 1
      BY <3>2
    <3>7. Len(inbox[t]) + 1 \in DOMAIN inbox'[t]
      BY <3>2, <3>3
    <3>8. QED
      BY <2>1, <3>3, <3>4, <3>5, <3>6, <3>7
  <2>2. CASE ~(t = p[1] /\ life[t] = "open")
    BY <1>8, <2>2
  <2>3. QED
    BY <2>1, <2>2
<1>10. AInv'
  <2>1. [Next]_vars
    BY DEF Next, RoomStep
  <2>2. QED
    BY <1>1, <2>1, AcceptNext
<1>11. TypeOK'
  <2>1. broadcasts' \subseteq [chat : 1 .. MaxChats, rest : SUBSET Players]
    BY <1>4, <1>6
  <2>2. QED
    BY <1>1, <1>2, <1>8, <2>1 DEF TypeOK
<1>12. Receiving'
  BY <1>1, <1>2, ReceivingKept DEF Receiving
<1>13. ASSUME NEW q \in rest
       PROVE  /\ q \in Players /\ q[1] \in Sessions /\ Reached(q)
              /\ life[q[1]] = "open" /\ ~Again(q[1]) => currentPlayer[q[1]] = q
  <2>1. q \in Players /\ q[1] \in Sessions /\ Reached(q)
    BY <1>4, <1>5, <1>13, PlayerFacts DEF Reached
  <2>2. currentPlayer[q[1]] = q \/ Cleared(q[1]) \/ Again(q[1])
    BY <1>1, <2>1 DEF Entered, Present
  <2>3. QED
    BY <2>1, <2>2 DEF Cleared
<1>14. Entered'
  <2>1. \A q \in Players : Present(q)' => Present(q)
    <3>1. \A q \in Players : Reached(q)' => Reached(q)
      BY <1>7, <1>13 DEF Reached
    <3>2. QED
      BY <1>2, <3>1 DEF Present, InJobs
  <2>2. QED
    BY <1>1, <1>2, <2>1 DEF Entered, InJobs, Cleared, Left, Again, LeaveOf, NullOf
<1>15. LeftFollowed'
  BY <1>1, <1>2 DEF LeftFollowed, InJobs, Left, Again
<1>16. /\ ~Again(p[1]) => \A k \in DOMAIN inbox[p[1]] : inbox[p[1]][k] < c
       /\ \A t \in Sessions : \A k \in DOMAIN inbox[t] :
              inbox[t][k] <= c /\ inbox[t][k] <= Len(authors)
       /\ c <= Len(authors)
  BY <1>1, <1>5 DEF ChatsWait
<1>17. ChatsWait'
  <2>1. /\ \A i, k \in DOMAIN jobs : \A m, n \in 1 .. MaxChats :
               i < k /\ jobs[i] = ChatOf(m) /\ jobs[k] = ChatOf(n) => m < n
        /\ \A i \in DOMAIN jobs : \A n \in 1 .. MaxChats : jobs[i] = ChatOf(n) =>
               /\ n <= Len(authors)
               /\ c < n
               /\ \A s \in Sessions : \A k \in DOMAIN inbox[s] : inbox[s][k] < n
    BY <1>1, <1>5 DEF ChatsWait
  <2>2. ASSUME NEW i \in DOMAIN jobs, NEW n \in 1 .. MaxChats, jobs[i] = ChatOf(n)
        PROVE  /\ n <= Len(authors)
               /\ \A d \in broadcasts' : d.chat < n
               /\ \A s \in Sessions : \A k \in DOMAIN inbox'[s] : inbox'[s][k] < n
    <3>1. /\ n <= Len(authors) /\ c < n
          /\ \A s \in Sessions : \A k \in DOMAIN inbox[s] : inbox[s][k] < n
      BY <2>1, <2>2
    <3>2. ASSUME NEW s \in Sessions, NEW k \in DOMAIN inbox'[s]
          PROVE  inbox'[s][k] < n
      BY <1>9, <3>1, <3>2
    <3>3. QED
      BY <1>7, <3>1, <3>2
  <2>3. ASSUME NEW s \in Sessions, NEW k \in DOMAIN inbox'[s]
        PROVE  inbox'[s][k] <= c /\ inbox'[s][k] <= Len(authors)
    <3>1. c <= c
      BY <1>4
    <3>2. QED
      BY <1>9, <1>16, <2>3, <3>1
  <2>4. ASSUME NEW q \in rest \ {p}, ~Again(q[1]), NEW k \in DOMAIN inbox'[q[1]]
        PROVE  inbox'[q[1]][k] < c
    <3>1. q \in Players /\ q[1] \in Sessions
      BY <1>13, <2>4
    <3>2. ~(q[1] = p[1] /\ life[q[1]] = "open")
      BY <1>5, <1>13, <2>4 DEF Again
    <3>3. k \in DOMAIN inbox[q[1]] /\ inbox'[q[1]][k] = inbox[q[1]][k]
      BY <1>9, <2>4, <3>1, <3>2
    <3>4. \A j \in DOMAIN inbox[q[1]] : inbox[q[1]][j] < c
      BY <1>1, <1>5, <2>4 DEF ChatsWait
    <3>5. QED
      BY <3>3, <3>4
  <2>5. /\ \A d, e \in broadcasts' : d = e
        /\ \A d \in broadcasts' : d.chat <= Len(authors)
        /\ \A d \in broadcasts' : \A s \in Sessions : \A k \in DOMAIN inbox'[s] :
               inbox'[s][k] <= d.chat
        /\ \A d \in broadcasts' : \A q \in d.rest : ~Again(q[1]) =>
               \A k \in DOMAIN inbox'[q[1]] : inbox'[q[1]][k] < d.chat
    <3>1. \A d, e \in broadcasts' : d = e
      BY <1>6
    <3>2. QED
      BY <1>7, <1>16, <2>3, <2>4, <3>1
  <2>6. QED
    BY <1>2, <2>1, <2>2, <2>3, <2>5 DEF ChatsWait, Again
<1>18. ChatOrder'
  <2>1. ASSUME NEW t \in Sessions, NEW i \in DOMAIN inbox'[t], NEW k \in DOMAIN inbox'[t], i < k
        PROVE  inbox'[t][i] <= inbox'[t][k] /\ (~Again(t) => inbox'[t][i] # inbox'[t][k])
    <3>1. DOMAIN inbox'[t] = 1 .. Len(inbox'[t]) /\ i \in Nat /\ k \in Nat
      BY <1>8, <2>1, LenProperties
    <3>2. CASE i \in DOMAIN inbox[t] /\ k \in DOMAIN inbox[t]
      BY <1>1, <1>9, <2>1, <3>2 DEF ChatOrder, Again
    <3>3. CASE i \in DOMAIN inbox[t] /\ k \notin DOMAIN inbox[t]
      <4>1. inbox'[t][i] = inbox[t][i] /\ inbox'[t][k] = c /\ t = p[1]
        BY <1>9, <2>1, <3>3
      <4>2. inbox[t][i] <= c /\ inbox[t][i] \in Nat /\ c \in Nat
        BY <1>1, <1>4, <1>16, <3>3, InboxFacts
      <4>3. ~Again(t) => inbox[t][i] < c
        BY <1>16, <3>3, <4>1
      <4>4. QED
        BY <4>1, <4>2, <4>3
    <3>4. CASE i \notin DOMAIN inbox[t]
      <4>1. /\ k \notin DOMAIN inbox[t] /\ t = p[1] /\ life[t] = "open"
        <5>1. \A j \in DOMAIN inbox[t] : j < i
          BY <1>9, <2>1, <3>4
        <5>2. QED
          BY <1>9, <2>1, <3>1, <3>4, <5>1
      <4>2. DOMAIN inbox'[t] = 1 .. Len(inbox[t]) + 1 /\ DOMAIN inbox[t] = 1 .. Len(inbox[t])
            /\ Len(inbox[t]) \in Nat
        BY <1>4, <1>8, <4>1, AppendProperties, LenProperties
      <4>3. QED
        BY <2>1, <3>1, <3>4, <4>1, <4>2
    <3>5. QED
      BY <3>2, <3>3, <3>4
  <2>2. QED
    BY <1>2, <2>1 DEF ChatOrder, Again
<1>19. Joined'
  <2>1. /\ \A t : (Member(t) => Member(t)') /\ (EnterWaits(t) => EnterWaits(t)')
        /\ \A n, t : ChatWaits(n, t) => ChatWaits(n, t)'
    BY <1>2 DEF Member, EnterWaits, ChatWaits, InJobs, PlayersOf
  <2>2. ASSUME NEW n \in DOMAIN authors, NEW s, s = authors[n], s # NoPlayer, life[s] = "open"
        PROVE  ChatWaits(n, s)' \/ ChatReaches(n, s)' \/ Heard(n, s)'
    <3>1. /\ s \in Sessions
          /\ ChatWaits(n, s) \/ ChatReaches(n, s) \/ Heard(n, s)
      <4>1. s \in Sessions
        BY <1>1, <2>2, ElementOfSeq DEF TypeOK
      <4>2. QED
        BY <1>1, <2>2, <4>1 DEF Joined
    <3>2. ASSUME ChatReaches(n, s)
          PROVE  ChatReaches(n, s)' \/ Heard(n, s)'
      <4>1. PICK q \in PlayersOf(s) : n = c /\ q \in rest
        BY <1>5, <1>6, <3>2 DEF ChatReaches
      <4>2. CASE q = p
        <5>1. p[1] = s
          BY <4>1, <4>2 DEF PlayersOf
        <5>2. QED
          BY <1>9, <2>2, <3>1, <4>1, <5>1 DEF Heard
      <4>3. CASE q # p
        <5>1. [chat |-> c, rest |-> rest \ {p}] \in broadcasts' /\ q \in rest \ {p}
          BY <1>6, <4>1, <4>3
        <5>2. QED
          BY <1>7, <4>1, <5>1 DEF ChatReaches, PlayersOf
      <4>4. QED
        BY <4>2, <4>3
    <3>3. Heard(n, s) => Heard(n, s)'
      BY <1>9, <3>1 DEF Heard
    <3>4. QED
      BY <2>1, <3>1, <3>2, <3>3
  <2>3. QED
    BY <1>1, <1>2, <2>1, <2>2 DEF Joined
<1>20. CrashOnlyLate'
  BY <1>1, <1>2 DEF CrashOnlyLate
<1>21. QED
  BY <1>10, <1>11, <1>12, <1>14, <1>15, <1>17, <1>18, <1>19, <1>20 DEF IInv, AInv

-------------------------------------------------------------------------------
(* The theorems *)

\* The initial state: no client has sent anything, the room is empty.
LEMMA InitInv == Init => IInv
<1> SUFFICES ASSUME Init
             PROVE  IInv
  OBVIOUS
<1>1. AInv
  BY InitAccept
<1>2. /\ players = [s \in Sessions |-> {}] /\ currentPlayer = [s \in Sessions |-> NoPlayer]
      /\ jobs = <<>> /\ broadcasts = {} /\ roomPlayers = {}
      /\ inbox = [s \in Sessions |-> <<>>] /\ asked = [s \in Sessions |-> {}]
      /\ authors = <<>> /\ late = {} /\ repeats = 0 /\ crashed = {}
      /\ recv = [s \in Sessions |-> "none"] /\ crash = "no"
  BY DEF Init, AcceptInit
<1>3. \A s \in Sessions : life[s] \in {"created", "unused"}
  BY DEF Init, AcceptInit
<1>4. DOMAIN jobs = {} /\ DOMAIN authors = {} /\ \A s \in Sessions : DOMAIN inbox[s] = {}
  BY <1>2
<1>5. TypeOK
  <2>1. jobs \in Seq(Jobs) /\ authors \in Seq(Sessions \cup {NoPlayer})
        /\ inbox \in [Sessions -> Seq(1 .. MaxChats)]
    BY <1>2, EmptySeq
  <2>2. QED
    BY <1>2, <2>1 DEF TypeOK, RecvPcs
<1>6. Receiving
  BY <1>2, <1>3 DEF Receiving, ReceivingOf, Early, Handling, Cleared
<1>7. Entered /\ LeftFollowed
  BY <1>2, <1>4 DEF Entered, LeftFollowed, Present, InJobs, Reached
<1>8. ChatsWait /\ ChatOrder
  BY <1>2, <1>4 DEF ChatsWait, ChatOrder
<1>9. Joined
  BY <1>2, <1>4 DEF Joined
<1>10. CrashOnlyLate
  BY <1>2 DEF CrashOnlyLate
<1>11. QED
  BY <1>1, <1>5, <1>6, <1>7, <1>8, <1>9, <1>10 DEF IInv, AInv

\* A step that changes nothing.
LEMMA StutterInv ==
    ASSUME IInv, UNCHANGED vars
    PROVE  IInv'
<1>1. /\ TypeOK /\ AInv /\ Receiving /\ CrashOnlyLate
  BY DEF IInv, AInv
<1>2. /\ UNCHANGED <<life, recv, crash, players, currentPlayer, roomVars, asked, authors, late>>
      /\ UNCHANGED <<repeats, crashed>>
  BY DEF vars, acceptVars, gameVars
<1>3. AInv'
  BY <1>1, AcceptNext
<1>4. Entered' /\ LeftFollowed' /\ ChatsWait' /\ ChatOrder' /\ Joined'
  <2>1. \A s \in Sessions : KeepsRoom(s)
    BY <1>2 DEF KeepsRoom, Cleared, Left
  <2>2. QED
    BY <1>2, <2>1, RoomQuiet
<1>5. Receiving'
  BY <1>1, <1>2, ReceivingKept DEF Receiving
<1>6. TypeOK' /\ CrashOnlyLate'
  BY <1>1, <1>2 DEF TypeOK, CrashOnlyLate, roomVars
<1>7. QED
  BY <1>3, <1>4, <1>5, <1>6 DEF IInv, AInv

\* Every step preserves the invariant.
LEMMA NextInv ==
    ASSUME IInv, [Next]_vars
    PROVE  IInv'
<1>1. ASSUME NEW e \in AcceptEvents, AcceptStep(e) /\ UNCHANGED gameVars
      PROVE  IInv'
  BY <1>1, AcceptStepInv
<1>2. ASSUME NEW s \in Sessions, RecvBegin(s) \/ RecvNothing(s) \/ SendFails(s)
      PROVE  IInv'
  BY <1>2, RecvBeginInv, RecvNothingInv, SendFailsInv
<1>3. ASSUME NEW s \in Sessions, HandlerStep(s)
      PROVE  IInv'
  BY <1>3, LoginInv, EnterGameInv, EnterJobInv, EnterSendInv, ChatInv, RecvEndInv DEF HandlerStep
<1>4. ASSUME NEW s \in Sessions, CloseStep(s)
      PROVE  IInv'
  BY <1>4, OnDisconnectedInv, LeaveInv, ClearInv, ReleaseInv DEF CloseStep
<1>5. CASE RoomStep
  BY <1>5, EnterOrLeaveInv, NullPlayerJobInv, BroadCastInv, SendChatInv DEF RoomStep
<1>6. CASE UNCHANGED vars
  BY <1>6, StutterInv
<1>7. QED
  BY <1>1, <1>2, <1>3, <1>4, <1>5, <1>6 DEF Next

\* The invariant holds always.
THEOREM GameInvariant == Spec => []IInv
<1>1. Init => IInv
  BY InitInv
<1>2. IInv /\ [Next]_vars => IInv'
  BY NextInv
<1>3. QED
  BY <1>1, <1>2, PTL DEF Spec

\* The sets of the Service and of the manager, and the count, are exact in every state,
\* and the assertion of ReleaseSession holds (Service.cpp:40-52).
THEOREM SetsExact == Spec => []ServiceExact
<1>1. IInv => ServiceExact
  BY DEF IInv
<1>2. QED
  BY <1>1, GameInvariant, PTL

\* Who has left, had no handler under way and had entered once is in the room, or about
\* to enter it, only while his Leave waits (GameSession.cpp:12-24, Room.cpp:8-16).
THEOREM GhostsLeave == Spec => []NoGhost
<1>1. IInv => NoGhost
  <2>1. SUFFICES ASSUME IInv
                 PROVE  NoGhost
    OBVIOUS
  <2>2. TypeOK /\ LeftFollowed /\ jobs \in Seq(Jobs)
    BY <2>1 DEF IInv, TypeOK
  <2>3. DOMAIN jobs = 1 .. Len(jobs) /\ Len(jobs) \in Nat
    BY <2>2, LenProperties
  <2>4. ASSUME NEW p \in Players, life[p[1]] \in {"clear", "release", "released"}, p[1] \notin late,
               "again" \notin asked[p[1]]
        PROVE  /\ p \in roomPlayers => \E k \in DOMAIN jobs : jobs[k] = [kind |-> "leave", player |-> p]
               /\ \A i \in DOMAIN jobs : jobs[i] = [kind |-> "enter", player |-> p] =>
                      \E k \in DOMAIN jobs : k > i /\ jobs[k] = [kind |-> "leave", player |-> p]
    BY <2>2, <2>4 DEF LeftFollowed, Left, Again, InJobs, EnterOf, LeaveOf
  <2>5. ASSUME NEW p \in Players, life[p[1]] \in {"clear", "release", "released"}, p[1] \notin late,
               "again" \notin asked[p[1]], NEW i \in 0 .. Len(jobs)
        PROVE  IF i = 0 THEN p \in roomPlayers => \E k \in DOMAIN jobs :
                                 jobs[k] = [kind |-> "leave", player |-> p]
               ELSE jobs[i] = [kind |-> "enter", player |-> p] =>
                        \E k \in DOMAIN jobs : k > i /\ jobs[k] = [kind |-> "leave", player |-> p]
    <3>1. CASE i = 0
      BY <2>4, <2>5, <3>1
    <3>2. CASE i # 0
      <4>1. i \in DOMAIN jobs
        BY <2>3, <3>2
      <4>2. QED
        BY <2>4, <2>5, <3>2, <4>1
    <3>3. QED
      BY <3>1, <3>2
  <2>6. QED
    BY <2>2, <2>5 DEF NoGhost
<1>2. QED
  BY <1>1, GameInvariant, PTL

\* A handler or a job dies of a missing player only for a session of its own whose handler
\* OnDisconnected met, or, in Handle_C_ENTER_GAME, whose client had not logged in or sent an
\* index it was not offered (ClientPacketHandler.cpp:67-84, Room.cpp:8-16).
THEOREM CrashesLate == Spec => []CrashOnlyLate
<1>1. IInv => CrashOnlyLate
  BY DEF IInv
<1>2. QED
  BY <1>1, GameInvariant, PTL

\* Every session gets the chats in the order in which they were pushed on the Room
\* (Room.cpp:18-24).
THEOREM ChatsInOrder == Spec => []ChatOrder
<1>1. IInv => ChatOrder
  BY DEF IInv
<1>2. QED
  BY <1>1, GameInvariant, PTL

\* Who chats after he has entered gets his chat, or it is still under way
\* (ClientPacketHandler.cpp:67-99).
THEOREM AuthorsHear == Spec => []OwnChatHeard
<1>1. IInv => OwnChatHeard
  <2>1. SUFFICES ASSUME IInv, NEW n \in DOMAIN authors, authors[n] # NoPlayer,
                        life[authors[n]] = "open"
                 PROVE  \/ \E k \in DOMAIN jobs : jobs[k] = [kind |-> "chat", chat |-> n]
                        \/ \E b \in broadcasts : b.chat = n
                        \/ \E k \in DOMAIN inbox[authors[n]] : inbox[authors[n]][k] = n
    BY DEF OwnChatHeard
  <2>2. ChatWaits(n, authors[n]) \/ ChatReaches(n, authors[n]) \/ Heard(n, authors[n])
    BY <2>1 DEF IInv, Joined
  <2>3. QED
    BY <2>2 DEF ChatWaits, ChatReaches, Heard, ChatOf
<1>2. QED
  BY <1>1, GameInvariant, PTL

===============================================================================
