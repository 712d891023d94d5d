--------------------------- MODULE UDPProxyProofs ---------------------------
(***************************************************************************)
(* Proofs about UDPProxy, for any clients, sessions and targets and any    *)
(* timeout.  The inductive invariant IInv says what the place of a reader  *)
(* means for what its session holds (SessionOK), what the receive loop     *)
(* knows of the map (ReceiveInv), what the map leads to (MapLeadsToReader), *)
(* that Stop cancels (StopInv), and that each counter counts a set of      *)
(* sessions (CountInv).                                                    *)
(***************************************************************************)
EXTENDS UDPProxy, Tally

\* A session holds a socket, a target and a tracker entry until its reader gives
\* them back, and belongs to a client until the reader is gone.
SessionOK(s) ==
    /\ target[s] # None <=> reader[s] \notin {"none", "delete"}
    /\ s \in tracked <=> reader[s] \notin {"none", "delete"}
    /\ s \in open <=> reader[s] \notin {"none", "delete"}
    /\ client[s] # None <=> reader[s] # "none"

SessionInv == \A s \in Sessions : SessionOK(s)

\* The receive loop is the only one to add to the map: what it did not find is
\* still not there when it inserts.
ReceiveInv ==
    /\ recv \in {"lookup", "create"} => datagram # None
    /\ recv = "create" => sessions[datagram] = None
    /\ recv = "touch" => held # None

StopInv == cancelled <=> stop # "running"

Holders(t) == {s \in Sessions : target[s] = t}

CountInv ==
    /\ \A t \in Targets : Counts(active[t], Holders(t))
    /\ Counts(activeConns, Live)

IInv == TypeOK /\ SessionInv /\ ReceiveInv /\ MapLeadsToReader /\ StopInv /\ CountInv

-----------------------------------------------------------------------------
(* The steps *)

\* A counter that is about to be taken back is not zero.
LEMMA NoUnderflow ==
    ASSUME TypeOK, SessionInv, CountInv, NEW s \in Sessions
    PROVE  /\ reader[s] = "close" => target[s] \in Targets /\ active[target[s]] - 1 \in Nat
           /\ reader[s] = "delete" => activeConns - 1 \in Nat
<1>1. ASSUME reader[s] = "close"
      PROVE  target[s] \in Targets /\ active[target[s]] - 1 \in Nat
    <2>1. target[s] \in Targets /\ s \in Holders(target[s])
        BY <1>1 DEF TypeOK, SessionInv, SessionOK, Holders
    <2> QED
        BY <2>1, CountIsNatural DEF CountInv
<1>2. ASSUME reader[s] = "delete" PROVE activeConns - 1 \in Nat
    <2>1. s \in Live
        BY <1>2 DEF Live
    <2> QED
        BY <2>1, CountIsNatural DEF CountInv
<1> QED
    BY <1>1, <1>2

\* Every step keeps the types; no counter is decremented at zero.
LEMMA TypeStep ==
    ASSUME TypeOK, SessionInv, ReceiveInv, CountInv, [Next]_vars
    PROVE  TypeOK'
<1>1. ASSUME NEW c \in Clients, Receive(c) PROVE TypeOK'
    BY <1>1 DEF Receive, timers, ghosts, counters, stopping, TypeOK, ReaderPlaces
<1>2. ASSUME Lookup PROVE TypeOK'
    BY <1>2, NoneAssumption
       DEF Lookup, timers, ghosts, counters, stopping, TypeOK, ReaderPlaces, ReceiveInv
<1>3. ASSUME Touch PROVE TypeOK'
    <2>1. idle' \in [Sessions -> 0 .. Timeout + 1]
        <3>1. held \in Sessions
            BY <1>3 DEF Touch, TypeOK, ReceiveInv
        <3> QED
            BY <1>3, <3>1, TimeoutAssumption DEF Touch, TypeOK
    <2> QED
        BY <1>3, <2>1 DEF Touch, ghosts, counters, stopping, TypeOK, ReaderPlaces
<1>4. ASSUME Create PROVE TypeOK'
    <2>1. ASSUME NEW t \in Targets, NEW s \in Sessions, reader[s] = "none",
                 sessions' = [sessions EXCEPT ![datagram] = s],
                 reader' = [reader EXCEPT ![s] = "check"],
                 client' = [client EXCEPT ![s] = datagram],
                 target' = [target EXCEPT ![s] = t], idle' = [idle EXCEPT ![s] = 0],
                 open' = open \union {s}, active' = [active EXCEPT ![t] = @ + 1],
                 tracked' = tracked \union {s}, activeConns' = activeConns + 1,
                 held' = s, recv' = "write", UNCHANGED datagram
          PROVE  TypeOK'
        BY <1>4, <2>1, TimeoutAssumption DEF Create, ghosts, stopping, TypeOK, ReaderPlaces, ReceiveInv
    <2>2. CASE /\ DropDatagram
               /\ UNCHANGED <<sessions, reader, client, target, idle, open, counters>>
        BY <1>4, <2>2 DEF Create, DropDatagram, counters, ghosts, stopping, TypeOK, ReaderPlaces, ReceiveInv
    <2> QED
        BY <1>4, <2>1, <2>2 DEF Create
<1>5. ASSUME Write PROVE TypeOK'
    BY <1>5
       DEF Write, DropDatagram, timers, ghosts, counters, stopping, TypeOK, ReaderPlaces
<1>6. ASSUME ReceiveEnds PROVE TypeOK'
    BY <1>6 DEF ReceiveEnds, timers, ghosts, counters, stopping, TypeOK, ReaderPlaces
<1>7. ASSUME NEW s \in Sessions, Check(s) PROVE TypeOK'
    BY <1>7
       DEF Check, ContextDone, Advance, receiving, timers, ghosts, counters, stopping, TypeOK,
           ReaderPlaces
<1>7a. ASSUME NEW s \in Sessions, Arm(s) PROVE TypeOK'
    BY <1>7a, TimeoutAssumption
       DEF Arm, Advance, receiving, ghosts, counters, stopping, TypeOK,
           ReaderPlaces
<1>8. ASSUME NEW s \in Sessions, UpstreamSends(s) PROVE TypeOK'
    BY <1>8, TimeoutAssumption
       DEF UpstreamSends, Advance, receiving, ghosts, counters, stopping, TypeOK,
           ReaderPlaces
<1>9. ASSUME NEW s \in Sessions, ReadFails(s) PROVE TypeOK'
    BY <1>9, TimeoutAssumption
       DEF ReadFails, Advance, receiving, ghosts, counters, stopping, TypeOK, ReaderPlaces
<1>10. ASSUME NEW s \in Sessions, ReadTimesOut(s) PROVE TypeOK'
    BY <1>10
       DEF ReadTimesOut, Advance, receiving, timers, ghosts, counters, stopping, TypeOK,
           ReaderPlaces
<1>11. ASSUME NEW s \in Sessions, Reply(s) PROVE TypeOK'
    BY <1>11, TimeoutAssumption
       DEF Reply, Advance, receiving, ghosts, counters, stopping, TypeOK, ReaderPlaces
<1>12. ASSUME NEW s \in Sessions, GiveBack(s) PROVE TypeOK'
    BY <1>12, NoUnderflow
       DEF GiveBack, Advance, receiving, timers, stopping, TypeOK, ReaderPlaces
<1>13. ASSUME NEW s \in Sessions, Delete(s) PROVE TypeOK'
    <2>1. activeConns' \in Nat
        BY <1>13, NoUnderflow DEF Delete, Vanish
    <2>2. idle' \in [Sessions -> 0 .. Timeout + 1] /\ left' \in [Sessions -> 0 .. Timeout]
        BY <1>13, TimeoutAssumption DEF Delete, Vanish, TypeOK
    <2>3. /\ reader' \in [Sessions -> ReaderPlaces]
          /\ client' \in [Sessions -> Clients \union {None}]
        BY <1>13 DEF Delete, Vanish, Advance, TypeOK, ReaderPlaces
    <2>4. sessions' \in [Clients -> Sessions \union {None}]
        BY <1>13 DEF Delete, TypeOK
    <2>5. reaped' \subseteq Sessions /\ usurped' \subseteq Sessions
        <3>1. client[s] \in Clients
            BY <1>13 DEF Delete, TypeOK, SessionInv, SessionOK
        <3>2. sessions[client[s]] \in Sessions \union {None}
            BY <3>1 DEF TypeOK
        <3> QED
            BY <1>13, <3>2 DEF Delete, Vanish, TypeOK
    <2> QED
        BY <1>13, <2>1, <2>2, <2>3, <2>4, <2>5 DEF Delete, receiving, stopping, TypeOK
<1>14. ASSUME Reap PROVE TypeOK'
    BY <1>14 DEF Reap, receiving, timers, counters, stopping, TypeOK, ReaderPlaces
<1>15. ASSUME ReaperEnds PROVE TypeOK'
    BY <1>15
       DEF ReaperEnds, receiving, timers, ghosts, counters, stopping, TypeOK, ReaderPlaces
<1>16. ASSUME Tick PROVE TypeOK'
    BY <1>16, TimeoutAssumption
       DEF Tick, Blocked, receiving, ghosts, counters, stopping, TypeOK, ReaderPlaces
<1>17. ASSUME Cancel PROVE TypeOK'
    BY <1>17 DEF Cancel, receiving, timers, ghosts, counters, TypeOK, ReaderPlaces
<1>18. ASSUME CloseListener PROVE TypeOK'
    BY <1>18 DEF CloseListener, receiving, timers, ghosts, counters, TypeOK, ReaderPlaces
<1>19. ASSUME ReceiveLoopJoined PROVE TypeOK'
    BY <1>19
       DEF ReceiveLoopJoined, receiving, timers, ghosts, counters, TypeOK, ReaderPlaces
<1>20. CASE UNCHANGED vars
    BY <1>20 DEF vars, TypeOK, ReaderPlaces
<1> QED
    BY <1>1, <1>2, <1>3, <1>4, <1>5, <1>6, <1>7, <1>7a, <1>8, <1>9, <1>10, <1>11, <1>12, <1>13,
       <1>14, <1>15, <1>16, <1>17, <1>18, <1>19, <1>20
       DEF Next, ReceiveLoop, Reader, StopStep

\* A reader's place goes on telling what its session holds.
LEMMA SessionStep ==
    ASSUME TypeOK, SessionInv, ReceiveInv, [Next]_vars
    PROVE  SessionInv'
<1>1. ASSUME NEW c \in Clients, Receive(c) PROVE SessionInv'
    BY <1>1 DEF Receive, timers, ghosts, counters, stopping, TypeOK, SessionInv, SessionOK
<1>2. ASSUME Lookup PROVE SessionInv'
    BY <1>2 DEF Lookup, timers, ghosts, counters, stopping, TypeOK, SessionInv, SessionOK
<1>3. ASSUME Touch PROVE SessionInv'
    BY <1>3 DEF Touch, ghosts, counters, stopping, TypeOK, SessionInv, SessionOK
<1>4. ASSUME Create PROVE SessionInv'
    <2>1. ASSUME NEW t \in Targets, NEW s \in Sessions, reader[s] = "none",
                 sessions' = [sessions EXCEPT ![datagram] = s],
                 reader' = [reader EXCEPT ![s] = "check"],
                 client' = [client EXCEPT ![s] = datagram],
                 target' = [target EXCEPT ![s] = t], idle' = [idle EXCEPT ![s] = 0],
                 open' = open \union {s}, active' = [active EXCEPT ![t] = @ + 1],
                 tracked' = tracked \union {s}, activeConns' = activeConns + 1,
                 held' = s, recv' = "write", UNCHANGED datagram
          PROVE  SessionInv'
        BY <1>4, <2>1, NoneAssumption DEF Create, ghosts, stopping, TypeOK, SessionInv, SessionOK, ReceiveInv
    <2>2. CASE /\ DropDatagram
               /\ UNCHANGED <<sessions, reader, client, target, idle, open, counters>>
        BY <1>4, <2>2 DEF Create, DropDatagram, counters, ghosts, stopping, TypeOK, SessionInv, SessionOK, ReceiveInv
    <2> QED
        BY <1>4, <2>1, <2>2 DEF Create
<1>5. ASSUME Write PROVE SessionInv'
    BY <1>5
       DEF Write, DropDatagram, timers, ghosts, counters, stopping, TypeOK, SessionInv,
           SessionOK
<1>6. ASSUME ReceiveEnds PROVE SessionInv'
    BY <1>6
       DEF ReceiveEnds, timers, ghosts, counters, stopping, TypeOK, SessionInv, SessionOK
<1>7. ASSUME NEW s \in Sessions, Check(s) PROVE SessionInv'
    BY <1>7
       DEF Check, ContextDone, Advance, receiving, ghosts, counters, stopping, TypeOK,
           SessionInv, SessionOK
<1>7a. ASSUME NEW s \in Sessions, Arm(s) PROVE SessionInv'
    BY <1>7a
       DEF Arm, Advance, receiving, ghosts, counters, stopping, TypeOK,
           SessionInv, SessionOK
<1>8. ASSUME NEW s \in Sessions, UpstreamSends(s) PROVE SessionInv'
    BY <1>8
       DEF UpstreamSends, Advance, receiving, ghosts, counters, stopping, TypeOK,
           SessionInv, SessionOK
<1>9. ASSUME NEW s \in Sessions, ReadFails(s) PROVE SessionInv'
    BY <1>9
       DEF ReadFails, Advance, receiving, ghosts, counters, stopping, TypeOK, SessionInv,
           SessionOK
<1>10. ASSUME NEW s \in Sessions, ReadTimesOut(s) PROVE SessionInv'
    BY <1>10
       DEF ReadTimesOut, Advance, receiving, timers, ghosts, counters, stopping, TypeOK,
           SessionInv, SessionOK
<1>11. ASSUME NEW s \in Sessions, Reply(s) PROVE SessionInv'
    BY <1>11
       DEF Reply, Advance, receiving, ghosts, counters, stopping, TypeOK, SessionInv,
           SessionOK
<1>12. ASSUME NEW s \in Sessions, GiveBack(s) PROVE SessionInv'
    BY <1>12
       DEF GiveBack, Advance, receiving, timers, stopping, TypeOK, SessionInv, SessionOK
<1>13. ASSUME NEW s \in Sessions, Delete(s) PROVE SessionInv'
    BY <1>13 DEF Delete, Vanish, Advance, receiving, stopping, TypeOK, SessionInv, SessionOK
<1>14. ASSUME Reap PROVE SessionInv'
    BY <1>14 DEF Reap, receiving, timers, counters, stopping, TypeOK, SessionInv, SessionOK
<1>15. ASSUME ReaperEnds PROVE SessionInv'
    BY <1>15
       DEF ReaperEnds, receiving, timers, ghosts, counters, stopping, TypeOK, SessionInv,
           SessionOK
<1>16. ASSUME Tick PROVE SessionInv'
    BY <1>16
       DEF Tick, Blocked, receiving, ghosts, counters, stopping, TypeOK, SessionInv,
           SessionOK
<1>17. ASSUME Cancel PROVE SessionInv'
    BY <1>17 DEF Cancel, receiving, timers, ghosts, counters, TypeOK, SessionInv, SessionOK
<1>18. ASSUME CloseListener PROVE SessionInv'
    BY <1>18
       DEF CloseListener, receiving, timers, ghosts, counters, TypeOK, SessionInv, SessionOK
<1>19. ASSUME ReceiveLoopJoined PROVE SessionInv'
    BY <1>19
       DEF ReceiveLoopJoined, receiving, timers, ghosts, counters, TypeOK, SessionInv,
           SessionOK
<1>20. CASE UNCHANGED vars
    BY <1>20 DEF vars, TypeOK, SessionInv, SessionOK
<1> QED
    BY <1>1, <1>2, <1>3, <1>4, <1>5, <1>6, <1>7, <1>7a, <1>8, <1>9, <1>10, <1>11, <1>12, <1>13,
       <1>14, <1>15, <1>16, <1>17, <1>18, <1>19, <1>20
       DEF Next, ReceiveLoop, Reader, StopStep

\* What the receive loop did not find is not there when it inserts.
LEMMA ReceiveStep ==
    ASSUME TypeOK, SessionInv, ReceiveInv, [Next]_vars
    PROVE  ReceiveInv'
<1>1. ASSUME NEW c \in Clients, Receive(c) PROVE ReceiveInv'
    BY <1>1, NoneAssumption
       DEF Receive, timers, ghosts, counters, stopping, TypeOK, ReceiveInv, receiving
<1>2. ASSUME Lookup PROVE ReceiveInv'
    BY <1>2 DEF Lookup, timers, ghosts, counters, stopping, TypeOK, ReceiveInv, receiving
<1>3. ASSUME Touch PROVE ReceiveInv'
    BY <1>3 DEF Touch, ghosts, counters, stopping, TypeOK, ReceiveInv, receiving
<1>4. ASSUME Create PROVE ReceiveInv'
    BY <1>4
       DEF Create, DropDatagram, ghosts, counters, stopping, TypeOK, ReceiveInv, receiving
<1>5. ASSUME Write PROVE ReceiveInv'
    BY <1>5
       DEF Write, DropDatagram, timers, ghosts, counters, stopping, TypeOK, ReceiveInv,
           receiving
<1>6. ASSUME ReceiveEnds PROVE ReceiveInv'
    BY <1>6
       DEF ReceiveEnds, timers, ghosts, counters, stopping, TypeOK, ReceiveInv, receiving
<1>7. ASSUME NEW s \in Sessions, Check(s) PROVE ReceiveInv'
    BY <1>7
       DEF Check, ContextDone, Advance, receiving, ghosts, counters, stopping, TypeOK,
           ReceiveInv
<1>7a. ASSUME NEW s \in Sessions, Arm(s) PROVE ReceiveInv'
    BY <1>7a
       DEF Arm, Advance, receiving, ghosts, counters, stopping, TypeOK,
           ReceiveInv
<1>8. ASSUME NEW s \in Sessions, UpstreamSends(s) PROVE ReceiveInv'
    BY <1>8
       DEF UpstreamSends, Advance, receiving, ghosts, counters, stopping, TypeOK, ReceiveInv
<1>9. ASSUME NEW s \in Sessions, ReadFails(s) PROVE ReceiveInv'
    BY <1>9
       DEF ReadFails, Advance, receiving, ghosts, counters, stopping, TypeOK, ReceiveInv
<1>10. ASSUME NEW s \in Sessions, ReadTimesOut(s) PROVE ReceiveInv'
    BY <1>10
       DEF ReadTimesOut, Advance, receiving, timers, ghosts, counters, stopping, TypeOK,
           ReceiveInv
<1>11. ASSUME NEW s \in Sessions, Reply(s) PROVE ReceiveInv'
    BY <1>11 DEF Reply, Advance, receiving, ghosts, counters, stopping, TypeOK, ReceiveInv
<1>12. ASSUME NEW s \in Sessions, GiveBack(s) PROVE ReceiveInv'
    BY <1>12 DEF GiveBack, Advance, receiving, timers, stopping, TypeOK, ReceiveInv
<1>13. ASSUME NEW s \in Sessions, Delete(s) PROVE ReceiveInv'
    BY <1>13 DEF Delete, Vanish, Advance, receiving, stopping, TypeOK, ReceiveInv
<1>14. ASSUME Reap PROVE ReceiveInv'
    BY <1>14 DEF Reap, receiving, timers, counters, stopping, TypeOK, ReceiveInv
<1>15. ASSUME ReaperEnds PROVE ReceiveInv'
    BY <1>15
       DEF ReaperEnds, receiving, timers, ghosts, counters, stopping, TypeOK, ReceiveInv
<1>16. ASSUME Tick PROVE ReceiveInv'
    BY <1>16 DEF Tick, Blocked, receiving, ghosts, counters, stopping, TypeOK, ReceiveInv
<1>17. ASSUME Cancel PROVE ReceiveInv'
    BY <1>17 DEF Cancel, receiving, timers, ghosts, counters, TypeOK, ReceiveInv
<1>18. ASSUME CloseListener PROVE ReceiveInv'
    BY <1>18 DEF CloseListener, receiving, timers, ghosts, counters, TypeOK, ReceiveInv
<1>19. ASSUME ReceiveLoopJoined PROVE ReceiveInv'
    BY <1>19 DEF ReceiveLoopJoined, receiving, timers, ghosts, counters, TypeOK, ReceiveInv
<1>20. CASE UNCHANGED vars
    BY <1>20 DEF vars, TypeOK, ReceiveInv, receiving
<1> QED
    BY <1>1, <1>2, <1>3, <1>4, <1>5, <1>6, <1>7, <1>7a, <1>8, <1>9, <1>10, <1>11, <1>12, <1>13,
       <1>14, <1>15, <1>16, <1>17, <1>18, <1>19, <1>20
       DEF Next, ReceiveLoop, Reader, StopStep

\* The map leads to its client's live session, and to every open one that
\* nobody dropped.
LEMMA MapStep ==
    ASSUME TypeOK, SessionInv, ReceiveInv, MapLeadsToReader, [Next]_vars
    PROVE  MapLeadsToReader'
<1>1. ASSUME NEW c \in Clients, Receive(c) PROVE MapLeadsToReader'
    BY <1>1
       DEF Receive, timers, ghosts, counters, stopping, TypeOK, SessionInv, SessionOK,
           MapLeadsToReader, Live
<1>2. ASSUME Lookup PROVE MapLeadsToReader'
    BY <1>2
       DEF Lookup, timers, ghosts, counters, stopping, TypeOK, SessionInv, SessionOK,
           MapLeadsToReader, Live
<1>3. ASSUME Touch PROVE MapLeadsToReader'
    BY <1>3
       DEF Touch, ghosts, counters, stopping, TypeOK, SessionInv, SessionOK,
           MapLeadsToReader, Live
<1>4. ASSUME Create PROVE MapLeadsToReader'
    <2>1. ASSUME NEW s \in Sessions, reader[s] = "none",
                 sessions' = [sessions EXCEPT ![datagram] = s],
                 reader' = [reader EXCEPT ![s] = "check"],
                 client' = [client EXCEPT ![s] = datagram], open' = open \union {s},
                 UNCHANGED ghosts
          PROVE  MapLeadsToReader'
        <3>1. datagram \in Clients /\ sessions[datagram] = None /\ s # None
            BY <1>4, NoneAssumption DEF Create, TypeOK, ReceiveInv
        <3>2. \A c \in Clients : sessions[c] # s
            BY <2>1, NoneAssumption DEF MapLeadsToReader, Live
        <3>3. s \notin open
            BY <2>1 DEF SessionInv, SessionOK
        <3>4. ASSUME NEW c \in Clients, sessions'[c] # None
              PROVE  client'[sessions'[c]] = c /\ sessions'[c] \in Live'
            <4>1. CASE c = datagram
                BY <2>1, <3>1, <4>1 DEF TypeOK, Live
            <4>2. CASE c # datagram
                <5>1. sessions'[c] = sessions[c] /\ sessions[c] # s
                    BY <2>1, <3>2, <4>2 DEF TypeOK
                <5>2. client[sessions[c]] = c /\ sessions[c] \in Live
                    BY <3>4, <5>1 DEF MapLeadsToReader
                <5> QED
                    BY <2>1, <5>1, <5>2 DEF TypeOK, Live
            <4> QED
                BY <4>1, <4>2
        <3>5. ASSUME NEW r \in open'
              PROVE  sessions'[client'[r]] = r \/ r \in (reaped \union usurped)'
            <4>1. CASE r = s
                BY <2>1, <3>1, <4>1 DEF TypeOK
            <4>2. CASE r # s
                <5>1. r \in open /\ r \in Sessions /\ r # None /\ client'[r] = client[r]
                    BY <2>1, <3>5, <4>2, NoneAssumption DEF TypeOK
                <5>2. sessions[client[r]] = r \/ r \in reaped \union usurped
                    BY <5>1 DEF MapLeadsToReader
                <5> QED
                    BY <2>1, <3>1, <5>1, <5>2 DEF TypeOK, ghosts
            <4> QED
                BY <4>1, <4>2
        <3> QED
            BY <3>4, <3>5 DEF MapLeadsToReader
    <2>2. CASE UNCHANGED <<sessions, reader, client, open, ghosts>>
        BY <2>2 DEF ghosts, MapLeadsToReader, Live
    <2> QED
        BY <1>4, <2>1, <2>2 DEF Create
<1>5. ASSUME Write PROVE MapLeadsToReader'
    BY <1>5
       DEF Write, DropDatagram, timers, ghosts, counters, stopping, TypeOK, SessionInv,
           SessionOK, MapLeadsToReader, Live
<1>6. ASSUME ReceiveEnds PROVE MapLeadsToReader'
    BY <1>6
       DEF ReceiveEnds, timers, ghosts, counters, stopping, TypeOK, SessionInv, SessionOK,
           MapLeadsToReader, Live
<1>7. ASSUME NEW s \in Sessions, Check(s) PROVE MapLeadsToReader'
    BY <1>7
       DEF Check, ContextDone, Advance, receiving, ghosts, counters, stopping, TypeOK,
           SessionInv, SessionOK, MapLeadsToReader, Live
<1>7a. ASSUME NEW s \in Sessions, Arm(s) PROVE MapLeadsToReader'
    BY <1>7a
       DEF Arm, Advance, receiving, ghosts, counters, stopping, TypeOK,
           SessionInv, SessionOK, MapLeadsToReader, Live
<1>8. ASSUME NEW s \in Sessions, UpstreamSends(s) PROVE MapLeadsToReader'
    BY <1>8
       DEF UpstreamSends, Advance, receiving, ghosts, counters, stopping, TypeOK,
           SessionInv, SessionOK, MapLeadsToReader, Live
<1>9. ASSUME NEW s \in Sessions, ReadFails(s) PROVE MapLeadsToReader'
    BY <1>9
       DEF ReadFails, Advance, receiving, ghosts, counters, stopping, TypeOK, SessionInv,
           SessionOK, MapLeadsToReader, Live
<1>10. ASSUME NEW s \in Sessions, ReadTimesOut(s) PROVE MapLeadsToReader'
    BY <1>10
       DEF ReadTimesOut, Advance, receiving, timers, ghosts, counters, stopping, TypeOK,
           SessionInv, SessionOK, MapLeadsToReader, Live
<1>11. ASSUME NEW s \in Sessions, Reply(s) PROVE MapLeadsToReader'
    BY <1>11
       DEF Reply, Advance, receiving, ghosts, counters, stopping, TypeOK, SessionInv,
           SessionOK, MapLeadsToReader, Live
<1>12. ASSUME NEW s \in Sessions, GiveBack(s) PROVE MapLeadsToReader'
    BY <1>12
       DEF GiveBack, Advance, receiving, timers, stopping, TypeOK, SessionInv, SessionOK,
           MapLeadsToReader, Live
<1>13. ASSUME NEW s \in Sessions, Delete(s) PROVE MapLeadsToReader'
    <2>1. client[s] \in Clients /\ s \notin open
        BY <1>13 DEF Delete, TypeOK, SessionInv, SessionOK
    <2>2. /\ sessions' = [sessions EXCEPT ![client[s]] = None] /\ UNCHANGED open
          /\ reader' = [reader EXCEPT ![s] = "none"]
          /\ client' = [client EXCEPT ![s] = None]
          /\ reaped' = reaped \ {s}
          /\ usurped' = (usurped \union {sessions[client[s]]}) \ {s, None}
        BY <1>13 DEF Delete, Vanish, Advance
    <2>3. ASSUME NEW c \in Clients, sessions'[c] # None
          PROVE  client'[sessions'[c]] = c /\ sessions'[c] \in Live'
        <3>1. c # client[s] /\ sessions'[c] = sessions[c]
            BY <2>1, <2>2, <2>3 DEF TypeOK
        <3>2. client[sessions[c]] = c /\ sessions[c] \in Live
            BY <2>3, <3>1 DEF MapLeadsToReader
        <3> QED
            BY <2>2, <3>1, <3>2 DEF TypeOK, Live
    <2>4. ASSUME NEW r \in open'
          PROVE  sessions'[client'[r]] = r \/ r \in (reaped \union usurped)'
        <3>1. r \in open /\ r \in Sessions /\ r # s /\ r # None /\ client'[r] = client[r]
            BY <2>1, <2>2, <2>4, NoneAssumption DEF TypeOK
        <3>2. sessions[client[r]] = r \/ r \in reaped \union usurped
            BY <3>1 DEF MapLeadsToReader
        <3>3. CASE r \in reaped \union usurped
            BY <2>2, <3>1, <3>3
        <3>4. CASE sessions[client[r]] = r /\ client[r] = client[s]
            BY <2>2, <3>1, <3>4
        <3>5. CASE sessions[client[r]] = r /\ client[r] # client[s]
            BY <2>2, <3>1, <3>5 DEF TypeOK, SessionInv, SessionOK
        <3> QED
            BY <3>2, <3>3, <3>4, <3>5
    <2> QED
        BY <2>3, <2>4 DEF MapLeadsToReader
<1>14. ASSUME Reap PROVE MapLeadsToReader'
    BY <1>14
       DEF Reap, receiving, timers, counters, stopping, TypeOK, SessionInv, SessionOK,
           MapLeadsToReader, Live
<1>15. ASSUME ReaperEnds PROVE MapLeadsToReader'
    BY <1>15
       DEF ReaperEnds, receiving, timers, ghosts, counters, stopping, TypeOK, SessionInv,
           SessionOK, MapLeadsToReader, Live
<1>16. ASSUME Tick PROVE MapLeadsToReader'
    BY <1>16
       DEF Tick, Blocked, receiving, ghosts, counters, stopping, TypeOK, SessionInv,
           SessionOK, MapLeadsToReader, Live
<1>17. ASSUME Cancel PROVE MapLeadsToReader'
    BY <1>17
       DEF Cancel, receiving, timers, ghosts, counters, TypeOK, SessionInv, SessionOK,
           MapLeadsToReader, Live
<1>18. ASSUME CloseListener PROVE MapLeadsToReader'
    BY <1>18
       DEF CloseListener, receiving, timers, ghosts, counters, TypeOK, SessionInv,
           SessionOK, MapLeadsToReader, Live
<1>19. ASSUME ReceiveLoopJoined PROVE MapLeadsToReader'
    BY <1>19
       DEF ReceiveLoopJoined, receiving, timers, ghosts, counters, TypeOK, SessionInv,
           SessionOK, MapLeadsToReader, Live
<1>20. CASE UNCHANGED vars
    BY <1>20 DEF vars, TypeOK, SessionInv, SessionOK, MapLeadsToReader, Live
<1> QED
    BY <1>1, <1>2, <1>3, <1>4, <1>5, <1>6, <1>7, <1>7a, <1>8, <1>9, <1>10, <1>11, <1>12, <1>13,
       <1>14, <1>15, <1>16, <1>17, <1>18, <1>19, <1>20
       DEF Next, ReceiveLoop, Reader, StopStep

\* Stop cancels first.
LEMMA StopStepInv ==
    ASSUME StopInv, [Next]_vars
    PROVE  StopInv'
<1>1. ASSUME NEW c \in Clients, Receive(c) PROVE StopInv'
    BY <1>1 DEF Receive, timers, ghosts, counters, stopping, StopInv
<1>2. ASSUME Lookup PROVE StopInv'
    BY <1>2 DEF Lookup, timers, ghosts, counters, stopping, StopInv
<1>3. ASSUME Touch PROVE StopInv'
    BY <1>3 DEF Touch, ghosts, counters, stopping, StopInv
<1>4. ASSUME Create PROVE StopInv'
    BY <1>4 DEF Create, DropDatagram, ghosts, counters, stopping, StopInv
<1>5. ASSUME Write PROVE StopInv'
    BY <1>5 DEF Write, DropDatagram, timers, ghosts, counters, stopping, StopInv
<1>6. ASSUME ReceiveEnds PROVE StopInv'
    BY <1>6 DEF ReceiveEnds, timers, ghosts, counters, stopping, StopInv
<1>7. ASSUME NEW s \in Sessions, Check(s) PROVE StopInv'
    BY <1>7 DEF Check, ContextDone, Advance, receiving, ghosts, counters, stopping, StopInv
<1>7a. ASSUME NEW s \in Sessions, Arm(s) PROVE StopInv'
    BY <1>7a DEF Arm, Advance, receiving, ghosts, counters, stopping, StopInv
<1>8. ASSUME NEW s \in Sessions, UpstreamSends(s) PROVE StopInv'
    BY <1>8 DEF UpstreamSends, Advance, receiving, ghosts, counters, stopping, StopInv
<1>9. ASSUME NEW s \in Sessions, ReadFails(s) PROVE StopInv'
    BY <1>9 DEF ReadFails, Advance, receiving, ghosts, counters, stopping, StopInv
<1>10. ASSUME NEW s \in Sessions, ReadTimesOut(s) PROVE StopInv'
    BY <1>10
       DEF ReadTimesOut, Advance, receiving, timers, ghosts, counters, stopping, StopInv
<1>11. ASSUME NEW s \in Sessions, Reply(s) PROVE StopInv'
    BY <1>11 DEF Reply, Advance, receiving, ghosts, counters, stopping, StopInv
<1>12. ASSUME NEW s \in Sessions, GiveBack(s) PROVE StopInv'
    BY <1>12 DEF GiveBack, Advance, receiving, timers, stopping, StopInv
<1>13. ASSUME NEW s \in Sessions, Delete(s) PROVE StopInv'
    BY <1>13 DEF Delete, Vanish, Advance, receiving, stopping, StopInv
<1>14. ASSUME Reap PROVE StopInv'
    BY <1>14 DEF Reap, receiving, timers, counters, stopping, StopInv
<1>15. ASSUME ReaperEnds PROVE StopInv'
    BY <1>15 DEF ReaperEnds, receiving, timers, ghosts, counters, stopping, StopInv
<1>16. ASSUME Tick PROVE StopInv'
    BY <1>16 DEF Tick, Blocked, receiving, ghosts, counters, stopping, StopInv
<1>17. ASSUME Cancel PROVE StopInv'
    BY <1>17 DEF Cancel, receiving, timers, ghosts, counters, StopInv
<1>18. ASSUME CloseListener PROVE StopInv'
    BY <1>18 DEF CloseListener, receiving, timers, ghosts, counters, StopInv
<1>19. ASSUME ReceiveLoopJoined PROVE StopInv'
    BY <1>19 DEF ReceiveLoopJoined, receiving, timers, ghosts, counters, StopInv
<1>20. CASE UNCHANGED vars
    BY <1>20 DEF vars, StopInv
<1> QED
    BY <1>1, <1>2, <1>3, <1>4, <1>5, <1>6, <1>7, <1>7a, <1>8, <1>9, <1>10, <1>11, <1>12, <1>13,
       <1>14, <1>15, <1>16, <1>17, <1>18, <1>19, <1>20
       DEF Next, ReceiveLoop, Reader, StopStep

\* activeConns follows the sessions whose reader is not gone.
LEMMA LiveFollows ==
    ASSUME TypeOK, SessionInv, [Next]_vars
    PROVE  Follows(activeConns, Live, activeConns', Live')
<1>1. ASSUME NEW c \in Clients, Receive(c)
      PROVE  Follows(activeConns, Live, activeConns', Live')
    BY <1>1 DEF Receive, timers, ghosts, counters, stopping, TypeOK, Live, Follows
<1>2. ASSUME Lookup PROVE Follows(activeConns, Live, activeConns', Live')
    BY <1>2 DEF Lookup, timers, ghosts, counters, stopping, TypeOK, Live, Follows
<1>3. ASSUME Touch PROVE Follows(activeConns, Live, activeConns', Live')
    BY <1>3 DEF Touch, ghosts, counters, stopping, TypeOK, Live, Follows
<1>4. ASSUME Create PROVE Follows(activeConns, Live, activeConns', Live')
    <2>1. ASSUME NEW s \in Sessions, reader[s] = "none",
                 reader' = [reader EXCEPT ![s] = "check"], activeConns' = activeConns + 1
          PROVE  Follows(activeConns, Live, activeConns', Live')
        <3>1. s \notin Live /\ Live' = Live \union {s}
            BY <2>1 DEF Live, TypeOK
        <3> QED
            BY <2>1, <3>1 DEF Follows
    <2>2. CASE UNCHANGED <<reader, counters>>
        BY <2>2 DEF counters, Live, Follows
    <2> QED
        BY <1>4, <2>1, <2>2 DEF Create
<1>5. ASSUME Write PROVE Follows(activeConns, Live, activeConns', Live')
    BY <1>5
       DEF Write, DropDatagram, timers, ghosts, counters, stopping, TypeOK, Live, Follows
<1>6. ASSUME ReceiveEnds PROVE Follows(activeConns, Live, activeConns', Live')
    BY <1>6 DEF ReceiveEnds, timers, ghosts, counters, stopping, TypeOK, Live, Follows
<1>7. ASSUME NEW s \in Sessions, Check(s)
      PROVE  Follows(activeConns, Live, activeConns', Live')
    BY <1>7
       DEF Check, ContextDone, Advance, receiving, ghosts, counters, stopping, TypeOK, Live,
           Follows
<1>7a. ASSUME NEW s \in Sessions, Arm(s)
      PROVE  Follows(activeConns, Live, activeConns', Live')
    BY <1>7a
       DEF Arm, Advance, receiving, ghosts, counters, stopping, TypeOK, Live,
           Follows
<1>8. ASSUME NEW s \in Sessions, UpstreamSends(s)
      PROVE  Follows(activeConns, Live, activeConns', Live')
    BY <1>8
       DEF UpstreamSends, Advance, receiving, ghosts, counters, stopping, TypeOK, Live,
           Follows
<1>9. ASSUME NEW s \in Sessions, ReadFails(s)
      PROVE  Follows(activeConns, Live, activeConns', Live')
    BY <1>9
       DEF ReadFails, Advance, receiving, ghosts, counters, stopping, TypeOK, Live, Follows
<1>10. ASSUME NEW s \in Sessions, ReadTimesOut(s)
      PROVE  Follows(activeConns, Live, activeConns', Live')
    BY <1>10
       DEF ReadTimesOut, Advance, receiving, timers, ghosts, counters, stopping, TypeOK,
           Live, Follows
<1>11. ASSUME NEW s \in Sessions, Reply(s)
      PROVE  Follows(activeConns, Live, activeConns', Live')
    BY <1>11
       DEF Reply, Advance, receiving, ghosts, counters, stopping, TypeOK, Live, Follows
<1>12. ASSUME NEW s \in Sessions, GiveBack(s)
      PROVE  Follows(activeConns, Live, activeConns', Live')
    BY <1>12 DEF GiveBack, Advance, receiving, timers, stopping, TypeOK, Live, Follows
<1>13. ASSUME NEW s \in Sessions, Delete(s)
      PROVE  Follows(activeConns, Live, activeConns', Live')
    <2>1. s \in Live /\ Live' = Live \ {s}
        BY <1>13 DEF Delete, Vanish, Advance, Live, TypeOK
    <2> QED
        BY <1>13, <2>1 DEF Delete, Vanish, Follows
<1>14. ASSUME Reap PROVE Follows(activeConns, Live, activeConns', Live')
    BY <1>14 DEF Reap, receiving, timers, counters, stopping, TypeOK, Live, Follows
<1>15. ASSUME ReaperEnds PROVE Follows(activeConns, Live, activeConns', Live')
    BY <1>15
       DEF ReaperEnds, receiving, timers, ghosts, counters, stopping, TypeOK, Live, Follows
<1>16. ASSUME Tick PROVE Follows(activeConns, Live, activeConns', Live')
    BY <1>16 DEF Tick, Blocked, receiving, ghosts, counters, stopping, TypeOK, Live, Follows
<1>17. ASSUME Cancel PROVE Follows(activeConns, Live, activeConns', Live')
    BY <1>17 DEF Cancel, receiving, timers, ghosts, counters, TypeOK, Live, Follows
<1>18. ASSUME CloseListener PROVE Follows(activeConns, Live, activeConns', Live')
    BY <1>18 DEF CloseListener, receiving, timers, ghosts, counters, TypeOK, Live, Follows
<1>19. ASSUME ReceiveLoopJoined PROVE Follows(activeConns, Live, activeConns', Live')
    BY <1>19
       DEF ReceiveLoopJoined, receiving, timers, ghosts, counters, TypeOK, Live, Follows
<1>20. CASE UNCHANGED vars
    BY <1>20 DEF vars, TypeOK, Live, Follows
<1> QED
    BY <1>1, <1>2, <1>3, <1>4, <1>5, <1>6, <1>7, <1>7a, <1>8, <1>9, <1>10, <1>11, <1>12, <1>13,
       <1>14, <1>15, <1>16, <1>17, <1>18, <1>19, <1>20
       DEF Next, ReceiveLoop, Reader, StopStep

\* A target's count follows the sessions that hold it.
LEMMA HoldersFollow ==
    ASSUME TypeOK, SessionInv, [Next]_vars, NEW t \in Targets
    PROVE  Follows(active[t], Holders(t), active'[t], Holders(t)')
<1>1. ASSUME NEW c \in Clients, Receive(c)
      PROVE  Follows(active[t], Holders(t), active'[t], Holders(t)')
    BY <1>1 DEF Receive, timers, ghosts, counters, stopping, Holders, Follows
<1>2. ASSUME Lookup PROVE Follows(active[t], Holders(t), active'[t], Holders(t)')
    BY <1>2 DEF Lookup, timers, ghosts, counters, stopping, Holders, Follows
<1>3. ASSUME Touch PROVE Follows(active[t], Holders(t), active'[t], Holders(t)')
    BY <1>3 DEF Touch, ghosts, counters, stopping, Holders, Follows
<1>4. ASSUME Create PROVE Follows(active[t], Holders(t), active'[t], Holders(t)')
    <2>1. ASSUME NEW s \in Sessions, NEW u \in Targets, reader[s] = "none",
                 target' = [target EXCEPT ![s] = u],
                 active' = [active EXCEPT ![u] = @ + 1]
          PROVE  Follows(active[t], Holders(t), active'[t], Holders(t)')
        <3>1. target[s] = None /\ s \notin Holders(t)
            BY <2>1, NoneAssumption DEF TypeOK, SessionInv, SessionOK, Holders
        <3>2. CASE u = t
            <4>1. Holders(t)' = Holders(t) \union {s} /\ active'[t] = active[t] + 1
                BY <2>1, <3>2 DEF Holders, TypeOK
            <4> QED
                BY <3>1, <4>1 DEF Follows
        <3>3. CASE u # t
            BY <2>1, <3>1, <3>3 DEF Holders, TypeOK, Follows
        <3> QED
            BY <3>2, <3>3
    <2>2. CASE UNCHANGED <<target, counters>>
        BY <2>2 DEF counters, Holders, Follows
    <2> QED
        BY <1>4, <2>1, <2>2 DEF Create
<1>5. ASSUME Write PROVE Follows(active[t], Holders(t), active'[t], Holders(t)')
    BY <1>5 DEF Write, DropDatagram, timers, ghosts, counters, stopping, Holders, Follows
<1>6. ASSUME ReceiveEnds PROVE Follows(active[t], Holders(t), active'[t], Holders(t)')
    BY <1>6 DEF ReceiveEnds, timers, ghosts, counters, stopping, Holders, Follows
<1>7. ASSUME NEW s \in Sessions, Check(s)
      PROVE  Follows(active[t], Holders(t), active'[t], Holders(t)')
    BY <1>7
       DEF Check, ContextDone, Advance, receiving, ghosts, counters, stopping, Holders,
           Follows
<1>7a. ASSUME NEW s \in Sessions, Arm(s)
      PROVE  Follows(active[t], Holders(t), active'[t], Holders(t)')
    BY <1>7a
       DEF Arm, Advance, receiving, ghosts, counters, stopping, Holders,
           Follows
<1>8. ASSUME NEW s \in Sessions, UpstreamSends(s)
      PROVE  Follows(active[t], Holders(t), active'[t], Holders(t)')
    BY <1>8
       DEF UpstreamSends, Advance, receiving, ghosts, counters, stopping, Holders, Follows
<1>9. ASSUME NEW s \in Sessions, ReadFails(s)
      PROVE  Follows(active[t], Holders(t), active'[t], Holders(t)')
    BY <1>9 DEF ReadFails, Advance, receiving, ghosts, counters, stopping, Holders, Follows
<1>10. ASSUME NEW s \in Sessions, ReadTimesOut(s)
      PROVE  Follows(active[t], Holders(t), active'[t], Holders(t)')
    BY <1>10
       DEF ReadTimesOut, Advance, receiving, timers, ghosts, counters, stopping, Holders,
           Follows
<1>11. ASSUME NEW s \in Sessions, Reply(s)
      PROVE  Follows(active[t], Holders(t), active'[t], Holders(t)')
    BY <1>11 DEF Reply, Advance, receiving, ghosts, counters, stopping, Holders, Follows
<1>12. ASSUME NEW s \in Sessions, GiveBack(s)
      PROVE  Follows(active[t], Holders(t), active'[t], Holders(t)')
    <2>1. s \in Holders(target[s]) /\ target[s] \in Targets
        BY <1>12 DEF GiveBack, TypeOK, SessionInv, SessionOK, Holders
    <2>2. CASE target[s] = t
        <3>1. Holders(t)' = Holders(t) \ {s} /\ active'[t] = active[t] - 1
            BY <1>12, <2>2, NoneAssumption DEF GiveBack, Holders, TypeOK
        <3> QED
            BY <2>1, <2>2, <3>1 DEF Follows
    <2>3. CASE target[s] # t
        <3>1. Holders(t)' = Holders(t) /\ active'[t] = active[t]
            BY <1>12, <2>1, <2>3, NoneAssumption DEF GiveBack, Holders, TypeOK
        <3> QED
            BY <3>1 DEF Follows
    <2> QED
        BY <2>2, <2>3
<1>13. ASSUME NEW s \in Sessions, Delete(s)
      PROVE  Follows(active[t], Holders(t), active'[t], Holders(t)')
    BY <1>13 DEF Delete, Vanish, Advance, receiving, stopping, Holders, Follows
<1>14. ASSUME Reap PROVE Follows(active[t], Holders(t), active'[t], Holders(t)')
    BY <1>14 DEF Reap, receiving, timers, counters, stopping, Holders, Follows
<1>15. ASSUME ReaperEnds PROVE Follows(active[t], Holders(t), active'[t], Holders(t)')
    BY <1>15 DEF ReaperEnds, receiving, timers, ghosts, counters, stopping, Holders, Follows
<1>16. ASSUME Tick PROVE Follows(active[t], Holders(t), active'[t], Holders(t)')
    BY <1>16 DEF Tick, Blocked, receiving, ghosts, counters, stopping, Holders, Follows
<1>17. ASSUME Cancel PROVE Follows(active[t], Holders(t), active'[t], Holders(t)')
    BY <1>17 DEF Cancel, receiving, timers, ghosts, counters, Holders, Follows
<1>18. ASSUME CloseListener PROVE Follows(active[t], Holders(t), active'[t], Holders(t)')
    BY <1>18 DEF CloseListener, receiving, timers, ghosts, counters, Holders, Follows
<1>19. ASSUME ReceiveLoopJoined
      PROVE  Follows(active[t], Holders(t), active'[t], Holders(t)')
    BY <1>19 DEF ReceiveLoopJoined, receiving, timers, ghosts, counters, Holders, Follows
<1>20. CASE UNCHANGED vars
    BY <1>20 DEF vars, Holders, Follows
<1> QED
    BY <1>1, <1>2, <1>3, <1>4, <1>5, <1>6, <1>7, <1>7a, <1>8, <1>9, <1>10, <1>11, <1>12, <1>13,
       <1>14, <1>15, <1>16, <1>17, <1>18, <1>19, <1>20
       DEF Next, ReceiveLoop, Reader, StopStep

\* Every step keeps the counters exact.
LEMMA CountStep ==
    ASSUME TypeOK, SessionInv, CountInv, [Next]_vars
    PROVE  CountInv'
<1>1. Counts(activeConns, Live)'
    BY LiveFollows, FollowingCounts DEF CountInv
<1>2. ASSUME NEW t \in Targets PROVE Counts(active[t], Holders(t))'
    BY HoldersFollow, FollowingCounts DEF CountInv
<1> QED
    BY <1>1, <1>2 DEF CountInv

\* A listener starts with everything idle.
LEMMA InitInv ==
    ASSUME Init
    PROVE  IInv
<1>1. TypeOK
    <2>1. idle \in [Sessions -> 0 .. Timeout + 1] /\ left \in [Sessions -> 0 .. Timeout]
        BY TimeoutAssumption DEF Init
    <2> QED
        BY <2>1 DEF Init, TypeOK, ReaderPlaces
<1>2. SessionInv /\ ReceiveInv /\ StopInv
    BY DEF Init, SessionInv, SessionOK, ReceiveInv, StopInv
<1>3. MapLeadsToReader
    BY DEF Init, MapLeadsToReader
<1>4. CountInv
    <2>1. Live = {}
        BY DEF Init, Live
    <2>2. ASSUME NEW t \in Targets PROVE Holders(t) = {} /\ active[t] = 0
        BY NoneAssumption DEF Init, Holders
    <2>3. Counts(0, {})
        BY FS_EmptySet DEF Counts
    <2> QED
        BY <2>1, <2>2, <2>3 DEF Init, CountInv
<1> QED
    BY <1>1, <1>2, <1>3, <1>4 DEF IInv

\* The inductive invariant holds in every reachable state.
LEMMA Inductive == Spec => []IInv
<1>1. Init => IInv
    BY InitInv
<1>2. IInv /\ [Next]_vars => IInv'
    BY TypeStep, SessionStep, ReceiveStep, MapStep, StopStepInv, CountStep DEF IInv
<1> QED
    BY <1>1, <1>2, PTL DEF Spec

-----------------------------------------------------------------------------
(* The theorems *)

\* Every reachable state of a listener is type-correct: no counter goes below
\* zero, and no clock leaves its range.
THEOREM TypeCorrect == Spec => []TypeOK
<1>1. IInv => TypeOK
    BY DEF IInv
<1> QED
    BY <1>1, Inductive, PTL

\* However a session ends - reply error, deadline, reaper, Stop -, what it holds
\* is given back exactly once.
THEOREM AccountingHolds == Spec => []Accounting
<1>1. ASSUME IInv PROVE Accounting
    <2>1. /\ \A t \in Targets : active[t] = Cardinality({s \in Sessions : target[s] = t})
          /\ activeConns = Cardinality(Live)
        BY <1>1 DEF IInv, CountInv, Counts, Holders
    <2>2. \A s \in Sessions : target[s] # None <=> reader[s] \notin {"none", "delete"}
        BY <1>1 DEF IInv, SessionInv, SessionOK
    <2>3. tracked = {s \in Live : reader[s] # "delete"}
        BY <1>1 DEF IInv, TypeOK, SessionInv, SessionOK, Live
    <2> QED
        BY <2>1, <2>2, <2>3 DEF Accounting
<1> QED
    BY <1>1, Inductive, PTL

\* A lookup never finds another client's session or a dead one, and a client has
\* a second open socket only after an earlier session of it was dropped.
THEOREM MapIsRight == Spec => []MapLeadsToReader
<1>1. IInv => MapLeadsToReader
    BY DEF IInv
<1> QED
    BY <1>1, Inductive, PTL

-----------------------------------------------------------------------------
(* The refinement of Listener: every step is a step of it or a stutter *)

Simulated == [Implemented!ListenerNext]_(Implemented!listenerVars)

\* Every step is a step of Listener, or leaves what it shows alone.
LEMMA SimulationStep ==
    ASSUME IInv, [Next]_vars
    PROVE  Simulated
<1> USE DEF IInv
<1>1. ASSUME NEW c \in Clients, Receive(c) PROVE Simulated
    BY <1>1
       DEF Receive, timers, ghosts, counters, stopping, Simulated, Implemented!listenerVars,
           Phase, Reading, TypeOK
<1>2. ASSUME Lookup PROVE Simulated
    BY <1>2
       DEF Lookup, timers, ghosts, counters, stopping, Simulated, Implemented!listenerVars,
           Phase, Reading, TypeOK
<1>3. ASSUME Touch PROVE Simulated
    BY <1>3
       DEF Touch, ghosts, counters, stopping, Simulated, Implemented!listenerVars, Phase,
           Reading, TypeOK
<1>4. ASSUME Create PROVE Simulated
    <2>1. ASSUME NEW t \in Targets, NEW s \in Sessions, reader[s] = "none",
                 reader' = [reader EXCEPT ![s] = "check"],
                 target' = [target EXCEPT ![s] = t], active' = [active EXCEPT ![t] = @ + 1]
          PROVE  Implemented!Take(s, t)
        <3>1. Reading' = Reading
            BY <2>1 DEF Reading, TypeOK
        <3>2. target[s] = None
            BY <2>1 DEF SessionInv, SessionOK
        <3> QED
            BY <1>4, <2>1, <3>1, <3>2 DEF Create, stopping, Phase, Implemented!Take
    <2>2. CASE UNCHANGED <<reader, target, counters>>
        BY <1>4, <2>2
           DEF Create, counters, stopping, Phase, Reading, Simulated, Implemented!listenerVars
    <2> QED
        BY <1>4, <2>1, <2>2 DEF Create, Simulated, Implemented!ListenerNext
<1>5. ASSUME Write PROVE Simulated
    BY <1>5
       DEF Write, DropDatagram, timers, ghosts, counters, stopping, Simulated,
           Implemented!listenerVars, Phase, Reading, TypeOK
<1>6. ASSUME ReceiveEnds PROVE Simulated
    BY <1>6
       DEF ReceiveEnds, timers, ghosts, counters, stopping, Simulated,
           Implemented!listenerVars, Phase, Reading, TypeOK
<1>7. ASSUME NEW s \in Sessions, Check(s) PROVE Simulated
    <2>1. CASE ContextDone(s)
        <3>1. Reading' = Reading
            BY <1>7, <2>1 DEF Check, Advance, Reading, TypeOK
        <3> QED
            BY <1>7, <3>1
               DEF Check, counters, stopping, Phase, Simulated, Implemented!listenerVars
    <2>2. CASE ~ ContextDone(s)
        <3>1. Reading' = Reading \union {s} /\ s \notin Reading /\ target[s] # None
            BY <1>7, <2>2 DEF Check, Advance, Reading, TypeOK, SessionInv, SessionOK
        <3>2. Phase = "open"
            BY <2>2 DEF ContextDone, StopInv, Phase
        <3>3. Implemented!Serve(s)
            BY <1>7, <3>1, <3>2 DEF Check, counters, stopping, Phase, Implemented!Serve
        <3> QED
            BY <3>3 DEF Simulated, Implemented!ListenerNext
    <2> QED
        BY <2>1, <2>2
<1>7a. ASSUME NEW s \in Sessions, Arm(s) PROVE Simulated
    <2>1. Reading' = Reading
        BY <1>7a DEF Arm, Advance, Reading, TypeOK
    <2> QED
        BY <1>7a, <2>1
           DEF Arm, counters, stopping, Phase, Simulated, Implemented!listenerVars
<1>8. ASSUME NEW s \in Sessions, UpstreamSends(s) PROVE Simulated
    BY <1>8
       DEF UpstreamSends, Advance, receiving, ghosts, counters, stopping, Simulated,
           Implemented!listenerVars, Phase, Reading, TypeOK
<1>9. ASSUME NEW s \in Sessions, ReadFails(s) PROVE Simulated
    <2>1. Reading' = Reading \ {s} /\ s \in Reading
        BY <1>9 DEF ReadFails, Advance, Reading, TypeOK
    <2>2. Implemented!Cease(s)
        BY <1>9, <2>1 DEF ReadFails, counters, stopping, Phase, Implemented!Cease
    <2> QED
        BY <2>2 DEF Simulated, Implemented!ListenerNext
<1>10. ASSUME NEW s \in Sessions, ReadTimesOut(s) PROVE Simulated
    <2>1. Reading' = Reading \ {s} /\ s \in Reading
        BY <1>10 DEF ReadTimesOut, Advance, Reading, TypeOK
    <2>2. Implemented!Cease(s)
        BY <1>10, <2>1 DEF ReadTimesOut, counters, stopping, Phase, Implemented!Cease
    <2> QED
        BY <2>2 DEF Simulated, Implemented!ListenerNext
<1>11. ASSUME NEW s \in Sessions, Reply(s) PROVE Simulated
    <2>1. Reading' = Reading \ {s} /\ s \in Reading
        BY <1>11 DEF Reply, Advance, Reading, TypeOK
    <2>2. Implemented!Cease(s)
        BY <1>11, <2>1 DEF Reply, counters, stopping, Phase, Implemented!Cease
    <2> QED
        BY <2>2 DEF Simulated, Implemented!ListenerNext
<1>12. ASSUME NEW s \in Sessions, GiveBack(s) PROVE Simulated
    <2>1. Reading' = Reading /\ s \notin Reading /\ target[s] # None
        BY <1>12 DEF GiveBack, Advance, Reading, TypeOK, SessionInv, SessionOK
    <2>2. Implemented!Give(s)
        BY <1>12, <2>1 DEF GiveBack, stopping, Phase, Implemented!Give
    <2> QED
        BY <2>2 DEF Simulated, Implemented!ListenerNext
<1>13. ASSUME NEW s \in Sessions, Delete(s) PROVE Simulated
    BY <1>13
       DEF Delete, Vanish, Advance, receiving, stopping, Simulated,
           Implemented!listenerVars, Phase, Reading, TypeOK
<1>14. ASSUME Reap PROVE Simulated
    BY <1>14
       DEF Reap, receiving, timers, counters, stopping, Simulated, Implemented!listenerVars,
           Phase, Reading, TypeOK
<1>15. ASSUME ReaperEnds PROVE Simulated
    BY <1>15
       DEF ReaperEnds, receiving, timers, ghosts, counters, stopping, Simulated,
           Implemented!listenerVars, Phase, Reading, TypeOK
<1>16. ASSUME Tick PROVE Simulated
    BY <1>16
       DEF Tick, Blocked, receiving, ghosts, counters, stopping, Simulated,
           Implemented!listenerVars, Phase, Reading, TypeOK
<1>17. ASSUME Cancel PROVE Simulated
    <2>1. Implemented!StopBegins
        BY <1>17 DEF Cancel, counters, Phase, Reading, Implemented!StopBegins
    <2> QED
        BY <2>1 DEF Simulated, Implemented!ListenerNext
<1>18. ASSUME CloseListener PROVE Simulated
    BY <1>18
       DEF CloseListener, receiving, timers, ghosts, counters, Simulated,
           Implemented!listenerVars, Phase, Reading, TypeOK
<1>19. ASSUME ReceiveLoopJoined PROVE Simulated
    <2>1. Implemented!StopEnds
        BY <1>19 DEF ReceiveLoopJoined, counters, Phase, Reading, Implemented!StopEnds
    <2> QED
        BY <2>1 DEF Simulated, Implemented!ListenerNext
<1>20. CASE UNCHANGED vars
    BY <1>20 DEF vars, Simulated, Implemented!listenerVars, Phase, Reading, TypeOK
<1> QED
    BY <1>1, <1>2, <1>3, <1>4, <1>5, <1>6, <1>7, <1>7a, <1>8, <1>9, <1>10, <1>11, <1>12, <1>13,
       <1>14, <1>15, <1>16, <1>17, <1>18, <1>19, <1>20
       DEF Next, ReceiveLoop, Reader, StopStep

\* A UDP listener is one as the instance and the balancer expect it: a session
\* holds a target from pick to release, and no read of replies begins once Stop
\* has been called.
THEOREM ImplementsListenerSafety == Spec => Implemented!ListenerSafety
<1>1. Init => Implemented!ListenerInit
    BY DEF Init, Implemented!ListenerInit, Phase, Reading
<1>2. IInv /\ [Next]_vars => [Implemented!ListenerNext]_(Implemented!listenerVars)
    BY SimulationStep DEF Simulated
<1> QED
    BY <1>1, <1>2, Inductive, PTL DEF Spec, Implemented!ListenerSafety
=============================================================================
