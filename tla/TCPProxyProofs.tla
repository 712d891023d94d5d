--------------------------- MODULE TCPProxyProofs ---------------------------
(***************************************************************************)
(* Proofs about TCPProxy, for any connections, any targets, with and       *)
(* without inspection.  The inductive invariant IInv says what the place of *)
(* a handler means for what it holds (HandlerOK) and for its copiers        *)
(* (CopiersOK), how the accept loop and Stop fit in (LoopInv, StopInv), and *)
(* that each counter counts a set of connections (CountInv).               *)
(***************************************************************************)
EXTENDS TCPProxy, Tally

Fresh == {"none", "queued", "accepted", "pick", "register", "dial", "inspect"}
Holding == {"register", "dial", "inspect", "copy", "close", "forget", "release"}

\* What connection c holds follows from where its handler is.
HandlerOK(c) ==
    /\ pc[c] = "accepted" <=> inHand = c
    /\ pc[c] \in {"none", "queued", "uncount", "undo", "gone"} => open[c] = {}
    /\ pc[c] = "release" => open[c] \subseteq {"client"}
    /\ target[c] # None <=> pc[c] \in Holding
    /\ c \in tracked <=> pc[c] \in {"dial", "inspect", "copy", "close", "forget"}

\* Copiers exist from the copy on; one that has something to report has recorded.
CopiersOK(c) ==
    /\ pc[c] \in Fresh => \A d \in Directions : copier[c][d] = "none"
    /\ \A d \in Directions : copier[c][d] \in {"send", "ended"} => <<c, d>> \in recorded
    /\ errCh[c] > 0 => \E d \in Directions : copier[c][d] = "ended"
    /\ pc[c] \notin Fresh \union {"copy"} =>
          \A d \in Directions : copier[c][d] # "none" =>
              \E e \in Directions : <<c, e>> \in recorded

HandlerInv == \A c \in Conns : HandlerOK(c)
CopierInv == \A c \in Conns : CopiersOK(c)

\* The accept loop has a connection in hand exactly while it decides.
LoopInv == accept = "decide" <=> inHand # None

\* Stop cancels first, gives up last, and a drain that saw its end is over for good.
StopInv ==
    /\ cancelled <=> stop # "running"
    /\ timedOut => stop \in {"egWait", "stopped"}
    /\ stop \in {"egWait", "stopped"} /\ ~ timedOut => Forwarding = {}

Holders(t) == {c \in Conns : target[c] = t}
Counted == {c \in Handled : pc[c] # "undo"}

CountInv ==
    /\ \A t \in Targets : Counts(active[t], Holders(t))
    /\ Counts(wg, Handled)
    /\ Counts(activeConns, Counted)

IInv == TypeOK /\ HandlerInv /\ CopierInv /\ LoopInv /\ StopInv /\ CountInv

-----------------------------------------------------------------------------
(* The steps *)

\* A counter that is about to be taken back is not zero.
LEMMA NoUnderflow ==
    ASSUME TypeOK, HandlerInv, CountInv, NEW c \in Conns
    PROVE  /\ pc[c] = "release" => target[c] \in Targets /\ active[target[c]] - 1 \in Nat
           /\ pc[c] = "uncount" => activeConns - 1 \in Nat
           /\ pc[c] = "undo" => wg - 1 \in Nat
<1>1. ASSUME pc[c] = "release"
      PROVE  target[c] \in Targets /\ active[target[c]] - 1 \in Nat
    <2>1. target[c] \in Targets /\ c \in Holders(target[c])
        BY <1>1 DEF TypeOK, HandlerInv, HandlerOK, Holding, Holders
    <2> QED
        BY <2>1, CountIsNatural DEF CountInv
<1>2. ASSUME pc[c] = "uncount" PROVE activeConns - 1 \in Nat
    <2>1. c \in Counted
        BY <1>2 DEF Counted, Handled
    <2> QED
        BY <2>1, CountIsNatural DEF CountInv
<1>3. ASSUME pc[c] = "undo" PROVE wg - 1 \in Nat
    <2>1. c \in Handled
        BY <1>3 DEF Handled
    <2> QED
        BY <2>1, CountIsNatural DEF CountInv
<1> QED
    BY <1>1, <1>2, <1>3

\* Every step keeps the types; no counter is decremented at zero.
LEMMA TypeStep ==
    ASSUME TypeOK, HandlerInv, LoopInv, CountInv, [Next]_vars
    PROVE  TypeOK'
<1>1. ASSUME NEW c \in Conns, Connect(c) PROVE TypeOK'
    BY <1>1 DEF Connect, Goto, counters, stopping, TypeOK, Handlers, handling
<1>2. ASSUME NEW c \in Conns, NEW s \in Sides, PeerCloses(c, s) PROVE TypeOK'
    BY <1>2 DEF PeerCloses, handling, counters, stopping, TypeOK, Handlers
<1>3. ASSUME NEW c \in Conns, Accept(c) PROVE TypeOK'
    BY <1>3 DEF Accept, Goto, counters, stopping, TypeOK, Handlers, Sides
<1>4. ASSUME AcceptFails PROVE TypeOK'
    BY <1>4 DEF AcceptFails, handling, counters, stopping, TypeOK, Handlers
<1>5. ASSUME Retry PROVE TypeOK'
    BY <1>5 DEF Retry, handling, counters, stopping, TypeOK, Handlers
<1>6. ASSUME Reject PROVE TypeOK'
    BY <1>6, NoneAssumption DEF Reject, Goto, counters, stopping, TypeOK, Handlers, LoopInv
<1>7. ASSUME Admit PROVE TypeOK'
    BY <1>7, NoneAssumption DEF Admit, Goto, stopping, TypeOK, Handlers, LoopInv
<1>8. ASSUME NEW c \in Conns, Pick(c) PROVE TypeOK'
    <2>1. CASE UNCHANGED <<target, active>>
        BY <1>8, <2>1, ZenonT(60) DEF Pick, Goto, stopping, TypeOK, Handlers
    <2>2. ASSUME NEW t \in Targets, target' = [target EXCEPT ![c] = t],
                 active' = [active EXCEPT ![t] = @ + 1], Goto(c, "register"), UNCHANGED open
          PROVE  TypeOK'
        BY <1>8, <2>2 DEF Pick, Goto, stopping, TypeOK, Handlers
    <2> QED
        BY <1>8, <2>1, <2>2 DEF Pick
<1>9. ASSUME NEW c \in Conns, Register(c) PROVE TypeOK'
    BY <1>9 DEF Register, Goto, stopping, TypeOK, Handlers
<1>10. ASSUME NEW c \in Conns, Dial(c) PROVE TypeOK'
    <2>1. [d \in Directions |-> "copying"]
             \in [Directions -> CopierStates]
        BY DEF CopierStates
    <2>2. copier' \in [Conns -> [Directions -> CopierStates]]
        BY <1>10, <2>1 DEF Dial, TypeOK
    <2>3. open' \in [Conns -> SUBSET Sides]
        BY <1>10 DEF Dial, TypeOK, Sides
    <2>4. pc' \in [Conns -> Handlers]
        BY <1>10 DEF Dial, Goto, TypeOK, Handlers
    <2> QED
        BY <1>10, <2>2, <2>3, <2>4 DEF Dial, counters, stopping, TypeOK
<1>11. ASSUME NEW c \in Conns, Inspect(c) PROVE TypeOK'
    <2>1. [d \in Directions |-> "copying"]
             \in [Directions -> CopierStates]
        BY DEF CopierStates
    <2>2. CASE Goto(c, "forget") /\ UNCHANGED copier
        BY <1>11, <2>2 DEF Inspect, Goto, counters, stopping, TypeOK, Handlers
    <2>3. CASE /\ Goto(c, "copy")
               /\ copier' = [copier EXCEPT ![c] = [d \in Directions |-> "copying"]]
        BY <1>11, <2>1, <2>3 DEF Inspect, Goto, counters, stopping, TypeOK, Handlers
    <2> QED
        BY <1>11, <2>2, <2>3 DEF Inspect
<1>12. ASSUME NEW c \in Conns, FirstCopyEnded(c) PROVE TypeOK'
    BY <1>12 DEF FirstCopyEnded, Goto, counters, stopping, TypeOK, Handlers
<1>13. ASSUME NEW c \in Conns, CloseBoth(c) PROVE TypeOK'
    BY <1>13 DEF CloseBoth, Goto, counters, stopping, TypeOK, Handlers
<1>14. ASSUME NEW c \in Conns, Forget(c) PROVE TypeOK'
    BY <1>14 DEF Forget, Goto, stopping, TypeOK, Handlers
<1>15. ASSUME NEW c \in Conns, Release(c) PROVE TypeOK'
    BY <1>15, NoUnderflow DEF Release, Goto, stopping, TypeOK, Handlers
<1>16. ASSUME NEW c \in Conns, Uncount(c) PROVE TypeOK'
    BY <1>16, NoUnderflow DEF Uncount, Goto, stopping, TypeOK, Handlers
<1>17. ASSUME NEW c \in Conns, Done(c) PROVE TypeOK'
    BY <1>17, NoUnderflow DEF Done, Goto, stopping, TypeOK, Handlers
<1>18. ASSUME NEW c \in Conns, NEW d \in Directions, CopyEnds(c, d) PROVE TypeOK'
    BY <1>18 DEF CopyEnds, SetCopier, counters, stopping, TypeOK, Handlers,
       CopierStates
<1>19. ASSUME NEW c \in Conns, NEW d \in Directions, WriteFails(c, d) PROVE TypeOK'
    BY <1>19 DEF WriteFails, SetCopier, counters, stopping, TypeOK, Handlers,
       CopierStates
<1>19a. ASSUME NEW c \in Conns, NEW d \in Directions, WriteStalls(c, d) PROVE TypeOK'
    BY <1>19a DEF WriteStalls, counters, stopping, TypeOK, Handlers,
       CopierStates
<1>19b. ASSUME NEW c \in Conns, NEW d \in Directions, PeerReads(c, d) PROVE TypeOK'
    BY <1>19b DEF PeerReads, counters, stopping, TypeOK, Handlers,
       CopierStates
<1>20. ASSUME NEW c \in Conns, NEW d \in Directions, RecordBytes(c, d) PROVE TypeOK'
    BY <1>20 DEF RecordBytes, SetCopier, counters, stopping, TypeOK, Handlers,
       CopierStates
<1>21. ASSUME NEW c \in Conns, NEW d \in Directions, SendErr(c, d) PROVE TypeOK'
    BY <1>21, SMTT(40) DEF SendErr, SetCopier, counters, stopping, TypeOK, Handlers,
       CopierStates
<1>22. ASSUME Cancel PROVE TypeOK'
    BY <1>22 DEF Cancel, handling, counters, TypeOK, Handlers
<1>23. ASSUME CloseListener PROVE TypeOK'
    BY <1>23 DEF CloseListener, counters, TypeOK, Handlers
<1>24. ASSUME Drained PROVE TypeOK'
    BY <1>24 DEF Drained, handling, counters, TypeOK, Handlers
<1>25. ASSUME DrainTimeout PROVE TypeOK'
    BY <1>25 DEF DrainTimeout, handling, counters, TypeOK, Handlers
<1>26. ASSUME AcceptLoopJoined PROVE TypeOK'
    BY <1>26 DEF AcceptLoopJoined, handling, counters, TypeOK, Handlers
<1>27. CASE UNCHANGED vars
    BY <1>27 DEF vars, TypeOK, Handlers
<1> QED
    BY <1>1, <1>2, <1>3, <1>4, <1>5, <1>6, <1>7, <1>8, <1>9, <1>10, <1>11, <1>12, <1>13,
       <1>14, <1>15, <1>16, <1>17, <1>18, <1>19, <1>19a, <1>19b, <1>20, <1>21, <1>22, <1>23,
       <1>24, <1>25, <1>26, <1>27 DEF Next, AcceptLoop, Handler, Copier, StopStep

\* A handler's place goes on telling what it holds.
LEMMA HandlerStep ==
    ASSUME TypeOK, HandlerInv, LoopInv, [Next]_vars
    PROVE  HandlerInv'
<1>1. ASSUME NEW c \in Conns, Connect(c) PROVE HandlerInv'
    BY <1>1, NoneAssumption
       DEF Connect, Goto, counters, stopping, TypeOK, HandlerInv, HandlerOK, Holding
<1>2. ASSUME NEW c \in Conns, NEW s \in Sides, PeerCloses(c, s) PROVE HandlerInv'
    BY <1>2
       DEF PeerCloses, handling, counters, stopping, TypeOK, HandlerInv, HandlerOK, Holding
<1>3. ASSUME NEW c \in Conns, Accept(c) PROVE HandlerInv'
    BY <1>3, NoneAssumption
       DEF Accept, Goto, counters, stopping, TypeOK, HandlerInv, HandlerOK, Holding, LoopInv
<1>4. ASSUME AcceptFails PROVE HandlerInv'
    BY <1>4
       DEF AcceptFails, handling, counters, stopping, TypeOK, HandlerInv, HandlerOK, Holding
<1>5. ASSUME Retry PROVE HandlerInv'
    BY <1>5 DEF Retry, handling, counters, stopping, TypeOK, HandlerInv, HandlerOK, Holding
<1>6. ASSUME Reject PROVE HandlerInv'
    BY <1>6, NoneAssumption
       DEF Reject, Goto, counters, stopping, TypeOK, HandlerInv, HandlerOK, Holding, LoopInv
<1>7. ASSUME Admit PROVE HandlerInv'
    BY <1>7, NoneAssumption
       DEF Admit, Goto, stopping, TypeOK, HandlerInv, HandlerOK, Holding, LoopInv
<1>8. ASSUME NEW c \in Conns, Pick(c) PROVE HandlerInv'
    BY <1>8, NoneAssumption DEF Pick, Goto, stopping, TypeOK, HandlerInv, HandlerOK, Holding
<1>9. ASSUME NEW c \in Conns, Register(c) PROVE HandlerInv'
    BY <1>9 DEF Register, Goto, stopping, TypeOK, HandlerInv, HandlerOK, Holding
<1>10. ASSUME NEW c \in Conns, Dial(c) PROVE HandlerInv'
    BY <1>10 DEF Dial, Goto, counters, stopping, TypeOK, HandlerInv, HandlerOK, Holding
<1>11. ASSUME NEW c \in Conns, Inspect(c) PROVE HandlerInv'
    BY <1>11 DEF Inspect, Goto, counters, stopping, TypeOK, HandlerInv, HandlerOK, Holding
<1>12. ASSUME NEW c \in Conns, FirstCopyEnded(c) PROVE HandlerInv'
    BY <1>12
       DEF FirstCopyEnded, Goto, counters, stopping, TypeOK, HandlerInv, HandlerOK, Holding
<1>13. ASSUME NEW c \in Conns, CloseBoth(c) PROVE HandlerInv'
    BY <1>13 DEF CloseBoth, Goto, counters, stopping, TypeOK, HandlerInv, HandlerOK, Holding
<1>14. ASSUME NEW c \in Conns, Forget(c) PROVE HandlerInv'
    BY <1>14 DEF Forget, Goto, stopping, TypeOK, HandlerInv, HandlerOK, Holding, Sides
<1>15. ASSUME NEW c \in Conns, Release(c) PROVE HandlerInv'
    BY <1>15 DEF Release, Goto, stopping, TypeOK, HandlerInv, HandlerOK, Holding
<1>16. ASSUME NEW c \in Conns, Uncount(c) PROVE HandlerInv'
    BY <1>16 DEF Uncount, Goto, stopping, TypeOK, HandlerInv, HandlerOK, Holding
<1>17. ASSUME NEW c \in Conns, Done(c) PROVE HandlerInv'
    BY <1>17 DEF Done, Goto, stopping, TypeOK, HandlerInv, HandlerOK, Holding
<1>18. ASSUME NEW c \in Conns, NEW d \in Directions, CopyEnds(c, d) PROVE HandlerInv'
    BY <1>18
       DEF CopyEnds, SetCopier, counters, stopping, TypeOK, HandlerInv, HandlerOK, Holding
<1>19. ASSUME NEW c \in Conns, NEW d \in Directions, WriteFails(c, d) PROVE HandlerInv'
    BY <1>19
       DEF WriteFails, SetCopier, counters, stopping, TypeOK, HandlerInv, HandlerOK, Holding
<1>19a. ASSUME NEW c \in Conns, NEW d \in Directions, WriteStalls(c, d) PROVE HandlerInv'
    BY <1>19a
       DEF WriteStalls, counters, stopping, TypeOK, HandlerInv, HandlerOK, Holding
<1>19b. ASSUME NEW c \in Conns, NEW d \in Directions, PeerReads(c, d) PROVE HandlerInv'
    BY <1>19b
       DEF PeerReads, counters, stopping, TypeOK, HandlerInv, HandlerOK, Holding
<1>20. ASSUME NEW c \in Conns, NEW d \in Directions, RecordBytes(c, d) PROVE HandlerInv'
    BY <1>20
       DEF RecordBytes, SetCopier, counters, stopping, TypeOK, HandlerInv, HandlerOK,
           Holding
<1>21. ASSUME NEW c \in Conns, NEW d \in Directions, SendErr(c, d) PROVE HandlerInv'
    BY <1>21
       DEF SendErr, SetCopier, counters, stopping, TypeOK, HandlerInv, HandlerOK, Holding
<1>22. ASSUME Cancel PROVE HandlerInv'
    BY <1>22 DEF Cancel, handling, counters, TypeOK, HandlerInv, HandlerOK, Holding
<1>23. ASSUME CloseListener PROVE HandlerInv'
    BY <1>23 DEF CloseListener, counters, TypeOK, HandlerInv, HandlerOK, Holding
<1>24. ASSUME Drained PROVE HandlerInv'
    BY <1>24 DEF Drained, handling, counters, TypeOK, HandlerInv, HandlerOK, Holding
<1>25. ASSUME DrainTimeout PROVE HandlerInv'
    BY <1>25 DEF DrainTimeout, handling, counters, TypeOK, HandlerInv, HandlerOK, Holding
<1>26. ASSUME AcceptLoopJoined PROVE HandlerInv'
    BY <1>26
       DEF AcceptLoopJoined, handling, counters, TypeOK, HandlerInv, HandlerOK, Holding
<1>27. CASE UNCHANGED vars
    BY <1>27 DEF vars, TypeOK, HandlerInv, HandlerOK, Holding
<1> QED
    BY <1>1, <1>2, <1>3, <1>4, <1>5, <1>6, <1>7, <1>8, <1>9, <1>10, <1>11, <1>12, <1>13,
       <1>14, <1>15, <1>16, <1>17, <1>18, <1>19, <1>19a, <1>19b, <1>20, <1>21, <1>22, <1>23,
       <1>24, <1>25, <1>26, <1>27 DEF Next, AcceptLoop, Handler, Copier, StopStep

\* A handler's place goes on telling about its copiers.
LEMMA CopierStep ==
    ASSUME TypeOK, HandlerInv, LoopInv, CopierInv, [Next]_vars
    PROVE  CopierInv'
<1>1. ASSUME NEW c \in Conns, Connect(c) PROVE CopierInv'
    BY <1>1
       DEF Connect, Goto, counters, stopping, TypeOK, CopierInv, CopiersOK, Fresh,
           Directions
<1>2. ASSUME NEW c \in Conns, NEW s \in Sides, PeerCloses(c, s) PROVE CopierInv'
    BY <1>2
       DEF PeerCloses, handling, counters, stopping, TypeOK, CopierInv, CopiersOK, Fresh,
           Directions
<1>3. ASSUME NEW c \in Conns, Accept(c) PROVE CopierInv'
    BY <1>3
       DEF Accept, Goto, counters, stopping, TypeOK, CopierInv, CopiersOK, Fresh, Directions
<1>4. ASSUME AcceptFails PROVE CopierInv'
    BY <1>4
       DEF AcceptFails, handling, counters, stopping, TypeOK, CopierInv, CopiersOK, Fresh,
           Directions
<1>5. ASSUME Retry PROVE CopierInv'
    BY <1>5
       DEF Retry, handling, counters, stopping, TypeOK, CopierInv, CopiersOK, Fresh,
           Directions
<1>6. ASSUME Reject PROVE CopierInv'
    BY <1>6, NoneAssumption, ZenonT(60)
       DEF Reject, Goto, counters, stopping, TypeOK, CopierInv, CopiersOK, Fresh,
          Directions, LoopInv, HandlerInv, HandlerOK
<1>7. ASSUME Admit PROVE CopierInv'
    BY <1>7, NoneAssumption, ZenonT(60)
       DEF Admit, Goto, stopping, TypeOK, CopierInv, CopiersOK, Fresh, Directions, LoopInv,
          HandlerInv, HandlerOK
<1>8. ASSUME NEW c \in Conns, Pick(c) PROVE CopierInv'
    BY <1>8, ZenonT(60)
       DEF Pick, Goto, stopping, TypeOK, CopierInv, CopiersOK, Fresh, Directions
<1>9. ASSUME NEW c \in Conns, Register(c) PROVE CopierInv'
    BY <1>9 DEF Register, Goto, stopping, TypeOK, CopierInv, CopiersOK, Fresh, Directions
<1>10. ASSUME NEW c \in Conns, Dial(c) PROVE CopierInv'
    <2>1. ASSUME NEW k \in Conns \ {c} PROVE CopiersOK(k)'
        <3>1. pc'[k] = pc[k] /\ copier'[k] = copier[k] /\ UNCHANGED <<errCh, recorded>>
            BY <1>10, <2>1 DEF Dial, Goto, TypeOK
        <3> QED
            BY <2>1, <3>1 DEF CopierInv, CopiersOK
    <2>2. CASE UNCHANGED copier
        BY <1>10, <2>1, <2>2, ZenonT(60)
           DEF Dial, Goto, counters, stopping, TypeOK, CopierInv, CopiersOK, Fresh
    <2>3. CASE /\ Goto(c, "copy")
               /\ copier' = [copier EXCEPT ![c] = [d \in Directions |-> "copying"]]
        <3>1. CopiersOK(c)'
            BY <1>10, <2>3
               DEF Dial, Goto, counters, stopping, TypeOK, CopierInv, CopiersOK, Fresh
        <3> QED
            BY <2>1, <3>1 DEF CopierInv
    <2> QED
        BY <1>10, <2>2, <2>3 DEF Dial, Goto
<1>11. ASSUME NEW c \in Conns, Inspect(c) PROVE CopierInv'
    <2>1. ASSUME NEW k \in Conns \ {c} PROVE CopiersOK(k)'
        <3>1. pc'[k] = pc[k] /\ copier'[k] = copier[k] /\ UNCHANGED <<errCh, recorded>>
            BY <1>11, <2>1 DEF Inspect, Goto, TypeOK
        <3> QED
            BY <2>1, <3>1 DEF CopierInv, CopiersOK
    <2>2. CASE UNCHANGED copier
        BY <1>11, <2>1, <2>2, ZenonT(60)
           DEF Inspect, Goto, counters, stopping, TypeOK, CopierInv, CopiersOK, Fresh
    <2>3. CASE /\ Goto(c, "copy")
               /\ copier' = [copier EXCEPT ![c] = [d \in Directions |-> "copying"]]
        <3>1. CopiersOK(c)'
            BY <1>11, <2>3
               DEF Inspect, Goto, counters, stopping, TypeOK, CopierInv, CopiersOK, Fresh
        <3> QED
            BY <2>1, <3>1 DEF CopierInv
    <2> QED
        BY <1>11, <2>2, <2>3 DEF Inspect, Goto
<1>12. ASSUME NEW c \in Conns, FirstCopyEnded(c) PROVE CopierInv'
    BY <1>12
       DEF FirstCopyEnded, Goto, counters, stopping, TypeOK, CopierInv, CopiersOK, Fresh,
           Directions
<1>13. ASSUME NEW c \in Conns, CloseBoth(c) PROVE CopierInv'
    BY <1>13
       DEF CloseBoth, Goto, counters, stopping, TypeOK, CopierInv, CopiersOK, Fresh,
           Directions
<1>14. ASSUME NEW c \in Conns, Forget(c) PROVE CopierInv'
    BY <1>14 DEF Forget, Goto, stopping, TypeOK, CopierInv, CopiersOK, Fresh, Directions
<1>15. ASSUME NEW c \in Conns, Release(c) PROVE CopierInv'
    BY <1>15 DEF Release, Goto, stopping, TypeOK, CopierInv, CopiersOK, Fresh, Directions
<1>16. ASSUME NEW c \in Conns, Uncount(c) PROVE CopierInv'
    BY <1>16 DEF Uncount, Goto, stopping, TypeOK, CopierInv, CopiersOK, Fresh, Directions
<1>17. ASSUME NEW c \in Conns, Done(c) PROVE CopierInv'
    BY <1>17 DEF Done, Goto, stopping, TypeOK, CopierInv, CopiersOK, Fresh, Directions
<1>18. ASSUME NEW c \in Conns, NEW d \in Directions, CopyEnds(c, d) PROVE CopierInv'
    BY <1>18, ZenonT(60)
       DEF CopyEnds, SetCopier, counters, stopping, TypeOK, CopierInv, CopiersOK, Fresh,
          Directions
<1>19. ASSUME NEW c \in Conns, NEW d \in Directions, WriteFails(c, d) PROVE CopierInv'
    BY <1>19, ZenonT(60)
       DEF WriteFails, SetCopier, counters, stopping, TypeOK, CopierInv, CopiersOK, Fresh,
          Directions
<1>19a. ASSUME NEW c \in Conns, NEW d \in Directions, WriteStalls(c, d) PROVE CopierInv'
    BY <1>19a, ZenonT(60)
       DEF WriteStalls, counters, stopping, TypeOK, CopierInv, CopiersOK, Fresh,
          Directions
<1>19b. ASSUME NEW c \in Conns, NEW d \in Directions, PeerReads(c, d) PROVE CopierInv'
    BY <1>19b, ZenonT(60)
       DEF PeerReads, counters, stopping, TypeOK, CopierInv, CopiersOK, Fresh,
          Directions
<1>20. ASSUME NEW c \in Conns, NEW d \in Directions, RecordBytes(c, d) PROVE CopierInv'
    BY <1>20, ZenonT(60)
       DEF RecordBytes, SetCopier, counters, stopping, TypeOK, CopierInv, CopiersOK, Fresh,
          Directions
<1>21. ASSUME NEW c \in Conns, NEW d \in Directions, SendErr(c, d) PROVE CopierInv'
    BY <1>21, ZenonT(60)
       DEF SendErr, SetCopier, counters, stopping, TypeOK, CopierInv, CopiersOK, Fresh,
          Directions
<1>22. ASSUME Cancel PROVE CopierInv'
    BY <1>22 DEF Cancel, handling, counters, TypeOK, CopierInv, CopiersOK, Fresh, Directions
<1>23. ASSUME CloseListener PROVE CopierInv'
    BY <1>23 DEF CloseListener, counters, TypeOK, CopierInv, CopiersOK, Fresh, Directions
<1>24. ASSUME Drained PROVE CopierInv'
    BY <1>24
       DEF Drained, handling, counters, TypeOK, CopierInv, CopiersOK, Fresh, Directions
<1>25. ASSUME DrainTimeout PROVE CopierInv'
    BY <1>25
       DEF DrainTimeout, handling, counters, TypeOK, CopierInv, CopiersOK, Fresh, Directions
<1>26. ASSUME AcceptLoopJoined PROVE CopierInv'
    BY <1>26
       DEF AcceptLoopJoined, handling, counters, TypeOK, CopierInv, CopiersOK, Fresh,
           Directions
<1>27. CASE UNCHANGED vars
    BY <1>27 DEF vars, TypeOK, CopierInv, CopiersOK, Fresh, Directions
<1> QED
    BY <1>1, <1>2, <1>3, <1>4, <1>5, <1>6, <1>7, <1>8, <1>9, <1>10, <1>11, <1>12, <1>13,
       <1>14, <1>15, <1>16, <1>17, <1>18, <1>19, <1>19a, <1>19b, <1>20, <1>21, <1>22, <1>23,
       <1>24, <1>25, <1>26, <1>27 DEF Next, AcceptLoop, Handler, Copier, StopStep

\* The accept loop has a connection in hand exactly while it decides.
LEMMA LoopStep ==
    ASSUME TypeOK, LoopInv, [Next]_vars
    PROVE  LoopInv'
<1>1. ASSUME NEW c \in Conns, Connect(c) PROVE LoopInv'
    BY <1>1 DEF Connect, Goto, counters, stopping, LoopInv
<1>2. ASSUME NEW c \in Conns, NEW s \in Sides, PeerCloses(c, s) PROVE LoopInv'
    BY <1>2 DEF PeerCloses, handling, counters, stopping, LoopInv
<1>3. ASSUME NEW c \in Conns, Accept(c) PROVE LoopInv'
    BY <1>3, NoneAssumption DEF Accept, Goto, counters, stopping, LoopInv
<1>4. ASSUME AcceptFails PROVE LoopInv'
    BY <1>4 DEF AcceptFails, handling, counters, stopping, LoopInv
<1>5. ASSUME Retry PROVE LoopInv'
    BY <1>5 DEF Retry, handling, counters, stopping, LoopInv
<1>6. ASSUME Reject PROVE LoopInv'
    BY <1>6 DEF Reject, Goto, counters, stopping, LoopInv
<1>7. ASSUME Admit PROVE LoopInv'
    BY <1>7 DEF Admit, Goto, stopping, LoopInv
<1>8. ASSUME NEW c \in Conns, Pick(c) PROVE LoopInv'
    BY <1>8 DEF Pick, Goto, stopping, LoopInv
<1>9. ASSUME NEW c \in Conns, Register(c) PROVE LoopInv'
    BY <1>9 DEF Register, Goto, stopping, LoopInv
<1>10. ASSUME NEW c \in Conns, Dial(c) PROVE LoopInv'
    BY <1>10 DEF Dial, Goto, counters, stopping, LoopInv
<1>11. ASSUME NEW c \in Conns, Inspect(c) PROVE LoopInv'
    BY <1>11 DEF Inspect, Goto, counters, stopping, LoopInv
<1>12. ASSUME NEW c \in Conns, FirstCopyEnded(c) PROVE LoopInv'
    BY <1>12 DEF FirstCopyEnded, Goto, counters, stopping, LoopInv
<1>13. ASSUME NEW c \in Conns, CloseBoth(c) PROVE LoopInv'
    BY <1>13 DEF CloseBoth, Goto, counters, stopping, LoopInv
<1>14. ASSUME NEW c \in Conns, Forget(c) PROVE LoopInv'
    BY <1>14 DEF Forget, Goto, stopping, LoopInv
<1>15. ASSUME NEW c \in Conns, Release(c) PROVE LoopInv'
    BY <1>15 DEF Release, Goto, stopping, LoopInv
<1>16. ASSUME NEW c \in Conns, Uncount(c) PROVE LoopInv'
    BY <1>16 DEF Uncount, Goto, stopping, LoopInv
<1>17. ASSUME NEW c \in Conns, Done(c) PROVE LoopInv'
    BY <1>17 DEF Done, Goto, stopping, LoopInv
<1>18. ASSUME NEW c \in Conns, NEW d \in Directions, CopyEnds(c, d) PROVE LoopInv'
    BY <1>18 DEF CopyEnds, SetCopier, counters, stopping, LoopInv
<1>19. ASSUME NEW c \in Conns, NEW d \in Directions, WriteFails(c, d) PROVE LoopInv'
    BY <1>19 DEF WriteFails, SetCopier, counters, stopping, LoopInv
<1>19a. ASSUME NEW c \in Conns, NEW d \in Directions, WriteStalls(c, d) PROVE LoopInv'
    BY <1>19a DEF WriteStalls, counters, stopping, LoopInv
<1>19b. ASSUME NEW c \in Conns, NEW d \in Directions, PeerReads(c, d) PROVE LoopInv'
    BY <1>19b DEF PeerReads, counters, stopping, LoopInv
<1>20. ASSUME NEW c \in Conns, NEW d \in Directions, RecordBytes(c, d) PROVE LoopInv'
    BY <1>20 DEF RecordBytes, SetCopier, counters, stopping, LoopInv
<1>21. ASSUME NEW c \in Conns, NEW d \in Directions, SendErr(c, d) PROVE LoopInv'
    BY <1>21 DEF SendErr, SetCopier, counters, stopping, LoopInv
<1>22. ASSUME Cancel PROVE LoopInv'
    BY <1>22 DEF Cancel, handling, counters, LoopInv
<1>23. ASSUME CloseListener PROVE LoopInv'
    BY <1>23 DEF CloseListener, counters, LoopInv
<1>24. ASSUME Drained PROVE LoopInv'
    BY <1>24 DEF Drained, handling, counters, LoopInv
<1>25. ASSUME DrainTimeout PROVE LoopInv'
    BY <1>25 DEF DrainTimeout, handling, counters, LoopInv
<1>26. ASSUME AcceptLoopJoined PROVE LoopInv'
    BY <1>26 DEF AcceptLoopJoined, handling, counters, LoopInv
<1>27. CASE UNCHANGED vars
    BY <1>27 DEF vars, LoopInv
<1> QED
    BY <1>1, <1>2, <1>3, <1>4, <1>5, <1>6, <1>7, <1>8, <1>9, <1>10, <1>11, <1>12, <1>13,
       <1>14, <1>15, <1>16, <1>17, <1>18, <1>19, <1>19a, <1>19b, <1>20, <1>21, <1>22, <1>23,
       <1>24, <1>25, <1>26, <1>27 DEF Next, AcceptLoop, Handler, Copier, StopStep

\* Stop goes its way, and what a complete drain left stays ended.
LEMMA StopStepInv ==
    ASSUME TypeOK, HandlerInv, LoopInv, StopInv, CountInv, [Next]_vars
    PROVE  StopInv'
<1>1. ASSUME NEW c \in Conns, Connect(c) PROVE StopInv'
    BY <1>1 DEF Connect, Goto, counters, stopping, StopInv, Forwarding, TypeOK
<1>2. ASSUME NEW c \in Conns, NEW s \in Sides, PeerCloses(c, s) PROVE StopInv'
    BY <1>2 DEF PeerCloses, handling, counters, stopping, StopInv, Forwarding, TypeOK
<1>3. ASSUME NEW c \in Conns, Accept(c) PROVE StopInv'
    BY <1>3 DEF Accept, Goto, counters, stopping, StopInv, Forwarding, TypeOK
<1>4. ASSUME AcceptFails PROVE StopInv'
    BY <1>4 DEF AcceptFails, handling, counters, stopping, StopInv, Forwarding, TypeOK
<1>5. ASSUME Retry PROVE StopInv'
    BY <1>5 DEF Retry, handling, counters, stopping, StopInv, Forwarding, TypeOK
<1>6. ASSUME Reject PROVE StopInv'
    BY <1>6, NoneAssumption
       DEF Reject, Goto, counters, stopping, StopInv, Forwarding, TypeOK, LoopInv
<1>7. ASSUME Admit PROVE StopInv'
    BY <1>7, NoneAssumption DEF Admit, Goto, stopping, StopInv, Forwarding, TypeOK, LoopInv
<1>8. ASSUME NEW c \in Conns, Pick(c) PROVE StopInv'
    BY <1>8 DEF Pick, Goto, stopping, StopInv, Forwarding, TypeOK
<1>9. ASSUME NEW c \in Conns, Register(c) PROVE StopInv'
    BY <1>9 DEF Register, Goto, stopping, StopInv, Forwarding, TypeOK
<1>10. ASSUME NEW c \in Conns, Dial(c) PROVE StopInv'
    BY <1>10 DEF Dial, Goto, counters, stopping, StopInv, Forwarding, TypeOK
<1>11. ASSUME NEW c \in Conns, Inspect(c) PROVE StopInv'
    BY <1>11 DEF Inspect, Goto, counters, stopping, StopInv, Forwarding, TypeOK
<1>12. ASSUME NEW c \in Conns, FirstCopyEnded(c) PROVE StopInv'
    BY <1>12 DEF FirstCopyEnded, Goto, counters, stopping, StopInv, Forwarding, TypeOK
<1>13. ASSUME NEW c \in Conns, CloseBoth(c) PROVE StopInv'
    BY <1>13 DEF CloseBoth, Goto, counters, stopping, StopInv, Forwarding, TypeOK
<1>14. ASSUME NEW c \in Conns, Forget(c) PROVE StopInv'
    BY <1>14 DEF Forget, Goto, stopping, StopInv, Forwarding, TypeOK
<1>15. ASSUME NEW c \in Conns, Release(c) PROVE StopInv'
    BY <1>15 DEF Release, Goto, stopping, StopInv, Forwarding, TypeOK
<1>16. ASSUME NEW c \in Conns, Uncount(c) PROVE StopInv'
    BY <1>16 DEF Uncount, Goto, stopping, StopInv, Forwarding, TypeOK
<1>17. ASSUME NEW c \in Conns, Done(c) PROVE StopInv'
    BY <1>17 DEF Done, Goto, stopping, StopInv, Forwarding, TypeOK
<1>18. ASSUME NEW c \in Conns, NEW d \in Directions, CopyEnds(c, d) PROVE StopInv'
    BY <1>18 DEF CopyEnds, SetCopier, counters, stopping, StopInv, Forwarding, TypeOK
<1>19. ASSUME NEW c \in Conns, NEW d \in Directions, WriteFails(c, d) PROVE StopInv'
    BY <1>19 DEF WriteFails, SetCopier, counters, stopping, StopInv, Forwarding, TypeOK
<1>19a. ASSUME NEW c \in Conns, NEW d \in Directions, WriteStalls(c, d) PROVE StopInv'
    BY <1>19a DEF WriteStalls, counters, stopping, StopInv, Forwarding, TypeOK
<1>19b. ASSUME NEW c \in Conns, NEW d \in Directions, PeerReads(c, d) PROVE StopInv'
    BY <1>19b DEF PeerReads, counters, stopping, StopInv, Forwarding, TypeOK
<1>20. ASSUME NEW c \in Conns, NEW d \in Directions, RecordBytes(c, d) PROVE StopInv'
    BY <1>20 DEF RecordBytes, SetCopier, counters, stopping, StopInv, Forwarding, TypeOK
<1>21. ASSUME NEW c \in Conns, NEW d \in Directions, SendErr(c, d) PROVE StopInv'
    BY <1>21 DEF SendErr, SetCopier, counters, stopping, StopInv, Forwarding, TypeOK
<1>22. ASSUME Cancel PROVE StopInv'
    BY <1>22 DEF Cancel, handling, counters, StopInv, Forwarding, TypeOK
<1>23. ASSUME CloseListener PROVE StopInv'
    BY <1>23 DEF CloseListener, counters, StopInv, Forwarding, TypeOK
<1>24. ASSUME Drained PROVE StopInv'
    BY <1>24, CountIsNatural
       DEF Drained, handling, counters, StopInv, Forwarding, TypeOK, CountInv, Handled
<1>25. ASSUME DrainTimeout PROVE StopInv'
    BY <1>25 DEF DrainTimeout, handling, counters, StopInv, Forwarding, TypeOK
<1>26. ASSUME AcceptLoopJoined PROVE StopInv'
    BY <1>26 DEF AcceptLoopJoined, handling, counters, StopInv, Forwarding, TypeOK
<1>27. CASE UNCHANGED vars
    BY <1>27 DEF vars, StopInv, Forwarding, TypeOK
<1> QED
    BY <1>1, <1>2, <1>3, <1>4, <1>5, <1>6, <1>7, <1>8, <1>9, <1>10, <1>11, <1>12, <1>13,
       <1>14, <1>15, <1>16, <1>17, <1>18, <1>19, <1>19a, <1>19b, <1>20, <1>21, <1>22, <1>23,
       <1>24, <1>25, <1>26, <1>27 DEF Next, AcceptLoop, Handler, Copier, StopStep

\* wg follows the connections that are handled.
LEMMA HandledFollows ==
    ASSUME TypeOK, HandlerInv, LoopInv, [Next]_vars
    PROVE  Follows(wg, Handled, wg', Handled')
<1>1. ASSUME NEW c \in Conns, Connect(c) PROVE Follows(wg, Handled, wg', Handled')
    BY <1>1 DEF Connect, Goto, counters, stopping, TypeOK, Handled, Follows
<1>2. ASSUME NEW c \in Conns, NEW s \in Sides, PeerCloses(c, s)
      PROVE  Follows(wg, Handled, wg', Handled')
    BY <1>2 DEF PeerCloses, handling, counters, stopping, TypeOK, Handled, Follows
<1>3. ASSUME NEW c \in Conns, Accept(c) PROVE Follows(wg, Handled, wg', Handled')
    BY <1>3 DEF Accept, Goto, counters, stopping, TypeOK, Handled, Follows
<1>4. ASSUME AcceptFails PROVE Follows(wg, Handled, wg', Handled')
    BY <1>4 DEF AcceptFails, handling, counters, stopping, TypeOK, Handled, Follows
<1>5. ASSUME Retry PROVE Follows(wg, Handled, wg', Handled')
    BY <1>5 DEF Retry, handling, counters, stopping, TypeOK, Handled, Follows
<1>6. ASSUME Reject PROVE Follows(wg, Handled, wg', Handled')
    BY <1>6, NoneAssumption
       DEF Reject, Goto, counters, stopping, TypeOK, Handled, Follows, LoopInv, HandlerInv,
           HandlerOK
<1>7. ASSUME Admit PROVE Follows(wg, Handled, wg', Handled')
    <2>1. inHand \in Conns /\ inHand \notin Handled
        BY <1>7, NoneAssumption
           DEF Admit, TypeOK, LoopInv, HandlerInv, HandlerOK, Handled, Counted
    <2>2. Handled' = Handled \union {inHand}
        BY <1>7, <2>1 DEF Admit, Goto, TypeOK, Handled, Counted
    <2> QED
        BY <1>7, <2>1, <2>2 DEF Admit, Follows
<1>8. ASSUME NEW c \in Conns, Pick(c) PROVE Follows(wg, Handled, wg', Handled')
    BY <1>8 DEF Pick, Goto, stopping, TypeOK, Handled, Follows
<1>9. ASSUME NEW c \in Conns, Register(c) PROVE Follows(wg, Handled, wg', Handled')
    BY <1>9 DEF Register, Goto, stopping, TypeOK, Handled, Follows
<1>10. ASSUME NEW c \in Conns, Dial(c) PROVE Follows(wg, Handled, wg', Handled')
    BY <1>10 DEF Dial, Goto, counters, stopping, TypeOK, Handled, Follows
<1>11. ASSUME NEW c \in Conns, Inspect(c) PROVE Follows(wg, Handled, wg', Handled')
    BY <1>11 DEF Inspect, Goto, counters, stopping, TypeOK, Handled, Follows
<1>12. ASSUME NEW c \in Conns, FirstCopyEnded(c) PROVE Follows(wg, Handled, wg', Handled')
    BY <1>12 DEF FirstCopyEnded, Goto, counters, stopping, TypeOK, Handled, Follows
<1>13. ASSUME NEW c \in Conns, CloseBoth(c) PROVE Follows(wg, Handled, wg', Handled')
    BY <1>13 DEF CloseBoth, Goto, counters, stopping, TypeOK, Handled, Follows
<1>14. ASSUME NEW c \in Conns, Forget(c) PROVE Follows(wg, Handled, wg', Handled')
    BY <1>14 DEF Forget, Goto, stopping, TypeOK, Handled, Follows
<1>15. ASSUME NEW c \in Conns, Release(c) PROVE Follows(wg, Handled, wg', Handled')
    BY <1>15 DEF Release, Goto, stopping, TypeOK, Handled, Follows
<1>16. ASSUME NEW c \in Conns, Uncount(c) PROVE Follows(wg, Handled, wg', Handled')
    BY <1>16 DEF Uncount, Goto, stopping, TypeOK, Handled, Follows
<1>17. ASSUME NEW c \in Conns, Done(c) PROVE Follows(wg, Handled, wg', Handled')
    <2>1. c \in Handled /\ Handled' = Handled \ {c}
        BY <1>17 DEF Done, Goto, TypeOK, Handled, Counted
    <2> QED
        BY <1>17, <2>1 DEF Done, Follows
<1>18. ASSUME NEW c \in Conns, NEW d \in Directions, CopyEnds(c, d)
      PROVE  Follows(wg, Handled, wg', Handled')
    BY <1>18 DEF CopyEnds, SetCopier, counters, stopping, TypeOK, Handled, Follows
<1>19. ASSUME NEW c \in Conns, NEW d \in Directions, WriteFails(c, d)
      PROVE  Follows(wg, Handled, wg', Handled')
    BY <1>19 DEF WriteFails, SetCopier, counters, stopping, TypeOK, Handled, Follows
<1>19a. ASSUME NEW c \in Conns, NEW d \in Directions, WriteStalls(c, d)
      PROVE  Follows(wg, Handled, wg', Handled')
    BY <1>19a DEF WriteStalls, counters, stopping, TypeOK, Handled, Follows
<1>19b. ASSUME NEW c \in Conns, NEW d \in Directions, PeerReads(c, d)
      PROVE  Follows(wg, Handled, wg', Handled')
    BY <1>19b DEF PeerReads, counters, stopping, TypeOK, Handled, Follows
<1>20. ASSUME NEW c \in Conns, NEW d \in Directions, RecordBytes(c, d)
      PROVE  Follows(wg, Handled, wg', Handled')
    BY <1>20 DEF RecordBytes, SetCopier, counters, stopping, TypeOK, Handled, Follows
<1>21. ASSUME NEW c \in Conns, NEW d \in Directions, SendErr(c, d)
      PROVE  Follows(wg, Handled, wg', Handled')
    BY <1>21 DEF SendErr, SetCopier, counters, stopping, TypeOK, Handled, Follows
<1>22. ASSUME Cancel PROVE Follows(wg, Handled, wg', Handled')
    BY <1>22 DEF Cancel, handling, counters, TypeOK, Handled, Follows
<1>23. ASSUME CloseListener PROVE Follows(wg, Handled, wg', Handled')
    BY <1>23 DEF CloseListener, counters, TypeOK, Handled, Follows
<1>24. ASSUME Drained PROVE Follows(wg, Handled, wg', Handled')
    BY <1>24 DEF Drained, handling, counters, TypeOK, Handled, Follows
<1>25. ASSUME DrainTimeout PROVE Follows(wg, Handled, wg', Handled')
    BY <1>25 DEF DrainTimeout, handling, counters, TypeOK, Handled, Follows
<1>26. ASSUME AcceptLoopJoined PROVE Follows(wg, Handled, wg', Handled')
    BY <1>26 DEF AcceptLoopJoined, handling, counters, TypeOK, Handled, Follows
<1>27. CASE UNCHANGED vars
    BY <1>27 DEF vars, TypeOK, Handled, Follows
<1> QED
    BY <1>1, <1>2, <1>3, <1>4, <1>5, <1>6, <1>7, <1>8, <1>9, <1>10, <1>11, <1>12, <1>13,
       <1>14, <1>15, <1>16, <1>17, <1>18, <1>19, <1>19a, <1>19b, <1>20, <1>21, <1>22, <1>23,
       <1>24, <1>25, <1>26, <1>27 DEF Next, AcceptLoop, Handler, Copier, StopStep

\* activeConns follows the connections whose handler has not taken it back.
LEMMA CountedFollows ==
    ASSUME TypeOK, HandlerInv, LoopInv, [Next]_vars
    PROVE  Follows(activeConns, Counted, activeConns', Counted')
<1>1. ASSUME NEW c \in Conns, Connect(c)
      PROVE  Follows(activeConns, Counted, activeConns', Counted')
    BY <1>1 DEF Connect, Goto, counters, stopping, TypeOK, Handled, Counted, Follows
<1>2. ASSUME NEW c \in Conns, NEW s \in Sides, PeerCloses(c, s)
      PROVE  Follows(activeConns, Counted, activeConns', Counted')
    BY <1>2 DEF PeerCloses, handling, counters, stopping, TypeOK, Handled, Counted, Follows
<1>3. ASSUME NEW c \in Conns, Accept(c)
      PROVE  Follows(activeConns, Counted, activeConns', Counted')
    BY <1>3 DEF Accept, Goto, counters, stopping, TypeOK, Handled, Counted, Follows
<1>4. ASSUME AcceptFails PROVE Follows(activeConns, Counted, activeConns', Counted')
    BY <1>4 DEF AcceptFails, handling, counters, stopping, TypeOK, Handled, Counted, Follows
<1>5. ASSUME Retry PROVE Follows(activeConns, Counted, activeConns', Counted')
    BY <1>5 DEF Retry, handling, counters, stopping, TypeOK, Handled, Counted, Follows
<1>6. ASSUME Reject PROVE Follows(activeConns, Counted, activeConns', Counted')
    BY <1>6, NoneAssumption
       DEF Reject, Goto, counters, stopping, TypeOK, Handled, Counted, Follows, LoopInv,
           HandlerInv, HandlerOK
<1>7. ASSUME Admit PROVE Follows(activeConns, Counted, activeConns', Counted')
    <2>1. inHand \in Conns /\ inHand \notin Counted
        BY <1>7, NoneAssumption
           DEF Admit, TypeOK, LoopInv, HandlerInv, HandlerOK, Handled, Counted
    <2>2. Counted' = Counted \union {inHand}
        BY <1>7, <2>1 DEF Admit, Goto, TypeOK, Handled, Counted
    <2> QED
        BY <1>7, <2>1, <2>2 DEF Admit, Follows
<1>8. ASSUME NEW c \in Conns, Pick(c)
      PROVE  Follows(activeConns, Counted, activeConns', Counted')
    BY <1>8 DEF Pick, Goto, stopping, TypeOK, Handled, Counted, Follows
<1>9. ASSUME NEW c \in Conns, Register(c)
      PROVE  Follows(activeConns, Counted, activeConns', Counted')
    BY <1>9 DEF Register, Goto, stopping, TypeOK, Handled, Counted, Follows
<1>10. ASSUME NEW c \in Conns, Dial(c)
      PROVE  Follows(activeConns, Counted, activeConns', Counted')
    BY <1>10 DEF Dial, Goto, counters, stopping, TypeOK, Handled, Counted, Follows
<1>11. ASSUME NEW c \in Conns, Inspect(c)
      PROVE  Follows(activeConns, Counted, activeConns', Counted')
    BY <1>11 DEF Inspect, Goto, counters, stopping, TypeOK, Handled, Counted, Follows
<1>12. ASSUME NEW c \in Conns, FirstCopyEnded(c)
      PROVE  Follows(activeConns, Counted, activeConns', Counted')
    BY <1>12 DEF FirstCopyEnded, Goto, counters, stopping, TypeOK, Handled, Counted, Follows
<1>13. ASSUME NEW c \in Conns, CloseBoth(c)
      PROVE  Follows(activeConns, Counted, activeConns', Counted')
    BY <1>13 DEF CloseBoth, Goto, counters, stopping, TypeOK, Handled, Counted, Follows
<1>14. ASSUME NEW c \in Conns, Forget(c)
      PROVE  Follows(activeConns, Counted, activeConns', Counted')
    BY <1>14 DEF Forget, Goto, stopping, TypeOK, Handled, Counted, Follows
<1>15. ASSUME NEW c \in Conns, Release(c)
      PROVE  Follows(activeConns, Counted, activeConns', Counted')
    BY <1>15 DEF Release, Goto, stopping, TypeOK, Handled, Counted, Follows
<1>16. ASSUME NEW c \in Conns, Uncount(c)
      PROVE  Follows(activeConns, Counted, activeConns', Counted')
    <2>1. c \in Counted /\ Counted' = Counted \ {c}
        BY <1>16 DEF Uncount, Goto, TypeOK, Handled, Counted
    <2> QED
        BY <1>16, <2>1 DEF Uncount, Follows
<1>17. ASSUME NEW c \in Conns, Done(c)
      PROVE  Follows(activeConns, Counted, activeConns', Counted')
    BY <1>17 DEF Done, Goto, stopping, TypeOK, Handled, Counted, Follows
<1>18. ASSUME NEW c \in Conns, NEW d \in Directions, CopyEnds(c, d)
      PROVE  Follows(activeConns, Counted, activeConns', Counted')
    BY <1>18 DEF CopyEnds, SetCopier, counters, stopping, TypeOK, Handled, Counted, Follows
<1>19. ASSUME NEW c \in Conns, NEW d \in Directions, WriteFails(c, d)
      PROVE  Follows(activeConns, Counted, activeConns', Counted')
    BY <1>19
       DEF WriteFails, SetCopier, counters, stopping, TypeOK, Handled, Counted, Follows
<1>19a. ASSUME NEW c \in Conns, NEW d \in Directions, WriteStalls(c, d)
      PROVE  Follows(activeConns, Counted, activeConns', Counted')
    BY <1>19a
       DEF WriteStalls, counters, stopping, TypeOK, Handled, Counted, Follows
<1>19b. ASSUME NEW c \in Conns, NEW d \in Directions, PeerReads(c, d)
      PROVE  Follows(activeConns, Counted, activeConns', Counted')
    BY <1>19b
       DEF PeerReads, counters, stopping, TypeOK, Handled, Counted, Follows
<1>20. ASSUME NEW c \in Conns, NEW d \in Directions, RecordBytes(c, d)
      PROVE  Follows(activeConns, Counted, activeConns', Counted')
    BY <1>20
       DEF RecordBytes, SetCopier, counters, stopping, TypeOK, Handled, Counted, Follows
<1>21. ASSUME NEW c \in Conns, NEW d \in Directions, SendErr(c, d)
      PROVE  Follows(activeConns, Counted, activeConns', Counted')
    BY <1>21 DEF SendErr, SetCopier, counters, stopping, TypeOK, Handled, Counted, Follows
<1>22. ASSUME Cancel PROVE Follows(activeConns, Counted, activeConns', Counted')
    BY <1>22 DEF Cancel, handling, counters, TypeOK, Handled, Counted, Follows
<1>23. ASSUME CloseListener PROVE Follows(activeConns, Counted, activeConns', Counted')
    BY <1>23 DEF CloseListener, counters, TypeOK, Handled, Counted, Follows
<1>24. ASSUME Drained PROVE Follows(activeConns, Counted, activeConns', Counted')
    BY <1>24 DEF Drained, handling, counters, TypeOK, Handled, Counted, Follows
<1>25. ASSUME DrainTimeout PROVE Follows(activeConns, Counted, activeConns', Counted')
    BY <1>25 DEF DrainTimeout, handling, counters, TypeOK, Handled, Counted, Follows
<1>26. ASSUME AcceptLoopJoined PROVE Follows(activeConns, Counted, activeConns', Counted')
    BY <1>26 DEF AcceptLoopJoined, handling, counters, TypeOK, Handled, Counted, Follows
<1>27. CASE UNCHANGED vars
    BY <1>27 DEF vars, TypeOK, Handled, Counted, Follows
<1> QED
    BY <1>1, <1>2, <1>3, <1>4, <1>5, <1>6, <1>7, <1>8, <1>9, <1>10, <1>11, <1>12, <1>13,
       <1>14, <1>15, <1>16, <1>17, <1>18, <1>19, <1>19a, <1>19b, <1>20, <1>21, <1>22, <1>23,
       <1>24, <1>25, <1>26, <1>27 DEF Next, AcceptLoop, Handler, Copier, StopStep

\* A target's count follows the connections that hold it.
LEMMA HoldersFollow ==
    ASSUME TypeOK, HandlerInv, LoopInv, [Next]_vars, NEW t \in Targets
    PROVE  Follows(active[t], Holders(t), active'[t], Holders(t)')
<1>1. ASSUME NEW c \in Conns, Connect(c)
      PROVE  Follows(active[t], Holders(t), active'[t], Holders(t)')
    BY <1>1 DEF Connect, Goto, counters, stopping, Holders, Follows, handling
<1>2. ASSUME NEW c \in Conns, NEW s \in Sides, PeerCloses(c, s)
      PROVE  Follows(active[t], Holders(t), active'[t], Holders(t)')
    BY <1>2 DEF PeerCloses, handling, counters, stopping, Holders, Follows
<1>3. ASSUME NEW c \in Conns, Accept(c)
      PROVE  Follows(active[t], Holders(t), active'[t], Holders(t)')
    BY <1>3 DEF Accept, Goto, counters, stopping, Holders, Follows
<1>4. ASSUME AcceptFails PROVE Follows(active[t], Holders(t), active'[t], Holders(t)')
    BY <1>4 DEF AcceptFails, handling, counters, stopping, Holders, Follows
<1>5. ASSUME Retry PROVE Follows(active[t], Holders(t), active'[t], Holders(t)')
    BY <1>5 DEF Retry, handling, counters, stopping, Holders, Follows
<1>6. ASSUME Reject PROVE Follows(active[t], Holders(t), active'[t], Holders(t)')
    BY <1>6 DEF Reject, Goto, counters, stopping, Holders, Follows
<1>7. ASSUME Admit PROVE Follows(active[t], Holders(t), active'[t], Holders(t)')
    BY <1>7 DEF Admit, Goto, stopping, Holders, Follows
<1>8. ASSUME NEW c \in Conns, Pick(c)
      PROVE  Follows(active[t], Holders(t), active'[t], Holders(t)')
    <2>1. target[c] = None /\ c \notin Holders(t)
        BY <1>8, NoneAssumption DEF Pick, TypeOK, HandlerInv, HandlerOK, Holding, Holders
    <2>2. CASE UNCHANGED <<target, active>>
        BY <2>2 DEF Holders, Follows
    <2>3. ASSUME NEW u \in Targets, target' = [target EXCEPT ![c] = u],
                 active' = [active EXCEPT ![u] = @ + 1]
          PROVE  Follows(active[t], Holders(t), active'[t], Holders(t)')
        <3>1. CASE u = t
            <4>1. Holders(t)' = Holders(t) \union {c} /\ active'[t] = active[t] + 1
                BY <2>3, <3>1 DEF Holders, TypeOK
            <4> QED
                BY <2>1, <4>1 DEF Follows
        <3>2. CASE u # t
            BY <2>1, <2>3, <3>2 DEF Holders, TypeOK, Follows
        <3> QED
            BY <3>1, <3>2
    <2> QED
        BY <1>8, <2>2, <2>3 DEF Pick
<1>9. ASSUME NEW c \in Conns, Register(c)
      PROVE  Follows(active[t], Holders(t), active'[t], Holders(t)')
    BY <1>9 DEF Register, Goto, stopping, Holders, Follows
<1>10. ASSUME NEW c \in Conns, Dial(c)
      PROVE  Follows(active[t], Holders(t), active'[t], Holders(t)')
    BY <1>10 DEF Dial, Goto, counters, stopping, Holders, Follows
<1>11. ASSUME NEW c \in Conns, Inspect(c)
      PROVE  Follows(active[t], Holders(t), active'[t], Holders(t)')
    BY <1>11 DEF Inspect, Goto, counters, stopping, Holders, Follows
<1>12. ASSUME NEW c \in Conns, FirstCopyEnded(c)
      PROVE  Follows(active[t], Holders(t), active'[t], Holders(t)')
    BY <1>12 DEF FirstCopyEnded, Goto, counters, stopping, Holders, Follows
<1>13. ASSUME NEW c \in Conns, CloseBoth(c)
      PROVE  Follows(active[t], Holders(t), active'[t], Holders(t)')
    BY <1>13 DEF CloseBoth, Goto, counters, stopping, Holders, Follows
<1>14. ASSUME NEW c \in Conns, Forget(c)
      PROVE  Follows(active[t], Holders(t), active'[t], Holders(t)')
    BY <1>14 DEF Forget, Goto, stopping, Holders, Follows
<1>15. ASSUME NEW c \in Conns, Release(c)
      PROVE  Follows(active[t], Holders(t), active'[t], Holders(t)')
    <2>1. c \in Holders(target[c]) /\ target[c] \in Targets
        BY <1>15 DEF Release, TypeOK, HandlerInv, HandlerOK, Holding, Holders
    <2>2. CASE target[c] = t
        <3>1. Holders(t)' = Holders(t) \ {c} /\ active'[t] = active[t] - 1
            BY <1>15, <2>2, NoneAssumption DEF Release, Holders, TypeOK
        <3> QED
            BY <2>1, <2>2, <3>1 DEF Follows
    <2>3. CASE target[c] # t
        <3>1. Holders(t)' = Holders(t) /\ active'[t] = active[t]
            BY <1>15, <2>1, <2>3, NoneAssumption DEF Release, Holders, TypeOK
        <3> QED
            BY <3>1 DEF Follows
    <2> QED
        BY <2>2, <2>3
<1>16. ASSUME NEW c \in Conns, Uncount(c)
      PROVE  Follows(active[t], Holders(t), active'[t], Holders(t)')
    BY <1>16 DEF Uncount, Goto, stopping, Holders, Follows
<1>17. ASSUME NEW c \in Conns, Done(c)
      PROVE  Follows(active[t], Holders(t), active'[t], Holders(t)')
    BY <1>17 DEF Done, Goto, stopping, Holders, Follows
<1>18. ASSUME NEW c \in Conns, NEW d \in Directions, CopyEnds(c, d)
      PROVE  Follows(active[t], Holders(t), active'[t], Holders(t)')
    BY <1>18 DEF CopyEnds, SetCopier, counters, stopping, Holders, Follows
<1>19. ASSUME NEW c \in Conns, NEW d \in Directions, WriteFails(c, d)
      PROVE  Follows(active[t], Holders(t), active'[t], Holders(t)')
    BY <1>19 DEF WriteFails, SetCopier, counters, stopping, Holders, Follows
<1>19a. ASSUME NEW c \in Conns, NEW d \in Directions, WriteStalls(c, d)
      PROVE  Follows(active[t], Holders(t), active'[t], Holders(t)')
    BY <1>19a DEF WriteStalls, counters, stopping, Holders, Follows
<1>19b. ASSUME NEW c \in Conns, NEW d \in Directions, PeerReads(c, d)
      PROVE  Follows(active[t], Holders(t), active'[t], Holders(t)')
    BY <1>19b DEF PeerReads, counters, stopping, Holders, Follows
<1>20. ASSUME NEW c \in Conns, NEW d \in Directions, RecordBytes(c, d)
      PROVE  Follows(active[t], Holders(t), active'[t], Holders(t)')
    BY <1>20 DEF RecordBytes, SetCopier, counters, stopping, Holders, Follows
<1>21. ASSUME NEW c \in Conns, NEW d \in Directions, SendErr(c, d)
      PROVE  Follows(active[t], Holders(t), active'[t], Holders(t)')
    BY <1>21 DEF SendErr, SetCopier, counters, stopping, Holders, Follows
<1>22. ASSUME Cancel PROVE Follows(active[t], Holders(t), active'[t], Holders(t)')
    BY <1>22 DEF Cancel, handling, counters, Holders, Follows
<1>23. ASSUME CloseListener PROVE Follows(active[t], Holders(t), active'[t], Holders(t)')
    BY <1>23 DEF CloseListener, counters, Holders, Follows
<1>24. ASSUME Drained PROVE Follows(active[t], Holders(t), active'[t], Holders(t)')
    BY <1>24 DEF Drained, handling, counters, Holders, Follows
<1>25. ASSUME DrainTimeout PROVE Follows(active[t], Holders(t), active'[t], Holders(t)')
    BY <1>25 DEF DrainTimeout, handling, counters, Holders, Follows
<1>26. ASSUME AcceptLoopJoined PROVE Follows(active[t], Holders(t), active'[t], Holders(t)')
    BY <1>26 DEF AcceptLoopJoined, handling, counters, Holders, Follows
<1>27. CASE UNCHANGED vars
    BY <1>27 DEF vars, Holders, Follows
<1> QED
    BY <1>1, <1>2, <1>3, <1>4, <1>5, <1>6, <1>7, <1>8, <1>9, <1>10, <1>11, <1>12, <1>13,
       <1>14, <1>15, <1>16, <1>17, <1>18, <1>19, <1>19a, <1>19b, <1>20, <1>21, <1>22, <1>23,
       <1>24, <1>25, <1>26, <1>27 DEF Next, AcceptLoop, Handler, Copier, StopStep

\* Every step keeps the counters exact.
LEMMA CountStep ==
    ASSUME TypeOK, HandlerInv, LoopInv, CountInv, [Next]_vars
    PROVE  CountInv'
<1>1. Counts(wg, Handled)'
    BY HandledFollows, FollowingCounts DEF CountInv
<1>2. Counts(activeConns, Counted)'
    BY CountedFollows, FollowingCounts DEF CountInv
<1>3. ASSUME NEW t \in Targets PROVE Counts(active[t], Holders(t))'
    BY HoldersFollow, FollowingCounts DEF CountInv
<1> QED
    BY <1>1, <1>2, <1>3 DEF CountInv

\* A listener starts with everything idle.
LEMMA InitInv ==
    ASSUME Init
    PROVE  IInv
<1>1. TypeOK
    <2>1. [d \in Directions |-> "none"]
             \in [Directions -> CopierStates]
        BY DEF CopierStates
    <2>2. copier \in [Conns -> [Directions -> CopierStates]]
        BY <2>1 DEF Init
    <2>3. open \in [Conns -> SUBSET Sides] /\ eof \in [Conns -> SUBSET Sides]
        BY DEF Init
    <2>4. pc \in [Conns -> Handlers] /\ target \in [Conns -> Targets \union {None}]
        BY DEF Init, Handlers
    <2>5. errCh \in [Conns -> 0 .. 2] /\ active \in [Targets -> Nat]
        BY DEF Init
    <2> QED
        BY <2>2, <2>3, <2>4, <2>5 DEF Init, TypeOK
<1>2. HandlerInv /\ LoopInv
    BY NoneAssumption DEF Init, HandlerInv, HandlerOK, Holding, LoopInv
<1>3. CopierInv
    BY DEF Init, CopierInv, CopiersOK, Fresh
<1>4. StopInv
    BY DEF Init, StopInv
<1>5. CountInv
    <2>1. Handled = {} /\ Counted = {}
        BY DEF Init, Handled, Counted
    <2>2. ASSUME NEW t \in Targets PROVE Holders(t) = {} /\ active[t] = 0
        BY NoneAssumption DEF Init, Holders
    <2>3. Counts(0, {})
        BY FS_EmptySet DEF Counts
    <2> QED
        BY <2>1, <2>2, <2>3 DEF Init, CountInv
<1> QED
    BY <1>1, <1>2, <1>3, <1>4, <1>5 DEF IInv

\* The inductive invariant holds in every reachable state.
LEMMA Inductive == Spec => []IInv
<1>1. Init => IInv
    BY InitInv
<1>2. IInv /\ [Next]_vars => IInv'
    BY TypeStep, HandlerStep, CopierStep, LoopStep, StopStepInv, CountStep DEF IInv
<1> QED
    BY <1>1, <1>2, PTL DEF Spec

-----------------------------------------------------------------------------
(* The theorems *)

\* Every reachable state of a listener is type-correct, whatever its connections
\* do: no counter of the balancer, the drainer or the listener goes below zero.
THEOREM TypeCorrect == Spec => []TypeOK
<1>1. IInv => TypeOK
    BY DEF IInv
<1> QED
    BY <1>1, Inductive, PTL

\* On every path through handleConn, however handlers, copiers, accept loop and
\* Stop interleave, each counter and the tracker is given back exactly once.
THEOREM AccountingHolds == Spec => []Accounting
<1>1. ASSUME IInv PROVE Accounting
    <2>1. /\ \A t \in Targets : active[t] = Cardinality({c \in Conns : target[c] = t})
          /\ wg = Cardinality(Handled)
          /\ activeConns = Cardinality({c \in Handled : pc[c] # "undo"})
        BY <1>1 DEF IInv, CountInv, Counts, Holders, Counted
    <2>2. \A c \in Conns : target[c] # None <=>
              pc[c] \in {"register", "dial", "inspect", "copy", "close", "forget", "release"}
        BY <1>1 DEF IInv, HandlerInv, HandlerOK, Holding
    <2>3. tracked = {c \in Conns : pc[c] \in {"dial", "inspect", "copy", "close", "forget"}}
        BY <1>1 DEF IInv, TypeOK, HandlerInv, HandlerOK
    <2>4. \A c \in Conns : pc[c] \in {"uncount", "undo", "gone"} => open[c] = {}
        BY <1>1 DEF IInv, HandlerInv, HandlerOK
    <2> QED
        BY <2>1, <2>2, <2>3, <2>4 DEF Accounting
<1> QED
    BY <1>1, Inductive, PTL

\* A handler that is past its copy has the bytes of one direction recorded.
THEOREM OneDirection == Spec => []OneDirectionRecorded
<1>1. IInv => OneDirectionRecorded
    BY DEF IInv, CopierInv, CopiersOK, Fresh, OneDirectionRecorded, Directions
<1> QED
    BY <1>1, Inductive, PTL

-----------------------------------------------------------------------------
(* The refinement of Listener: every step is a step of it or a stutter *)

Simulated == [Implemented!ListenerNext]_(Implemented!listenerVars)

\* Every step is a step of Listener, or leaves what it shows alone.
LEMMA SimulationStep ==
    ASSUME IInv, [Next]_vars
    PROVE  Simulated
<1> USE DEF IInv
<1>1. ASSUME NEW c \in Conns, Connect(c) PROVE Simulated
    BY <1>1
       DEF Connect, Goto, counters, stopping, Simulated, Implemented!listenerVars, Phase,
           Forwarding, TypeOK, handling
<1>2. ASSUME NEW c \in Conns, NEW s \in Sides, PeerCloses(c, s) PROVE Simulated
    BY <1>2
       DEF PeerCloses, handling, counters, stopping, Simulated, Implemented!listenerVars,
           Phase, Forwarding, TypeOK
<1>3. ASSUME NEW c \in Conns, Accept(c) PROVE Simulated
    BY <1>3
       DEF Accept, Goto, counters, stopping, Simulated, Implemented!listenerVars, Phase,
           Forwarding, TypeOK
<1>4. ASSUME AcceptFails PROVE Simulated
    BY <1>4
       DEF AcceptFails, handling, counters, stopping, Simulated, Implemented!listenerVars,
           Phase, Forwarding, TypeOK
<1>5. ASSUME Retry PROVE Simulated
    BY <1>5
       DEF Retry, handling, counters, stopping, Simulated, Implemented!listenerVars, Phase,
           Forwarding, TypeOK
<1>6. ASSUME Reject PROVE Simulated
    BY <1>6, NoneAssumption
       DEF Reject, Goto, counters, stopping, Simulated, Implemented!listenerVars, Phase,
           Forwarding, TypeOK, LoopInv, HandlerInv, HandlerOK
<1>7. ASSUME Admit PROVE Simulated
    BY <1>7, NoneAssumption
       DEF Admit, Goto, stopping, Simulated, Implemented!listenerVars, Phase, Forwarding,
           TypeOK, LoopInv, HandlerInv, HandlerOK
<1>8. ASSUME NEW c \in Conns, Pick(c) PROVE Simulated
    <2>1. Forwarding' = Forwarding /\ Phase' = Phase
        BY <1>8 DEF Pick, Goto, stopping, Forwarding, Phase, TypeOK
    <2>2. CASE UNCHANGED <<target, active>>
        BY <1>8, <2>1, <2>2 DEF Pick, stopping, Simulated, Implemented!listenerVars
    <2>3. ASSUME NEW t \in Targets, target' = [target EXCEPT ![c] = t],
                 active' = [active EXCEPT ![t] = @ + 1]
          PROVE  Implemented!Take(c, t)
        <3>1. target[c] = None
            BY <1>8 DEF Pick, HandlerInv, HandlerOK, Holding
        <3> QED
            BY <1>8, <2>1, <2>3, <3>1 DEF Pick, stopping, Implemented!Take
    <2> QED
        BY <1>8, <2>2, <2>3 DEF Pick, Simulated, Implemented!ListenerNext
<1>9. ASSUME NEW c \in Conns, Register(c) PROVE Simulated
    BY <1>9
       DEF Register, Goto, stopping, Simulated, Implemented!listenerVars, Phase, Forwarding,
           TypeOK
<1>10. ASSUME NEW c \in Conns, Dial(c) PROVE Simulated
    <2>1. CASE Goto(c, "forget")
        <3>1. Forwarding' = Forwarding
            BY <1>10, <2>1 DEF Dial, Goto, Forwarding, TypeOK
        <3> QED
            BY <1>10, <3>1
               DEF Dial, counters, stopping, Simulated, Implemented!listenerVars, Phase
    <2>2. CASE ~ cancelled /\ Goto(c, IF Inspecting THEN "inspect" ELSE "copy")
        <3>1. Forwarding' = Forwarding \union {c} /\ c \notin Forwarding
            BY <1>10, <2>2 DEF Dial, Goto, Forwarding, TypeOK
        <3>2. Phase = "open" /\ Phase' = Phase
            BY <1>10, <2>2 DEF Dial, stopping, StopInv, Phase
        <3>3. target[c] # None
            BY <1>10 DEF Dial, HandlerInv, HandlerOK, Holding
        <3>4. Implemented!Serve(c)
            BY <1>10, <3>1, <3>2, <3>3 DEF Dial, counters, stopping, Implemented!Serve
        <3> QED
            BY <3>4 DEF Simulated, Implemented!ListenerNext
    <2> QED
        BY <1>10, <2>1, <2>2 DEF Dial
<1>11. ASSUME NEW c \in Conns, Inspect(c) PROVE Simulated
    <2>1. CASE Goto(c, "forget")
        <3>1. Forwarding' = Forwarding \ {c} /\ c \in Forwarding
            BY <1>11, <2>1 DEF Inspect, Goto, Forwarding, TypeOK
        <3>2. Implemented!Cease(c)
            BY <1>11, <3>1 DEF Inspect, counters, stopping, Implemented!Cease, Phase
        <3> QED
            BY <3>2 DEF Simulated, Implemented!ListenerNext
    <2>2. CASE Goto(c, "copy")
        <3>1. Forwarding' = Forwarding
            BY <1>11, <2>2 DEF Inspect, Goto, Forwarding, TypeOK
        <3> QED
            BY <1>11, <3>1
               DEF Inspect, counters, stopping, Simulated, Implemented!listenerVars, Phase
    <2> QED
        BY <1>11, <2>1, <2>2 DEF Inspect
<1>12. ASSUME NEW c \in Conns, FirstCopyEnded(c) PROVE Simulated
    <2>1. Forwarding' = Forwarding \ {c} /\ c \in Forwarding
        BY <1>12 DEF FirstCopyEnded, Goto, Forwarding, TypeOK
    <2>2. Implemented!Cease(c)
        BY <1>12, <2>1 DEF FirstCopyEnded, counters, stopping, Implemented!Cease, Phase
    <2> QED
        BY <2>2 DEF Simulated, Implemented!ListenerNext
<1>13. ASSUME NEW c \in Conns, CloseBoth(c) PROVE Simulated
    BY <1>13
       DEF CloseBoth, Goto, counters, stopping, Simulated, Implemented!listenerVars, Phase,
           Forwarding, TypeOK
<1>14. ASSUME NEW c \in Conns, Forget(c) PROVE Simulated
    BY <1>14
       DEF Forget, Goto, stopping, Simulated, Implemented!listenerVars, Phase, Forwarding,
           TypeOK
<1>15. ASSUME NEW c \in Conns, Release(c) PROVE Simulated
    <2>1. Forwarding' = Forwarding /\ Phase' = Phase /\ c \notin Forwarding
        BY <1>15 DEF Release, Goto, stopping, Forwarding, Phase, TypeOK
    <2>2. target[c] # None
        BY <1>15 DEF Release, HandlerInv, HandlerOK, Holding
    <2>3. Implemented!Give(c)
        BY <1>15, <2>1, <2>2 DEF Release, stopping, Implemented!Give
    <2> QED
        BY <2>3 DEF Simulated, Implemented!ListenerNext
<1>16. ASSUME NEW c \in Conns, Uncount(c) PROVE Simulated
    BY <1>16
       DEF Uncount, Goto, stopping, Simulated, Implemented!listenerVars, Phase, Forwarding,
           TypeOK
<1>17. ASSUME NEW c \in Conns, Done(c) PROVE Simulated
    BY <1>17
       DEF Done, Goto, stopping, Simulated, Implemented!listenerVars, Phase, Forwarding,
           TypeOK
<1>18. ASSUME NEW c \in Conns, NEW d \in Directions, CopyEnds(c, d) PROVE Simulated
    BY <1>18
       DEF CopyEnds, SetCopier, counters, stopping, Simulated, Implemented!listenerVars,
           Phase, Forwarding, TypeOK
<1>19. ASSUME NEW c \in Conns, NEW d \in Directions, WriteFails(c, d) PROVE Simulated
    BY <1>19
       DEF WriteFails, SetCopier, counters, stopping, Simulated, Implemented!listenerVars,
           Phase, Forwarding, TypeOK
<1>19a. ASSUME NEW c \in Conns, NEW d \in Directions, WriteStalls(c, d) PROVE Simulated
    BY <1>19a
       DEF WriteStalls, counters, stopping, Simulated, Implemented!listenerVars,
           Phase, Forwarding, TypeOK
<1>19b. ASSUME NEW c \in Conns, NEW d \in Directions, PeerReads(c, d) PROVE Simulated
    BY <1>19b
       DEF PeerReads, counters, stopping, Simulated, Implemented!listenerVars,
           Phase, Forwarding, TypeOK
<1>20. ASSUME NEW c \in Conns, NEW d \in Directions, RecordBytes(c, d) PROVE Simulated
    BY <1>20
       DEF RecordBytes, SetCopier, counters, stopping, Simulated, Implemented!listenerVars,
           Phase, Forwarding, TypeOK
<1>21. ASSUME NEW c \in Conns, NEW d \in Directions, SendErr(c, d) PROVE Simulated
    BY <1>21
       DEF SendErr, SetCopier, counters, stopping, Simulated, Implemented!listenerVars,
           Phase, Forwarding, TypeOK
<1>22. ASSUME Cancel PROVE Simulated
    <2>1. Implemented!StopBegins
        BY <1>22 DEF Cancel, StopInv, TypeOK, handling, counters, Implemented!StopBegins, Phase, Forwarding
    <2> QED
        BY <2>1 DEF Simulated, Implemented!ListenerNext
<1>23. ASSUME CloseListener PROVE Simulated
    BY <1>23
       DEF CloseListener, counters, Simulated, Implemented!listenerVars, Phase, Forwarding,
           TypeOK
<1>24. ASSUME Drained PROVE Simulated
    BY <1>24
       DEF Drained, handling, counters, Simulated, Implemented!listenerVars, Phase,
           Forwarding, TypeOK
<1>25. ASSUME DrainTimeout PROVE Simulated
    <2>1. Implemented!GiveUp
        BY <1>25 DEF DrainTimeout, StopInv, TypeOK, handling, counters, Implemented!GiveUp, Phase, Forwarding
    <2> QED
        BY <2>1 DEF Simulated, Implemented!ListenerNext
<1>26. ASSUME AcceptLoopJoined PROVE Simulated
    <2>1. Implemented!StopEnds
        BY <1>26 DEF AcceptLoopJoined, StopInv, TypeOK, handling, counters, Implemented!StopEnds, Phase, Forwarding
    <2> QED
        BY <2>1 DEF Simulated, Implemented!ListenerNext
<1>27. CASE UNCHANGED vars
    BY <1>27 DEF vars, Simulated, Implemented!listenerVars, Phase, Forwarding, TypeOK
<1> QED
    BY <1>1, <1>2, <1>3, <1>4, <1>5, <1>6, <1>7, <1>8, <1>9, <1>10, <1>11, <1>12, <1>13,
       <1>14, <1>15, <1>16, <1>17, <1>18, <1>19, <1>19a, <1>19b, <1>20, <1>21, <1>22, <1>23,
       <1>24, <1>25, <1>26, <1>27 DEF Next, AcceptLoop, Handler, Copier, StopStep

\* Whatever connections and peers do, a listener is one as the instance and the
\* balancer expect it: it holds a target from pick to release, serves nobody new
\* once Stop has been called (handleConn dials with the accept context), and a
\* Stop that did not give up leaves nobody served.
THEOREM ImplementsListenerSafety == Spec => Implemented!ListenerSafety
<1>1. Init => Implemented!ListenerInit
    BY DEF Init, Implemented!ListenerInit, Phase, Forwarding
<1>2. IInv /\ [Next]_vars => [Implemented!ListenerNext]_(Implemented!listenerVars)
    BY SimulationStep DEF Simulated
<1> QED
    BY <1>1, <1>2, Inductive, PTL DEF Spec, Implemented!ListenerSafety
=============================================================================
