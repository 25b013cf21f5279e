--------------------------- MODULE StreamMuxProofs ---------------------------
(***************************************************************************)
(* Theorems about StreamMux, for any set of stream ids and any capacities. *)
(***************************************************************************)
EXTENDS StreamMux, SequenceTheorems, TLAPS

\* The loop holds one frame, of a registered stream, while it delivers, and a
\* batch while it writes.
LoopHolds ==
  \A s \in Sides :
    /\ loop[s] = "send" => cur[s] # <<>> /\ cur[s][1].id \in entry[s]
    /\ loop[s] = "write" => batch[s] # <<>>

\* A FIN was queued only with the closed flag set.
FinFlag == \A s \in Sides, i \in Ids :
  fins[s][i] <= 1 /\ (i \notin closed[s] => fins[s][i] = 0)

\* EndExplained, for the streams still to be opened or accepted as well.
Running(s) == loop[s] \in {"select", "send", "write"}
Forgotten(s, i) == handle[s][i] \in {"inserted", "queued", "open"} /\ i \notin entry[s]
Explained(s, i) ==
  \/ s = "host" /\ i \in reset[s]
  \/ inq[s][i] # <<>> /\ Terminal(inq[s][i][Len(inq[s][i])])
Endings ==
  \A s \in Sides, i \in Ids : Running(s) /\ Forgotten(s, i) => Explained(s, i)

\* No channel holds more than its capacity.
Capacity ==
  \A s \in Sides :
    /\ Len(outq[s]) <= OutCap /\ Len(wire[s]) <= WireCap
    /\ \A i \in Ids : Len(inq[s][i]) <= InCap

MuxInv == Types /\ Capacity /\ LoopHolds /\ FinFlag /\ Endings

\* The initial states have the right types.
LEMMA MuxInit == Init => MuxInv
  BY CapAssumption DEF Init, MuxInv, Types, Capacity, LoopHolds, FinFlag, Endings,
     Forgotten, Sides, Holding, Frame

\* A frame that is queued on the outgoing channel keeps its type, and the
\* count of FINs grows by at most the one queued.
LEMMA SendTypes ==
  ASSUME Types, NEW s \in Sides, NEW i \in Ids, NEW kind \in Kinds,
         Send(s, i, kind) \/ TrySend(s, i, kind)
  PROVE  /\ outq' \in [Sides -> Seq(Frame)]
         /\ queued' \in [Sides -> [Ids -> Nat]]
         /\ fins' \in [Sides -> [Ids -> Nat]]
         /\ \A t \in Sides, j \in Ids :
              fins'[t][j] = fins[t][j] \/ (t = s /\ j = i /\ kind = "fin" /\ fins'[t][j] = fins[t][j] + 1)
<1> USE DEF Types
<1>1. CASE Enqueue(s, i, kind)
  <2>1. [id |-> i, kind |-> kind, n |-> queued[s][i] + 1] \in Frame
    BY DEF Frame
  <2>2. outq' \in [Sides -> Seq(Frame)]
    <3>1. Append(outq[s], [id |-> i, kind |-> kind, n |-> queued[s][i] + 1]) \in Seq(Frame)
      BY <2>1
    <3> QED
      BY <1>1, <3>1 DEF Enqueue
  <2>3. queued' \in [Sides -> [Ids -> Nat]]
    BY <1>1 DEF Enqueue
  <2>4. fins' \in [Sides -> [Ids -> Nat]]
    BY <1>1 DEF Enqueue
  <2>5. \A t \in Sides, j \in Ids :
          fins'[t][j] = fins[t][j] \/ (t = s /\ j = i /\ kind = "fin" /\ fins'[t][j] = fins[t][j] + 1)
    BY <1>1 DEF Enqueue
  <2> QED
    BY <2>2, <2>3, <2>4, <2>5
<1>2. CASE UNCHANGED <<outq, queued, fins>>
  BY <1>2
<1> QED
  BY <1>1, <1>2 DEF Send, TrySend

\* The head of a nonempty sequence and what follows it keep their types.
LEMMA HeadTail ==
  ASSUME NEW S, NEW q \in Seq(S), q # <<>>
  PROVE  /\ Head(q) \in S /\ Tail(q) \in Seq(S)
         /\ Len(Tail(q)) = Len(q) - 1 /\ Len(q) \in Nat \ {0} /\ q[1] = Head(q)
         /\ Len(q) # 1 => Tail(q) # <<>> /\ Tail(q)[Len(Tail(q))] = q[Len(q)]
<1>1. Head(q) \in S /\ Tail(q) \in Seq(S)
  OBVIOUS
<1>2. Len(Tail(q)) = Len(q) - 1 /\ Len(q) \in Nat \ {0} /\ q[1] = Head(q)
  OBVIOUS
<1>3. ASSUME Len(q) # 1
      PROVE  Tail(q) # <<>> /\ Tail(q)[Len(Tail(q))] = q[Len(q)]
  <2>1. Len(Tail(q)) # 0 /\ Len(Tail(q)) \in 1 .. Len(q) - 1
    BY <1>2, <1>3
  <2>2. \A k \in 1 .. Len(q) - 1 : Tail(q)[k] = q[k + 1]
    OBVIOUS
  <2> QED
    BY <1>2, <2>1, <2>2
<1> QED
  BY <1>1, <1>2, <1>3

\* A frame taken from the wire is a frame, and leaves the wire well typed.
LEMMA ReceiveTypes ==
  ASSUME Types, NEW s \in Sides, Receive(s)
  PROVE  /\ Arrived(s) \in Frame /\ Arrived(s).id \in Ids
         /\ wire' \in [Sides -> Seq(Frame)]
<1>1. Peer(s) \in Sides
  BY DEF Peer, Sides
<1>2. wire[Peer(s)] \in Seq(Frame) /\ wire[Peer(s)] # <<>>
  BY <1>1 DEF Types, Receive
<1>3. Arrived(s) \in Frame /\ Tail(wire[Peer(s)]) \in Seq(Frame)
  BY <1>2, HeadTail DEF Arrived
<1> QED
  BY <1>1, <1>3 DEF Receive, Types, Frame

\* Every step keeps the types.
LEMMA TypeStep ==
  ASSUME MuxInv, [Next]_vars
  PROVE  Types'
<1> USE DEF MuxInv, Types, Holding
<1>0. CASE UNCHANGED vars
  BY <1>0 DEF vars, chans, io, hist
<1>1. ASSUME NEW s \in Sides, TakeId(s)
      PROVE  Types'
  BY <1>1, SMTT(30) DEF TakeId, chans, io, hist
<1>2. ASSUME NEW s \in Sides, NEW i \in Ids, Insert(s, i)
      PROVE  Types'
  BY <1>2 DEF Insert, chans, io, hist
<1>3. ASSUME NEW s \in Sides, NEW i \in Ids, SendOpen(s, i)
      PROVE  Types'
  <2>1. outq' \in [Sides -> Seq(Frame)] /\ queued' \in [Sides -> [Ids -> Nat]]
        /\ fins' \in [Sides -> [Ids -> Nat]]
    BY <1>3, SendTypes DEF SendOpen, Kinds
  <2> QED
    BY <1>3, <2>1 DEF SendOpen, io, hist
<1>4. ASSUME NEW s \in Sides, NEW i \in Ids, Accept(s, i)
      PROVE  Types'
  BY <1>4 DEF Accept, chans, io, hist
<1>5. ASSUME NEW s \in Sides, NEW i \in Ids, Write(s, i)
      PROVE  Types'
  <2>1. outq' \in [Sides -> Seq(Frame)] /\ queued' \in [Sides -> [Ids -> Nat]]
        /\ fins' \in [Sides -> [Ids -> Nat]]
    BY <1>5, SendTypes DEF Write, Kinds
  <2> QED
    BY <1>5, <2>1 DEF Write, io, hist
<1>6. ASSUME NEW s \in Sides, NEW i \in Ids, Read(s, i)
      PROVE  Types'
  <2>1. Head(inq[s][i]) \in Frame /\ Tail(inq[s][i]) \in Seq(Frame)
    BY <1>6, HeadTail DEF Read
  <2>2. inq' \in [Sides -> [Ids -> Seq(Frame)]] /\ got' \in [Sides -> [Ids -> Nat]]
    BY <1>6, <2>1 DEF Read, Frame
  <2> QED
    BY <1>6, <2>2 DEF Read, io, hist
<1>7. ASSUME NEW s \in Sides, NEW i \in Ids, ReadNone(s, i)
      PROVE  Types'
  BY <1>7 DEF ReadNone, chans, io, hist
<1>8. ASSUME NEW s \in Sides, NEW i \in Ids, Close(s, i)
      PROVE  Types'
  <2>1. outq' \in [Sides -> Seq(Frame)] /\ queued' \in [Sides -> [Ids -> Nat]]
        /\ fins' \in [Sides -> [Ids -> Nat]]
    BY <1>8, SendTypes DEF Close, Kinds
  <2>2. closed' \in [Sides -> SUBSET Ids]
    BY <1>8 DEF Close
  <2> QED
    BY <1>8, <2>1, <2>2 DEF Close, io
<1>9. ASSUME NEW s \in Sides, NEW i \in Ids, Drop(s, i)
      PROVE  Types'
  <2>1. outq' \in [Sides -> Seq(Frame)] /\ queued' \in [Sides -> [Ids -> Nat]]
        /\ fins' \in [Sides -> [Ids -> Nat]]
    <3>1. CASE TrySend(s, i, "fin")
      BY <3>1, SendTypes DEF Kinds
    <3>2. CASE UNCHANGED <<outq, queued, fins>>
      BY <3>2
    <3> QED
      BY <1>9, <3>1, <3>2 DEF Drop
  <2>2. inq' \in [Sides -> [Ids -> Seq(Frame)]]
    BY <1>9 DEF Drop
  <2>3. closed' \in [Sides -> SUBSET Ids]
    BY <1>9 DEF Drop
  <2>4. handle' \in [Sides -> [Ids -> {"none", "new", "failed", "dropped", "refused"} \cup Holding]]
    BY <1>9 DEF Drop
  <2> QED
    BY <1>9, <2>1, <2>2, <2>3, <2>4 DEF Drop, io
<1>10. ASSUME NEW s \in Sides, ReceiveKnown(s)
      PROVE  Types'
  <2>1. Arrived(s) \in Frame /\ Arrived(s).id \in Ids /\ wire' \in [Sides -> Seq(Frame)]
    BY <1>10, ReceiveTypes DEF ReceiveKnown
  <2>2. <<Arrived(s)>> \in Seq(Frame)
    BY <2>1
  <2>3. /\ loop' \in [Sides -> {"select", "send", "write", "exit", "cleared", "exited"}]
        /\ cur' \in [Sides -> Seq(Frame)]
    BY <1>10, <2>2 DEF ReceiveKnown
  <2> QED
    BY <1>10, <2>1, <2>3 DEF ReceiveKnown, hist
<1>11. ASSUME NEW s \in Sides, ReceiveOpen(s)
      PROVE  Types'
  <2>1. Arrived(s) \in Frame /\ Arrived(s).id \in Ids /\ wire' \in [Sides -> Seq(Frame)]
    BY <1>11, ReceiveTypes DEF ReceiveOpen
  <2>2. <<Arrived(s)>> \in Seq(Frame)
    BY <2>1
  <2>3. entry' \in [Sides -> SUBSET Ids]
    BY <1>11, <2>1 DEF ReceiveOpen
  <2>4. handle' \in [Sides -> [Ids -> {"none", "new", "failed", "dropped", "refused"} \cup Holding]]
    BY <1>11, <2>1 DEF ReceiveOpen
  <2>5. inq' \in [Sides -> [Ids -> Seq(Frame)]]
    BY <1>11, <2>1, <2>2 DEF ReceiveOpen
  <2> QED
    BY <1>11, <2>1, <2>3, <2>4, <2>5 DEF ReceiveOpen, io, hist
<1>12. ASSUME NEW s \in Sides, ReceiveRefuse(s)
      PROVE  Types'
  <2>1. Arrived(s) \in Frame /\ Arrived(s).id \in Ids /\ wire' \in [Sides -> Seq(Frame)]
    BY <1>12, ReceiveTypes DEF ReceiveRefuse
  <2>2. outq' \in [Sides -> Seq(Frame)] /\ queued' \in [Sides -> [Ids -> Nat]]
        /\ fins' \in [Sides -> [Ids -> Nat]]
    BY <1>12, <2>1, SendTypes DEF ReceiveRefuse, Kinds
  <2>3. handle' \in [Sides -> [Ids -> {"none", "new", "failed", "dropped", "refused"} \cup Holding]]
    BY <1>12, <2>1 DEF ReceiveRefuse
  <2>4. closed' \in [Sides -> SUBSET Ids]
    BY <1>12, <2>1 DEF ReceiveRefuse
  <2> QED
    BY <1>12, <2>1, <2>2, <2>3, <2>4 DEF ReceiveRefuse, io
<1>13. ASSUME NEW s \in Sides, ReceiveUnknown(s)
      PROVE  Types'
  <2>1. Arrived(s) \in Frame /\ Arrived(s).id \in Ids /\ wire' \in [Sides -> Seq(Frame)]
    BY <1>13, ReceiveTypes DEF ReceiveUnknown
  <2>2. <<Arrived(s)>> \in Seq(Frame)
    BY <2>1
  <2> QED
    BY <1>13, <2>1, <2>2 DEF ReceiveUnknown, Receive, io, hist
<1>14. ASSUME NEW s \in Sides, NEW i \in Ids, Deliver(s, i)
      PROVE  Types'
  <2>1. cur[s][1] \in Frame
    BY <1>14 DEF Deliver, Delivering, LoopHolds
  <2>2. Append(inq[s][i], cur[s][1]) \in Seq(Frame)
    BY <2>1
  <2>3. inq' \in [Sides -> [Ids -> Seq(Frame)]]
    BY <1>14, <2>2 DEF Deliver
  <2> QED
    BY <1>14, <2>3 DEF Deliver, BackToSelect, hist
<1>15. ASSUME NEW s \in Sides, NEW i \in Ids, DeliverDead(s, i)
      PROVE  Types'
  BY <1>15 DEF DeliverDead, BackToSelect, chans, hist
<1>16. ASSUME NEW s \in Sides, NEW i \in Ids, DeliverTimeout(s, i)
      PROVE  Types'
  <2>1. outq' \in [Sides -> Seq(Frame)] /\ queued' \in [Sides -> [Ids -> Nat]]
        /\ fins' \in [Sides -> [Ids -> Nat]]
    BY <1>16, SendTypes DEF DeliverTimeout, Kinds
  <2>2. loop' \in [Sides -> {"select", "send", "write", "exit", "cleared", "exited"}]
        /\ cur' \in [Sides -> Seq(Frame)]
    BY <1>16 DEF DeliverTimeout, BackToSelect
  <2>3. entry' \in [Sides -> SUBSET Ids] /\ reset' \in [Sides -> SUBSET Ids]
    BY <1>16 DEF DeliverTimeout
  <2> QED
    BY <1>16, <2>1, <2>2, <2>3 DEF DeliverTimeout
<1>17. ASSUME NEW s \in Sides, NEW k \in 1 .. OutCap, Drain(s, k)
      PROVE  Types'
  <2>1. SubSeq(outq[s], 1, k) \in Seq(Frame) /\ SubSeq(outq[s], k + 1, Len(outq[s])) \in Seq(Frame)
    BY <1>17, CapAssumption DEF Drain
  <2> QED
    BY <1>17, <2>1 DEF Drain, hist
<1>18. ASSUME NEW s \in Sides, WriteSome(s)
      PROVE  Types'
  <2>1. Head(batch[s]) \in Frame /\ Tail(batch[s]) \in Seq(Frame)
    BY <1>18, HeadTail DEF WriteSome, LoopHolds
  <2>2. Append(wire[s], Head(batch[s])) \in Seq(Frame)
    BY <2>1
  <2> QED
    BY <1>18, <2>1, <2>2 DEF WriteSome, hist
<1>19. ASSUME NEW s \in Sides, Disconnect(s)
      PROVE  Types'
  BY <1>19 DEF Disconnect, chans, io, hist
<1>20. ASSUME NEW s \in Sides, ClearStreams(s)
      PROVE  Types'
  BY <1>20 DEF ClearStreams, chans, io, hist
<1>21. ASSUME NEW s \in Sides, CloseOutgoing(s)
      PROVE  Types'
  BY <1>21 DEF CloseOutgoing, chans, io, hist
<1> QED
  BY <1>0, <1>1, <1>2, <1>3, <1>4, <1>5, <1>6, <1>7, <1>8, <1>9, <1>10, <1>11,
     <1>12, <1>13, <1>14, <1>15, <1>16, <1>17, <1>18, <1>19, <1>20, <1>21 DEF
     Next, User, IoLoop

\* Every step keeps what the loop holds.
LEMMA LoopStep ==
  ASSUME MuxInv, Types', [Next]_vars
  PROVE  LoopHolds'
<1> USE DEF MuxInv, Types, LoopHolds
<1>0. CASE UNCHANGED vars
  BY <1>0 DEF vars, chans, io, hist
<1>1. ASSUME NEW s \in Sides, TakeId(s)
      PROVE  LoopHolds'
  BY <1>1 DEF TakeId, chans, io, hist
<1>2. ASSUME NEW s \in Sides, NEW i \in Ids, Insert(s, i)
      PROVE  LoopHolds'
  BY <1>2 DEF Insert, chans, io, hist
<1>3. ASSUME NEW s \in Sides, NEW i \in Ids, SendOpen(s, i)
      PROVE  LoopHolds'
  BY <1>3 DEF SendOpen, chans, io, hist
<1>4. ASSUME NEW s \in Sides, NEW i \in Ids, Accept(s, i)
      PROVE  LoopHolds'
  BY <1>4 DEF Accept, chans, io, hist
<1>5. ASSUME NEW s \in Sides, NEW i \in Ids, Write(s, i)
      PROVE  LoopHolds'
  BY <1>5 DEF Write, chans, io, hist
<1>6. ASSUME NEW s \in Sides, NEW i \in Ids, Read(s, i)
      PROVE  LoopHolds'
  BY <1>6 DEF Read, chans, io, hist
<1>7. ASSUME NEW s \in Sides, NEW i \in Ids, ReadNone(s, i)
      PROVE  LoopHolds'
  BY <1>7 DEF ReadNone, chans, io, hist
<1>8. ASSUME NEW s \in Sides, NEW i \in Ids, Close(s, i)
      PROVE  LoopHolds'
  BY <1>8 DEF Close, chans, io, hist
<1>9. ASSUME NEW s \in Sides, NEW i \in Ids, Drop(s, i)
      PROVE  LoopHolds'
  BY <1>9 DEF Drop, chans, io, hist
<1>10. ASSUME NEW s \in Sides, ReceiveKnown(s)
      PROVE  LoopHolds'
  <2>1. Arrived(s) \in Frame /\ <<Arrived(s)>> # <<>> /\ <<Arrived(s)>>[1] = Arrived(s)
    BY <1>10, ReceiveTypes DEF ReceiveKnown
  <2> QED
    BY <1>10, <2>1 DEF ReceiveKnown, hist
<1>11. ASSUME NEW s \in Sides, ReceiveOpen(s)
      PROVE  LoopHolds'
  BY <1>11 DEF ReceiveOpen, chans, io, hist
<1>12. ASSUME NEW s \in Sides, ReceiveRefuse(s)
      PROVE  LoopHolds'
  BY <1>12 DEF ReceiveRefuse, chans, io, hist
<1>13. ASSUME NEW s \in Sides, ReceiveUnknown(s)
      PROVE  LoopHolds'
  BY <1>13 DEF ReceiveUnknown, chans, io, hist
<1>14. ASSUME NEW s \in Sides, NEW i \in Ids, Deliver(s, i)
      PROVE  LoopHolds'
  BY <1>14 DEF Deliver, BackToSelect, Delivering, chans, hist
<1>15. ASSUME NEW s \in Sides, NEW i \in Ids, DeliverDead(s, i)
      PROVE  LoopHolds'
  BY <1>15 DEF DeliverDead, BackToSelect, Delivering, chans, hist
<1>16. ASSUME NEW s \in Sides, NEW i \in Ids, DeliverTimeout(s, i)
      PROVE  LoopHolds'
  BY <1>16 DEF DeliverTimeout, BackToSelect, Delivering, chans, hist
<1>17. ASSUME NEW s \in Sides, NEW k \in 1 .. OutCap, Drain(s, k)
      PROVE  LoopHolds'
  <2>1. Len(SubSeq(outq[s], 1, k)) = k /\ k # 0
    BY <1>17, CapAssumption DEF Drain
  <2>2. /\ loop' = [loop EXCEPT ![s] = "write"] /\ UNCHANGED <<entry, cur>>
        /\ batch' = [batch EXCEPT ![s] = SubSeq(outq[s], 1, k)]
    BY <1>17 DEF Drain
  <2>3. SubSeq(outq[s], 1, k) # <<>>
    BY <2>1
  <2> QED
    BY <2>2, <2>3
<1>18. ASSUME NEW s \in Sides, WriteSome(s)
      PROVE  LoopHolds'
  <2>1. Len(batch[s]) # 1 => Tail(batch[s]) # <<>>
    <3>1. batch[s] \in Seq(Frame) /\ batch[s] # <<>>
      BY <1>18 DEF WriteSome
    <3> QED
      BY <3>1, HeadTail
  <2> QED
    BY <1>18, <2>1 DEF WriteSome, hist
<1>19. ASSUME NEW s \in Sides, Disconnect(s)
      PROVE  LoopHolds'
  BY <1>19 DEF Disconnect, chans, io, hist
<1>20. ASSUME NEW s \in Sides, ClearStreams(s)
      PROVE  LoopHolds'
  BY <1>20 DEF ClearStreams, chans, io, hist
<1>21. ASSUME NEW s \in Sides, CloseOutgoing(s)
      PROVE  LoopHolds'
  BY <1>21 DEF CloseOutgoing, chans, io, hist
<1> QED
  BY <1>0, <1>1, <1>2, <1>3, <1>4, <1>5, <1>6, <1>7, <1>8, <1>9, <1>10, <1>11,
     <1>12, <1>13, <1>14, <1>15, <1>16, <1>17, <1>18, <1>19, <1>20, <1>21 DEF
     Next, User, IoLoop

\* Only a FIN counts as one.
LEMMA OtherFins ==
  ASSUME Types, NEW s \in Sides, NEW i \in Ids, NEW kind \in Kinds \ {"fin"},
         Send(s, i, kind) \/ TrySend(s, i, kind)
  PROVE  fins' = fins
<1>1. fins \in [Sides -> [Ids -> Nat]]
  BY DEF Types
<1> QED
  BY <1>1 DEF Send, TrySend, Enqueue

\* A FIN is counted on its own stream.
LEMMA FinCount ==
  ASSUME Types, NEW s \in Sides, NEW i \in Ids, Send(s, i, "fin") \/ TrySend(s, i, "fin")
  PROVE  \/ fins' = fins
         \/ fins' = [fins EXCEPT ![s][i] = @ + 1]
  BY DEF Types, Send, TrySend, Enqueue

\* Every step keeps the FINs behind the closed flag.
LEMMA FinStep ==
  ASSUME MuxInv, Types', [Next]_vars
  PROVE  FinFlag'
<1> SUFFICES ASSUME NEW t \in Sides, NEW j \in Ids
             PROVE  (fins[t][j] <= 1 /\ (j \notin closed[t] => fins[t][j] = 0))'
  BY DEF FinFlag
<1>t. closed \in [Sides -> SUBSET Ids] /\ fins \in [Sides -> [Ids -> Nat]]
  BY DEF MuxInv, Types
<1>f. fins[t][j] <= 1 /\ (j \notin closed[t] => fins[t][j] = 0)
  BY DEF MuxInv, FinFlag
<1>0. CASE UNCHANGED vars
  BY <1>t, <1>f, <1>0 DEF vars, chans, io, hist
<1>1. ASSUME NEW s \in Sides, TakeId(s)
      PROVE  (fins[t][j] <= 1 /\ (j \notin closed[t] => fins[t][j] = 0))'
  BY <1>t, <1>f, <1>1 DEF TakeId, chans, io, hist
<1>2. ASSUME NEW s \in Sides, NEW i \in Ids, Insert(s, i)
      PROVE  (fins[t][j] <= 1 /\ (j \notin closed[t] => fins[t][j] = 0))'
  BY <1>t, <1>f, <1>2 DEF Insert, chans, io, hist
<1>3. ASSUME NEW s \in Sides, NEW i \in Ids, SendOpen(s, i)
      PROVE  (fins[t][j] <= 1 /\ (j \notin closed[t] => fins[t][j] = 0))'
  <2>1. fins' = fins
    BY <1>t, <1>f, <1>3, OtherFins DEF MuxInv, SendOpen, Kinds
  <2> QED
    BY <1>t, <1>f, <1>3, <2>1 DEF SendOpen
<1>4. ASSUME NEW s \in Sides, NEW i \in Ids, Accept(s, i)
      PROVE  (fins[t][j] <= 1 /\ (j \notin closed[t] => fins[t][j] = 0))'
  BY <1>t, <1>f, <1>4 DEF Accept, chans, io, hist
<1>5. ASSUME NEW s \in Sides, NEW i \in Ids, Write(s, i)
      PROVE  (fins[t][j] <= 1 /\ (j \notin closed[t] => fins[t][j] = 0))'
  <2>1. fins' = fins
    BY <1>t, <1>f, <1>5, OtherFins DEF MuxInv, Write, Kinds
  <2> QED
    BY <1>t, <1>f, <1>5, <2>1 DEF Write
<1>6. ASSUME NEW s \in Sides, NEW i \in Ids, Read(s, i)
      PROVE  (fins[t][j] <= 1 /\ (j \notin closed[t] => fins[t][j] = 0))'
  BY <1>t, <1>f, <1>6 DEF Read, chans, io, hist
<1>7. ASSUME NEW s \in Sides, NEW i \in Ids, ReadNone(s, i)
      PROVE  (fins[t][j] <= 1 /\ (j \notin closed[t] => fins[t][j] = 0))'
  BY <1>t, <1>f, <1>7 DEF ReadNone, chans, io, hist
<1>8. ASSUME NEW s \in Sides, NEW i \in Ids, Close(s, i)
      PROVE  (fins[t][j] <= 1 /\ (j \notin closed[t] => fins[t][j] = 0))'
  BY <1>t, <1>f, <1>8, FinCount DEF MuxInv, Close
<1>9. ASSUME NEW s \in Sides, NEW i \in Ids, Drop(s, i)
      PROVE  (fins[t][j] <= 1 /\ (j \notin closed[t] => fins[t][j] = 0))'
  <2>1. CASE i \in closed[s]
    BY <1>t, <1>f, <1>9, <2>1 DEF Drop
  <2>2. CASE i \notin closed[s]
    BY <1>t, <1>f, <1>9, <2>2, FinCount DEF MuxInv, Drop
  <2> QED
    BY <2>1, <2>2
<1>10. ASSUME NEW s \in Sides, ReceiveKnown(s)
      PROVE  (fins[t][j] <= 1 /\ (j \notin closed[t] => fins[t][j] = 0))'
  BY <1>t, <1>f, <1>10 DEF ReceiveKnown, chans, io, hist
<1>11. ASSUME NEW s \in Sides, ReceiveOpen(s)
      PROVE  (fins[t][j] <= 1 /\ (j \notin closed[t] => fins[t][j] = 0))'
  BY <1>t, <1>f, <1>11 DEF ReceiveOpen, chans, io, hist
<1>12. ASSUME NEW s \in Sides, ReceiveRefuse(s)
      PROVE  (fins[t][j] <= 1 /\ (j \notin closed[t] => fins[t][j] = 0))'
  <2>1. Arrived(s).id \in Ids
    BY <1>t, <1>f, <1>12, ReceiveTypes DEF MuxInv, ReceiveRefuse
  <2>2. fins' = fins
    BY <1>t, <1>f, <1>12, <2>1, OtherFins DEF MuxInv, ReceiveRefuse, Kinds
  <2>3. closed[t] \subseteq closed'[t]
    BY <1>t, <1>12, <2>1 DEF ReceiveRefuse
  <2> QED
    BY <1>f, <2>2, <2>3
<1>13. ASSUME NEW s \in Sides, ReceiveUnknown(s)
      PROVE  (fins[t][j] <= 1 /\ (j \notin closed[t] => fins[t][j] = 0))'
  BY <1>t, <1>f, <1>13 DEF ReceiveUnknown, chans, io, hist
<1>14. ASSUME NEW s \in Sides, NEW i \in Ids, Deliver(s, i)
      PROVE  (fins[t][j] <= 1 /\ (j \notin closed[t] => fins[t][j] = 0))'
  BY <1>t, <1>f, <1>14 DEF Deliver, chans, io, hist
<1>15. ASSUME NEW s \in Sides, NEW i \in Ids, DeliverDead(s, i)
      PROVE  (fins[t][j] <= 1 /\ (j \notin closed[t] => fins[t][j] = 0))'
  BY <1>t, <1>f, <1>15 DEF DeliverDead, chans, io, hist
<1>16. ASSUME NEW s \in Sides, NEW i \in Ids, DeliverTimeout(s, i)
      PROVE  (fins[t][j] <= 1 /\ (j \notin closed[t] => fins[t][j] = 0))'
  <2>1. fins' = fins
    BY <1>t, <1>f, <1>16, OtherFins DEF MuxInv, DeliverTimeout, Kinds
  <2> QED
    BY <1>t, <1>f, <1>16, <2>1 DEF DeliverTimeout
<1>17. ASSUME NEW s \in Sides, NEW k \in 1 .. OutCap, Drain(s, k)
      PROVE  (fins[t][j] <= 1 /\ (j \notin closed[t] => fins[t][j] = 0))'
  BY <1>t, <1>f, <1>17 DEF Drain, chans, io, hist
<1>18. ASSUME NEW s \in Sides, WriteSome(s)
      PROVE  (fins[t][j] <= 1 /\ (j \notin closed[t] => fins[t][j] = 0))'
  BY <1>t, <1>f, <1>18 DEF WriteSome, chans, io, hist
<1>19. ASSUME NEW s \in Sides, Disconnect(s)
      PROVE  (fins[t][j] <= 1 /\ (j \notin closed[t] => fins[t][j] = 0))'
  BY <1>t, <1>f, <1>19 DEF Disconnect, chans, io, hist
<1>20. ASSUME NEW s \in Sides, ClearStreams(s)
      PROVE  (fins[t][j] <= 1 /\ (j \notin closed[t] => fins[t][j] = 0))'
  BY <1>t, <1>f, <1>20 DEF ClearStreams, chans, io, hist
<1>21. ASSUME NEW s \in Sides, CloseOutgoing(s)
      PROVE  (fins[t][j] <= 1 /\ (j \notin closed[t] => fins[t][j] = 0))'
  BY <1>t, <1>f, <1>21 DEF CloseOutgoing, chans, io, hist
<1> QED
  BY <1>0, <1>1, <1>2, <1>3, <1>4, <1>5, <1>6, <1>7, <1>8, <1>9, <1>10, <1>11,
     <1>12, <1>13, <1>14, <1>15, <1>16, <1>17, <1>18, <1>19, <1>20, <1>21 DEF
     Next, User, IoLoop

\* Every step keeps the endings explained.
LEMMA EndingsStep ==
  ASSUME MuxInv, Types', [Next]_vars
  PROVE  Endings'
<1> SUFFICES ASSUME NEW t \in Sides, NEW j \in Ids, Running(t)', Forgotten(t, j)'
             PROVE  Explained(t, j)'
  BY DEF Endings
<1> USE DEF Running, Forgotten, Explained
<1>t. /\ entry \in [Sides -> SUBSET Ids] /\ reset \in [Sides -> SUBSET Ids]
      /\ inq \in [Sides -> [Ids -> Seq(Frame)]]
      /\ handle \in [Sides -> [Ids -> {"none", "new", "failed", "dropped", "refused"} \cup Holding]]
      /\ loop \in [Sides -> {"select", "send", "write", "exit", "cleared", "exited"}]
      /\ cur \in [Sides -> Seq(Frame)]
  BY DEF MuxInv, Types
<1>e. Running(t) /\ Forgotten(t, j) => Explained(t, j)
  BY DEF MuxInv, Endings
<1>0. CASE UNCHANGED vars
  BY <1>t, <1>e, <1>0 DEF vars, chans, io, hist
<1>1. ASSUME NEW s \in Sides, TakeId(s)
      PROVE  Explained(t, j)'
  BY <1>t, <1>e, <1>1 DEF TakeId, chans, io, hist
<1>2. ASSUME NEW s \in Sides, NEW i \in Ids, Insert(s, i)
      PROVE  Explained(t, j)'
  BY <1>t, <1>e, <1>2 DEF Insert, chans, io, hist
<1>3. ASSUME NEW s \in Sides, NEW i \in Ids, SendOpen(s, i)
      PROVE  Explained(t, j)'
  BY <1>t, <1>e, <1>3 DEF SendOpen, chans, io, hist
<1>4. ASSUME NEW s \in Sides, NEW i \in Ids, Accept(s, i)
      PROVE  Explained(t, j)'
  BY <1>t, <1>e, <1>4 DEF Accept, chans, io, hist
<1>5. ASSUME NEW s \in Sides, NEW i \in Ids, Write(s, i)
      PROVE  Explained(t, j)'
  BY <1>t, <1>e, <1>5 DEF Write, chans, io, hist
<1>6. ASSUME NEW s \in Sides, NEW i \in Ids, Read(s, i)
      PROVE  Explained(t, j)'
  <2>1. inq[s][i] \in Seq(Frame) /\ inq[s][i] # <<>>
    BY <1>t, <1>6 DEF Read
  <2> DEFINE q == inq[s][i]
  <2>2. q[1] = Head(q) /\ (Len(q) # 1 => Tail(q) # <<>> /\ Tail(q)[Len(Tail(q))] = q[Len(q)])
    BY <2>1, HeadTail
  <2>4. CASE t = s /\ j = i
    <3>1. ~ Terminal(Head(q)) /\ inq'[s][i] = Tail(q)
      BY <1>t, <1>6, <2>4 DEF Read
    <3>2. Explained(s, i)
      BY <1>t, <1>e, <1>6, <2>4 DEF Read, io
    <3> QED
      BY <1>6, <2>2, <2>4, <3>1, <3>2 DEF Read
  <2>5. CASE ~ (t = s /\ j = i)
    BY <1>t, <1>e, <1>6, <2>5 DEF Read, io
  <2> QED
    BY <2>4, <2>5
<1>7. ASSUME NEW s \in Sides, NEW i \in Ids, ReadNone(s, i)
      PROVE  Explained(t, j)'
  BY <1>t, <1>e, <1>7 DEF ReadNone, chans, io, hist
<1>8. ASSUME NEW s \in Sides, NEW i \in Ids, Close(s, i)
      PROVE  Explained(t, j)'
  BY <1>t, <1>e, <1>8 DEF Close, chans, io, hist
<1>9. ASSUME NEW s \in Sides, NEW i \in Ids, Drop(s, i)
      PROVE  Explained(t, j)'
  BY <1>t, <1>e, <1>9 DEF Drop, chans, io, hist
<1>10. ASSUME NEW s \in Sides, ReceiveKnown(s)
      PROVE  Explained(t, j)'
  <2>1. Arrived(s).id \in Ids /\ loop[s] = "select"
    BY <1>10, ReceiveTypes DEF MuxInv, ReceiveKnown, Receive
  <2> QED
    BY <1>t, <1>e, <1>10, <2>1 DEF ReceiveKnown, io, hist
<1>11. ASSUME NEW s \in Sides, ReceiveOpen(s)
      PROVE  Explained(t, j)'
  <2>1. Arrived(s).id \in Ids /\ loop[s] = "select"
    BY <1>11, ReceiveTypes DEF MuxInv, ReceiveOpen, Receive
  <2> QED
    BY <1>t, <1>e, <1>11, <2>1 DEF ReceiveOpen, io, hist
<1>12. ASSUME NEW s \in Sides, ReceiveRefuse(s)
      PROVE  Explained(t, j)'
  <2>1. Arrived(s).id \in Ids /\ loop[s] = "select"
    BY <1>12, ReceiveTypes DEF MuxInv, ReceiveRefuse, Receive
  <2> QED
    BY <1>t, <1>e, <1>12, <2>1 DEF ReceiveRefuse, io, hist
<1>13. ASSUME NEW s \in Sides, ReceiveUnknown(s)
      PROVE  Explained(t, j)'
  <2>1. Arrived(s).id \in Ids /\ loop[s] = "select"
    BY <1>13, ReceiveTypes DEF MuxInv, ReceiveUnknown, Receive
  <2> QED
    BY <1>t, <1>e, <1>13, <2>1 DEF ReceiveUnknown, io, hist
<1>14. ASSUME NEW s \in Sides, NEW i \in Ids, Deliver(s, i)
      PROVE  Explained(t, j)'
  <2>1. cur[s][1] \in Frame /\ i \in entry[s] /\ inq[s][i] \in Seq(Frame)
    BY <1>t, <1>14 DEF Deliver, Delivering, MuxInv, LoopHolds
  <2>2. /\ Append(inq[s][i], cur[s][1]) # <<>>
        /\ Append(inq[s][i], cur[s][1])[Len(Append(inq[s][i], cur[s][1]))] = cur[s][1]
    BY <2>1
  <2>3. CASE t = s /\ j = i
    BY <1>t, <1>14, <2>1, <2>2, <2>3 DEF Deliver
  <2>4. CASE ~ (t = s /\ j = i)
    BY <1>t, <1>e, <1>14, <2>4 DEF Deliver, Delivering, BackToSelect, hist
  <2> QED
    BY <2>3, <2>4
<1>15. ASSUME NEW s \in Sides, NEW i \in Ids, DeliverDead(s, i)
      PROVE  Explained(t, j)'
  BY <1>t, <1>e, <1>15 DEF DeliverDead, Delivering, BackToSelect, chans, hist, Holding
<1>16. ASSUME NEW s \in Sides, NEW i \in Ids, DeliverTimeout(s, i)
      PROVE  Explained(t, j)'
  BY <1>t, <1>e, <1>16 DEF DeliverTimeout, BackToSelect, Delivering
<1>17. ASSUME NEW s \in Sides, NEW k \in 1 .. OutCap, Drain(s, k)
      PROVE  Explained(t, j)'
  BY <1>t, <1>e, <1>17 DEF Drain, chans, io, hist
<1>18. ASSUME NEW s \in Sides, WriteSome(s)
      PROVE  Explained(t, j)'
  BY <1>t, <1>e, <1>18 DEF WriteSome, chans, io, hist
<1>19. ASSUME NEW s \in Sides, Disconnect(s)
      PROVE  Explained(t, j)'
  BY <1>t, <1>e, <1>19 DEF Disconnect, chans, io, hist
<1>20. ASSUME NEW s \in Sides, ClearStreams(s)
      PROVE  Explained(t, j)'
  BY <1>t, <1>e, <1>20 DEF ClearStreams, chans, io, hist
<1>21. ASSUME NEW s \in Sides, CloseOutgoing(s)
      PROVE  Explained(t, j)'
  BY <1>t, <1>e, <1>21 DEF CloseOutgoing, chans, io, hist
<1> QED
  BY <1>0, <1>1, <1>2, <1>3, <1>4, <1>5, <1>6, <1>7, <1>8, <1>9, <1>10, <1>11,
     <1>12, <1>13, <1>14, <1>15, <1>16, <1>17, <1>18, <1>19, <1>20, <1>21 DEF
     Next, User, IoLoop

\* A send never overfills the outgoing channel.
LEMMA SendFits ==
  ASSUME Types, NEW s \in Sides, NEW i, NEW kind, NEW t \in Sides,
         Len(outq[t]) <= OutCap, Send(s, i, kind) \/ TrySend(s, i, kind)
  PROVE  Len(outq'[t]) <= OutCap
<1>1. outq \in [Sides -> Seq(Frame)]
  BY DEF Types
<1>2. CASE Room(s) /\ Enqueue(s, i, kind)
  <2>1. outq'[t] = outq[t] \/ (t = s /\ \E f : outq'[t] = Append(outq[t], f))
    BY <1>1, <1>2 DEF Enqueue
  <2>2. \A f : Len(Append(outq[t], f)) = Len(outq[t]) + 1
    BY <1>1
  <2> QED
    BY <1>1, <1>2, <2>1, <2>2, CapAssumption DEF Room
<1>3. CASE UNCHANGED outq
  BY <1>3
<1> QED
  BY <1>2, <1>3 DEF Send, TrySend

\* Taking a frame from the wire leaves room on it.
LEMMA ReceiveFits ==
  ASSUME Types, NEW s \in Sides, Receive(s), NEW t \in Sides, Len(wire[t]) <= WireCap
  PROVE  Len(wire'[t]) <= WireCap
<1>1. Peer(s) \in Sides /\ wire \in [Sides -> Seq(Frame)]
  BY DEF Types, Peer, Sides
<1>2. wire[Peer(s)] \in Seq(Frame) /\ wire[Peer(s)] # <<>>
  BY <1>1 DEF Receive
<1>3. Len(Tail(wire[Peer(s)])) = Len(wire[Peer(s)]) - 1 /\ Len(wire[Peer(s)]) \in Nat \ {0}
  BY <1>2, HeadTail
<1>4. wire'[t] = IF t = Peer(s) THEN Tail(wire[Peer(s)]) ELSE wire[t]
  BY <1>1 DEF Receive
<1> QED
  BY <1>3, <1>4, CapAssumption

\* Every step keeps every channel within its capacity.
LEMMA CapacityStep ==
  ASSUME MuxInv, [Next]_vars
  PROVE  Capacity'
<1> SUFFICES ASSUME NEW t \in Sides, NEW j
             PROVE  /\ Len(outq'[t]) <= OutCap /\ Len(wire'[t]) <= WireCap
                    /\ j \in Ids => Len(inq'[t][j]) <= InCap
  BY DEF Capacity
<1> DEFINE Fits == /\ Len(outq'[t]) <= OutCap /\ Len(wire'[t]) <= WireCap
                   /\ j \in Ids => Len(inq'[t][j]) <= InCap
<1>t. /\ outq \in [Sides -> Seq(Frame)] /\ wire \in [Sides -> Seq(Frame)]
      /\ inq \in [Sides -> [Ids -> Seq(Frame)]] /\ batch \in [Sides -> Seq(Frame)]
  BY DEF MuxInv, Types
<1>c. /\ Len(outq[t]) <= OutCap /\ Len(wire[t]) <= WireCap
      /\ j \in Ids => Len(inq[t][j]) <= InCap
  BY DEF MuxInv, Capacity
<1>0. CASE UNCHANGED vars
  BY <1>c, <1>0 DEF vars, chans
<1>1. ASSUME NEW s \in Sides, TakeId(s)
      PROVE  Fits
  BY <1>c, <1>1 DEF TakeId, chans
<1>2. ASSUME NEW s \in Sides, NEW i \in Ids, Insert(s, i)
      PROVE  Fits
  BY <1>c, <1>2 DEF Insert, chans
<1>3. ASSUME NEW s \in Sides, NEW i \in Ids, SendOpen(s, i)
      PROVE  Fits
  BY <1>c, <1>3, SendFits DEF MuxInv, SendOpen
<1>4. ASSUME NEW s \in Sides, NEW i \in Ids, Accept(s, i)
      PROVE  Fits
  BY <1>c, <1>4 DEF Accept, chans
<1>5. ASSUME NEW s \in Sides, NEW i \in Ids, Write(s, i)
      PROVE  Fits
  BY <1>c, <1>5, SendFits DEF MuxInv, Write
<1>6. ASSUME NEW s \in Sides, NEW i \in Ids, Read(s, i)
      PROVE  Fits
  <2>1. Len(Tail(inq[s][i])) = Len(inq[s][i]) - 1 /\ Len(inq[s][i]) \in Nat
    BY <1>t, <1>6, HeadTail DEF Read
  <2>2. j \in Ids => Len(inq'[t][j]) <= InCap
    BY <1>t, <1>c, <1>6, <2>1, CapAssumption DEF Read
  <2> QED
    BY <1>c, <1>6, <2>2 DEF Read
<1>7. ASSUME NEW s \in Sides, NEW i \in Ids, ReadNone(s, i)
      PROVE  Fits
  BY <1>c, <1>7 DEF ReadNone, chans
<1>8. ASSUME NEW s \in Sides, NEW i \in Ids, Close(s, i)
      PROVE  Fits
  BY <1>c, <1>8, SendFits DEF MuxInv, Close
<1>9. ASSUME NEW s \in Sides, NEW i \in Ids, Drop(s, i)
      PROVE  Fits
  <2>1. Len(outq'[t]) <= OutCap
    BY <1>c, <1>9, SendFits DEF MuxInv, Drop
  <2>2. j \in Ids => Len(inq'[t][j]) <= InCap
    BY <1>t, <1>c, <1>9, CapAssumption DEF Drop
  <2> QED
    BY <1>c, <1>9, <2>1, <2>2 DEF Drop
<1>10. ASSUME NEW s \in Sides, ReceiveKnown(s)
      PROVE  Fits
  BY <1>c, <1>10, ReceiveFits DEF MuxInv, ReceiveKnown
<1>11. ASSUME NEW s \in Sides, ReceiveOpen(s)
      PROVE  Fits
  <2>1. Len(wire'[t]) <= WireCap
    BY <1>c, <1>11, ReceiveFits DEF MuxInv, ReceiveOpen
  <2>2. j \in Ids => Len(inq'[t][j]) <= InCap
    BY <1>t, <1>c, <1>11, CapAssumption DEF ReceiveOpen
  <2> QED
    BY <1>c, <1>11, <2>1, <2>2 DEF ReceiveOpen
<1>12. ASSUME NEW s \in Sides, ReceiveRefuse(s)
      PROVE  Fits
  <2>1. Len(wire'[t]) <= WireCap
    BY <1>c, <1>12, ReceiveFits DEF MuxInv, ReceiveRefuse
  <2>2. Len(outq'[t]) <= OutCap
    BY <1>c, <1>12, SendFits DEF MuxInv, ReceiveRefuse
  <2> QED
    BY <1>c, <1>12, <2>1, <2>2 DEF ReceiveRefuse
<1>13. ASSUME NEW s \in Sides, ReceiveUnknown(s)
      PROVE  Fits
  BY <1>c, <1>13, ReceiveFits DEF MuxInv, ReceiveUnknown
<1>14. ASSUME NEW s \in Sides, NEW i \in Ids, Deliver(s, i)
      PROVE  Fits
  <2>1. Len(Append(inq[s][i], cur[s][1])) = Len(inq[s][i]) + 1 /\ Len(inq[s][i]) \in Nat
    BY <1>t
  <2>2. j \in Ids => Len(inq'[t][j]) <= InCap
    BY <1>t, <1>c, <1>14, <2>1, CapAssumption DEF Deliver
  <2> QED
    BY <1>c, <1>14, <2>2 DEF Deliver
<1>15. ASSUME NEW s \in Sides, NEW i \in Ids, DeliverDead(s, i)
      PROVE  Fits
  BY <1>c, <1>15 DEF DeliverDead, chans
<1>16. ASSUME NEW s \in Sides, NEW i \in Ids, DeliverTimeout(s, i)
      PROVE  Fits
  BY <1>c, <1>16, SendFits DEF MuxInv, DeliverTimeout
<1>17. ASSUME NEW s \in Sides, NEW k \in 1 .. OutCap, Drain(s, k)
      PROVE  Fits
  <2>1. Len(SubSeq(outq[s], k + 1, Len(outq[s]))) <= Len(outq[s]) /\ Len(outq[s]) \in Nat
        /\ Len(SubSeq(outq[s], k + 1, Len(outq[s]))) \in Nat
    BY <1>t, <1>17, CapAssumption DEF Drain
  <2>2. Len(outq'[t]) <= OutCap
    BY <1>t, <1>c, <1>17, <2>1, CapAssumption DEF Drain
  <2> QED
    BY <1>c, <1>17, <2>2 DEF Drain
<1>18. ASSUME NEW s \in Sides, WriteSome(s)
      PROVE  Fits
  <2>1. Len(Append(wire[s], Head(batch[s]))) = Len(wire[s]) + 1 /\ Len(wire[s]) \in Nat
    BY <1>t
  <2>2. Len(wire'[t]) <= WireCap
    BY <1>t, <1>c, <1>18, <2>1, CapAssumption DEF WriteSome
  <2> QED
    BY <1>c, <1>18, <2>2 DEF WriteSome
<1>19. ASSUME NEW s \in Sides, Disconnect(s)
      PROVE  Fits
  BY <1>c, <1>19 DEF Disconnect, chans
<1>20. ASSUME NEW s \in Sides, ClearStreams(s)
      PROVE  Fits
  BY <1>c, <1>20 DEF ClearStreams, chans
<1>21. ASSUME NEW s \in Sides, CloseOutgoing(s)
      PROVE  Fits
  <2>1. Len(outq'[t]) <= OutCap
    BY <1>t, <1>c, <1>21, CapAssumption DEF CloseOutgoing
  <2> QED
    BY <1>c, <1>21, <2>1 DEF CloseOutgoing
<1> QED
  BY <1>0, <1>1, <1>2, <1>3, <1>4, <1>5, <1>6, <1>7, <1>8, <1>9, <1>10, <1>11,
     <1>12, <1>13, <1>14, <1>15, <1>16, <1>17, <1>18, <1>19, <1>20, <1>21 DEF
     Next, User, IoLoop

\* All of it is an invariant of the two endpoints.
LEMMA MuxInvariant == Spec => []MuxInv
<1>1. MuxInv /\ [Next]_vars => MuxInv'
  BY TypeStep, CapacityStep, LoopStep, FinStep, EndingsStep DEF MuxInv
<1> QED
  BY MuxInit, <1>1, PTL DEF Spec

\* The types of the multiplexer's state hold for any ids and capacities.
THEOREM MuxTypeCorrect == Spec => []TypeOK
<1>1. MuxInv => TypeOK
  BY DEF MuxInv, Capacity, TypeOK
<1> QED
  BY MuxInvariant, <1>1, PTL

\* However close, the writer half's close and Drop interleave with delivery,
\* refusal and disconnection, an end queues at most one FIN per stream: a FIN
\* is only ever queued by the one that turns the closed flag.
THEOREM OneFinHolds == Spec => []OneFin
<1>1. MuxInv => OneFin
  BY DEF MuxInv, FinFlag, OneFin
<1> QED
  BY MuxInvariant, <1>1, PTL

\* No reader is cut off in silence: while the loop runs, a stream leaves the
\* map of an end that still reads it only behind the peer's FIN or RST, or, at
\* the host, after the delivery timeout.  The entry is removed by the loop
\* alone, and only while it delivers to a stream that is still registered.
THEOREM EndsExplained == Spec => []EndExplained
<1>1. MuxInv => EndExplained
  BY DEF MuxInv, Endings, EndExplained, Running, Forgotten, Explained
<1> QED
  BY MuxInvariant, <1>1, PTL

-----------------------------------------------------------------------------
(* The order of the frames and the ids of the streams: what a reader gets  *)
(* continues what it has, and no stream arrives twice.                     *)

\* The frames that an end has sent and the other has not delivered, the
\* oldest first.
Path(p) == cur[Peer(p)] \o (wire[p] \o (batch[p] \o outq[p]))

\* The ids an end gives to the streams it creates.
Parity(s) == IF s = "host" THEN 1 ELSE 0
Own(s) == {i \in Ids : i % 2 = Parity(s)}

\* What the loop holds outside the steps that use it.
Shapes ==
  \A s \in Sides :
    /\ loop[s] = "send" => Len(cur[s]) = 1
    /\ loop[s] # "send" => cur[s] = <<>>
    /\ loop[s] \in {"select", "send"} => batch[s] = <<>>

\* A stream begins with its creator: nothing is queued on it before, and the
\* other end only knows it once the creator queued the opening frame.
CreatedAt(s, i) ==
  /\ i \in Own(s) =>
       /\ i >= nextId[s] => handle[s][i] = "none"
       /\ handle[s][i] \notin {"queued", "refused"}
       /\ handle[s][i] \in {"open", "ended"} => queued[s][i] > 0
       /\ handle[Peer(s)][i] # "none" => queued[s][i] > 0
       /\ handle[Peer(s)][i] \notin {"new", "inserted", "failed"}
  /\ handle[s][i] \in {"none", "new", "inserted"} => queued[s][i] = 0
  /\ handle[s][i] \in {"none", "new"} =>
       i \notin entry[s] /\ inq[s][i] = <<>> /\ got[s][i] = 0
Created ==
  \A s \in Sides :
    nextId[s] % 2 = Parity(s) /\ \A i \in Ids : CreatedAt(s, i)

\* Base: the position up to which the frames of a stream were delivered.
\* Expects: frames still to come will be delivered or open the stream.
Base(s, i) == got[s][i] + Len(inq[s][i])
Expects(s, i) == handle[s][i] = "none" \/ (i \in entry[s] /\ handle[s][i] \in Holding)

\* The positions of a stream's frames grow along a path q; they continue the
\* position b without a gap, and they reach the position top.
Ordered(q) ==
  \A k, l \in 1 .. Len(q) : k < l /\ q[k].id = q[l].id => q[k].n < q[l].n
Has(q, k, i, m) == \E l \in 1 .. k : q[l].id = i /\ q[l].n = m
Gapless(q, i, b) ==
  \A k \in 1 .. Len(q) :
    q[k].id = i => b < q[k].n /\ \A m \in b + 1 .. q[k].n : Has(q, k, i, m)
Reaches(q, i, b, top) == \A m \in b + 1 .. top : Has(q, Len(q), i, m)

\* A frame on its way: the first frame of the creator, and no other, opens the
\* stream, and then the other end does not know the stream yet.
Valid(p, f) ==
  /\ 1 <= f.n /\ f.n <= queued[p][f.id]
  /\ f.kind = "open" <=> f.n = 1 /\ f.id \in Own(p)
  /\ f.kind = "open" => handle[Peer(p)][f.id] = "none"
TravelsAt(p) ==
  /\ Ordered(Path(p))
  /\ \A k \in 1 .. Len(Path(p)) : Valid(p, Path(p)[k])
  /\ \A i \in Ids : Expects(Peer(p), i) =>
       /\ Gapless(Path(p), i, Base(Peer(p), i))
       /\ outOpen[p] => Reaches(Path(p), i, Base(Peer(p), i), queued[p][i])
Travels == \A p \in Sides : TravelsAt(p)

OrderInv == Shapes /\ Created /\ Travels /\ InOrder

-----------------------------------------------------------------------------
(* Paths: a frame is appended, the oldest is taken off, the end is cut off *)

\* The fields of the frames of a path.
LEMMA FrameFields ==
  ASSUME NEW q \in Seq(Frame), NEW k \in 1 .. Len(q)
  PROVE  q[k] \in Frame /\ q[k].n \in Nat /\ q[k].id \in Ids /\ q[k].kind \in Kinds
<1>1. q[k] \in Frame
  OBVIOUS
<1> QED
  BY <1>1 DEF Frame

\* A frame behind all the others keeps the order, and closes no gap it opens.
LEMMA PathAppend ==
  ASSUME NEW q \in Seq(Frame), NEW f \in Frame, NEW i \in Ids, NEW b \in Nat, NEW top \in Nat,
         f.n = top + 1, \A k \in 1 .. Len(q) : q[k].id = f.id => q[k].n <= top
  PROVE  LET r == Append(q, f) IN
         /\ Ordered(q) => Ordered(r)
         /\ f.id # i /\ Gapless(q, i, b) => Gapless(r, i, b)
         /\ f.id = i /\ Gapless(q, i, b) /\ Reaches(q, i, b, top) /\ b <= top
              => Gapless(r, i, b) /\ Reaches(r, i, b, top + 1)
         /\ \A t \in Nat : f.id # i /\ Reaches(q, i, b, t) => Reaches(r, i, b, t)
<1> DEFINE r == Append(q, f)
<1>1. /\ Len(q) \in Nat /\ Len(r) = Len(q) + 1 /\ r[Len(q) + 1] = f
      /\ \A k \in 1 .. Len(q) : r[k] = q[k]
  OBVIOUS
<1>2. \A k \in 1 .. Len(q) : q[k].n \in Nat /\ q[k].id \in Ids
  BY FrameFields
<1> HIDE DEF r
<1>3. ASSUME Ordered(q)
      PROVE  Ordered(r)
  <2> SUFFICES ASSUME NEW k \in 1 .. Len(r), NEW l \in 1 .. Len(r), k < l, r[k].id = r[l].id
               PROVE  r[k].n < r[l].n
    BY DEF Ordered
  <2>1. CASE l = Len(q) + 1
    BY <1>1, <1>2, <2>1
  <2>2. CASE l # Len(q) + 1
    BY <1>1, <1>3, <2>2 DEF Ordered
  <2> QED
    BY <2>1, <2>2
<1>4. \A m : \A k \in 1 .. Len(q) : Has(q, k, i, m) => Has(r, k, i, m) /\ Has(r, Len(r), i, m)
  BY <1>1 DEF Has
<1>5. \A m : Has(q, Len(q), i, m) => Has(r, Len(r), i, m)
  BY <1>1 DEF Has
<1>6. ASSUME f.id # i, Gapless(q, i, b)
      PROVE  Gapless(r, i, b)
  BY <1>1, <1>4, <1>6 DEF Gapless
<1>7. ASSUME f.id = i, Gapless(q, i, b), Reaches(q, i, b, top), b <= top
      PROVE  Gapless(r, i, b) /\ Reaches(r, i, b, top + 1)
  <2>1. Has(r, Len(r), i, top + 1)
    BY <1>1, <1>7 DEF Has
  <2>2. \A m \in b + 1 .. top + 1 : Has(r, Len(r), i, m)
    BY <1>5, <1>7, <2>1 DEF Reaches
  <2>3. Gapless(r, i, b)
    <3> SUFFICES ASSUME NEW k \in 1 .. Len(r), r[k].id = i
                 PROVE  b < r[k].n /\ \A m \in b + 1 .. r[k].n : Has(r, k, i, m)
      BY DEF Gapless
    <3>1. CASE k = Len(q) + 1
      BY <1>1, <1>7, <2>2, <3>1
    <3>2. CASE k # Len(q) + 1
      BY <1>1, <1>4, <1>7, <3>2 DEF Gapless
    <3> QED
      BY <3>1, <3>2
  <2> QED
    BY <2>2, <2>3 DEF Reaches
<1>8. \A t \in Nat : f.id # i /\ Reaches(q, i, b, t) => Reaches(r, i, b, t)
  BY <1>5 DEF Reaches
<1> QED
  BY <1>3, <1>6, <1>7, <1>8 DEF r

\* The oldest frame is the next of its stream, and what follows it goes on
\* from there.
LEMMA PathTail ==
  ASSUME NEW q \in Seq(Frame), q # <<>>, Ordered(q), NEW i \in Ids, NEW b \in Nat
  PROVE  LET r == Tail(q)  h == Head(q) IN
         /\ Ordered(r)
         /\ \A k \in 1 .. Len(r) : r[k].id = h.id => h.n < r[k].n
         /\ h.id = i /\ Gapless(q, i, b) => h.n = b + 1 /\ Gapless(r, i, b + 1)
         /\ h.id # i /\ Gapless(q, i, b) => Gapless(r, i, b)
         /\ \A t \in Nat : h.id = i /\ h.n = b + 1 /\ Reaches(q, i, b, t) => Reaches(r, i, b + 1, t)
         /\ \A t \in Nat : h.id # i /\ Reaches(q, i, b, t) => Reaches(r, i, b, t)
<1> DEFINE r == Tail(q)
           h == Head(q)
<1>1. /\ Len(q) \in Nat \ {0} /\ Len(r) = Len(q) - 1 /\ h = q[1]
      /\ \A k \in 1 .. Len(q) - 1 : r[k] = q[k + 1]
  OBVIOUS
<1>2. \A k \in 1 .. Len(q) : q[k].n \in Nat /\ q[k].id \in Ids
  BY FrameFields
<1> HIDE DEF r, h
<1>3. Ordered(r)
  <2> SUFFICES ASSUME NEW k \in 1 .. Len(r), NEW l \in 1 .. Len(r), k < l, r[k].id = r[l].id
               PROVE  r[k].n < r[l].n
    BY DEF Ordered
  <2>1. /\ k + 1 \in 1 .. Len(q) /\ l + 1 \in 1 .. Len(q) /\ k + 1 < l + 1
        /\ r[k] = q[k + 1] /\ r[l] = q[l + 1]
    BY <1>1
  <2> QED
    BY <2>1 DEF Ordered
<1>4. \A k \in 1 .. Len(r) : r[k].id = h.id => h.n < r[k].n
  BY <1>1 DEF Ordered
<1>5. \A m : \A k \in 1 .. Len(q) : Has(q, k, i, m) /\ ~ (h.id = i /\ h.n = m) => k > 1 /\ Has(r, k - 1, i, m)
  <2> SUFFICES ASSUME NEW k \in 1 .. Len(q), NEW m, Has(q, k, i, m), ~ (h.id = i /\ h.n = m)
               PROVE  k > 1 /\ Has(r, k - 1, i, m)
    OBVIOUS
  <2>1. PICK l \in 1 .. k : q[l].id = i /\ q[l].n = m
    BY DEF Has
  <2>2. l # 1
    BY <1>1, <2>1
  <2>3. l - 1 \in 1 .. k - 1 /\ r[l - 1] = q[l] /\ k > 1
    BY <1>1, <2>1, <2>2
  <2> QED
    BY <2>1, <2>3 DEF Has
<1>6. ASSUME h.id = i, Gapless(q, i, b)
      PROVE  h.n = b + 1 /\ Gapless(r, i, b + 1)
  <2>1. h.n \in Nat /\ b < h.n /\ Has(q, 1, i, b + 1)
    BY <1>1, <1>2, <1>6 DEF Gapless
  <2>2. h.n = b + 1
    BY <1>1, <2>1 DEF Has
  <2>3. Gapless(r, i, b + 1)
    <3> SUFFICES ASSUME NEW k \in 1 .. Len(r), r[k].id = i
                 PROVE  b + 1 < r[k].n /\ \A m \in b + 1 + 1 .. r[k].n : Has(r, k, i, m)
      BY DEF Gapless
    <3>1. b + 1 < r[k].n
      BY <1>4, <1>6, <2>2
    <3>2. k + 1 \in 1 .. Len(q) /\ q[k + 1] = r[k]
      BY <1>1
    <3>3. ASSUME NEW m \in b + 1 + 1 .. r[k].n
          PROVE  Has(r, k, i, m)
      <4>1. m \in b + 1 .. q[k + 1].n /\ m # h.n
        BY <1>2, <2>2, <3>2
      <4>2. Has(q, k + 1, i, m)
        BY <1>6, <3>2, <4>1 DEF Gapless
      <4> QED
        BY <1>5, <3>2, <4>1, <4>2
    <3> QED
      BY <3>1, <3>3
  <2> QED
    BY <2>2, <2>3
<1>7. ASSUME h.id # i, Gapless(q, i, b)
      PROVE  Gapless(r, i, b)
  <2> SUFFICES ASSUME NEW k \in 1 .. Len(r), r[k].id = i
               PROVE  b < r[k].n /\ \A m \in b + 1 .. r[k].n : Has(r, k, i, m)
    BY DEF Gapless
  <2>1. k + 1 \in 1 .. Len(q) /\ q[k + 1] = r[k]
    BY <1>1
  <2>2. b < q[k + 1].n /\ \A m \in b + 1 .. q[k + 1].n : Has(q, k + 1, i, m)
    BY <1>7, <2>1 DEF Gapless
  <2> QED
    BY <1>5, <1>7, <2>1, <2>2
<1>8. ASSUME NEW t \in Nat, h.id = i, h.n = b + 1, Reaches(q, i, b, t)
      PROVE  Reaches(r, i, b + 1, t)
  <2> SUFFICES ASSUME NEW m \in b + 1 + 1 .. t
               PROVE  Has(r, Len(r), i, m)
    BY DEF Reaches
  <2>1. Has(q, Len(q), i, m) /\ m # h.n
    BY <1>8 DEF Reaches
  <2> QED
    BY <1>1, <1>5, <2>1
<1>9. ASSUME NEW t \in Nat, h.id # i, Reaches(q, i, b, t)
      PROVE  Reaches(r, i, b, t)
  <2> SUFFICES ASSUME NEW m \in b + 1 .. t
               PROVE  Has(r, Len(r), i, m)
    BY DEF Reaches
  <2>1. Has(q, Len(q), i, m)
    BY <1>9 DEF Reaches
  <2> QED
    BY <1>1, <1>5, <1>9, <2>1
<1> QED
  BY <1>3, <1>4, <1>6, <1>7, <1>8, <1>9 DEF r, h

\* What is left of a path when its end is cut off has no gap either.
LEMMA PathPrefix ==
  ASSUME NEW q \in Seq(Frame), NEW r \in Seq(Frame), Len(r) <= Len(q),
         \A k \in 1 .. Len(r) : r[k] = q[k], NEW i \in Ids, NEW b \in Nat
  PROVE  /\ Ordered(q) => Ordered(r)
         /\ Gapless(q, i, b) => Gapless(r, i, b)
<1>1. Len(q) \in Nat /\ Len(r) \in Nat
  OBVIOUS
<1>2. Ordered(q) => Ordered(r)
  BY <1>1 DEF Ordered
<1>3. \A m : \A k \in 1 .. Len(r) : Has(q, k, i, m) => Has(r, k, i, m)
  BY <1>1 DEF Has
<1>4. Gapless(q, i, b) => Gapless(r, i, b)
  BY <1>1, <1>3 DEF Gapless
<1> QED
  BY <1>2, <1>4

-----------------------------------------------------------------------------
(* How the steps of an end change the two paths                            *)

\* There are two ends.
LEMMA Ends ==
  ASSUME NEW s \in Sides
  PROVE  Peer(s) \in Sides /\ Peer(Peer(s)) = s /\ Peer(s) # s /\ Sides = {s, Peer(s)}
  BY DEF Peer, Sides

\* An id belongs to exactly one end.
LEMMA OneOwner ==
  ASSUME NEW s \in Sides, NEW i \in Ids
  PROVE  i \in Own(Peer(s)) <=> i \notin Own(s)
<1>1. i % 2 \in {0, 1}
  BY CapAssumption
<1> QED
  BY <1>1 DEF Own, Parity, Peer, Sides

\* The parts of a path are sequences of frames, and so is the path.
LEMMA PathType ==
  ASSUME Types, NEW p \in Sides
  PROVE  /\ cur[Peer(p)] \in Seq(Frame) /\ wire[p] \in Seq(Frame)
         /\ batch[p] \in Seq(Frame) /\ outq[p] \in Seq(Frame)
         /\ batch[p] \o outq[p] \in Seq(Frame) /\ wire[p] \o (batch[p] \o outq[p]) \in Seq(Frame)
         /\ Path(p) \in Seq(Frame)
<1>1. /\ cur[Peer(p)] \in Seq(Frame) /\ wire[p] \in Seq(Frame)
      /\ batch[p] \in Seq(Frame) /\ outq[p] \in Seq(Frame)
  BY Ends DEF Types
<1>2. batch[p] \o outq[p] \in Seq(Frame)
  BY <1>1, ConcatProperties
<1>3. wire[p] \o (batch[p] \o outq[p]) \in Seq(Frame)
  BY <1>1, <1>2, ConcatProperties
<1>4. Path(p) \in Seq(Frame)
  BY <1>1, <1>3, ConcatProperties DEF Path
<1> QED
  BY <1>1, <1>2, <1>3, <1>4

\* Concatenation of sequences of frames is associative.
LEMMA Assoc == \A a, b, c \in Seq(Frame) : (a \o b) \o c = a \o (b \o c)
<1> SUFFICES ASSUME NEW a \in Seq(Frame), NEW b \in Seq(Frame), NEW c \in Seq(Frame)
             PROVE  (a \o b) \o c = a \o (b \o c)
  OBVIOUS
<1> QED
  BY ConcatAssociative

\* The head of a sequence is the head of what it is a part of.
LEMMA HeadOfConcat ==
  ASSUME NEW S, NEW w \in Seq(S), NEW r \in Seq(S), w # <<>>
  PROVE  /\ w \o r # <<>> /\ Head(w \o r) = Head(w) /\ Tail(w \o r) = Tail(w) \o r
         /\ <<Head(w)>> \o Tail(w) = w /\ Head(w) \in S /\ Tail(w) \in Seq(S)
<1>1. Head(w) \in S /\ Tail(w) \in Seq(S) /\ Len(w) \in Nat \ {0} /\ Len(r) \in Nat
      /\ Len(Tail(w)) = Len(w) - 1 /\ Head(w) = w[1] /\ \A k \in 1 .. Len(w) - 1 : Tail(w)[k] = w[k + 1]
  OBVIOUS
<1>2. /\ w \o r \in Seq(S) /\ Len(w \o r) = Len(w) + Len(r)
      /\ \A k \in 1 .. Len(w) + Len(r) : (w \o r)[k] = IF k <= Len(w) THEN w[k] ELSE r[k - Len(w)]
  BY ConcatProperties
<1>3. w \o r # <<>> /\ Head(w \o r) = Head(w)
  BY <1>1, <1>2
<1>4. Tail(w \o r) = Tail(w) \o r
  <2>1. /\ Tail(w) \o r \in Seq(S) /\ Len(Tail(w) \o r) = Len(w) - 1 + Len(r)
        /\ \A k \in 1 .. Len(w) - 1 + Len(r) :
             (Tail(w) \o r)[k] = IF k <= Len(w) - 1 THEN Tail(w)[k] ELSE r[k - (Len(w) - 1)]
    BY <1>1, ConcatProperties
  <2>2. /\ Tail(w \o r) \in Seq(S) /\ Len(Tail(w \o r)) = Len(w) + Len(r) - 1
        /\ \A k \in 1 .. Len(w) + Len(r) - 1 : Tail(w \o r)[k] = (w \o r)[k + 1]
    BY <1>2, <1>3, HeadTailProperties
  <2>3. \A k \in 1 .. Len(w) + Len(r) - 1 : Tail(w \o r)[k] = (Tail(w) \o r)[k]
    BY <1>1, <1>2, <2>1, <2>2
  <2> QED
    BY <1>1, <2>1, <2>2, <2>3, SeqEqual
<1>5. <<Head(w)>> \o Tail(w) = w
  <2>1. <<Head(w)>> \in Seq(S) /\ Len(<<Head(w)>>) = 1 /\ <<Head(w)>>[1] = Head(w)
    BY <1>1
  <2>2. /\ <<Head(w)>> \o Tail(w) \in Seq(S) /\ Len(<<Head(w)>> \o Tail(w)) = Len(w)
        /\ \A k \in 1 .. Len(w) :
             (<<Head(w)>> \o Tail(w))[k] = IF k <= 1 THEN <<Head(w)>>[k] ELSE Tail(w)[k - 1]
    BY <1>1, <2>1, ConcatProperties
  <2>3. \A k \in 1 .. Len(w) : (<<Head(w)>> \o Tail(w))[k] = w[k]
    BY <1>1, <2>1, <2>2
  <2> QED
    BY <2>2, <2>3, SeqEqual
<1> QED
  BY <1>1, <1>3, <1>4, <1>5

\* A sequence of one frame.
LEMMA Single ==
  ASSUME NEW c \in Seq(Frame), Len(c) = 1
  PROVE  c # <<>> /\ Head(c) = c[1]
  OBVIOUS

(* A part of one frame is empty without it.                                 *)
LEMMA SingleTail ==
  ASSUME NEW c \in Seq(Frame), Len(c) = 1
  PROVE  Tail(c) = <<>>
<1>1. Len(Tail(c)) = 0 /\ Tail(c) \in Seq(Frame)
  OBVIOUS
<1> QED
  BY <1>1, EmptySeq

\* The parts of a path put together: a frame appended to the last part, the
\* first frame of a part, a frame moved from the head of one part to the end of
\* the one before, the last part split, and the last part gone.
LEMMA CatAppend ==
  ASSUME NEW a \in Seq(Frame), NEW o \in Seq(Frame), NEW f \in Frame
  PROVE  a \o Append(o, f) = Append(a \o o, f)
<1>0. <<f>> \in Seq(Frame) /\ a \o o \in Seq(Frame)
  BY ConcatProperties
<1>1. Append(o, f) = o \o <<f>>
  BY AppendIsConcat
<1>2. a \o (o \o <<f>>) = (a \o o) \o <<f>>
  BY <1>0, Assoc
<1>3. (a \o o) \o <<f>> = Append(a \o o, f)
  BY <1>0, AppendIsConcat
<1> QED
  BY <1>1, <1>2, <1>3

(* The first frame of a part that is not the last.                          *)
LEMMA CatHead ==
  ASSUME NEW w \in Seq(Frame), NEW r \in Seq(Frame), w # <<>>
  PROVE  /\ w \o r # <<>> /\ Head(w \o r) = Head(w) /\ Tail(w \o r) = Tail(w) \o r
         /\ <<Head(w)>> \o (Tail(w) \o r) = w \o r
         /\ <<>> \o (w \o r) = w \o r /\ <<>> \o (Tail(w) \o r) = Tail(w) \o r
         /\ Len(w) = 1 => Tail(w) \o r = <<>> \o r
<1>1. /\ w \o r # <<>> /\ Head(w \o r) = Head(w) /\ Tail(w \o r) = Tail(w) \o r
      /\ <<Head(w)>> \o Tail(w) = w /\ Head(w) \in Frame /\ Tail(w) \in Seq(Frame)
  BY HeadOfConcat
<1>2. <<Head(w)>> \in Seq(Frame) /\ w \o r \in Seq(Frame) /\ Tail(w) \o r \in Seq(Frame)
  BY <1>1, ConcatProperties
<1>3. <<Head(w)>> \o (Tail(w) \o r) = (<<Head(w)>> \o Tail(w)) \o r
  BY <1>1, <1>2, Assoc
<1>4. <<>> \o (w \o r) = w \o r /\ <<>> \o (Tail(w) \o r) = Tail(w) \o r
  BY <1>2, ConcatEmptySeq
<1>5. Len(w) = 1 => Tail(w) = <<>>
  BY SingleTail
<1> QED
  BY <1>1, <1>3, <1>4, <1>5

(* A frame moved from the head of one part to the end of the one before.    *)
LEMMA CatMove ==
  ASSUME NEW w \in Seq(Frame), NEW b \in Seq(Frame), NEW o \in Seq(Frame), b # <<>>
  PROVE  Append(w, Head(b)) \o (Tail(b) \o o) = w \o (b \o o)
<1>1. /\ <<Head(b)>> \o Tail(b) = b /\ Head(b) \in Frame /\ Tail(b) \in Seq(Frame)
  BY HeadOfConcat
<1>2. <<Head(b)>> \in Seq(Frame) /\ Tail(b) \o o \in Seq(Frame)
  BY <1>1, ConcatProperties
<1>3. Append(w, Head(b)) = w \o <<Head(b)>>
  BY <1>1, AppendIsConcat
<1>4. (w \o <<Head(b)>>) \o (Tail(b) \o o) = w \o (<<Head(b)>> \o (Tail(b) \o o))
  BY <1>2, Assoc
<1>5. <<Head(b)>> \o (Tail(b) \o o) = (<<Head(b)>> \o Tail(b)) \o o
  BY <1>1, <1>2, Assoc
<1> QED
  BY <1>1, <1>3, <1>4, <1>5

(* The last part split at k.                                                *)
LEMMA CatSplit ==
  ASSUME NEW o \in Seq(Frame), NEW k \in 1 .. Len(o)
  PROVE  SubSeq(o, 1, k) \o SubSeq(o, k + 1, Len(o)) = <<>> \o o
<1>1. Len(o) \in Nat
  OBVIOUS
<1>2. /\ 1 \in 1 .. Len(o) + 1 /\ k \in 1 - 1 .. Len(o) /\ Len(o) \in k .. Len(o)
  BY <1>1
<1>3. SubSeq(o, 1, k) \o SubSeq(o, k + 1, Len(o)) = SubSeq(o, 1, Len(o))
  BY <1>2, ConcatAdjacentSubSeq
<1> QED
  BY <1>3, SubSeqFull, ConcatEmptySeq

(* The path without its last part is a prefix of it.                        *)
LEMMA CatPrefix ==
  ASSUME NEW c \in Seq(Frame), NEW w \in Seq(Frame), NEW b \in Seq(Frame), NEW o \in Seq(Frame),
         NEW q, NEW r, q = c \o (w \o (b \o o)), r = c \o (w \o (b \o <<>>))
  PROVE  /\ r \in Seq(Frame) /\ Len(r) <= Len(q)
         /\ \A k \in 1 .. Len(r) : r[k] = q[k]
<1>1. w \o b \in Seq(Frame) /\ c \o (w \o b) \in Seq(Frame)
  BY ConcatProperties
<1>2. r = c \o (w \o b)
  BY ConcatEmptySeq
<1>3. q = r \o o
  <2>1. w \o (b \o o) = (w \o b) \o o
    BY Assoc, ZenonT(60)
  <2>2. c \o ((w \o b) \o o) = (c \o (w \o b)) \o o
    BY <1>1, Assoc, ZenonT(60)
  <2> QED
    BY <1>2, <2>1, <2>2
<1>4. r \in Seq(Frame)
  BY <1>1, <1>2
<1>5. /\ Len(r \o o) = Len(r) + Len(o) /\ Len(r) \in Nat /\ Len(o) \in Nat
      /\ \A k \in 1 .. Len(r) + Len(o) : (r \o o)[k] = IF k <= Len(r) THEN r[k] ELSE o[k - Len(r)]
  BY <1>4, ConcatProperties
<1> QED
  BY <1>3, <1>4, <1>5

\* A step that leaves the four parts of a path alone leaves the path.
LEMMA PathSame ==
  ASSUME NEW p \in Sides, cur'[Peer(p)] = cur[Peer(p)], wire'[p] = wire[p],
         batch'[p] = batch[p], outq'[p] = outq[p]
  PROVE  Path(p)' = Path(p)
  BY DEF Path

\* A frame that is sent goes to the end of the path.
LEMMA PathSent ==
  ASSUME Types, NEW p \in Sides, NEW f \in Frame, cur'[Peer(p)] = cur[Peer(p)],
         wire'[p] = wire[p], batch'[p] = batch[p], outq'[p] = Append(outq[p], f)
  PROVE  Path(p)' = Append(Path(p), f)
<1>1. batch[p] \o Append(outq[p], f) = Append(batch[p] \o outq[p], f)
  BY PathType, CatAppend
<1>2. wire[p] \o Append(batch[p] \o outq[p], f) = Append(wire[p] \o (batch[p] \o outq[p]), f)
  BY PathType, CatAppend
<1>3. cur[Peer(p)] \o Append(wire[p] \o (batch[p] \o outq[p]), f) = Append(Path(p), f)
  BY PathType, CatAppend, ZenonT(60) DEF Path
<1> QED
  BY <1>1, <1>2, <1>3 DEF Path

\* The loop takes the oldest frame of the path from the wire, to deliver it or
\* to be done with it.
LEMMA PathReceived ==
  ASSUME Types, NEW s \in Sides, Receive(s), cur[s] = <<>>,
         batch'[Peer(s)] = batch[Peer(s)], outq'[Peer(s)] = outq[Peer(s)]
  PROVE  /\ Path(Peer(s)) # <<>> /\ Head(Path(Peer(s))) = Arrived(s)
         /\ cur'[s] = <<Arrived(s)>> => Path(Peer(s))' = Path(Peer(s))
         /\ cur'[s] = <<>> => Path(Peer(s))' = Tail(Path(Peer(s)))
<1> DEFINE p == Peer(s)
<1>1. /\ p \in Sides /\ Peer(p) = s /\ wire[p] # <<>> /\ wire'[p] = Tail(wire[p])
  BY Ends DEF Receive, Types
<1>2. wire[p] \in Seq(Frame) /\ batch[p] \o outq[p] \in Seq(Frame)
  BY <1>1, PathType
<1>3. PICK w, r \in Seq(Frame) : w = wire[p] /\ r = batch[p] \o outq[p]
  BY <1>2
<1>4. /\ w # <<>> /\ Arrived(s) = Head(w) /\ Path(p) = <<>> \o (w \o r)
      /\ Path(p)' = cur'[s] \o (Tail(w) \o r)
  BY <1>1, <1>3 DEF Path, Arrived
<1>5. /\ w \o r # <<>> /\ Head(w \o r) = Head(w) /\ Tail(w \o r) = Tail(w) \o r
      /\ <<Head(w)>> \o (Tail(w) \o r) = w \o r
      /\ <<>> \o (w \o r) = w \o r /\ <<>> \o (Tail(w) \o r) = Tail(w) \o r
  BY <1>4, CatHead
<1> QED
  BY <1>4, <1>5

\* When it is done with the frame it was delivering, the path is one shorter.
LEMMA PathDelivered ==
  ASSUME Types, NEW s \in Sides, Len(cur[s]) = 1, cur'[s] = <<>>,
         wire'[Peer(s)] = wire[Peer(s)], batch'[Peer(s)] = batch[Peer(s)], outq'[Peer(s)] = outq[Peer(s)]
  PROVE  /\ Path(Peer(s)) # <<>> /\ Head(Path(Peer(s))) = cur[s][1]
         /\ Path(Peer(s))' = Tail(Path(Peer(s)))
<1> DEFINE p == Peer(s)
<1>1. p \in Sides /\ Peer(p) = s
  BY Ends
<1>2. cur[s] \in Seq(Frame) /\ wire[p] \o (batch[p] \o outq[p]) \in Seq(Frame)
  BY <1>1, PathType
<1>3. PICK c, r \in Seq(Frame) : c = cur[s] /\ r = wire[p] \o (batch[p] \o outq[p])
  BY <1>2
<1>4. c # <<>> /\ Head(c) = c[1] /\ Len(c) = 1
  BY <1>3, Single, Zenon
<1>5. Path(p) = c \o r /\ Path(p)' = <<>> \o r
  BY <1>1, <1>3 DEF Path
<1>6. c \o r # <<>> /\ Head(c \o r) = Head(c) /\ Tail(c \o r) = Tail(c) \o r /\ Tail(c) \o r = <<>> \o r
  BY <1>4, CatHead
<1> QED
  BY <1>3, <1>4, <1>5, <1>6

\* A batch is the beginning of what was queued.
LEMMA PathDrained ==
  ASSUME Types, NEW s \in Sides, NEW k, Drain(s, k), batch[s] = <<>>
  PROVE  Path(s)' = Path(s)
<1>1. /\ batch'[s] = SubSeq(outq[s], 1, k) /\ outq'[s] = SubSeq(outq[s], k + 1, Len(outq[s]))
      /\ UNCHANGED <<cur, wire>> /\ k \in 1 .. Len(outq[s])
  BY DEF Drain, Types
<1>2. SubSeq(outq[s], 1, k) \o SubSeq(outq[s], k + 1, Len(outq[s])) = <<>> \o outq[s]
  BY <1>1, PathType, CatSplit
<1> QED
  BY <1>1, <1>2 DEF Path

\* The socket takes the batch from its head.
LEMMA PathWritten ==
  ASSUME Types, NEW s \in Sides, WriteSome(s), batch[s] # <<>>
  PROVE  Path(s)' = Path(s)
<1>1. wire'[s] = Append(wire[s], Head(batch[s])) /\ batch'[s] = Tail(batch[s]) /\ UNCHANGED <<cur, outq>>
  BY DEF WriteSome, Types
<1>2. PICK w, b, o \in Seq(Frame) : w = wire[s] /\ b = batch[s] /\ o = outq[s]
  BY PathType
<1>3. Append(w, Head(b)) \o (Tail(b) \o o) = w \o (b \o o)
  BY <1>2, CatMove, ZenonT(60)
<1> QED
  BY <1>1, <1>2, <1>3 DEF Path

\* When the outgoing channel is closed the end of the path is cut off.
LEMMA PathClosed ==
  ASSUME Types, NEW s \in Sides, CloseOutgoing(s)
  PROVE  /\ Path(s)' \in Seq(Frame) /\ Len(Path(s)') <= Len(Path(s))
         /\ \A k \in 1 .. Len(Path(s)') : Path(s)'[k] = Path(s)[k]
<1>1. outq'[s] = <<>> /\ UNCHANGED <<cur, wire, batch>>
  BY DEF CloseOutgoing, Types
<1>2. PICK c, w, b, o \in Seq(Frame) : c = cur[Peer(s)] /\ w = wire[s] /\ b = batch[s] /\ o = outq[s]
  BY PathType
<1>3. Path(s)' = c \o (w \o (b \o <<>>)) /\ Path(s) = c \o (w \o (b \o o))
  BY <1>1, <1>2 DEF Path
<1> QED
  BY <1>3, CatPrefix, SMTT(60)

-----------------------------------------------------------------------------
(* What these changes keep of a path                                       *)

\* Positions are numbers.
LEMMA BaseType ==
  ASSUME Types, NEW s \in Sides, NEW i \in Ids
  PROVE  Base(s, i) \in Nat /\ inq[s][i] \in Seq(Frame) /\ got[s][i] \in Nat /\ queued[s][i] \in Nat
<1>1. inq[s][i] \in Seq(Frame) /\ got[s][i] \in Nat /\ queued[s][i] \in Nat
  BY DEF Types
<1>2. Len(inq[s][i]) \in Nat
  BY <1>1
<1> QED
  BY <1>1, <1>2 DEF Base

(* The same types after a step.                                             *)
LEMMA BaseTypeNext ==
  ASSUME Types', NEW s \in Sides, NEW i \in Ids
  PROVE  Base(s, i)' \in Nat /\ inq'[s][i] \in Seq(Frame) /\ got'[s][i] \in Nat /\ queued'[s][i] \in Nat
<1>1. inq'[s][i] \in Seq(Frame) /\ got'[s][i] \in Nat /\ queued'[s][i] \in Nat
  BY DEF Types
<1>2. Len(inq'[s][i]) \in Nat
  BY <1>1
<1> QED
  BY <1>1, <1>2 DEF Base

\* The path stays; what the other end expects does not grow, but for streams
\* on which nothing was sent.
LEMMA TravelSame ==
  ASSUME Types, Types', NEW p \in Sides, TravelsAt(p), Path(p)' = Path(p), queued'[p] = queued[p],
         outOpen'[p] => outOpen[p],
         \A i \in Ids : Expects(Peer(p), i)' =>
            \/ Expects(Peer(p), i) /\ Base(Peer(p), i)' = Base(Peer(p), i)
            \/ queued[p][i] = 0,
         \A i \in Ids : handle[Peer(p)][i] = "none" /\ i \in Own(p) => handle'[Peer(p)][i] = "none"
  PROVE  TravelsAt(p)'
<1>0. PICK q \in Seq(Frame) : Path(p) = q
  BY PathType
<1>1. q \in Seq(Frame) /\ Peer(p) \in Sides
  BY PathType, Ends
<1>2. \A k \in 1 .. Len(q) : q[k].id \in Ids /\ q[k].n \in Nat /\ Valid(p, q[k])
  BY <1>1, <1>0, FrameFields DEF TravelsAt
<1>3. \A k \in 1 .. Len(q) : Valid(p, q[k])'
  BY <1>2 DEF Valid
<1>4. ASSUME NEW i \in Ids, Expects(Peer(p), i)'
      PROVE  /\ Gapless(q, i, Base(Peer(p), i)')
             /\ outOpen'[p] => Reaches(q, i, Base(Peer(p), i)', queued[p][i])
  <2>1. CASE Expects(Peer(p), i) /\ Base(Peer(p), i)' = Base(Peer(p), i)
    BY <1>0, <2>1 DEF TravelsAt
  <2>2. CASE queued[p][i] = 0
    <3>1. \A k \in 1 .. Len(q) : q[k].id # i
      BY <1>2, <2>2 DEF Valid
    <3>2. Base(Peer(p), i)' \in Nat
      BY <1>1, BaseTypeNext
    <3> QED
      BY <2>2, <3>1, <3>2 DEF Gapless, Reaches
  <2> QED
    BY <1>4, <2>1, <2>2
<1>5. Ordered(q)
  BY <1>0 DEF TravelsAt
<1> QED
  BY <1>0, <1>3, <1>4, <1>5 DEF TravelsAt

\* A frame is sent, and the other end does not move.
LEMMA TravelSent ==
  ASSUME Types, NEW p \in Sides, TravelsAt(p), NEW f \in Frame,
         Path(p)' = Append(Path(p), f), outOpen[p], f.n = queued[p][f.id] + 1,
         queued'[p] = [queued[p] EXCEPT ![f.id] = f.n],
         f.kind = "open" <=> f.n = 1 /\ f.id \in Own(p),
         f.kind = "open" => handle[Peer(p)][f.id] = "none",
         handle'[Peer(p)] = handle[Peer(p)],
         \A i \in Ids : Expects(Peer(p), i)' => Expects(Peer(p), i) /\ Base(Peer(p), i)' = Base(Peer(p), i),
         \A i \in Ids : Base(Peer(p), i) <= queued[p][i]
  PROVE  TravelsAt(p)'
<1>0. PICK q \in Seq(Frame) : Path(p) = q
  BY PathType
<1> DEFINE r == Append(q, f)
<1>1. Peer(p) \in Sides /\ r \in Seq(Frame) /\ f.id \in Ids
  <2>1. r \in Seq(Frame) /\ Peer(p) \in Sides
    BY Ends
  <2>2. f.id \in Ids
    BY DEF Frame
  <2> QED
    BY <2>1, <2>2
<1>2. \A k \in 1 .. Len(q) : q[k].id \in Ids /\ q[k].n \in Nat /\ Valid(p, q[k])
  BY <1>1, <1>0, FrameFields DEF TravelsAt
<1>3. \A i \in Ids : queued[p][i] \in Nat /\ queued'[p][i] = IF i = f.id THEN f.n ELSE queued[p][i]
  <2>1. queued[p] \in [Ids -> Nat]
    BY DEF Types
  <2> QED
    BY <1>1, <2>1
<1>4. \A k \in 1 .. Len(q) : Valid(p, q[k])'
  BY <1>2, <1>3 DEF Valid
<1>5. Valid(p, f)'
  BY <1>1, <1>3 DEF Valid
<1>6. \A k \in 1 .. Len(r) : Valid(p, r[k])'
  <2>1. Len(r) = Len(q) + 1 /\ Len(q) \in Nat /\ r[Len(q) + 1] = f /\ \A k \in 1 .. Len(q) : r[k] = q[k]
    BY <1>1
  <2> HIDE DEF r
  <2> QED
    BY <1>4, <1>5, <2>1
<1>7. \A k \in 1 .. Len(q) : q[k].id = f.id => q[k].n <= queued[p][f.id]
  BY <1>2 DEF Valid
<1>8. Ordered(q)
  BY <1>0 DEF TravelsAt
<1>9. ASSUME NEW i \in Ids
      PROVE  /\ Ordered(r)
             /\ Expects(Peer(p), i)' => /\ Gapless(r, i, Base(Peer(p), i)')
                                        /\ Reaches(r, i, Base(Peer(p), i)', queued'[p][i])
  <2>1. Base(Peer(p), i) \in Nat /\ queued[p][f.id] \in Nat /\ queued[p][i] \in Nat
    BY <1>1, <1>3, BaseType
  <2>2. PICK b \in Nat, top \in Nat : b = Base(Peer(p), i) /\ top = queued[p][f.id]
    BY <2>1
  <2>3. /\ Ordered(q) => Ordered(r)
        /\ f.id # i /\ Gapless(q, i, b) => Gapless(r, i, b)
        /\ f.id = i /\ Gapless(q, i, b) /\ Reaches(q, i, b, top) /\ b <= top
             => Gapless(r, i, b) /\ Reaches(r, i, b, top + 1)
        /\ \A t \in Nat : f.id # i /\ Reaches(q, i, b, t) => Reaches(r, i, b, t)
    BY <1>1, <1>7, <2>2, PathAppend
  <2>4. Expects(Peer(p), i)' => Gapless(q, i, b) /\ Reaches(q, i, b, queued[p][i]) /\ Base(Peer(p), i)' = b
    BY <1>0, <2>2 DEF TravelsAt
  <2>5. b <= queued[p][i]
    BY <2>2
  <2>6. CASE f.id = i
    <3>1. top = queued[p][i] /\ queued'[p][i] = top + 1
      BY <1>3, <2>2, <2>6
    <3> QED
      BY <1>8, <2>3, <2>4, <2>5, <2>6, <3>1
  <2>7. CASE f.id # i
    <3>1. queued'[p][i] = queued[p][i]
      BY <1>3, <2>7
    <3> QED
      BY <1>8, <2>1, <2>3, <2>4, <2>7, <3>1
  <2> QED
    BY <2>6, <2>7
<1> QED
  BY <1>0, <1>1, <1>6, <1>9 DEF TravelsAt

\* The other end takes the oldest frame: if it still expects frames of that
\* stream afterwards, it has moved by one.
LEMMA TravelTaken ==
  ASSUME Types, NEW p \in Sides, TravelsAt(p), Path(p) # <<>>, Path(p)' = Tail(Path(p)),
         queued'[p] = queued[p], outOpen'[p] => outOpen[p], NEW h, h = Head(Path(p)),
         \A i \in Ids : i # h.id =>
            /\ Expects(Peer(p), i)' => Expects(Peer(p), i) /\ Base(Peer(p), i)' = Base(Peer(p), i)
            /\ handle[Peer(p)][i] = "none" => handle'[Peer(p)][i] = "none",
         Expects(Peer(p), h.id)' =>
            Expects(Peer(p), h.id) /\ Base(Peer(p), h.id)' = Base(Peer(p), h.id) + 1
  PROVE  TravelsAt(p)'
<1>0. PICK q \in Seq(Frame) : Path(p) = q
  BY PathType
<1> DEFINE r == Tail(q)
<1>1. Peer(p) \in Sides /\ q # <<>> /\ h = Head(q)
  BY <1>0, Ends
<1>2. /\ Len(q) \in Nat \ {0} /\ Len(r) = Len(q) - 1 /\ h = q[1]
      /\ \A k \in 1 .. Len(q) - 1 : r[k] = q[k + 1]
  <2>1. /\ Len(q) \in Nat \ {0} /\ Len(r) = Len(q) - 1 /\ Head(q) = q[1]
        /\ \A k \in 1 .. Len(q) - 1 : r[k] = q[k + 1]
    BY <1>1
  <2> QED
    BY <1>1, <2>1
<1>3. \A k \in 1 .. Len(q) : q[k].id \in Ids /\ q[k].n \in Nat /\ Valid(p, q[k])
  BY <1>1, <1>0, FrameFields DEF TravelsAt
<1>4. Ordered(q)
  BY <1>0 DEF TravelsAt
<1>5. \A k \in 1 .. Len(r) : r[k].id = h.id => h.n < r[k].n
  BY <1>2, <1>4 DEF Ordered
<1> HIDE DEF r
<1>6. ASSUME NEW k \in 1 .. Len(r)
      PROVE  Valid(p, r[k])'
  <2>1. k + 1 \in 1 .. Len(q) /\ 1 \in 1 .. Len(q) /\ r[k] = q[k + 1]
    BY <1>2
  <2>2. Valid(p, r[k]) /\ Valid(p, h) /\ r[k].id \in Ids /\ r[k].n \in Nat /\ h.n \in Nat
    BY <1>2, <1>3, <2>1
  <2>3. r[k].kind = "open" => r[k].id # h.id
    BY <1>5, <2>2 DEF Valid
  <2> QED
    BY <2>2, <2>3 DEF Valid
<1>7. ASSUME NEW i \in Ids
      PROVE  /\ Ordered(r)
             /\ Expects(Peer(p), i)' =>
                  /\ Gapless(r, i, Base(Peer(p), i)')
                  /\ outOpen'[p] => Reaches(r, i, Base(Peer(p), i)', queued[p][i])
  <2>1. Base(Peer(p), i) \in Nat /\ queued[p][i] \in Nat
    BY <1>1, BaseType
  <2>2. PICK b \in Nat, top \in Nat : b = Base(Peer(p), i) /\ top = queued[p][i]
    BY <2>1
  <2>3. /\ Ordered(r)
        /\ h.id = i /\ Gapless(q, i, b) => h.n = b + 1 /\ Gapless(r, i, b + 1)
        /\ h.id # i /\ Gapless(q, i, b) => Gapless(r, i, b)
        /\ \A t \in Nat : h.id = i /\ h.n = b + 1 /\ Reaches(q, i, b, t) => Reaches(r, i, b + 1, t)
        /\ \A t \in Nat : h.id # i /\ Reaches(q, i, b, t) => Reaches(r, i, b, t)
    BY <1>0, <1>1, <1>4, <2>2, PathTail DEF r
  <2>4. /\ Expects(Peer(p), i)' => Gapless(q, i, b)
        /\ Expects(Peer(p), i)' /\ outOpen'[p] => Reaches(q, i, b, top)
        /\ Expects(Peer(p), i)' => Base(Peer(p), i)' = IF i = h.id THEN b + 1 ELSE b
    BY <1>0, <2>2 DEF TravelsAt
  <2> QED
    BY <2>2, <2>3, <2>4
<1>8. h.id \in Ids
  BY <1>2, <1>3
<1> QED
  BY <1>0, <1>6, <1>7, <1>8 DEF TravelsAt, r

\* The end of the path is cut off, and nothing more will be sent.
LEMMA TravelClosed ==
  ASSUME Types, NEW p \in Sides, TravelsAt(p), ~ outOpen'[p],
         NEW r \in Seq(Frame), Path(p)' = r, Len(r) <= Len(Path(p)),
         \A k \in 1 .. Len(r) : r[k] = Path(p)[k],
         queued' = queued, handle' = handle,
         \A i \in Ids : Expects(Peer(p), i)' => Expects(Peer(p), i) /\ Base(Peer(p), i)' = Base(Peer(p), i)
  PROVE  TravelsAt(p)'
<1>0. PICK q \in Seq(Frame) : Path(p) = q
  BY PathType
<1>1. q \in Seq(Frame) /\ Peer(p) \in Sides /\ r \in Seq(Frame) /\ Len(q) \in Nat /\ Len(r) \in Nat
  BY PathType, Ends
<1>2. \A k \in 1 .. Len(q) : Valid(p, q[k])
  BY <1>0 DEF TravelsAt
<1>3. \A k \in 1 .. Len(r) : Valid(p, r[k])'
  <2>1. \A k \in 1 .. Len(r) : Valid(p, r[k])
    BY <1>0, <1>1, <1>2
  <2> QED
    BY <2>1 DEF Valid
<1>4. ASSUME NEW i \in Ids
      PROVE  Expects(Peer(p), i)' => Gapless(r, i, Base(Peer(p), i)')
  <2>1. Base(Peer(p), i) \in Nat
    BY <1>1, BaseType
  <2>2. Gapless(q, i, Base(Peer(p), i)) => Gapless(r, i, Base(Peer(p), i))
    BY <1>0, <1>1, <2>1, PathPrefix
  <2> QED
    BY <1>0, <2>2 DEF TravelsAt
<1>5. Ordered(r)
  <2>1. Ordered(q)
    BY <1>0 DEF TravelsAt
  <2>2. \A k \in 1 .. Len(r) : k \in 1 .. Len(q) /\ r[k] = q[k]
    BY <1>0, <1>1
  <2> QED
    BY <2>1, <2>2 DEF Ordered
<1> QED
  BY <1>0, <1>3, <1>4, <1>5 DEF TravelsAt

\* The oldest frame on its way is the next one of its stream.
LEMMA OldestFrame ==
  ASSUME Types, NEW p \in Sides, TravelsAt(p), Path(p) # <<>>, NEW h, h = Head(Path(p))
  PROVE  /\ h \in Frame /\ h.id \in Ids /\ h.n \in Nat /\ Valid(p, h)
         /\ Expects(Peer(p), h.id) => h.n = Base(Peer(p), h.id) + 1
<1>0. PICK q \in Seq(Frame) : Path(p) = q
  BY PathType
<1>1. q # <<>> /\ h = Head(q) /\ Peer(p) \in Sides
  BY <1>0, Ends
<1>2. Len(q) \in Nat \ {0} /\ Head(q) = q[1]
  BY <1>1
<1>3. h = q[1] /\ 1 \in 1 .. Len(q)
  BY <1>1, <1>2
<1>4. h \in Frame /\ h.id \in Ids /\ h.n \in Nat
  BY <1>3, FrameFields
<1>5. Valid(p, h) /\ Ordered(q)
  BY <1>0, <1>3 DEF TravelsAt
<1>6. ASSUME Expects(Peer(p), h.id)
      PROVE  h.n = Base(Peer(p), h.id) + 1
  <2>1. Gapless(q, h.id, Base(Peer(p), h.id))
    BY <1>0, <1>4, <1>6 DEF TravelsAt
  <2>2. Base(Peer(p), h.id) \in Nat
    BY <1>1, <1>4, BaseType
  <2> QED
    BY <1>1, <1>4, <1>5, <2>1, <2>2, PathTail
<1> QED
  BY <1>4, <1>5, <1>6

\* Nothing comes for a stream that its creator has not opened.
LEMMA NotOpened ==
  ASSUME Types, Created, NEW s \in Sides, NEW i \in Ids, i \in Own(s), queued[s][i] = 0
  PROVE  queued[Peer(s)][i] = 0
<1>1. Peer(s) \in Sides /\ Peer(Peer(s)) = s
  BY Ends
<1>2. CreatedAt(s, i) /\ CreatedAt(Peer(s), i)
  BY <1>1 DEF Created
<1>3. handle[Peer(s)][i] = "none"
  BY <1>2 DEF CreatedAt
<1> QED
  BY <1>2, <1>3 DEF CreatedAt

\* The creator of an open stream has sent something on it.
LEMMA OpenedSent ==
  ASSUME Types, Created, NEW s \in Sides, NEW i \in Ids, handle[s][i] \in {"open", "ended"}
  PROVE  ~ (queued[s][i] = 0 /\ i \in Own(s))
<1>1. CreatedAt(s, i) /\ queued[s][i] \in Nat
  BY DEF Types, Created
<1> QED
  BY <1>1 DEF CreatedAt

\* A frame that comes and opens nothing belongs to a stream known here.
LEMMA KnownHere ==
  ASSUME Types, Created, NEW s \in Sides, NEW h \in Frame, Valid(Peer(s), h), h.kind # "open",
         h.id \in Ids, Expects(s, h.id) => h.n = Base(s, h.id) + 1
  PROVE  handle[s][h.id] \notin {"none", "new", "inserted"}
<1>1. Peer(s) \in Sides /\ Peer(Peer(s)) = s
  BY Ends
<1>2. CreatedAt(s, h.id) /\ CreatedAt(Peer(s), h.id) /\ h.n \in Nat
  BY <1>1 DEF Created, Frame
<1>3. queued[Peer(s)][h.id] \in Nat /\ queued[Peer(s)][h.id] # 0
  <2>1. queued[Peer(s)][h.id] \in Nat
    BY <1>1 DEF Types
  <2>2. 1 <= h.n /\ h.n <= queued[Peer(s)][h.id]
    BY DEF Valid
  <2> QED
    BY <1>2, <2>1, <2>2
<1>4. CASE h.id \in Own(s)
  BY <1>2, <1>3, <1>4, NotOpened DEF CreatedAt
<1>5. CASE h.id \notin Own(s)
  <2>1. h.id \in Own(Peer(s))
    BY <1>5, OneOwner
  <2>2. handle[s][h.id] \notin {"new", "inserted"}
    BY <1>1, <1>2, <2>1 DEF CreatedAt
  <2>3. ASSUME handle[s][h.id] = "none"
        PROVE  FALSE
    <3>1. inq[s][h.id] = <<>> /\ got[s][h.id] = 0 /\ h.n = Base(s, h.id) + 1
      BY <1>2, <2>3 DEF CreatedAt, Expects
    <3>2. h.n = 1
      BY <3>1 DEF Base
    <3> QED
      BY <2>1, <3>2 DEF Valid
  <2> QED
    BY <2>2, <2>3
<1> QED
  BY <1>4, <1>5

\* What a send does to the count of the frames.
LEMMA SendCount ==
  ASSUME Types, NEW s \in Sides, NEW i \in Ids, NEW kind, Send(s, i, kind) \/ TrySend(s, i, kind)
  PROVE  /\ \A t \in Sides, j \in Ids :
              queued'[t][j] = queued[t][j] \/ (t = s /\ j = i /\ queued'[t][j] = queued[t][j] + 1)
         /\ Send(s, i, kind) /\ outOpen[s] => queued'[s][i] = queued[s][i] + 1
         /\ ~ outOpen[s] => queued' = queued
         /\ \A t \in Sides : t # s => outq'[t] = outq[t] /\ queued'[t] = queued[t]
<1>1. queued \in [Sides -> [Ids -> Nat]] /\ outq \in [Sides -> Seq(Frame)]
  BY DEF Types
<1>2. CASE Room(s) /\ Enqueue(s, i, kind)
  BY <1>1, <1>2 DEF Enqueue, Room
<1>3. CASE UNCHANGED <<outq, queued, fins>> /\ ~ (Send(s, i, kind) /\ outOpen[s])
  BY <1>3
<1>4. CASE TrySend(s, i, kind) /\ ~ Room(s) /\ Send(s, i, kind) /\ outOpen[s]
  BY <1>1, <1>4 DEF Enqueue, TrySend, Send
<1> QED
  BY <1>2, <1>3, <1>4 DEF Send, TrySend

\* A send keeps its path, when it opens a stream exactly as the first frame of
\* the creator.
LEMMA TravelSend ==
  ASSUME Types, Types', NEW s \in Sides, NEW i \in Ids, NEW kind \in Kinds,
         Send(s, i, kind) \/ TrySend(s, i, kind), TravelsAt(s), InOrder,
         batch'[s] = batch[s], wire'[s] = wire[s], cur'[Peer(s)] = cur[Peer(s)],
         outOpen' = outOpen, handle'[Peer(s)] = handle[Peer(s)], entry'[Peer(s)] = entry[Peer(s)],
         inq'[Peer(s)] = inq[Peer(s)], got'[Peer(s)] = got[Peer(s)],
         kind = "open" <=> queued[s][i] = 0 /\ i \in Own(s),
         kind = "open" => handle[Peer(s)][i] = "none"
  PROVE  TravelsAt(s)'
<1>0. Peer(s) \in Sides /\ Peer(Peer(s)) = s
  BY Ends
<1>1. \A j \in Ids : /\ Expects(Peer(s), j)' <=> Expects(Peer(s), j)
                     /\ Base(Peer(s), j)' = Base(Peer(s), j)
  BY DEF Expects, Base
<1>2. CASE Room(s) /\ Enqueue(s, i, kind)
  <2> DEFINE f == [id |-> i, kind |-> kind, n |-> queued[s][i] + 1]
  <2>1. queued[s][i] \in Nat
    BY DEF Types
  <2>2. f \in Frame /\ f.id = i /\ f.kind = kind /\ f.n = queued[s][i] + 1
    BY <2>1 DEF Frame
  <2>3. outq'[s] = Append(outq[s], f) /\ queued'[s] = [queued[s] EXCEPT ![i] = f.n]
    BY <1>2 DEF Enqueue, Types
  <2>4. PICK g \in Frame : /\ g.id = i /\ g.kind = kind /\ g.n = queued[s][i] + 1
                           /\ outq'[s] = Append(outq[s], g) /\ queued'[s] = [queued[s] EXCEPT ![i] = g.n]
    BY <2>2, <2>3
  <2>5. Path(s)' = Append(Path(s), g)
    BY <2>4, PathSent
  <2>6. \A j \in Ids : Base(Peer(s), j) <= queued[s][j]
    BY <1>0 DEF InOrder, Base
  <2>7. outOpen[s] /\ g.n = queued[s][g.id] + 1 /\ queued'[s] = [queued[s] EXCEPT ![g.id] = g.n]
    BY <1>2, <2>4 DEF Room
  <2>8. /\ g.kind = "open" <=> g.n = 1 /\ g.id \in Own(s)
        /\ g.kind = "open" => handle[Peer(s)][g.id] = "none"
    BY <2>1, <2>4
  <2> QED
    BY <1>1, <2>5, <2>6, <2>7, <2>8, TravelSent
<1>3. CASE UNCHANGED <<outq, queued, fins>>
  <2>1. Path(s)' = Path(s)
    BY <1>3, PathSame
  <2>2. /\ queued'[s] = queued[s] /\ (outOpen'[s] => outOpen[s])
        /\ \A j \in Ids : handle[Peer(s)][j] = "none" /\ j \in Own(s) => handle'[Peer(s)][j] = "none"
    BY <1>3
  <2> QED
    BY <1>1, <2>1, <2>2, TravelSame
<1> QED
  BY <1>2, <1>3 DEF Send, TrySend

-----------------------------------------------------------------------------
(* The steps                                                               *)

\* Every step keeps what the loop holds.
LEMMA ShapesStep ==
  ASSUME MuxInv, Shapes, [Next]_vars
  PROVE  Shapes'
<1> USE DEF Shapes
<1>t. /\ loop \in [Sides -> {"select", "send", "write", "exit", "cleared", "exited"}]
      /\ cur \in [Sides -> Seq(Frame)] /\ batch \in [Sides -> Seq(Frame)]
  BY DEF MuxInv, Types
<1>0. CASE UNCHANGED vars
  BY <1>0 DEF vars, io
<1>1. ASSUME NEW s \in Sides, TakeId(s)
      PROVE  Shapes'
  BY <1>1 DEF TakeId, io
<1>2. ASSUME NEW s \in Sides, NEW i \in Ids, Insert(s, i)
      PROVE  Shapes'
  BY <1>2 DEF Insert, io
<1>3. ASSUME NEW s \in Sides, NEW i \in Ids, SendOpen(s, i)
      PROVE  Shapes'
  BY <1>3 DEF SendOpen, io
<1>4. ASSUME NEW s \in Sides, NEW i \in Ids, Accept(s, i)
      PROVE  Shapes'
  BY <1>4 DEF Accept, io
<1>5. ASSUME NEW s \in Sides, NEW i \in Ids, Write(s, i)
      PROVE  Shapes'
  BY <1>5 DEF Write, io
<1>6. ASSUME NEW s \in Sides, NEW i \in Ids, Read(s, i)
      PROVE  Shapes'
  BY <1>6 DEF Read, io
<1>7. ASSUME NEW s \in Sides, NEW i \in Ids, ReadNone(s, i)
      PROVE  Shapes'
  BY <1>7 DEF ReadNone, io
<1>8. ASSUME NEW s \in Sides, NEW i \in Ids, Close(s, i)
      PROVE  Shapes'
  BY <1>8 DEF Close, io
<1>9. ASSUME NEW s \in Sides, NEW i \in Ids, Drop(s, i)
      PROVE  Shapes'
  BY <1>9 DEF Drop, io
<1>10. ASSUME NEW s \in Sides, ReceiveKnown(s)
      PROVE  Shapes'
  <2>1. Len(<<Arrived(s)>>) = 1
    OBVIOUS
  <2> QED
    BY <1>t, <1>10, <2>1 DEF ReceiveKnown, Receive
<1>11. ASSUME NEW s \in Sides, ReceiveOpen(s)
      PROVE  Shapes'
  BY <1>11 DEF ReceiveOpen, io
<1>12. ASSUME NEW s \in Sides, ReceiveRefuse(s)
      PROVE  Shapes'
  BY <1>12 DEF ReceiveRefuse, io
<1>13. ASSUME NEW s \in Sides, ReceiveUnknown(s)
      PROVE  Shapes'
  BY <1>13 DEF ReceiveUnknown, io
<1>14. ASSUME NEW s \in Sides, NEW i \in Ids, Deliver(s, i)
      PROVE  Shapes'
  BY <1>t, <1>14 DEF Deliver, Delivering, BackToSelect
<1>15. ASSUME NEW s \in Sides, NEW i \in Ids, DeliverDead(s, i)
      PROVE  Shapes'
  BY <1>t, <1>15 DEF DeliverDead, Delivering, BackToSelect
<1>16. ASSUME NEW s \in Sides, NEW i \in Ids, DeliverTimeout(s, i)
      PROVE  Shapes'
  BY <1>t, <1>16 DEF DeliverTimeout, Delivering, BackToSelect
<1>17. ASSUME NEW s \in Sides, NEW k \in 1 .. OutCap, Drain(s, k)
      PROVE  Shapes'
  BY <1>t, <1>17 DEF Drain
<1>18. ASSUME NEW s \in Sides, WriteSome(s)
      PROVE  Shapes'
  <2>1. batch[s] \in Seq(Frame) /\ batch[s] # <<>>
    BY <1>t, <1>18 DEF WriteSome, MuxInv, LoopHolds
  <2>2. Len(batch[s]) = 1 => Tail(batch[s]) = <<>>
    BY <2>1, SingleTail
  <2> QED
    BY <1>t, <1>18, <2>2 DEF WriteSome
<1>19. ASSUME NEW s \in Sides, Disconnect(s)
      PROVE  Shapes'
  BY <1>t, <1>19 DEF Disconnect
<1>20. ASSUME NEW s \in Sides, ClearStreams(s)
      PROVE  Shapes'
  BY <1>t, <1>20 DEF ClearStreams
<1>21. ASSUME NEW s \in Sides, CloseOutgoing(s)
      PROVE  Shapes'
  BY <1>t, <1>21 DEF CloseOutgoing
<1> QED
  BY <1>0, <1>1, <1>2, <1>3, <1>4, <1>5, <1>6, <1>7, <1>8, <1>9, <1>10, <1>11,
     <1>12, <1>13, <1>14, <1>15, <1>16, <1>17, <1>18, <1>19, <1>20, <1>21 DEF
     Next, User, IoLoop

\* What the loop takes from the wire is the oldest frame on its way.
LEMMA Arrival ==
  ASSUME Types, Shapes, Travels, NEW s \in Sides, Receive(s),
         batch'[Peer(s)] = batch[Peer(s)], outq'[Peer(s)] = outq[Peer(s)]
  PROVE  /\ Path(Peer(s)) # <<>> /\ Head(Path(Peer(s))) = Arrived(s) /\ cur[s] = <<>>
         /\ cur'[s] = <<Arrived(s)>> => Path(Peer(s))' = Path(Peer(s))
         /\ cur'[s] = <<>> => Path(Peer(s))' = Tail(Path(Peer(s)))
         /\ Arrived(s) \in Frame /\ Arrived(s).id \in Ids /\ Arrived(s).n \in Nat /\ Valid(Peer(s), Arrived(s))
         /\ Expects(s, Arrived(s).id) => Arrived(s).n = Base(s, Arrived(s).id) + 1
<1>1. Peer(s) \in Sides /\ Peer(Peer(s)) = s
  BY Ends
<1>2. cur[s] = <<>>
  BY DEF Shapes, Receive
<1>3. /\ Path(Peer(s)) # <<>> /\ Head(Path(Peer(s))) = Arrived(s)
      /\ cur'[s] = <<Arrived(s)>> => Path(Peer(s))' = Path(Peer(s))
      /\ cur'[s] = <<>> => Path(Peer(s))' = Tail(Path(Peer(s)))
  BY <1>2, PathReceived
<1>4. TravelsAt(Peer(s))
  BY <1>1 DEF Travels
<1> QED
  BY <1>1, <1>2, <1>3, <1>4, OldestFrame

\* And what it delivers.
LEMMA Delivery ==
  ASSUME Types, Shapes, Travels, NEW s \in Sides, NEW i \in Ids, Delivering(s, i), BackToSelect(s),
         wire'[Peer(s)] = wire[Peer(s)], batch'[Peer(s)] = batch[Peer(s)], outq'[Peer(s)] = outq[Peer(s)]
  PROVE  /\ Path(Peer(s)) # <<>> /\ Head(Path(Peer(s))) = cur[s][1]
         /\ Path(Peer(s))' = Tail(Path(Peer(s)))
         /\ cur[s][1] \in Frame /\ cur[s][1].id = i /\ cur[s][1].n \in Nat /\ Valid(Peer(s), cur[s][1])
         /\ Expects(s, i) => cur[s][1].n = Base(s, i) + 1
<1>1. Peer(s) \in Sides /\ Peer(Peer(s)) = s
  BY Ends
<1>2. Len(cur[s]) = 1 /\ cur'[s] = <<>> /\ cur[s][1].id = i
  BY DEF Shapes, Delivering, BackToSelect, Types
<1>3. /\ Path(Peer(s)) # <<>> /\ Head(Path(Peer(s))) = cur[s][1]
      /\ Path(Peer(s))' = Tail(Path(Peer(s)))
  BY <1>2, PathDelivered
<1>4. TravelsAt(Peer(s))
  BY <1>1 DEF Travels
<1> QED
  BY <1>1, <1>2, <1>3, <1>4, OldestFrame

InOrderAt(s, i) ==
  /\ \A k \in 1 .. Len(inq[s][i]) : inq[s][i][k].id = i /\ inq[s][i][k].n = got[s][i] + k
  /\ got[s][i] + Len(inq[s][i]) <= queued[Peer(s)][i]

\* Nothing happens to a stream's channel while more is queued at the other end.
LEMMA InOrderSame ==
  ASSUME Types, NEW t \in Sides, NEW j \in Ids, InOrderAt(t, j),
         inq'[t][j] = inq[t][j], got'[t][j] = got[t][j],
         queued'[Peer(t)][j] = queued[Peer(t)][j] \/ queued'[Peer(t)][j] = queued[Peer(t)][j] + 1
  PROVE  InOrderAt(t, j)'
<1>1. Base(t, j) \in Nat /\ queued[Peer(t)][j] \in Nat
  BY BaseType, Ends
<1> QED
  BY <1>1 DEF InOrderAt, Base

\* Every step keeps the order of what a reader gets.
LEMMA InOrderStep ==
  ASSUME MuxInv, OrderInv, [Next]_vars
  PROVE  InOrder'
<1> SUFFICES ASSUME NEW t \in Sides, NEW j \in Ids
             PROVE  InOrderAt(t, j)'
  BY DEF InOrder, InOrderAt
<1>t. /\ Types /\ Shapes /\ Created /\ Travels /\ InOrderAt(t, j)
      /\ inq \in [Sides -> [Ids -> Seq(Frame)]] /\ got \in [Sides -> [Ids -> Nat]]
  BY DEF MuxInv, OrderInv, InOrder, InOrderAt, Types
<1>p. Peer(t) \in Sides /\ Peer(Peer(t)) = t /\ Base(t, j) \in Nat /\ queued[Peer(t)][j] \in Nat
  BY <1>t, Ends, BaseType
<1>0. CASE UNCHANGED vars
  BY <1>t, <1>0, InOrderSame DEF vars, chans, hist
<1>1. ASSUME NEW s \in Sides, TakeId(s)
      PROVE  InOrderAt(t, j)'
  BY <1>t, <1>1, InOrderSame DEF TakeId, chans, hist
<1>2. ASSUME NEW s \in Sides, NEW i \in Ids, Insert(s, i)
      PROVE  InOrderAt(t, j)'
  BY <1>t, <1>2, InOrderSame DEF Insert, chans, hist
<1>3. ASSUME NEW s \in Sides, NEW i \in Ids, SendOpen(s, i)
      PROVE  InOrderAt(t, j)'
  BY <1>t, <1>p, <1>3, SendCount, InOrderSame DEF SendOpen
<1>4. ASSUME NEW s \in Sides, NEW i \in Ids, Accept(s, i)
      PROVE  InOrderAt(t, j)'
  BY <1>t, <1>4, InOrderSame DEF Accept, chans, hist
<1>5. ASSUME NEW s \in Sides, NEW i \in Ids, Write(s, i)
      PROVE  InOrderAt(t, j)'
  BY <1>t, <1>p, <1>5, SendCount, InOrderSame DEF Write
<1>6. ASSUME NEW s \in Sides, NEW i \in Ids, Read(s, i)
      PROVE  InOrderAt(t, j)'
  <2>1. CASE t = s /\ j = i
    <3>1. PICK q \in Seq(Frame) : q = inq[s][i] /\ q # <<>>
      BY <1>t, <1>6 DEF Read
    <3>2. /\ Len(q) \in Nat \ {0} /\ Len(Tail(q)) = Len(q) - 1 /\ Head(q) = q[1]
          /\ \A k \in 1 .. Len(q) - 1 : Tail(q)[k] = q[k + 1]
      BY <3>1
    <3>3. inq'[s][i] = Tail(q) /\ got'[s][i] = Head(q).n /\ queued' = queued
      BY <1>t, <1>6, <3>1 DEF Read
    <3>4. /\ \A k \in 1 .. Len(q) : q[k].id = i /\ q[k].n = got[s][i] + k
          /\ got[s][i] + Len(q) <= queued[Peer(s)][i] /\ got[s][i] \in Nat
      BY <1>t, <2>1, <3>1 DEF InOrderAt
    <3>5. got'[s][i] = got[s][i] + 1
      BY <3>2, <3>3, <3>4
    <3>6. ASSUME NEW k \in 1 .. Len(q) - 1
          PROVE  Tail(q)[k].id = i /\ Tail(q)[k].n = got[s][i] + 1 + k
      <4>1. Tail(q)[k] = q[k + 1] /\ k + 1 \in 1 .. Len(q)
        BY <3>2
      <4>2. q[k + 1].id = i /\ q[k + 1].n = got[s][i] + (k + 1)
        BY <3>4, <4>1
      <4>3. got[s][i] + (k + 1) = got[s][i] + 1 + k
        <5>1. k \in Nat /\ got[s][i] \in Nat
          BY <3>2, <3>4
        <5>2. \A x, y \in Nat : x + (y + 1) = x + 1 + y
          OBVIOUS
        <5> QED
          BY <5>1, <5>2
      <4> QED
        BY <4>1, <4>2, <4>3, Zenon
    <3>7. got[s][i] + 1 + Len(Tail(q)) <= queued[Peer(s)][i]
      BY <3>2, <3>4
    <3>8. /\ \A k \in 1 .. Len(Tail(q)) : Tail(q)[k].id = i /\ Tail(q)[k].n = got'[s][i] + k
          /\ got'[s][i] + Len(Tail(q)) <= queued'[Peer(s)][i]
      BY <3>2, <3>3, <3>5, <3>6, <3>7
    <3> QED
      BY <2>1, <3>3, <3>8 DEF InOrderAt
  <2>2. CASE ~ (t = s /\ j = i)
    BY <1>t, <1>6, <2>2, InOrderSame DEF Read
  <2> QED
    BY <2>1, <2>2
<1>7. ASSUME NEW s \in Sides, NEW i \in Ids, ReadNone(s, i)
      PROVE  InOrderAt(t, j)'
  BY <1>t, <1>7, InOrderSame DEF ReadNone, chans, hist
<1>8. ASSUME NEW s \in Sides, NEW i \in Ids, Close(s, i)
      PROVE  InOrderAt(t, j)'
  BY <1>t, <1>p, <1>8, SendCount, InOrderSame DEF Close
<1>9. ASSUME NEW s \in Sides, NEW i \in Ids, Drop(s, i)
      PROVE  InOrderAt(t, j)'
  <2>1. queued'[Peer(t)][j] = queued[Peer(t)][j] \/ queued'[Peer(t)][j] = queued[Peer(t)][j] + 1
    BY <1>t, <1>p, <1>9, SendCount DEF Drop
  <2>2. CASE t = s /\ j = i
    <3>1. inq'[t][j] = <<>> /\ got'[t][j] = got[t][j] /\ got[t][j] \in Nat
      BY <1>t, <1>9, <2>2 DEF Drop
    <3>2. got[t][j] <= Base(t, j) /\ Base(t, j) <= queued[Peer(t)][j]
      BY <1>t, <1>p, <3>1 DEF InOrderAt, Base
    <3> QED
      BY <1>p, <2>1, <3>1, <3>2 DEF InOrderAt
  <2>3. CASE ~ (t = s /\ j = i)
    BY <1>t, <1>9, <2>1, <2>3, InOrderSame DEF Drop
  <2> QED
    BY <2>2, <2>3
<1>10. ASSUME NEW s \in Sides, ReceiveKnown(s)
      PROVE  InOrderAt(t, j)'
  BY <1>t, <1>10, InOrderSame DEF ReceiveKnown, chans, hist
<1>11. ASSUME NEW s \in Sides, ReceiveOpen(s)
      PROVE  InOrderAt(t, j)'
  <2>1. /\ Arrived(s) \in Frame /\ Arrived(s).id \in Ids /\ Arrived(s).n \in Nat
        /\ Valid(Peer(s), Arrived(s)) /\ Arrived(s).kind = "open"
    BY <1>t, <1>11, Arrival DEF ReceiveOpen, io
  <2>2. CASE t = s /\ j = Arrived(s).id
    <3>1. inq'[t][j] = <<Arrived(s)>> /\ got'[t][j] = got[t][j] /\ queued' = queued
      BY <1>t, <1>11, <2>2 DEF ReceiveOpen, hist
    <3>2. Arrived(s).n = 1 /\ 1 <= queued[Peer(t)][j] /\ handle[t][j] = "none"
      BY <1>p, <2>1, <2>2, Ends DEF Valid
    <3>3. got[t][j] = 0
      BY <1>t, <3>2 DEF Created, CreatedAt
    <3> QED
      BY <2>2, <3>1, <3>2, <3>3 DEF InOrderAt
  <2>3. CASE ~ (t = s /\ j = Arrived(s).id)
    BY <1>t, <1>11, <2>1, <2>3, InOrderSame DEF ReceiveOpen, hist
  <2> QED
    BY <2>2, <2>3
<1>12. ASSUME NEW s \in Sides, ReceiveRefuse(s)
      PROVE  InOrderAt(t, j)'
  <2>1. Arrived(s).id \in Ids
    BY <1>t, <1>12, ReceiveTypes DEF ReceiveRefuse
  <2> QED
    BY <1>t, <1>p, <1>12, <2>1, SendCount, InOrderSame DEF ReceiveRefuse
<1>13. ASSUME NEW s \in Sides, ReceiveUnknown(s)
      PROVE  InOrderAt(t, j)'
  BY <1>t, <1>13, InOrderSame DEF ReceiveUnknown, chans, hist
<1>14. ASSUME NEW s \in Sides, NEW i \in Ids, Deliver(s, i)
      PROVE  InOrderAt(t, j)'
  <2>1. CASE t = s /\ j = i
    <3>1. /\ cur[s][1] \in Frame /\ cur[s][1].id = i /\ cur[s][1].n \in Nat
          /\ Valid(Peer(s), cur[s][1]) /\ (Expects(s, i) => cur[s][1].n = Base(s, i) + 1)
      BY <1>t, <1>14, Delivery DEF Deliver
    <3>2. Expects(s, i)
      BY <1>14 DEF Deliver, Delivering, Expects, MuxInv, LoopHolds
    <3>3. PICK q \in Seq(Frame), f \in Frame : q = inq[s][i] /\ f = cur[s][1]
      BY <1>t, <3>1
    <3>4. /\ Len(q) \in Nat /\ Len(Append(q, f)) = Len(q) + 1 /\ Append(q, f)[Len(q) + 1] = f
          /\ \A k \in 1 .. Len(q) : Append(q, f)[k] = q[k]
      OBVIOUS
    <3>5. inq'[t][j] = Append(q, f) /\ got'[t][j] = got[t][j] /\ queued' = queued
      BY <1>t, <1>14, <2>1, <3>3 DEF Deliver, hist
    <3>6. /\ f.id = j /\ f.n = got[t][j] + Len(q) + 1 /\ f.n <= queued[Peer(t)][j] /\ got[t][j] \in Nat
      BY <1>t, <2>1, <3>1, <3>2, <3>3 DEF Valid, Base
    <3>7. \A k \in 1 .. Len(q) : q[k].id = j /\ q[k].n = got[t][j] + k
      BY <1>t, <2>1, <3>3 DEF InOrderAt
    <3>8. ASSUME NEW k \in 1 .. Len(q) + 1
          PROVE  Append(q, f)[k].id = j /\ Append(q, f)[k].n = got[t][j] + k
      <4>1. CASE k = Len(q) + 1
        <5>1. Append(q, f)[k] = f
          BY <3>4, <4>1
        <5> QED
          BY <3>4, <3>6, <4>1, <5>1
      <4>2. CASE k # Len(q) + 1
        <5>1. k \in 1 .. Len(q) /\ Append(q, f)[k] = q[k]
          BY <3>4, <4>2
        <5> QED
          BY <3>7, <5>1
      <4> QED
        BY <4>1, <4>2
    <3>9. /\ \A k \in 1 .. Len(Append(q, f)) :
               Append(q, f)[k].id = j /\ Append(q, f)[k].n = got'[t][j] + k
          /\ got'[t][j] + Len(Append(q, f)) <= queued'[Peer(t)][j]
      BY <1>p, <3>4, <3>5, <3>6, <3>8, SMTT(60)
    <3> QED
      BY <3>5, <3>9 DEF InOrderAt
  <2>2. CASE ~ (t = s /\ j = i)
    BY <1>t, <1>14, <2>2, InOrderSame DEF Deliver, hist
  <2> QED
    BY <2>1, <2>2
<1>15. ASSUME NEW s \in Sides, NEW i \in Ids, DeliverDead(s, i)
      PROVE  InOrderAt(t, j)'
  BY <1>t, <1>15, InOrderSame DEF DeliverDead, chans, hist
<1>16. ASSUME NEW s \in Sides, NEW i \in Ids, DeliverTimeout(s, i)
      PROVE  InOrderAt(t, j)'
  <2>1. UNCHANGED <<inq, got>> /\ TrySend(s, i, "rst")
    BY <1>16 DEF DeliverTimeout
  <2>2. queued'[Peer(t)][j] = queued[Peer(t)][j] \/ queued'[Peer(t)][j] = queued[Peer(t)][j] + 1
    BY <1>t, <1>p, <2>1, SendCount
  <2> QED
    BY <1>t, <2>1, <2>2, InOrderSame
<1>17. ASSUME NEW s \in Sides, NEW k \in 1 .. OutCap, Drain(s, k)
      PROVE  InOrderAt(t, j)'
  BY <1>t, <1>17, InOrderSame DEF Drain, chans, hist
<1>18. ASSUME NEW s \in Sides, WriteSome(s)
      PROVE  InOrderAt(t, j)'
  BY <1>t, <1>18, InOrderSame DEF WriteSome, chans, hist
<1>19. ASSUME NEW s \in Sides, Disconnect(s)
      PROVE  InOrderAt(t, j)'
  BY <1>t, <1>19, InOrderSame DEF Disconnect, chans, hist
<1>20. ASSUME NEW s \in Sides, ClearStreams(s)
      PROVE  InOrderAt(t, j)'
  BY <1>t, <1>20, InOrderSame DEF ClearStreams, chans, hist
<1>21. ASSUME NEW s \in Sides, CloseOutgoing(s)
      PROVE  InOrderAt(t, j)'
  BY <1>t, <1>21, InOrderSame DEF CloseOutgoing, chans, hist
<1> QED
  BY <1>0, <1>1, <1>2, <1>3, <1>4, <1>5, <1>6, <1>7, <1>8, <1>9, <1>10, <1>11,
     <1>12, <1>13, <1>14, <1>15, <1>16, <1>17, <1>18, <1>19, <1>20, <1>21 DEF
     Next, User, IoLoop

\* The host resets a stream only once its creator has opened it.
LEMMA TimeoutKnown ==
  ASSUME Types, Shapes, Created, Travels, LoopHolds, NEW s \in Sides, NEW i \in Ids, DeliverTimeout(s, i)
  PROVE  /\ handle[s][i] \notin {"none", "new", "inserted"}
         /\ Path(Peer(s)) # <<>> /\ Head(Path(Peer(s))) = cur[s][1] /\ Path(Peer(s))' = Tail(Path(Peer(s)))
         /\ cur[s][1].id = i
<1>1. Peer(s) \in Sides /\ Peer(s) # s /\ i \in entry[s] /\ Delivering(s, i)
  BY Ends DEF DeliverTimeout, Delivering, LoopHolds
<1>2. outq'[Peer(s)] = outq[Peer(s)] /\ UNCHANGED <<wire, batch>> /\ BackToSelect(s)
  BY <1>1, SendCount DEF DeliverTimeout
<1>3. /\ Path(Peer(s)) # <<>> /\ Head(Path(Peer(s))) = cur[s][1]
      /\ Path(Peer(s))' = Tail(Path(Peer(s)))
      /\ cur[s][1] \in Frame /\ cur[s][1].id = i /\ cur[s][1].n \in Nat /\ Valid(Peer(s), cur[s][1])
      /\ Expects(s, i) => cur[s][1].n = Base(s, i) + 1
  BY <1>1, <1>2, Delivery
<1>4. handle[s][i] # "none"
  BY DEF DeliverTimeout, Holding
<1>5. cur[s][1].kind # "open"
  BY <1>3, <1>4, Ends DEF Valid
<1>6. handle[s][i] \notin {"none", "new", "inserted"}
  BY <1>3, <1>5, KnownHere
<1> QED
  BY <1>3, <1>6

\* A send on a stream that its creator has opened, by an end that may drop it.
LEMMA CreatedSent ==
  ASSUME Types, Created, NEW s \in Sides, NEW i \in Ids, NEW t \in Sides, NEW j \in Ids,
         handle[s][i] \notin {"none", "new", "inserted"}, nextId' = nextId, got' = got,
         \A u \in Sides, l \in Ids :
           /\ queued'[u][l] = queued[u][l] \/ (u = s /\ l = i /\ queued'[u][l] = queued[u][l] + 1)
           /\ handle'[u][l] = handle[u][l] \/ (u = s /\ l = i /\ handle'[u][l] = "dropped")
           /\ inq'[u][l] = inq[u][l] \/ (u = s /\ l = i)
           /\ l \in entry'[u] => l \in entry[u]
  PROVE  CreatedAt(t, j)'
<1>1. Peer(t) \in Sides /\ queued[t][j] \in Nat /\ CreatedAt(t, j)
  BY Ends DEF Types, Created
<1>2. /\ queued'[t][j] = queued[t][j] \/ (t = s /\ j = i /\ queued'[t][j] = queued[t][j] + 1)
      /\ handle'[t][j] = handle[t][j] \/ (t = s /\ j = i /\ handle'[t][j] = "dropped")
      /\ handle'[Peer(t)][j] = handle[Peer(t)][j] \/ (Peer(t) = s /\ j = i /\ handle'[Peer(t)][j] = "dropped")
      /\ inq'[t][j] = inq[t][j] \/ (t = s /\ j = i)
      /\ j \in entry'[t] => j \in entry[t]
  BY <1>1
<1> QED
  BY <1>1, <1>2 DEF CreatedAt

\* Every step keeps the beginnings of the streams.
LEMMA CreatedStep ==
  ASSUME MuxInv, OrderInv, [Next]_vars
  PROVE  Created'
<1> SUFFICES ASSUME NEW t \in Sides, NEW j
             PROVE  (nextId'[t] % 2 = Parity(t)) /\ (j \in Ids => CreatedAt(t, j)')
  BY DEF Created
<1> DEFINE Goal == (nextId'[t] % 2 = Parity(t)) /\ (j \in Ids => CreatedAt(t, j)')
<1>t. /\ Types /\ Shapes /\ Created /\ Travels
      /\ nextId \in [Sides -> Nat] /\ entry \in [Sides -> SUBSET Ids]
      /\ handle \in [Sides -> [Ids -> {"none", "new", "failed", "dropped", "refused"} \cup Holding]]
      /\ inq \in [Sides -> [Ids -> Seq(Frame)]] /\ got \in [Sides -> [Ids -> Nat]]
      /\ queued \in [Sides -> [Ids -> Nat]]
  BY DEF MuxInv, OrderInv, Types
<1>y. Types /\ Created
  BY <1>t
<1>p. /\ Peer(t) \in Sides /\ Peer(Peer(t)) = t /\ Peer(t) # t /\ nextId[t] % 2 = Parity(t)
      /\ \A s \in Sides : s = t \/ s = Peer(t)
  BY <1>t, Ends DEF Created
<1>c. \A s \in Sides, i \in Ids : CreatedAt(s, i)
  BY <1>t DEF Created
<1>0. CASE UNCHANGED vars
  BY <1>p, <1>c, <1>0 DEF vars, chans, hist, CreatedAt
<1>1. ASSUME NEW s \in Sides, TakeId(s)
      PROVE  Goal
  <2>1. nextId[s] \in Ids /\ nextId[s] \in Nat /\ nextId[s] % 2 = Parity(s)
    BY <1>t, <1>1 DEF TakeId, Created
  <2>2. (nextId[s] + 2) % 2 = Parity(s) /\ nextId[s] \in Own(s)
    BY <2>1 DEF Own, Parity
  <2>3. nextId'[t] = (IF t = s THEN nextId[s] + 2 ELSE nextId[t])
    BY <1>t, <1>1 DEF TakeId
  <2>4. ASSUME j \in Ids
        PROVE  CreatedAt(t, j)'
    <3>1. CASE j = nextId[s] /\ t = s
      <4>1. handle[t][j] = "none" /\ handle'[t][j] = "new"
        BY <1>t, <1>c, <1>1, <2>1, <2>2, <3>1 DEF TakeId, CreatedAt
      <4>2. ~ (j >= nextId'[t]) /\ handle'[Peer(t)] = handle[Peer(t)]
        BY <1>t, <1>p, <1>1, <2>1, <2>3, <3>1 DEF TakeId
      <4> QED
        BY <1>p, <1>c, <1>1, <2>4, <4>1, <4>2 DEF TakeId, chans, hist, CreatedAt
    <3>2. CASE j = nextId[s] /\ t # s
      <4>1. s = Peer(t) /\ j \notin Own(t)
        BY <1>p, <2>2, <2>4, <3>2, OneOwner
      <4> QED
        BY <1>t, <1>p, <1>c, <1>1, <2>4, <3>2, <4>1 DEF TakeId, chans, hist, CreatedAt
    <3>3. CASE j # nextId[s]
      <4>1. handle'[t][j] = handle[t][j] /\ handle'[Peer(t)][j] = handle[Peer(t)][j]
        BY <1>t, <1>p, <1>1, <3>3, SMTT(60) DEF TakeId
      <4>2. j >= nextId'[t] => j >= nextId[t]
        BY <1>t, <2>1, <2>3, <2>4, CapAssumption
      <4> QED
        BY <1>t, <1>p, <1>c, <1>1, <2>4, <4>1, <4>2 DEF TakeId, chans, hist, CreatedAt
    <3> QED
      BY <3>1, <3>2, <3>3
  <2> QED
    BY <1>p, <2>2, <2>3, <2>4
<1>2. ASSUME NEW s \in Sides, NEW i \in Ids, Insert(s, i)
      PROVE  Goal
  BY <1>t, <1>p, <1>c, <1>2, SMTT(60) DEF Insert, chans, hist, CreatedAt
<1>3. ASSUME NEW s \in Sides, NEW i \in Ids, SendOpen(s, i)
      PROVE  Goal
  <2>0. /\ Send(s, i, "open") /\ UNCHANGED <<nextId, inq, got, entry>> /\ handle[s][i] = "inserted"
        /\ handle' = [handle EXCEPT ![s][i] = IF outOpen[s] THEN "open" ELSE "failed"]
    BY <1>3 DEF SendOpen
  <2>1. /\ \A u \in Sides, l \in Ids :
             queued'[u][l] = queued[u][l] \/ (u = s /\ l = i /\ queued'[u][l] = queued[u][l] + 1)
        /\ outOpen[s] => queued'[s][i] = queued[s][i] + 1
    BY <1>y, <2>0, SendCount
  <2>2. CASE j = i /\ t = s
    <3>1. handle'[t][j] = (IF outOpen[s] THEN "open" ELSE "failed") /\ handle'[Peer(t)] = handle[Peer(t)]
      BY <1>t, <1>p, <2>0, <2>2
    <3>2. CreatedAt(t, j) /\ queued[t][j] \in Nat
      BY <1>t, <1>c, <2>2
    <3> QED
      BY <1>p, <2>0, <2>1, <2>2, <3>1, <3>2 DEF CreatedAt
  <2>3. CASE j = i /\ t # s
    <3>1. s = Peer(t) /\ handle'[t] = handle[t] /\ queued'[t][j] = queued[t][j] /\ CreatedAt(s, i)
      BY <1>t, <1>p, <1>c, <2>0, <2>1, <2>3
    <3>2. j \notin Own(t)
      BY <1>p, <1>c, <2>0, <2>3, <3>1 DEF CreatedAt
    <3> QED
      BY <1>p, <1>c, <2>0, <2>3, <3>1, <3>2 DEF CreatedAt
  <2>4. CASE j # i
    <3>1. j \in Ids => /\ handle'[t][j] = handle[t][j] /\ handle'[Peer(t)][j] = handle[Peer(t)][j]
                       /\ queued'[t][j] = queued[t][j] /\ queued'[Peer(t)][j] = queued[Peer(t)][j]
      BY <1>t, <1>p, <2>0, <2>1, <2>4
    <3> QED
      BY <1>p, <1>c, <2>0, <3>1 DEF CreatedAt
  <2> QED
    BY <2>2, <2>3, <2>4
<1>4. ASSUME NEW s \in Sides, NEW i \in Ids, Accept(s, i)
      PROVE  Goal
  BY <1>t, <1>p, <1>c, <1>4, ZenonT(60) DEF Accept, chans, hist, CreatedAt
<1>5. ASSUME NEW s \in Sides, NEW i \in Ids, Write(s, i)
      PROVE  Goal
  <2>0. /\ Send(s, i, "data") /\ UNCHANGED <<nextId, handle, inq, got, entry>>
        /\ handle[s][i] \notin {"none", "new", "inserted"}
    BY <1>5 DEF Write
  <2>1. \A u \in Sides, l \in Ids :
          queued'[u][l] = queued[u][l] \/ (u = s /\ l = i /\ queued'[u][l] = queued[u][l] + 1)
    BY <1>y, <2>0, SendCount
  <2>5. \A u \in Sides, l \in Ids :
          /\ queued'[u][l] = queued[u][l] \/ (u = s /\ l = i /\ queued'[u][l] = queued[u][l] + 1)
          /\ handle'[u][l] = handle[u][l] \/ (u = s /\ l = i /\ handle'[u][l] = "dropped")
          /\ inq'[u][l] = inq[u][l] \/ (u = s /\ l = i)
          /\ l \in entry'[u] => l \in entry[u]
    BY <2>0, <2>1
  <2>6. j \in Ids => CreatedAt(t, j)'
    BY <1>y, <2>0, <2>5, CreatedSent
  <2> QED
    BY <1>p, <2>0, <2>6
<1>6. ASSUME NEW s \in Sides, NEW i \in Ids, Read(s, i)
      PROVE  Goal
  BY <1>t, <1>p, <1>c, <1>6, ZenonT(60) DEF Read, chans, hist, CreatedAt
<1>7. ASSUME NEW s \in Sides, NEW i \in Ids, ReadNone(s, i)
      PROVE  Goal
  BY <1>t, <1>p, <1>c, <1>7, ZenonT(60) DEF ReadNone, chans, hist, CreatedAt
<1>8. ASSUME NEW s \in Sides, NEW i \in Ids, Close(s, i)
      PROVE  Goal
  <2>0. /\ Send(s, i, "fin") /\ UNCHANGED <<nextId, handle, inq, got, entry>>
        /\ handle[s][i] \notin {"none", "new", "inserted"}
    BY <1>8 DEF Close
  <2>1. \A u \in Sides, l \in Ids :
          queued'[u][l] = queued[u][l] \/ (u = s /\ l = i /\ queued'[u][l] = queued[u][l] + 1)
    BY <1>y, <2>0, SendCount
  <2>5. \A u \in Sides, l \in Ids :
          /\ queued'[u][l] = queued[u][l] \/ (u = s /\ l = i /\ queued'[u][l] = queued[u][l] + 1)
          /\ handle'[u][l] = handle[u][l] \/ (u = s /\ l = i /\ handle'[u][l] = "dropped")
          /\ inq'[u][l] = inq[u][l] \/ (u = s /\ l = i)
          /\ l \in entry'[u] => l \in entry[u]
    BY <2>0, <2>1
  <2>6. j \in Ids => CreatedAt(t, j)'
    BY <1>y, <2>0, <2>5, CreatedSent
  <2> QED
    BY <1>p, <2>0, <2>6
<1>9. ASSUME NEW s \in Sides, NEW i \in Ids, Drop(s, i)
      PROVE  Goal
  <2>1. \A u \in Sides, l \in Ids :
          queued'[u][l] = queued[u][l] \/ (u = s /\ l = i /\ queued'[u][l] = queued[u][l] + 1)
    <3>1. TrySend(s, i, "fin") \/ UNCHANGED <<outq, queued, fins>>
      BY <1>9 DEF Drop
    <3> QED
      BY <1>y, <3>1, SendCount
  <2>2. /\ nextId' = nextId /\ got' = got /\ entry' = entry /\ handle[s][i] \notin {"none", "new", "inserted"}
        /\ \A u \in Sides, l \in Ids :
             /\ handle'[u][l] = handle[u][l] \/ (u = s /\ l = i /\ handle'[u][l] = "dropped")
             /\ inq'[u][l] = inq[u][l] \/ (u = s /\ l = i)
    BY <1>t, <1>9 DEF Drop
  <2>5. \A u \in Sides, l \in Ids :
          /\ queued'[u][l] = queued[u][l] \/ (u = s /\ l = i /\ queued'[u][l] = queued[u][l] + 1)
          /\ handle'[u][l] = handle[u][l] \/ (u = s /\ l = i /\ handle'[u][l] = "dropped")
          /\ inq'[u][l] = inq[u][l] \/ (u = s /\ l = i)
          /\ l \in entry'[u] => l \in entry[u]
    BY <2>1, <2>2
  <2>6. j \in Ids => CreatedAt(t, j)'
    BY <1>y, <2>2, <2>5, CreatedSent
  <2> QED
    BY <1>p, <2>2, <2>6
<1>10. ASSUME NEW s \in Sides, ReceiveKnown(s)
      PROVE  Goal
  BY <1>t, <1>p, <1>c, <1>10 DEF ReceiveKnown, chans, hist, CreatedAt
<1>11. ASSUME NEW s \in Sides, ReceiveOpen(s)
      PROVE  Goal
  <2>1. /\ Arrived(s).id \in Ids /\ Valid(Peer(s), Arrived(s)) /\ Arrived(s).n \in Nat
        /\ Arrived(s).kind = "open"
    BY <1>t, <1>11, Arrival DEF ReceiveOpen, io
  <2>2. PICK i \in Ids : i = Arrived(s).id
    BY <2>1
  <2>3. i \in Own(Peer(s)) /\ queued[Peer(s)][i] > 0 /\ i \notin Own(s)
    BY <1>t, <2>1, <2>2, OneOwner, Ends, SMTT(60) DEF Valid
  <2> QED
    BY <1>t, <1>p, <1>c, <1>11, <2>2, <2>3, ZenonT(60) DEF ReceiveOpen, hist, CreatedAt
<1>12. ASSUME NEW s \in Sides, ReceiveRefuse(s)
      PROVE  Goal
  <2>1. /\ Arrived(s).id \in Ids /\ Valid(Peer(s), Arrived(s)) /\ Arrived(s).n \in Nat
        /\ Arrived(s).kind = "open"
    <3>1. Arrived(s).id \in Ids /\ Peer(s) \in Sides /\ Peer(s) # s
      BY <1>t, <1>12, ReceiveTypes, Ends DEF ReceiveRefuse
    <3>2. outq'[Peer(s)] = outq[Peer(s)]
      BY <1>t, <1>12, <3>1, SendCount DEF ReceiveRefuse
    <3> QED
      BY <1>t, <1>12, <3>2, Arrival DEF ReceiveRefuse, io
  <2>2. PICK i \in Ids : i = Arrived(s).id
    BY <2>1
  <2>3. i \in Own(Peer(s)) /\ queued[Peer(s)][i] > 0 /\ i \notin Own(s)
    BY <1>t, <2>1, <2>2, OneOwner, Ends, SMTT(60) DEF Valid
  <2>4. \A u \in Sides, l \in Ids :
          queued'[u][l] = queued[u][l] \/ (u = s /\ l = i /\ queued'[u][l] = queued[u][l] + 1)
    <3>1. TrySend(s, i, "rst")
      BY <1>12, <2>2 DEF ReceiveRefuse
    <3> QED
      BY <1>y, <3>1, SendCount
  <2>5. /\ handle' = [handle EXCEPT ![s][i] = "refused"] /\ UNCHANGED <<nextId, entry, inq, got>>
    BY <1>12, <2>2 DEF ReceiveRefuse
  <2>6. ASSUME j \in Ids
        PROVE  CreatedAt(t, j)'
    <3>1. /\ handle'[t][j] = IF t = s /\ j = i THEN "refused" ELSE handle[t][j]
          /\ handle'[Peer(t)][j] = IF Peer(t) = s /\ j = i THEN "refused" ELSE handle[Peer(t)][j]
      BY <1>t, <1>p, <2>5, <2>6
    <3>2. /\ queued'[t][j] = queued[t][j] \/ (t = s /\ j = i /\ queued'[t][j] = queued[t][j] + 1)
          /\ queued[t][j] \in Nat /\ CreatedAt(t, j)
      BY <1>t, <1>c, <2>4, <2>6
    <3>3. CASE j = i
      BY <1>p, <2>3, <2>5, <3>1, <3>2, <3>3 DEF CreatedAt
    <3>4. CASE j # i
      BY <2>5, <3>1, <3>2, <3>4 DEF CreatedAt
    <3> QED
      BY <3>3, <3>4
  <2> QED
    BY <1>p, <2>5, <2>6
<1>13. ASSUME NEW s \in Sides, ReceiveUnknown(s)
      PROVE  Goal
  BY <1>t, <1>p, <1>c, <1>13 DEF ReceiveUnknown, chans, hist, CreatedAt
<1>14. ASSUME NEW s \in Sides, NEW i \in Ids, Deliver(s, i)
      PROVE  Goal
  <2>1. handle[s][i] \notin {"none", "new"}
    BY <1>14 DEF Deliver, Holding
  <2> QED
    BY <1>t, <1>p, <1>c, <1>14, <2>1 DEF Deliver, hist, CreatedAt
<1>15. ASSUME NEW s \in Sides, NEW i \in Ids, DeliverDead(s, i)
      PROVE  Goal
  BY <1>t, <1>p, <1>c, <1>15 DEF DeliverDead, chans, hist, CreatedAt
<1>16. ASSUME NEW s \in Sides, NEW i \in Ids, DeliverTimeout(s, i)
      PROVE  Goal
  <2>0. TrySend(s, i, "rst") /\ UNCHANGED <<nextId, handle, inq, got>> /\ entry' = [entry EXCEPT ![s] = @ \ {i}]
    BY <1>16 DEF DeliverTimeout
  <2>1. \A u \in Sides, l \in Ids :
          queued'[u][l] = queued[u][l] \/ (u = s /\ l = i /\ queued'[u][l] = queued[u][l] + 1)
    BY <1>y, <2>0, SendCount
  <2>2. handle[s][i] \notin {"none", "new", "inserted"}
    BY <1>16, TimeoutKnown DEF MuxInv, OrderInv
  <2>3. \A u \in Sides, l \in Ids : l \in entry'[u] => l \in entry[u]
    BY <1>t, <2>0
  <2>5. \A u \in Sides, l \in Ids :
          /\ queued'[u][l] = queued[u][l] \/ (u = s /\ l = i /\ queued'[u][l] = queued[u][l] + 1)
          /\ handle'[u][l] = handle[u][l] \/ (u = s /\ l = i /\ handle'[u][l] = "dropped")
          /\ inq'[u][l] = inq[u][l] \/ (u = s /\ l = i)
          /\ l \in entry'[u] => l \in entry[u]
    BY <2>0, <2>1, <2>3
  <2>6. j \in Ids => CreatedAt(t, j)'
    BY <1>y, <2>0, <2>2, <2>5, CreatedSent
  <2> QED
    BY <1>p, <2>0, <2>6
<1>17. ASSUME NEW s \in Sides, NEW k \in 1 .. OutCap, Drain(s, k)
      PROVE  Goal
  BY <1>t, <1>p, <1>c, <1>17 DEF Drain, chans, hist, CreatedAt
<1>18. ASSUME NEW s \in Sides, WriteSome(s)
      PROVE  Goal
  BY <1>t, <1>p, <1>c, <1>18 DEF WriteSome, chans, hist, CreatedAt
<1>19. ASSUME NEW s \in Sides, Disconnect(s)
      PROVE  Goal
  BY <1>t, <1>p, <1>c, <1>19 DEF Disconnect, chans, hist, CreatedAt
<1>20. ASSUME NEW s \in Sides, ClearStreams(s)
      PROVE  Goal
  BY <1>t, <1>p, <1>c, <1>20 DEF ClearStreams, chans, hist, CreatedAt
<1>21. ASSUME NEW s \in Sides, CloseOutgoing(s)
      PROVE  Goal
  BY <1>t, <1>p, <1>c, <1>21 DEF CloseOutgoing, chans, hist, CreatedAt
<1> QED
  BY <1>0, <1>1, <1>2, <1>3, <1>4, <1>5, <1>6, <1>7, <1>8, <1>9, <1>10, <1>11,
     <1>12, <1>13, <1>14, <1>15, <1>16, <1>17, <1>18, <1>19, <1>20, <1>21 DEF
     Next, User, IoLoop

\* A step of an end that adds nothing to its own path ...
LEMMA SenderSame ==
  ASSUME Types, Types', NEW s \in Sides, TravelsAt(s), Path(s)' = Path(s), queued'[s] = queued[s],
         outOpen'[s] => outOpen[s], handle'[Peer(s)] = handle[Peer(s)], entry'[Peer(s)] = entry[Peer(s)],
         inq'[Peer(s)] = inq[Peer(s)], got'[Peer(s)] = got[Peer(s)]
  PROVE  TravelsAt(s)'
<1>1. \A i \in Ids : /\ Expects(Peer(s), i)' <=> Expects(Peer(s), i)
                     /\ Base(Peer(s), i)' = Base(Peer(s), i)
  BY DEF Expects, Base
<1> QED
  BY <1>1, TravelSame

\* ... and one that takes nothing from the path that leads to it.
LEMMA ReceiverSame ==
  ASSUME Types, Types', NEW s \in Sides, TravelsAt(Peer(s)), cur'[s] = cur[s],
         wire'[Peer(s)] = wire[Peer(s)], batch'[Peer(s)] = batch[Peer(s)], outq'[Peer(s)] = outq[Peer(s)],
         queued'[Peer(s)] = queued[Peer(s)], outOpen'[Peer(s)] = outOpen[Peer(s)],
         \A i \in Ids : /\ Expects(s, i)' => \/ Expects(s, i) /\ Base(s, i)' = Base(s, i)
                                             \/ queued[Peer(s)][i] = 0
                        /\ handle[s][i] = "none" /\ i \in Own(Peer(s)) => handle'[s][i] = "none"
  PROVE  TravelsAt(Peer(s))'
<1>1. Peer(s) \in Sides /\ Peer(Peer(s)) = s
  BY Ends
<1>2. Path(Peer(s))' = Path(Peer(s))
  BY <1>1, PathSame
<1> QED
  BY <1>1, <1>2, TravelSame

\* Nothing of an end changes that its incoming path depends on.
LEMMA ReceiverStill ==
  ASSUME Types, Types', NEW s \in Sides, TravelsAt(Peer(s)), cur'[s] = cur[s],
         wire'[Peer(s)] = wire[Peer(s)], batch'[Peer(s)] = batch[Peer(s)], outq'[Peer(s)] = outq[Peer(s)],
         queued'[Peer(s)] = queued[Peer(s)], outOpen'[Peer(s)] = outOpen[Peer(s)],
         handle'[s] = handle[s], entry'[s] = entry[s], inq'[s] = inq[s], got'[s] = got[s]
  PROVE  TravelsAt(Peer(s))'
<1>1. \A i \in Ids : Expects(s, i)' => Expects(s, i) /\ Base(s, i)' = Base(s, i)
  BY DEF Expects, Base
<1> QED
  BY <1>1, ReceiverSame

\* Every step keeps the two paths.
LEMMA TravelsStep ==
  ASSUME MuxInv, OrderInv, [Next]_vars
  PROVE  Travels'
<1>t. /\ Types /\ Types' /\ Shapes /\ Created /\ Travels /\ InOrder /\ LoopHolds
  BY TypeStep DEF MuxInv, OrderInv
<1>h. /\ entry \in [Sides -> SUBSET Ids] /\ inq \in [Sides -> [Ids -> Seq(Frame)]]
      /\ handle \in [Sides -> [Ids -> {"none", "new", "failed", "dropped", "refused"} \cup Holding]]
      /\ got \in [Sides -> [Ids -> Nat]] /\ queued \in [Sides -> [Ids -> Nat]]
      /\ nextId \in [Sides -> Nat] /\ cur \in [Sides -> Seq(Frame)] /\ batch \in [Sides -> Seq(Frame)]
      /\ outq \in [Sides -> Seq(Frame)] /\ wire \in [Sides -> Seq(Frame)] /\ outOpen \in [Sides -> BOOLEAN]
  BY <1>t DEF Types
<1>p. \A s \in Sides : /\ Peer(s) \in Sides /\ Peer(Peer(s)) = s /\ Peer(s) # s
                       /\ TravelsAt(s) /\ TravelsAt(Peer(s))
  BY <1>t, Ends DEF Travels
<1>c. \A s \in Sides, i \in Ids : CreatedAt(s, i) /\ CreatedAt(Peer(s), i)
  BY <1>t, <1>p DEF Created
<1> DEFINE Both(s) == TravelsAt(s)' /\ TravelsAt(Peer(s))'
<1>e. \A s \in Sides : Both(s) => Travels'
  BY Ends DEF Travels
<1> HIDE DEF Both
<1>0. CASE UNCHANGED vars
  <2>1. ASSUME NEW s \in Sides
        PROVE  TravelsAt(s)'
    BY <1>t, <1>p, <1>0, PathSame, SenderSame DEF vars, chans, io, hist
  <2> QED
    BY <2>1 DEF Travels
<1>1. ASSUME NEW s \in Sides, TakeId(s)
      PROVE  Both(s)
  <2>2. TravelsAt(s)'
    BY <1>t, <1>p, <1>h, <1>1, PathSame, SenderSame DEF TakeId, chans, io, hist
  <2>3. nextId[s] \in Ids /\ nextId[s] \in Nat /\ nextId[s] % 2 = Parity(s)
    BY <1>t, <1>h, <1>1 DEF TakeId, Created
  <2>4. nextId[s] \notin Own(Peer(s))
    BY <2>3, OneOwner DEF Own
  <2>5. \A j \in Ids : /\ Expects(s, j)' => Expects(s, j) /\ Base(s, j)' = Base(s, j)
                       /\ handle[s][j] = "none" /\ j \in Own(Peer(s)) => handle'[s][j] = "none"
    BY <1>h, <1>1, <2>4 DEF TakeId, Expects, Base, Holding, chans, hist
  <2>6. TravelsAt(Peer(s))'
    BY <1>t, <1>p, <1>1, <2>5, ReceiverSame DEF TakeId, chans, io, hist
  <2> QED
    BY <2>2, <2>6 DEF Both
<1>2. ASSUME NEW s \in Sides, NEW i \in Ids, Insert(s, i)
      PROVE  Both(s)
  <2>2. TravelsAt(s)'
    BY <1>t, <1>p, <1>h, <1>2, PathSame, SenderSame DEF Insert, chans, io, hist
  <2>3. i \in Own(s) /\ queued[s][i] = 0
    BY <1>p, <1>c, <1>2, OneOwner DEF Insert, CreatedAt
  <2>4. queued[Peer(s)][i] = 0
    BY <1>t, <2>3, NotOpened
  <2>5. \A j \in Ids : /\ Expects(s, j)' => \/ Expects(s, j) /\ Base(s, j)' = Base(s, j)
                                            \/ queued[Peer(s)][j] = 0
                       /\ handle[s][j] = "none" /\ j \in Own(Peer(s)) => handle'[s][j] = "none"
    BY <1>h, <1>2, <2>4 DEF Insert, Expects, Base, Holding, chans, hist
  <2>6. TravelsAt(Peer(s))'
    BY <1>t, <1>p, <1>2, <2>5, ReceiverSame DEF Insert, chans, io, hist
  <2> QED
    BY <2>2, <2>6 DEF Both
<1>3. ASSUME NEW s \in Sides, NEW i \in Ids, SendOpen(s, i)
      PROVE  Both(s)
  <2>1. Send(s, i, "open") /\ queued[s][i] = 0 /\ i \in Own(s) /\ handle[Peer(s)][i] = "none"
    <3>1. handle[s][i] = "inserted" /\ Send(s, i, "open")
      BY <1>3 DEF SendOpen
    <3>2. i \in Own(s) /\ queued[s][i] = 0
      BY <1>p, <1>c, <3>1, OneOwner DEF CreatedAt
    <3> QED
      BY <1>c, <3>1, <3>2 DEF CreatedAt
  <2>2. TravelsAt(s)'
    <3>1. /\ batch'[s] = batch[s] /\ wire'[s] = wire[s] /\ cur'[Peer(s)] = cur[Peer(s)]
          /\ outOpen' = outOpen /\ handle'[Peer(s)] = handle[Peer(s)] /\ entry'[Peer(s)] = entry[Peer(s)]
          /\ inq'[Peer(s)] = inq[Peer(s)] /\ got'[Peer(s)] = got[Peer(s)]
      BY <1>h, <1>p, <1>3 DEF SendOpen, io
    <3> QED
      BY <1>t, <1>p, <2>1, <3>1, TravelSend DEF Kinds
  <2>3. outq'[Peer(s)] = outq[Peer(s)] /\ queued'[Peer(s)] = queued[Peer(s)]
    BY <1>t, <1>p, <2>1, SendCount
  <2>5. \A j \in Ids : /\ Expects(s, j)' => Expects(s, j) /\ Base(s, j)' = Base(s, j)
                       /\ handle[s][j] = "none" /\ j \in Own(Peer(s)) => handle'[s][j] = "none"
    <3>1. /\ handle' = [handle EXCEPT ![s][i] = IF outOpen[s] THEN "open" ELSE "failed"]
          /\ handle[s][i] = "inserted" /\ UNCHANGED <<entry, inq, got>>
      BY <1>3 DEF SendOpen
    <3> QED
      BY <1>h, <3>1 DEF Expects, Base, Holding
  <2>6. TravelsAt(Peer(s))'
    BY <1>t, <1>p, <1>3, <2>3, <2>5, ReceiverSame DEF SendOpen, io
  <2> QED
    BY <2>2, <2>6 DEF Both
<1>4. ASSUME NEW s \in Sides, NEW i \in Ids, Accept(s, i)
      PROVE  Both(s)
  <2>2. TravelsAt(s)'
    BY <1>t, <1>p, <1>h, <1>4, PathSame, SenderSame DEF Accept, chans, io, hist
  <2>5. \A j \in Ids : /\ Expects(s, j)' => Expects(s, j) /\ Base(s, j)' = Base(s, j)
                       /\ handle[s][j] = "none" /\ j \in Own(Peer(s)) => handle'[s][j] = "none"
    BY <1>h, <1>4 DEF Accept, Expects, Base, Holding, chans, hist
  <2>6. TravelsAt(Peer(s))'
    BY <1>t, <1>p, <1>4, <2>5, ReceiverSame DEF Accept, chans, io, hist
  <2> QED
    BY <2>2, <2>6 DEF Both
<1>5. ASSUME NEW s \in Sides, NEW i \in Ids, Write(s, i)
      PROVE  Both(s)
  <2>1. Send(s, i, "data") /\ ~ (queued[s][i] = 0 /\ i \in Own(s))
    <3>1. Send(s, i, "data") /\ handle[s][i] \in {"open", "ended"}
      BY <1>5 DEF Write
    <3> QED
      BY <1>t, <3>1, OpenedSent
  <2>2. TravelsAt(s)'
    BY <1>t, <1>p, <1>5, <2>1, TravelSend DEF Write, io, Kinds
  <2>3. outq'[Peer(s)] = outq[Peer(s)] /\ queued'[Peer(s)] = queued[Peer(s)]
    BY <1>t, <1>p, <2>1, SendCount
  <2>4. TravelsAt(Peer(s))'
    BY <1>t, <1>p, <1>5, <2>3, ReceiverStill DEF Write, io
  <2> QED
    BY <2>2, <2>4 DEF Both
<1>6. ASSUME NEW s \in Sides, NEW i \in Ids, Read(s, i)
      PROVE  Both(s)
  <2>2. TravelsAt(s)'
    BY <1>t, <1>p, <1>h, <1>6, PathSame, SenderSame DEF Read, chans, io, hist
  <2>3. Base(s, i)' = Base(s, i)
    <3>1. PICK q \in Seq(Frame) : q = inq[s][i] /\ q # <<>>
      BY <1>h, <1>6 DEF Read
    <3>2. Len(q) \in Nat \ {0} /\ Len(Tail(q)) = Len(q) - 1 /\ Head(q) = q[1]
      BY <3>1
    <3>3. inq'[s][i] = Tail(q) /\ got'[s][i] = Head(q).n /\ got[s][i] \in Nat
      BY <1>h, <1>6, <3>1 DEF Read
    <3>4. q[1].n = got[s][i] + 1
      BY <1>t, <3>1, <3>2, <3>3 DEF InOrder
    <3> QED
      BY <3>1, <3>2, <3>3, <3>4 DEF Base
  <2>5. \A j \in Ids : /\ Expects(s, j)' => Expects(s, j) /\ Base(s, j)' = Base(s, j)
                       /\ handle[s][j] = "none" /\ j \in Own(Peer(s)) => handle'[s][j] = "none"
    <3>1. \A j \in Ids : j # i => Base(s, j)' = Base(s, j)
      BY <1>h, <1>6 DEF Read, Base
    <3> QED
      BY <1>h, <1>6, <2>3, <3>1 DEF Read, Expects, Holding
  <2>6. TravelsAt(Peer(s))'
    BY <1>t, <1>p, <1>6, <2>5, ReceiverSame DEF Read, io
  <2> QED
    BY <2>2, <2>6 DEF Both
<1>7. ASSUME NEW s \in Sides, NEW i \in Ids, ReadNone(s, i)
      PROVE  Both(s)
  <2>2. TravelsAt(s)'
    BY <1>t, <1>p, <1>h, <1>7, PathSame, SenderSame DEF ReadNone, chans, io, hist
  <2>5. \A j \in Ids : /\ Expects(s, j)' => Expects(s, j) /\ Base(s, j)' = Base(s, j)
                       /\ handle[s][j] = "none" /\ j \in Own(Peer(s)) => handle'[s][j] = "none"
    BY <1>h, <1>7 DEF ReadNone, Expects, Base, Holding, chans, hist
  <2>6. TravelsAt(Peer(s))'
    BY <1>t, <1>p, <1>7, <2>5, ReceiverSame DEF ReadNone, chans, io, hist
  <2> QED
    BY <2>2, <2>6 DEF Both
<1>8. ASSUME NEW s \in Sides, NEW i \in Ids, Close(s, i)
      PROVE  Both(s)
  <2>1. Send(s, i, "fin") /\ ~ (queued[s][i] = 0 /\ i \in Own(s))
    <3>1. Send(s, i, "fin") /\ handle[s][i] \in {"open", "ended"}
      BY <1>8 DEF Close
    <3> QED
      BY <1>t, <3>1, OpenedSent
  <2>2. TravelsAt(s)'
    BY <1>t, <1>p, <1>8, <2>1, TravelSend DEF Close, io, Kinds
  <2>3. outq'[Peer(s)] = outq[Peer(s)] /\ queued'[Peer(s)] = queued[Peer(s)]
    BY <1>t, <1>p, <2>1, SendCount
  <2>4. TravelsAt(Peer(s))'
    BY <1>t, <1>p, <1>8, <2>3, ReceiverStill DEF Close, io
  <2> QED
    BY <2>2, <2>4 DEF Both
<1>9. ASSUME NEW s \in Sides, NEW i \in Ids, Drop(s, i)
      PROVE  Both(s)
  <2>1. /\ batch'[s] = batch[s] /\ wire'[s] = wire[s] /\ cur'[Peer(s)] = cur[Peer(s)]
        /\ outOpen' = outOpen /\ handle'[Peer(s)] = handle[Peer(s)] /\ entry'[Peer(s)] = entry[Peer(s)]
        /\ inq'[Peer(s)] = inq[Peer(s)] /\ got'[Peer(s)] = got[Peer(s)]
    BY <1>h, <1>p, <1>9 DEF Drop, io
  <2>2. /\ TravelsAt(s)' /\ outq'[Peer(s)] = outq[Peer(s)] /\ queued'[Peer(s)] = queued[Peer(s)]
    <3>1. CASE TrySend(s, i, "fin")
      <4>1. ~ (queued[s][i] = 0 /\ i \in Own(s))
        BY <1>t, <1>9, OpenedSent DEF Drop
      <4>2. TravelsAt(s)'
        BY <1>t, <1>p, <2>1, <3>1, <4>1, TravelSend DEF Kinds
      <4> QED
        BY <1>t, <1>p, <3>1, <4>2, SendCount
    <3>2. CASE UNCHANGED <<outq, queued, fins>>
      <4>1. Path(s)' = Path(s)
        BY <2>1, <3>2, PathSame
      <4> QED
        BY <1>t, <1>p, <2>1, <3>2, <4>1, SenderSame
    <3> QED
      BY <1>9, <3>1, <3>2 DEF Drop
  <2>5. \A j \in Ids : /\ Expects(s, j)' => Expects(s, j) /\ Base(s, j)' = Base(s, j)
                       /\ handle[s][j] = "none" /\ j \in Own(Peer(s)) => handle'[s][j] = "none"
    <3>1. /\ handle' = [handle EXCEPT ![s][i] = "dropped"] /\ inq' = [inq EXCEPT ![s][i] = <<>>]
          /\ handle[s][i] \in {"open", "ended"} /\ UNCHANGED <<entry, got>>
      BY <1>9 DEF Drop
    <3> QED
      BY <1>h, <3>1 DEF Expects, Base, Holding
  <2>6. TravelsAt(Peer(s))'
    BY <1>t, <1>p, <1>9, <2>2, <2>5, ReceiverSame DEF Drop, io
  <2> QED
    BY <2>2, <2>6 DEF Both
<1>10. ASSUME NEW s \in Sides, ReceiveKnown(s)
      PROVE  Both(s)
  <2>1. cur'[s] = <<Arrived(s)>> /\ cur'[Peer(s)] = cur[Peer(s)] /\ wire'[s] = wire[s] /\ Receive(s)
    BY <1>h, <1>p, <1>10 DEF ReceiveKnown, Receive
  <2>2. TravelsAt(s)'
    BY <1>t, <1>p, <1>10, <2>1, PathSame, SenderSame DEF ReceiveKnown, hist
  <2>3. Path(Peer(s))' = Path(Peer(s))
    BY <1>t, <1>10, <2>1, Arrival DEF ReceiveKnown
  <2>4. \A j \in Ids : Expects(s, j)' => Expects(s, j) /\ Base(s, j)' = Base(s, j)
    BY <1>10 DEF ReceiveKnown, Expects, Base, hist
  <2>5. TravelsAt(Peer(s))'
    BY <1>t, <1>p, <1>10, <2>3, <2>4, TravelSame DEF ReceiveKnown, hist
  <2> QED
    BY <2>2, <2>5 DEF Both
<1>11. ASSUME NEW s \in Sides, ReceiveOpen(s)
      PROVE  Both(s)
  <2>1. Receive(s) /\ cur' = cur /\ batch' = batch /\ wire'[s] = wire[s]
    BY <1>h, <1>p, <1>11 DEF ReceiveOpen, Receive, io
  <2>2. TravelsAt(s)'
    BY <1>t, <1>h, <1>p, <1>11, <2>1, PathSame, SenderSame DEF ReceiveOpen, hist
  <2>3. /\ Path(Peer(s)) # <<>> /\ Head(Path(Peer(s))) = Arrived(s) /\ cur[s] = <<>>
        /\ cur'[s] = <<>> => Path(Peer(s))' = Tail(Path(Peer(s)))
        /\ Arrived(s) \in Frame /\ Arrived(s).id \in Ids /\ Arrived(s).n \in Nat /\ Valid(Peer(s), Arrived(s))
    BY <1>t, <1>11, <2>1, Arrival DEF ReceiveOpen
  <2>4. PICK h \in Frame : h = Arrived(s)
    BY <2>3
  <2>5. handle[s][h.id] = "none" /\ inq[s][h.id] = <<>> /\ got[s][h.id] = 0 /\ h.id \in Ids
    <3>1. handle[s][h.id] = "none" /\ h.id \in Ids
      BY <1>p, <1>11, <2>3, <2>4 DEF ReceiveOpen, Valid
    <3> QED
      BY <1>c, <3>1 DEF CreatedAt
  <2>6. /\ entry' = [entry EXCEPT ![s] = @ \cup {h.id}] /\ handle' = [handle EXCEPT ![s][h.id] = "queued"]
        /\ inq' = [inq EXCEPT ![s][h.id] = <<h>>] /\ got' = got
    BY <1>11, <2>4 DEF ReceiveOpen, hist
  <2>7. Expects(s, h.id) /\ Base(s, h.id) = 0 /\ Base(s, h.id)' = 1
    <3>1. inq'[s][h.id] = <<h>> /\ Len(<<h>>) = 1
      BY <1>h, <2>5, <2>6
    <3> QED
      BY <2>5, <2>6, <3>1 DEF Expects, Base
  <2>8. \A j \in Ids : j # h.id =>
           /\ Expects(s, j)' => Expects(s, j) /\ Base(s, j)' = Base(s, j)
           /\ handle[s][j] = "none" => handle'[s][j] = "none"
    BY <1>h, <2>6 DEF Expects, Base
  <2>9. TravelsAt(Peer(s))'
    BY <1>t, <1>p, <1>11, <2>1, <2>3, <2>4, <2>7, <2>8, TravelTaken DEF ReceiveOpen, hist
  <2> QED
    BY <2>2, <2>9 DEF Both
<1>12. ASSUME NEW s \in Sides, ReceiveRefuse(s)
      PROVE  Both(s)
  <2>1. Receive(s) /\ cur' = cur /\ batch' = batch /\ wire'[s] = wire[s]
    BY <1>h, <1>p, <1>12 DEF ReceiveRefuse, Receive, io
  <2>2. Arrived(s).id \in Ids /\ TrySend(s, Arrived(s).id, "rst")
    BY <1>t, <1>12, <2>1, ReceiveTypes DEF ReceiveRefuse
  <2>3. outq'[Peer(s)] = outq[Peer(s)] /\ queued'[Peer(s)] = queued[Peer(s)]
    BY <1>t, <1>p, <2>2, SendCount
  <2>4. /\ Path(Peer(s)) # <<>> /\ Head(Path(Peer(s))) = Arrived(s) /\ cur[s] = <<>>
        /\ cur'[s] = <<>> => Path(Peer(s))' = Tail(Path(Peer(s)))
        /\ Arrived(s) \in Frame /\ Arrived(s).n \in Nat /\ Valid(Peer(s), Arrived(s))
    BY <1>t, <2>1, <2>3, Arrival
  <2>5. PICK h \in Frame : h = Arrived(s)
    BY <2>4
  <2>6. h.id \in Ids /\ h.id \notin Own(s)
    BY <1>p, <1>12, <2>2, <2>4, <2>5, OneOwner DEF ReceiveRefuse, Valid
  <2>7. /\ handle' = [handle EXCEPT ![s][h.id] = "refused"] /\ UNCHANGED <<entry, inq, got, outOpen>>
    BY <1>12, <2>5 DEF ReceiveRefuse
  <2>8. TravelsAt(s)'
    <3>1. /\ handle'[Peer(s)] = handle[Peer(s)] /\ entry'[Peer(s)] = entry[Peer(s)]
          /\ inq'[Peer(s)] = inq[Peer(s)] /\ got'[Peer(s)] = got[Peer(s)] /\ outOpen' = outOpen
      BY <1>h, <1>p, <2>7
    <3> QED
      BY <1>t, <1>p, <2>1, <2>2, <2>5, <2>6, <3>1, TravelSend DEF Kinds
  <2>9. /\ ~ Expects(s, h.id)'
        /\ \A j \in Ids : j # h.id =>
             /\ Expects(s, j)' => Expects(s, j) /\ Base(s, j)' = Base(s, j)
             /\ handle[s][j] = "none" => handle'[s][j] = "none"
    BY <1>h, <2>6, <2>7 DEF Expects, Base, Holding
  <2>10. TravelsAt(Peer(s))'
    BY <1>t, <1>p, <2>1, <2>3, <2>4, <2>5, <2>7, <2>9, TravelTaken
  <2> QED
    BY <2>8, <2>10 DEF Both
<1>13. ASSUME NEW s \in Sides, ReceiveUnknown(s)
      PROVE  Both(s)
  <2>1. Receive(s) /\ cur' = cur /\ batch' = batch /\ wire'[s] = wire[s]
    BY <1>h, <1>p, <1>13 DEF ReceiveUnknown, Receive, io
  <2>2. TravelsAt(s)'
    BY <1>t, <1>h, <1>p, <1>13, <2>1, PathSame, SenderSame DEF ReceiveUnknown, hist
  <2>3. /\ Path(Peer(s)) # <<>> /\ Head(Path(Peer(s))) = Arrived(s) /\ cur[s] = <<>>
        /\ cur'[s] = <<>> => Path(Peer(s))' = Tail(Path(Peer(s)))
        /\ Arrived(s) \in Frame /\ Arrived(s).id \in Ids /\ Arrived(s).n \in Nat /\ Valid(Peer(s), Arrived(s))
        /\ Expects(s, Arrived(s).id) => Arrived(s).n = Base(s, Arrived(s).id) + 1
    BY <1>t, <1>13, <2>1, Arrival DEF ReceiveUnknown
  <2>4. PICK h \in Frame : h = Arrived(s)
    BY <2>3
  <2>5. h.kind # "open" /\ h.id \notin entry[s] /\ h.id \in Ids
    BY <1>13, <2>3, <2>4 DEF ReceiveUnknown
  <2>6. handle[s][h.id] # "none"
    BY <1>t, <2>3, <2>4, <2>5, KnownHere
  <2>7. ~ Expects(s, h.id)' /\ UNCHANGED <<handle, entry, inq, got, outOpen, queued>>
    BY <1>13, <2>5, <2>6 DEF ReceiveUnknown, Expects, hist
  <2>8. \A j \in Ids : j # h.id =>
             /\ Expects(s, j)' => Expects(s, j) /\ Base(s, j)' = Base(s, j)
             /\ handle[s][j] = "none" => handle'[s][j] = "none"
    BY <2>7 DEF Expects, Base
  <2>9. TravelsAt(Peer(s))'
    BY <1>t, <1>p, <2>1, <2>3, <2>4, <2>7, <2>8, TravelTaken
  <2> QED
    BY <2>2, <2>9 DEF Both
<1>14. ASSUME NEW s \in Sides, NEW i \in Ids, Deliver(s, i)
      PROVE  Both(s)
  <2>1. Delivering(s, i) /\ BackToSelect(s) /\ UNCHANGED <<wire, batch, outq, outOpen, handle, queued, got>>
    BY <1>14 DEF Deliver, chans, hist
  <2>2. TravelsAt(s)'
    <3>1. /\ cur'[Peer(s)] = cur[Peer(s)] /\ entry'[Peer(s)] = entry[Peer(s)] /\ inq'[Peer(s)] = inq[Peer(s)]
      BY <1>h, <1>p, <1>14 DEF Deliver, BackToSelect, chans
    <3>2. Path(s)' = Path(s)
      BY <2>1, <3>1, PathSame
    <3> QED
      BY <1>t, <1>p, <2>1, <3>1, <3>2, SenderSame
  <2>3. /\ Path(Peer(s)) # <<>> /\ Head(Path(Peer(s))) = cur[s][1] /\ Path(Peer(s))' = Tail(Path(Peer(s)))
        /\ cur[s][1] \in Frame /\ cur[s][1].id = i
    BY <1>t, <2>1, Delivery
  <2>4. i \in entry[s]
    BY <1>t, <2>1, <2>3 DEF Delivering, LoopHolds
  <2>5. Expects(s, i) /\ Base(s, i)' = Base(s, i) + 1
    <3>1. PICK q \in Seq(Frame), f \in Frame : q = inq[s][i] /\ f = cur[s][1]
      BY <1>h, <2>3
    <3>2. Len(Append(q, f)) = Len(q) + 1 /\ Len(q) \in Nat
      OBVIOUS
    <3>3. inq'[s][i] = Append(q, f) /\ got'[s][i] = got[s][i] /\ got[s][i] \in Nat
      BY <1>h, <1>14, <2>1, <3>1 DEF Deliver
    <3> QED
      BY <1>14, <2>4, <3>1, <3>2, <3>3 DEF Deliver, Expects, Base
  <2>6. \A j \in Ids : j # i =>
             /\ Expects(s, j)' => Expects(s, j) /\ Base(s, j)' = Base(s, j)
             /\ handle[s][j] = "none" => handle'[s][j] = "none"
    BY <1>h, <1>14, <2>1 DEF Deliver, Expects, Base, chans
  <2>7. PICK h \in Frame : h = cur[s][1]
    BY <2>3
  <2>8. TravelsAt(Peer(s))'
    BY <1>t, <1>p, <2>1, <2>3, <2>5, <2>6, <2>7, TravelTaken
  <2> QED
    BY <2>2, <2>8 DEF Both
<1>15. ASSUME NEW s \in Sides, NEW i \in Ids, DeliverDead(s, i)
      PROVE  Both(s)
  <2>1. Delivering(s, i) /\ BackToSelect(s) /\ UNCHANGED <<wire, batch, outq, outOpen, handle, queued, got>>
    BY <1>15 DEF DeliverDead, chans, hist
  <2>2. TravelsAt(s)'
    <3>1. /\ cur'[Peer(s)] = cur[Peer(s)] /\ entry'[Peer(s)] = entry[Peer(s)] /\ inq'[Peer(s)] = inq[Peer(s)]
      BY <1>h, <1>p, <1>15 DEF DeliverDead, BackToSelect, chans
    <3>2. Path(s)' = Path(s)
      BY <2>1, <3>1, PathSame
    <3> QED
      BY <1>t, <1>p, <2>1, <3>1, <3>2, SenderSame
  <2>3. /\ Path(Peer(s)) # <<>> /\ Head(Path(Peer(s))) = cur[s][1] /\ Path(Peer(s))' = Tail(Path(Peer(s)))
        /\ cur[s][1] \in Frame /\ cur[s][1].id = i
    BY <1>t, <2>1, Delivery
  <2>4. i \in entry[s]
    BY <1>t, <2>1, <2>3 DEF Delivering, LoopHolds
  <2>5. ~ Expects(s, i)'
    BY <1>h, <1>c, <1>15, <2>4 DEF DeliverDead, Expects, CreatedAt
  <2>6. \A j \in Ids : j # i =>
             /\ Expects(s, j)' => Expects(s, j) /\ Base(s, j)' = Base(s, j)
             /\ handle[s][j] = "none" => handle'[s][j] = "none"
    BY <1>h, <1>15, <2>1 DEF DeliverDead, Expects, Base, chans
  <2>7. PICK h \in Frame : h = cur[s][1]
    BY <2>3
  <2>8. TravelsAt(Peer(s))'
    BY <1>t, <1>p, <2>1, <2>3, <2>5, <2>6, <2>7, TravelTaken
  <2> QED
    BY <2>2, <2>8 DEF Both
<1>16. ASSUME NEW s \in Sides, NEW i \in Ids, DeliverTimeout(s, i)
      PROVE  Both(s)
  <2>1. TrySend(s, i, "rst") /\ UNCHANGED <<wire, batch, outOpen, handle, inq, got>> /\ BackToSelect(s)
        /\ entry' = [entry EXCEPT ![s] = @ \ {i}] /\ handle[s][i] \in Holding
    BY <1>16 DEF DeliverTimeout
  <2>2. /\ handle[s][i] \notin {"none", "new", "inserted"}
        /\ Path(Peer(s)) # <<>> /\ Head(Path(Peer(s))) = cur[s][1] /\ Path(Peer(s))' = Tail(Path(Peer(s)))
        /\ cur[s][1].id = i
    BY <1>t, <1>16, TimeoutKnown
  <2>3. outq'[Peer(s)] = outq[Peer(s)] /\ queued'[Peer(s)] = queued[Peer(s)]
    BY <1>t, <1>p, <2>1, SendCount
  <2>4. ~ (queued[s][i] = 0 /\ i \in Own(s))
    BY <1>h, <1>c, <2>1, <2>2 DEF CreatedAt, Holding
  <2>5. TravelsAt(s)'
    <3>1. cur'[Peer(s)] = cur[Peer(s)] /\ entry'[Peer(s)] = entry[Peer(s)]
      BY <1>h, <1>p, <2>1 DEF BackToSelect
    <3> QED
      BY <1>t, <1>p, <2>1, <2>4, <3>1, TravelSend DEF Kinds
  <2>6. ~ Expects(s, i)'
    BY <1>h, <2>1 DEF Expects, Holding
  <2>7. \A j \in Ids : j # i =>
             /\ Expects(s, j)' => Expects(s, j) /\ Base(s, j)' = Base(s, j)
             /\ handle[s][j] = "none" => handle'[s][j] = "none"
    BY <1>h, <2>1 DEF Expects, Base
  <2>8. TravelsAt(Peer(s))'
    BY <1>t, <1>p, <2>1, <2>2, <2>3, <2>6, <2>7, TravelTaken
  <2> QED
    BY <2>5, <2>8 DEF Both
<1>17. ASSUME NEW s \in Sides, NEW k \in 1 .. OutCap, Drain(s, k)
      PROVE  Both(s)
  <2>1. Path(s)' = Path(s)
    BY <1>t, <1>17, PathDrained DEF Drain, Shapes
  <2>2. TravelsAt(s)'
    BY <1>t, <1>p, <1>17, <2>1, SenderSame DEF Drain, chans, hist
  <2>3. TravelsAt(Peer(s))'
    BY <1>t, <1>h, <1>p, <1>17, ReceiverStill DEF Drain, chans, hist
  <2> QED
    BY <2>2, <2>3 DEF Both
<1>18. ASSUME NEW s \in Sides, WriteSome(s)
      PROVE  Both(s)
  <2>1. Path(s)' = Path(s)
    BY <1>t, <1>18, PathWritten DEF WriteSome, LoopHolds
  <2>2. TravelsAt(s)'
    BY <1>t, <1>p, <1>18, <2>1, SenderSame DEF WriteSome, chans, hist
  <2>3. TravelsAt(Peer(s))'
    BY <1>t, <1>h, <1>p, <1>18, ReceiverStill DEF WriteSome, chans, hist
  <2> QED
    BY <2>2, <2>3 DEF Both
<1>19. ASSUME NEW s \in Sides, Disconnect(s)
      PROVE  Both(s)
  <2>1. Path(s)' = Path(s)
    BY <1>19, PathSame DEF Disconnect, chans
  <2>2. TravelsAt(s)'
    BY <1>t, <1>p, <1>19, <2>1, SenderSame DEF Disconnect, chans, hist
  <2>3. TravelsAt(Peer(s))'
    BY <1>t, <1>h, <1>p, <1>19, ReceiverStill DEF Disconnect, chans, hist
  <2> QED
    BY <2>2, <2>3 DEF Both
<1>20. ASSUME NEW s \in Sides, ClearStreams(s)
      PROVE  Both(s)
  <2>2. TravelsAt(s)'
    BY <1>t, <1>p, <1>h, <1>20, PathSame, SenderSame DEF ClearStreams, chans, io, hist
  <2>5. \A j \in Ids : /\ Expects(s, j)' => Expects(s, j) /\ Base(s, j)' = Base(s, j)
                       /\ handle[s][j] = "none" /\ j \in Own(Peer(s)) => handle'[s][j] = "none"
    BY <1>h, <1>20 DEF ClearStreams, Expects, Base, Holding, chans, hist
  <2>6. TravelsAt(Peer(s))'
    BY <1>t, <1>p, <1>20, <2>5, ReceiverSame DEF ClearStreams, chans, io, hist
  <2> QED
    BY <2>2, <2>6 DEF Both
<1>21. ASSUME NEW s \in Sides, CloseOutgoing(s)
      PROVE  Both(s)
  <2>1. /\ Path(s)' \in Seq(Frame) /\ Len(Path(s)') <= Len(Path(s))
        /\ \A k \in 1 .. Len(Path(s)') : Path(s)'[k] = Path(s)[k]
    BY <1>t, <1>21, PathClosed
  <2>2. PICK r \in Seq(Frame) : Path(s)' = r
    BY <2>1
  <2>3. Len(r) <= Len(Path(s)) /\ \A k \in 1 .. Len(r) : r[k] = Path(s)[k]
    BY <2>1, <2>2
  <2>4. ~ outOpen'[s] /\ UNCHANGED <<queued, handle, entry, inq, got>>
    BY <1>h, <1>21 DEF CloseOutgoing, hist
  <2>5. \A j \in Ids : Expects(Peer(s), j)' => Expects(Peer(s), j) /\ Base(Peer(s), j)' = Base(Peer(s), j)
    BY <2>4 DEF Expects, Base
  <2>6. TravelsAt(s)'
    BY <1>t, <1>p, <2>2, <2>3, <2>4, <2>5, TravelClosed
  <2>7. TravelsAt(Peer(s))'
    BY <1>t, <1>h, <1>p, <1>21, ReceiverStill DEF CloseOutgoing, hist
  <2> QED
    BY <2>6, <2>7 DEF Both
<1> QED
  BY <1>e, <1>0, <1>1, <1>2, <1>3, <1>4, <1>5, <1>6, <1>7, <1>8, <1>9, <1>10, <1>11,
     <1>12, <1>13, <1>14, <1>15, <1>16, <1>17, <1>18, <1>19, <1>20, <1>21 DEF
     Next, User, IoLoop

\* The initial states: no stream, and both paths empty.
LEMMA OrderInit == Init => OrderInv
<1> SUFFICES ASSUME Init
             PROVE  OrderInv
  OBVIOUS
<1>1. \A s \in Sides : /\ cur[s] = <<>> /\ wire[s] = <<>> /\ batch[s] = <<>> /\ outq[s] = <<>>
                       /\ loop[s] = "select" /\ entry[s] = {} /\ Peer(s) \in Sides
                       /\ nextId[s] = (IF s = "host" THEN 1 ELSE 2)
                       /\ \A i \in Ids : /\ handle[s][i] = "none" /\ inq[s][i] = <<>> /\ Len(inq[s][i]) = 0
                                         /\ got[s][i] = 0 /\ queued[s][i] = 0
  BY Ends DEF Init
<1>2. Shapes
  BY <1>1 DEF Shapes
<1>3. Created
  <2>1. ASSUME NEW s \in Sides
        PROVE  nextId[s] % 2 = Parity(s)
    BY <1>1 DEF Parity
  <2>2. ASSUME NEW s \in Sides, NEW i \in Ids
        PROVE  CreatedAt(s, i)
    BY <1>1 DEF CreatedAt
  <2> QED
    BY <2>1, <2>2 DEF Created
<1>4. ASSUME NEW p \in Sides
      PROVE  TravelsAt(p)
  <2>1. Path(p) = <<>> /\ Len(Path(p)) = 0
    <3>1. <<>> \o <<>> = <<>>
      <4>1. <<>> \in Seq(Frame)
        OBVIOUS
      <4> QED
        BY <4>1, ConcatEmptySeq
    <3>2. Path(p) = <<>> \o (<<>> \o (<<>> \o <<>>))
      BY <1>1 DEF Path
    <3> QED
      BY <3>1, <3>2
  <2>2. \A k \in 1 .. Len(Path(p)) : FALSE
    BY <2>1
  <2>3. \A i \in Ids : Base(Peer(p), i) = 0
    BY <1>1 DEF Base
  <2> QED
    BY <1>1, <2>2, <2>3 DEF TravelsAt, Ordered, Gapless, Reaches
<1>5. InOrder
  BY <1>1 DEF InOrder
<1> QED
  BY <1>2, <1>3, <1>4, <1>5 DEF OrderInv, Travels

\* All of it is an invariant of the two endpoints.
LEMMA OrderInvariant == Spec => []OrderInv
<1>1. MuxInv /\ OrderInv /\ [Next]_vars => OrderInv'
  BY ShapesStep, CreatedStep, TravelsStep, InOrderStep DEF OrderInv
<1> QED
  BY MuxInvariant, OrderInit, <1>1, PTL DEF Spec

\* What a reader gets of a stream is what the peer queued on it, in order and
\* without a gap, for any ids, capacities and number of frames: the frames on
\* their way continue the position of a channel that is still fed, and a stream
\* that lost one is never fed again.
THEOREM FramesInOrder == Spec => []InOrder
<1>1. OrderInv => InOrder
  BY DEF OrderInv
<1> QED
  BY OrderInvariant, <1>1, PTL

\* An opening frame reaches an end that has no such stream, whatever ids are in
\* use: the ids of the two ends have different parities, and each opening frame
\* is the only first frame of its stream.
THEOREM IdsNeverClash == Spec => []NoIdClash
<1>1. ASSUME MuxInv, OrderInv
      PROVE  NoIdClash
  <2> SUFFICES ASSUME NEW s \in Sides, wire[Peer(s)] # <<>>, Arrived(s).kind = "open"
               PROVE  handle[s][Arrived(s).id] = "none"
    BY DEF NoIdClash
  <2>1. Peer(s) \in Sides /\ Peer(Peer(s)) = s /\ Types /\ Travels
    BY <1>1, Ends DEF MuxInv, OrderInv
  <2>2. \E k \in 1 .. Len(Path(Peer(s))) : Path(Peer(s))[k] = Arrived(s)
    <3>1. PICK c, w, r \in Seq(Frame) : c = cur[s] /\ w = wire[Peer(s)] /\ r = batch[Peer(s)] \o outq[Peer(s)]
      BY <2>1, PathType
    <3>2. Path(Peer(s)) = c \o (w \o r) /\ w # <<>> /\ Arrived(s) = Head(w)
      BY <2>1, <3>1 DEF Path, Arrived
    <3>3. w \o r \in Seq(Frame) /\ w \o r # <<>> /\ Head(w \o r) = Head(w)
      BY <3>2, HeadOfConcat, ConcatProperties
    <3>4. PICK v \in Seq(Frame) : v = w \o r /\ v # <<>> /\ Head(v) = Arrived(s)
      BY <3>2, <3>3
    <3>5. Len(v) \in Nat \ {0} /\ Head(v) = v[1]
      BY <3>4
    <3>6. /\ Len(c) \in Nat /\ Len(c \o v) = Len(c) + Len(v)
          /\ \A k \in 1 .. Len(c) + Len(v) : (c \o v)[k] = IF k <= Len(c) THEN c[k] ELSE v[k - Len(c)]
      BY ConcatProperties
    <3>7. Len(c) + 1 \in 1 .. Len(c \o v) /\ (c \o v)[Len(c) + 1] = v[1]
      BY <3>5, <3>6
    <3> QED
      BY <3>2, <3>4, <3>5, <3>7
  <2>3. Valid(Peer(s), Arrived(s))
    BY <2>1, <2>2 DEF Travels, TravelsAt
  <2> QED
    BY <2>1, <2>3 DEF Valid
<1> QED
  BY MuxInvariant, OrderInvariant, <1>1, PTL
=============================================================================
