------------------------------ MODULE StreamMux ------------------------------
(***************************************************************************)
(* The VSOCK stream multiplexer: both ends of the connection between the   *)
(* host (crates/nilbox-core/src/vsock/stream.rs) and the agent in the VM   *)
(* (vm-agent/src/vsock/stream.rs).                                         *)
(*                                                                         *)
(* Each end runs one IO-loop task, which owns the physical connection, and *)
(* any number of tasks that use virtual streams.  A virtual stream is a    *)
(* bounded channel of incoming frames plus the shared bounded channel of   *)
(* outgoing frames.  The two ends run the same code but for one thing: the *)
(* host's loop bounds the delivery to a slow consumer by a 5 s timeout,    *)
(* the agent's loop blocks.                                                *)
(*                                                                         *)
(* A frame carries its stream, its kind and its position n among the       *)
(* frames its sender queued on that stream; payloads are abstracted away.  *)
(* "open" stands for Connect, ReverseRequest, DnsRequest and HostConnect,  *)
(* which the code handles alike; WindowUpdate frames, which nobody sends   *)
(* and both ends skip, are left out.                                       *)
(***************************************************************************)
EXTENDS Integers, Sequences, FiniteSets

CONSTANTS
  Ids,         \* the stream ids in use (u32 in the code): a finite set
  InCap,       \* CHANNEL_BUFFER_SIZE: a stream's incoming channel
  OutCap,      \* OUTGOING_BUFFER_SIZE: the shared outgoing channel
  HandlerCap,  \* capacity of the channel of accepted streams
  Crowd,       \* whether streams outside Ids may fill that channel
  WireCap,     \* frames the socket buffers hold, per direction
  Breaks,      \* bound: the ends at which the connection may break first
  MaxFrames    \* bound on the frames a user queues per stream and end

Sides == {"host", "vm"}

ASSUME CapAssumption ==
  /\ Ids \subseteq Nat /\ MaxFrames \in Nat /\ Breaks \subseteq Sides
  /\ Crowd \in BOOLEAN
  /\ InCap \in Nat \ {0} /\ OutCap \in Nat \ {0}
  /\ HandlerCap \in Nat \ {0} /\ WireCap \in Nat \ {0}

Peer(s) == IF s = "host" THEN "vm" ELSE "host"
Kinds == {"open", "data", "fin", "rst"}
Frame == [id : Ids, kind : Kinds, n : Nat]
Terminal(f) == f.kind \in {"fin", "rst"}

VARIABLES
  nextId,   \* next_stream_id
  entry,    \* streams: the ids whose incoming sender is in the map
  inq,      \* incoming channel of each stream
  handle,   \* what became of the VirtualStream (see below)
  closed,   \* the streams whose closed flag is set
  outq,     \* the outgoing channel
  outOpen,  \* FALSE once outgoing_rx has been closed
  loop,     \* the IO loop: "select", "send", "write", "exit", "cleared", "exited"
  cur,      \* the frame the loop is delivering ("send")
  batch,    \* the frames the loop is writing ("write")
  wire,     \* frames written by this end and not yet read by the other
  queued,   \* history: frames queued per stream, and the FINs among them
  fins,
  got,      \* history: position of the last frame read, per stream
  reset     \* history: streams the host reset after the delivery timeout

(* handle: "none"     no such stream here                                  *)
(*         "new"      id taken by create_stream                            *)
(*         "inserted" in the map, open frame not sent yet                  *)
(*         "failed"   create_stream returned an error                      *)
(*         "queued"   accepted, waiting in the handler channel             *)
(*         "open"     owned by a task that reads it                        *)
(*         "ended"    its reader has seen the end of the stream            *)
(*         "dropped"  the VirtualStream has been dropped                   *)
(*         "refused"  the handler channel was full                         *)
Holding == {"inserted", "queued", "open", "ended"}   \* the receiver is alive

chans == <<inq, outq, outOpen, wire>>
io    == <<loop, cur, batch>>
hist  == <<queued, fins, got, reset>>
vars  == <<nextId, entry, handle, closed, chans, io, hist>>

Init ==
  /\ nextId = [s \in Sides |-> IF s = "host" THEN 1 ELSE 2]
  /\ entry = [s \in Sides |-> {}]
  /\ inq = [s \in Sides |-> [i \in Ids |-> <<>>]]
  /\ handle = [s \in Sides |-> [i \in Ids |-> "none"]]
  /\ closed = [s \in Sides |-> {}]
  /\ outq = [s \in Sides |-> <<>>]
  /\ outOpen = [s \in Sides |-> TRUE]
  /\ loop = [s \in Sides |-> "select"]
  /\ cur = [s \in Sides |-> <<>>]
  /\ batch = [s \in Sides |-> <<>>]
  /\ wire = [s \in Sides |-> <<>>]
  /\ queued = [s \in Sides |-> [i \in Ids |-> 0]]
  /\ fins = [s \in Sides |-> [i \in Ids |-> 0]]
  /\ got = [s \in Sides |-> [i \in Ids |-> 0]]
  /\ reset = [s \in Sides |-> {}]

-----------------------------------------------------------------------------
(* The outgoing channel                                                    *)

Room(s) == outOpen[s] /\ Len(outq[s]) < OutCap

\* a send that has a slot
Enqueue(s, i, kind) ==
  /\ outq' = [outq EXCEPT ![s] =
                Append(@, [id |-> i, kind |-> kind, n |-> queued[s][i] + 1])]
  /\ queued' = [queued EXCEPT ![s][i] = @ + 1]
  /\ fins' = [fins EXCEPT ![s][i] = IF kind = "fin" THEN @ + 1 ELSE @]

\* try_send: the frame is lost when the channel is full or closed
TrySend(s, i, kind) ==
  IF Room(s) THEN Enqueue(s, i, kind) ELSE UNCHANGED <<outq, queued, fins>>

\* send().await: waits for a slot; fails at once when the receiver is closed
Send(s, i, kind) ==
  \/ Room(s) /\ Enqueue(s, i, kind)
  \/ ~outOpen[s] /\ UNCHANGED <<outq, queued, fins>>

-----------------------------------------------------------------------------
(* create_stream and its siblings: three critical sections                 *)

\* fault: next_stream_id is read and not advanced
TakeIdStays(s) ==
  /\ nextId[s] \in Ids
  /\ handle' = [handle EXCEPT ![s][nextId[s]] = "new"]
  /\ UNCHANGED <<nextId, entry, closed, chans, io, hist>>

TakeId(s) ==
  /\ nextId[s] \in Ids
  /\ handle' = [handle EXCEPT ![s][nextId[s]] = "new"]
  /\ nextId' = [nextId EXCEPT ![s] = @ + 2]
  /\ UNCHANGED <<entry, closed, chans, io, hist>>

Insert(s, i) ==
  /\ handle[s][i] = "new"
  /\ handle' = [handle EXCEPT ![s][i] = "inserted"]
  /\ entry' = [entry EXCEPT ![s] = @ \cup {i}]
  /\ UNCHANGED <<nextId, closed, chans, io, hist>>

\* on failure the VirtualStream is never built, and the map entry stays
SendOpen(s, i) ==
  /\ handle[s][i] = "inserted"
  /\ Send(s, i, "open")
  /\ handle' = [handle EXCEPT ![s][i] = IF outOpen[s] THEN "open" ELSE "failed"]
  /\ UNCHANGED <<nextId, entry, closed, inq, outOpen, wire, io, got, reset>>

-----------------------------------------------------------------------------
(* VirtualStream                                                           *)

\* the handler task takes the accepted stream from its channel
Accept(s, i) ==
  /\ handle[s][i] = "queued"
  /\ handle' = [handle EXCEPT ![s][i] = "open"]
  /\ UNCHANGED <<nextId, entry, closed, chans, io, hist>>

\* write does not look at the closed flag: a writer half may outlive a close
Write(s, i) ==
  /\ handle[s][i] \in {"open", "ended"}
  /\ queued[s][i] < MaxFrames
  /\ Send(s, i, "data")
  /\ UNCHANGED <<nextId, entry, handle, closed, inq, outOpen, wire, io, got, reset>>

\* read: a terminal frame is the end of the stream for the reader
Read(s, i) ==
  /\ handle[s][i] = "open" /\ inq[s][i] # <<>>
  /\ inq' = [inq EXCEPT ![s][i] = Tail(@)]
  /\ got' = [got EXCEPT ![s][i] = Head(inq[s][i]).n]
  /\ handle' = [handle EXCEPT ![s][i] = IF Terminal(Head(inq[s][i])) THEN "ended" ELSE "open"]
  /\ UNCHANGED <<nextId, entry, closed, outq, outOpen, wire, io, queued, fins, reset>>

\* the loop holds a clone of the sender while it delivers to the stream
SenderAlive(s, i) == i \in entry[s] \/ (cur[s] # <<>> /\ cur[s][1].id = i)

\* recv() = None: the channel is empty and every sender is gone
ReadNone(s, i) ==
  /\ handle[s][i] = "open" /\ inq[s][i] = <<>> /\ ~SenderAlive(s, i)
  /\ handle' = [handle EXCEPT ![s][i] = "ended"]
  /\ UNCHANGED <<nextId, entry, closed, chans, io, hist>>

\* close (of the stream or of its writer half): one FIN, guarded by the flag.
\* A close that has to wait for a slot appears at the moment it gets one: until
\* then its flag only keeps Drop from sending the FIN that it is about to send.
Close(s, i) ==
  /\ handle[s][i] \in {"open", "ended"} /\ i \notin closed[s]
  /\ closed' = [closed EXCEPT ![s] = @ \cup {i}]
  /\ Send(s, i, "fin")
  /\ UNCHANGED <<nextId, entry, handle, inq, outOpen, wire, io, got, reset>>

\* fault: Drop does not look at the flag
DropAlwaysFin(s, i) ==
  /\ handle[s][i] \in {"open", "ended"}
  /\ handle' = [handle EXCEPT ![s][i] = "dropped"]
  /\ inq' = [inq EXCEPT ![s][i] = <<>>]
  /\ closed' = [closed EXCEPT ![s] = @ \cup {i}]
  /\ TrySend(s, i, "fin")
  /\ UNCHANGED <<nextId, entry, outOpen, wire, io, got, reset>>

\* Drop: a FIN if nobody closed before, lost when there is no slot
Drop(s, i) ==
  /\ handle[s][i] \in {"open", "ended"}
  /\ handle' = [handle EXCEPT ![s][i] = "dropped"]
  /\ inq' = [inq EXCEPT ![s][i] = <<>>]
  /\ closed' = [closed EXCEPT ![s] = @ \cup {i}]
  /\ IF i \in closed[s] THEN UNCHANGED <<outq, queued, fins>> ELSE TrySend(s, i, "fin")
  /\ UNCHANGED <<nextId, entry, outOpen, wire, io, got, reset>>

-----------------------------------------------------------------------------
(* run_io_loop                                                             *)

Arrived(s) == Head(wire[Peer(s)])

Receive(s) ==
  /\ loop[s] = "select" /\ wire[Peer(s)] # <<>>
  /\ wire' = [wire EXCEPT ![Peer(s)] = Tail(@)]

\* a frame of a known stream: look its sender up, then deliver
ReceiveKnown(s) ==
  /\ Receive(s)
  /\ Arrived(s).id \in entry[s]
  /\ loop' = [loop EXCEPT ![s] = "send"]
  /\ cur' = [cur EXCEPT ![s] = <<Arrived(s)>>]
  /\ UNCHANGED <<nextId, entry, handle, closed, inq, outq, outOpen, batch, hist>>

HandlerFull(s) == Cardinality({i \in Ids : handle[s][i] = "queued"}) >= HandlerCap

\* a new stream, handed to the handler with its opening frame as first frame
ReceiveOpen(s) ==
  /\ Receive(s)
  /\ Arrived(s).id \notin entry[s] /\ Arrived(s).kind = "open" /\ ~HandlerFull(s)
  /\ entry' = [entry EXCEPT ![s] = @ \cup {Arrived(s).id}]
  /\ handle' = [handle EXCEPT ![s][Arrived(s).id] = "queued"]
  /\ inq' = [inq EXCEPT ![s][Arrived(s).id] = <<Arrived(s)>>]
  /\ UNCHANGED <<nextId, closed, outq, outOpen, io, hist>>

\* the handler channel is full (of these streams, or in a Crowd of others): the
\* stream is dropped without a FIN and reset
ReceiveRefuse(s) ==
  /\ Receive(s)
  /\ Arrived(s).id \notin entry[s] /\ Arrived(s).kind = "open"
  /\ Crowd \/ HandlerFull(s)
  /\ handle' = [handle EXCEPT ![s][Arrived(s).id] = "refused"]
  /\ closed' = [closed EXCEPT ![s] = @ \cup {Arrived(s).id}]
  /\ TrySend(s, Arrived(s).id, "rst")
  /\ UNCHANGED <<nextId, entry, inq, outOpen, io, got, reset>>

\* any other frame of an unknown stream is discarded
ReceiveUnknown(s) ==
  /\ Receive(s)
  /\ Arrived(s).id \notin entry[s] /\ Arrived(s).kind # "open"
  /\ UNCHANGED <<nextId, entry, handle, closed, inq, outq, outOpen, io, hist>>

Delivering(s, i) == loop[s] = "send" /\ cur[s][1].id = i

BackToSelect(s) ==
  /\ loop' = [loop EXCEPT ![s] = "select"]
  /\ cur' = [cur EXCEPT ![s] = <<>>]

\* the channel has a slot; after a terminal frame the stream leaves the map
Deliver(s, i) ==
  /\ Delivering(s, i) /\ handle[s][i] \in Holding /\ Len(inq[s][i]) < InCap
  /\ inq' = [inq EXCEPT ![s][i] = Append(@, cur[s][1])]
  /\ entry' = [entry EXCEPT ![s] = IF Terminal(cur[s][1]) THEN @ \ {i} ELSE @]
  /\ BackToSelect(s)
  /\ UNCHANGED <<nextId, handle, closed, outq, outOpen, wire, batch, hist>>

\* the receiver is gone
DeliverDead(s, i) ==
  /\ Delivering(s, i) /\ handle[s][i] \notin Holding
  /\ entry' = [entry EXCEPT ![s] = @ \ {i}]
  /\ BackToSelect(s)
  /\ UNCHANGED <<nextId, handle, closed, chans, batch, hist>>

\* faults: the stream stays in the map; the agent times out too; no timeout
DeliverTimeoutKeeps(s, i) ==
  /\ s = "host"
  /\ Delivering(s, i) /\ handle[s][i] \in Holding /\ Len(inq[s][i]) >= InCap
  /\ TrySend(s, i, "rst")
  /\ reset' = [reset EXCEPT ![s] = @ \cup {i}]
  /\ BackToSelect(s)
  /\ UNCHANGED <<nextId, entry, handle, closed, inq, outOpen, wire, batch, got>>

DeliverTimeoutBoth(s, i) ==
  /\ Delivering(s, i) /\ handle[s][i] \in Holding /\ Len(inq[s][i]) >= InCap
  /\ entry' = [entry EXCEPT ![s] = @ \ {i}]
  /\ TrySend(s, i, "rst")
  /\ reset' = [reset EXCEPT ![s] = @ \cup {i}]
  /\ BackToSelect(s)
  /\ UNCHANGED <<nextId, handle, closed, inq, outOpen, wire, batch, got>>

DeliverTimeoutNever(s, i) == Delivering(s, i) /\ FALSE /\ UNCHANGED vars

\* host only: no slot for 5 s; the frame is lost, the stream forgotten and reset
DeliverTimeout(s, i) ==
  /\ s = "host"
  /\ Delivering(s, i) /\ handle[s][i] \in Holding /\ Len(inq[s][i]) >= InCap
  /\ entry' = [entry EXCEPT ![s] = @ \ {i}]
  /\ TrySend(s, i, "rst")
  /\ reset' = [reset EXCEPT ![s] = @ \cup {i}]
  /\ BackToSelect(s)
  /\ UNCHANGED <<nextId, handle, closed, inq, outOpen, wire, batch, got>>

\* recv + try_recv: what is queued, up to MAX_BATCH_BYTES, becomes one write
Drain(s, k) ==
  /\ loop[s] = "select" /\ k \in 1 .. Len(outq[s])
  /\ batch' = [batch EXCEPT ![s] = SubSeq(outq[s], 1, k)]
  /\ outq' = [outq EXCEPT ![s] = SubSeq(outq[s], k + 1, Len(outq[s]))]
  /\ loop' = [loop EXCEPT ![s] = "write"]
  /\ UNCHANGED <<nextId, entry, handle, closed, inq, outOpen, wire, cur, hist>>

\* physical.write: the socket takes the batch as room appears
WriteSome(s) ==
  /\ loop[s] = "write" /\ Len(wire[s]) < WireCap
  /\ wire' = [wire EXCEPT ![s] = Append(@, Head(batch[s]))]
  /\ batch' = [batch EXCEPT ![s] = Tail(@)]
  /\ loop' = [loop EXCEPT ![s] = IF Len(batch[s]) = 1 THEN "select" ELSE "write"]
  /\ UNCHANGED <<nextId, entry, handle, closed, inq, outq, outOpen, cur, hist>>

\* physical read or write error: the connection broke, or the other end is gone
Disconnect(s) ==
  /\ loop[s] \in {"select", "write"}
  /\ s \in Breaks \/ loop[Peer(s)] = "exited"
  /\ loop' = [loop EXCEPT ![s] = "exit"]
  /\ UNCHANGED <<nextId, entry, handle, closed, chans, cur, batch, hist>>

\* fault: the map is not cleared
ClearNothing(s) ==
  /\ loop[s] = "exit"
  /\ loop' = [loop EXCEPT ![s] = "cleared"]
  /\ UNCHANGED <<nextId, entry, handle, closed, chans, cur, batch, hist>>

\* after the loop: clear the map ...
ClearStreams(s) ==
  /\ loop[s] = "exit"
  /\ entry' = [entry EXCEPT ![s] = {}]
  /\ loop' = [loop EXCEPT ![s] = "cleared"]
  /\ UNCHANGED <<nextId, handle, closed, chans, cur, batch, hist>>

\* ... then close the outgoing receiver
CloseOutgoing(s) ==
  /\ loop[s] = "cleared"
  /\ outOpen' = [outOpen EXCEPT ![s] = FALSE]
  /\ outq' = [outq EXCEPT ![s] = <<>>]
  /\ loop' = [loop EXCEPT ![s] = "exited"]
  /\ UNCHANGED <<nextId, entry, handle, closed, inq, wire, cur, batch, hist>>

-----------------------------------------------------------------------------
User(s, i) ==
  \/ Insert(s, i) \/ SendOpen(s, i) \/ Accept(s, i)
  \/ Write(s, i) \/ Read(s, i) \/ ReadNone(s, i) \/ Close(s, i) \/ Drop(s, i)

IoLoop(s) ==
  \/ ReceiveKnown(s) \/ ReceiveOpen(s) \/ ReceiveRefuse(s) \/ ReceiveUnknown(s)
  \/ \E i \in Ids : Deliver(s, i) \/ DeliverDead(s, i) \/ DeliverTimeout(s, i)
  \/ \E k \in 1 .. OutCap : Drain(s, k)
  \/ WriteSome(s)
  \/ ClearStreams(s) \/ CloseOutgoing(s)

Next ==
  \E s \in Sides :
    \/ TakeId(s)
    \/ \E i \in Ids : User(s, i)
    \/ IoLoop(s)
    \/ Disconnect(s)

Spec == Init /\ [][Next]_vars

\* Only the host's loop is scheduled; nothing is assumed of its consumers.
HostSpec == Spec /\ WF_vars(IoLoop("host"))

\* The runtime polls every ready task: a loop that can step does, a reader
\* reads, a create_stream under way goes on, an accepted stream is taken, and
\* a loop whose peer is gone notices.
AllScheduled ==
  \A s \in Sides :
    /\ WF_vars(IoLoop(s))
    /\ WF_vars(loop[Peer(s)] = "exited" /\ Disconnect(s))
    /\ \A i \in Ids : WF_vars(Insert(s, i) \/ SendOpen(s, i) \/ Accept(s, i)
                               \/ Read(s, i) \/ ReadNone(s, i))

-----------------------------------------------------------------------------
(* Properties                                                              *)

Types ==
  /\ nextId \in [Sides -> Nat]
  /\ entry \in [Sides -> SUBSET Ids]
  /\ inq \in [Sides -> [Ids -> Seq(Frame)]]
  /\ handle \in [Sides -> [Ids -> {"none", "new", "failed", "dropped", "refused"} \cup Holding]]
  /\ closed \in [Sides -> SUBSET Ids]
  /\ outq \in [Sides -> Seq(Frame)]
  /\ outOpen \in [Sides -> BOOLEAN]
  /\ loop \in [Sides -> {"select", "send", "write", "exit", "cleared", "exited"}]
  /\ cur \in [Sides -> Seq(Frame)]
  /\ batch \in [Sides -> Seq(Frame)]
  /\ wire \in [Sides -> Seq(Frame)]
  /\ queued \in [Sides -> [Ids -> Nat]]
  /\ fins \in [Sides -> [Ids -> Nat]]
  /\ got \in [Sides -> [Ids -> Nat]]
  /\ reset \in [Sides -> SUBSET Ids]

\* The type invariant: no channel holds more than its capacity, try_send and
\* the frames the loop hands over included.
TypeOK ==
  /\ Types
  /\ \A s \in Sides :
       /\ Len(outq[s]) <= OutCap /\ Len(wire[s]) <= WireCap
       /\ \A i \in Ids : Len(inq[s][i]) <= InCap

\* What a reader gets of a stream is what the peer queued on it, in order,
\* nothing skipped, repeated or taken from another stream, whatever was lost
\* to timeouts, refusals, drops and disconnections on the way: the channel
\* continues exactly where the reader stands.
InOrder ==
  \A s \in Sides, i \in Ids :
    /\ \A k \in 1 .. Len(inq[s][i]) : inq[s][i][k].id = i /\ inq[s][i][k].n = got[s][i] + k
    /\ got[s][i] + Len(inq[s][i]) <= queued[Peer(s)][i]

\* Each end puts at most one FIN on a stream, however close, the writer half's
\* close and Drop combine (test writer_close_and_drop_only_send_one_fin).
OneFin == \A s \in Sides, i \in Ids : fins[s][i] <= 1

\* A stream that arrives is new to the end it arrives at: the odd ids of the
\* host and the even ids of the agent never meet, so that accepting a stream
\* never replaces the channel of one in use.
NoIdClash ==
  \A s \in Sides : wire[Peer(s)] # <<>> =>
    (Arrived(s).kind = "open" => handle[s][Arrived(s).id] = "none")

\* While its loop runs, an end forgets a stream whose reader is still there
\* only after queueing the peer's FIN or RST to that reader; the host also
\* after a delivery timeout, the agent never ("preserve data integrity").
EndExplained ==
  \A s \in Sides, i \in Ids :
    /\ handle[s][i] = "open" /\ i \notin entry[s]
    /\ loop[s] \in {"select", "send", "write"}
    => \/ s = "host" /\ i \in reset[s]
       \/ inq[s][i] # <<>> /\ Terminal(inq[s][i][Len(inq[s][i])])

\* A consumer that never reads cannot hold the host's loop for ever: "Timeout-
\* bounded send to prevent a slow consumer from blocking the entire IO loop".
HostLoopAdvances == loop["host"] = "send" ~> loop["host"] # "send"

\* When the loop ends, and the runtime goes on to poll every task, each task
\* that reads a stream the loop knew comes to the end of that stream ("handler
\* tasks waiting on incoming_rx.recv() immediately get None").
RegisteredReadersEnd ==
  AllScheduled =>
    \A s \in Sides, i \in Ids :
      (loop[s] = "exit" /\ handle[s][i] = "open") ~> handle[s][i] # "open"
=============================================================================
