----------------------------- MODULE MuxTunnel -----------------------------
(***************************************************************************)
(* The life of the channels of one multiplexed port-forward tunnel, both   *)
(* ends: the controller (TunnelHandle, tunnel_loop) and the controlled     *)
(* side (PortForwardMux, run_controlled_channel, the connection's loop).   *)
(*                                                                         *)
(* Each channel is a task on either side (run_channel): one half reads the *)
(* local socket and sends data frames, the other takes what the            *)
(* demultiplexer queued for it and writes the local socket.  The first     *)
(* half to end cancels the other.                                          *)
(*                                                                         *)
(* Frames of the controller wait in a bounded queue, those of the          *)
(* controlled side in an unbounded one; each side has a single loop that   *)
(* either sends or reads, never both, over a link that buffers little.     *)
(* Credit is FlowControl's subject: here a chunk may be read at any time,  *)
(* window_update frames are left out, and so is the violation path, which  *)
(* FlowControl shows no peer running this code can enter.                  *)
(***************************************************************************)
EXTENDS Naturals, Sequences, FiniteSets

CONSTANTS
  Ids,                \* channel ids, in the order next_id hands them out
  MAX_CHANNELS,       \* channels one side keeps at once
  DATA_QUEUE_FRAMES,  \* frames the controller's data queue holds
  LINK_FRAMES,        \* frames the link buffers in each direction
  UpChunks,           \* bound: chunks read from a socket of the controller
  DownChunks          \* bound: chunks read from a target's socket

ASSUME ConstantsAssumption ==
  /\ Ids \subseteq Nat \ {0}
  /\ \A i \in Ids : \A j \in 1..i : j \in Ids
  /\ MAX_CHANNELS \in Nat \ {0} /\ DATA_QUEUE_FRAMES \in Nat \ {0}
  /\ LINK_FRAMES \in Nat \ {0} /\ UpChunks \in Nat /\ DownChunks \in Nat

Sides == {"controller", "controlled"}
Ends == Sides \X Ids
Side(e) == e[1]
Id(e) == e[2]
PeerOf(e) == <<IF Side(e) = "controller" THEN "controlled" ELSE "controller", Id(e)>>

VARIABLES
  loop,      \* side -> its loop: running, sending (blocked in stream.send),
             \*   closed (ended, close_all done), gone (its queues dropped)
  sending,   \* side -> the frame being sent
  queue,     \* side -> frames waiting for the loop (data queue, inner.tx)
  link,      \* side -> frames on the link that this side has sent
  nextId,    \* TunnelHandle.next_id
  checked,   \* open() has found the sink open and is about to insert
  entry,     \* end -> in that side's map of channels
  task,      \* end -> where its task stands
  out, inn,  \* end -> its two halves: relay_socket_to_tunnel, relay_tunnel_to_socket
  inbound,   \* end -> its queue of Inbound
  pending,   \* end -> chunks buffered while the target is being connected
  chunk,     \* end -> the chunk being written
  sent,      \* end -> chunks its socket has put into the tunnel
  written    \* end -> chunks written to its socket

loopVars == <<loop, sending, link, nextId, checked>>
taskVars == <<task, out, inn, pending, chunk, sent, written>>
vars == <<loop, sending, queue, link, nextId, checked, entry, task, out, inn,
          inbound, pending, chunk, sent, written>>

NoFrame == [type |-> "none", id |-> 0, n |-> 0]
Frame(t, i, n) == [type |-> t, id |-> i, n |-> n]
Data(n) == [type |-> "data", n |-> n]
CloseCmd == [type |-> "close", n |-> 0]

RelayEnd == {"LocalEof", "PeerClosed", "Cancelled", "TunnelGone"}

(* The sink of a side is closed once its loop has dropped the receivers. *)
SinkClosed(s) == loop[s] = "gone"

(* The teardown watch, raised by close_all and never lowered. *)
TornDown(s) == loop[s] \in {"closed", "gone"}

(* Somebody still holds the receiver of the channel's inbound queue. *)
Receiving(e) == task[e] \in {"opening", "connecting"} \/ (task[e] = "run" /\ inn[e] \notin RelayEnd)

Live(s) == {i \in Ids : entry[<<s, i>>]}

Init ==
  /\ loop = [s \in Sides |-> "running"]
  /\ sending = [s \in Sides |-> NoFrame]
  /\ queue = [s \in Sides |-> <<>>]
  /\ link = [s \in Sides |-> <<>>]
  /\ nextId = 1 /\ checked = FALSE
  /\ entry = [e \in Ends |-> FALSE]
  /\ task = [e \in Ends |-> "none"]
  /\ out = [e \in Ends |-> "none"] /\ inn = [e \in Ends |-> "none"]
  /\ inbound = [e \in Ends |-> <<>>] /\ pending = [e \in Ends |-> <<>>]
  /\ chunk = [e \in Ends |-> 0] /\ sent = [e \in Ends |-> 0]
  /\ written = [e \in Ends |-> <<>>]

(* FrameSink::send_ordered.  Only the controller's queue is bounded. *)
Room(s) == s = "controlled" \/ Len(queue[s]) < DATA_QUEUE_FRAMES
Enqueue(s, f) == queue' = [queue EXCEPT ![s] = Append(@, f)]

----------------------------------------------------------------------------
(* Opening a channel on the controller.                                    *)

(* TunnelHandle::open looks at the sink first ... *)
OpenCheck ==
  /\ ~checked /\ nextId \in Ids
  /\ ~SinkClosed("controller")
  /\ checked' = TRUE
  /\ UNCHANGED <<loop, sending, queue, link, nextId, entry, inbound, taskVars>>

(* ... and only then, under the lock of the map, takes an id and a place;  *)
(* the tunnel may have closed in between.                                  *)
OpenInsert ==
  /\ checked /\ checked' = FALSE
  /\ IF Cardinality(Live("controller")) >= MAX_CHANNELS
       THEN UNCHANGED <<nextId, entry, task>>
       ELSE /\ nextId' = nextId + 1
            /\ entry' = [entry EXCEPT ![<<"controller", nextId>>] = TRUE]
            /\ task' = [task EXCEPT ![<<"controller", nextId>>] = "opening"]
  /\ UNCHANGED <<loop, sending, queue, link, out, inn, inbound, pending,
                 chunk, sent, written>>

(* Mutant of SendOpen: a channel whose `open` could not be sent returns    *)
(* without taking its id back.                                             *)
SendOpenLeavesEntry(i) ==
  LET e == <<"controller", i>> IN
  /\ task[e] = "opening"
  /\ IF SinkClosed("controller")
       THEN /\ task' = [task EXCEPT ![e] = "done"]
            /\ UNCHANGED <<queue, out, inn>>
       ELSE /\ Room("controller")
            /\ Enqueue("controller", Frame("open", i, 0))
            /\ task' = [task EXCEPT ![e] = "run"]
            /\ out' = [out EXCEPT ![e] = "idle"]
            /\ inn' = [inn EXCEPT ![e] = "recv"]
  /\ UNCHANGED <<loopVars, entry, inbound, pending, chunk, sent, written>>

(* The task sends `open` down the ordered queue ahead of any data. *)
SendOpen(i) ==
  LET e == <<"controller", i>> IN
  /\ task[e] = "opening"
  /\ IF SinkClosed("controller")
       THEN /\ task' = [task EXCEPT ![e] = "remove"]
            /\ UNCHANGED <<queue, out, inn>>
       ELSE /\ Room("controller")
            /\ Enqueue("controller", Frame("open", i, 0))
            /\ task' = [task EXCEPT ![e] = "run"]
            /\ out' = [out EXCEPT ![e] = "idle"]
            /\ inn' = [inn EXCEPT ![e] = "recv"]
  /\ UNCHANGED <<loopVars, entry, inbound, pending, chunk, sent, written>>

----------------------------------------------------------------------------
(* The controlled side while its target is being connected.                *)

(* A queued command wins over the connect. *)
ConnectCmd(i) ==
  LET e == <<"controlled", i>> IN
  /\ task[e] = "connecting" /\ inbound[e] # <<>>
  /\ inbound' = [inbound EXCEPT ![e] = Tail(@)]
  /\ IF Head(inbound[e]).type = "data"
       THEN /\ pending' = [pending EXCEPT ![e] = Append(@, Head(inbound[e]).n)]
            /\ task' = task
       ELSE /\ task' = [task EXCEPT ![e] = "done"]
            /\ pending' = pending
  /\ UNCHANGED <<loopVars, queue, entry, out, inn, chunk, sent, written>>

(* The queue's sender is gone: close_all has cleared the map. *)
ConnectDropped(i) ==
  LET e == <<"controlled", i>> IN
  /\ task[e] = "connecting" /\ inbound[e] = <<>> /\ ~entry[e]
  /\ task' = [task EXCEPT ![e] = "done"]
  /\ UNCHANGED <<loopVars, queue, entry, inbound, out, inn, pending,
                 chunk, sent, written>>

ConnectOk(i) ==
  LET e == <<"controlled", i>> IN
  /\ task[e] = "connecting" /\ inbound[e] = <<>> /\ entry[e]
  /\ IF SinkClosed("controlled")
       THEN /\ task' = [task EXCEPT ![e] = "done"]
            /\ UNCHANGED <<queue, out, inn>>
       ELSE /\ Enqueue("controlled", Frame("opened", i, 1))
            /\ task' = [task EXCEPT ![e] = "run"]
            /\ out' = [out EXCEPT ![e] = "idle"]
            /\ inn' = [inn EXCEPT ![e] = "recv"]
  /\ UNCHANGED <<loopVars, entry, inbound, pending, chunk, sent, written>>

(* Refused or timed out (CONNECT_TIMEOUT_MS).  The entry stays behind. *)
ConnectFail(i) ==
  LET e == <<"controlled", i>> IN
  /\ task[e] = "connecting" /\ inbound[e] = <<>> /\ entry[e]
  /\ IF SinkClosed("controlled") THEN queue' = queue
                                 ELSE Enqueue("controlled", Frame("opened", i, 0))
  /\ task' = [task EXCEPT ![e] = "done"]
  /\ UNCHANGED <<loopVars, entry, inbound, out, inn, pending, chunk, sent, written>>

----------------------------------------------------------------------------
(* relay_socket_to_tunnel: read a chunk, send it, look at cancel only      *)
(* while waiting for credit or for the socket.                             *)

SetOut(e, v) == out' = [out EXCEPT ![e] = v]
SetIn(e, v) == inn' = [inn EXCEPT ![e] = v]

(* Mutant of Cancelled: teardown reaches only tasks on their queue. *)
CancelledByHalves(e) == out[e] \in RelayEnd \/ inn[e] \in RelayEnd

(* The cancel signal of run_channel: the first half to end raises it for   *)
(* the other, the teardown of the tunnel raises it for both.               *)
Cancelled(e) == out[e] \in RelayEnd \/ inn[e] \in RelayEnd \/ TornDown(Side(e))

ReadSocket(e) ==
  /\ task[e] = "run" /\ out[e] = "idle" /\ sent[e] < (IF Side(e) = "controller" THEN UpChunks ELSE DownChunks)
  /\ SetOut(e, "send")
  /\ UNCHANGED <<loopVars, queue, entry, inbound, task, inn, pending,
                 chunk, sent, written>>

ReadEof(e) ==
  /\ task[e] = "run" /\ out[e] = "idle"
  /\ SetOut(e, "LocalEof")
  /\ UNCHANGED <<loopVars, queue, entry, inbound, task, inn, pending,
                 chunk, sent, written>>

SendData(e) ==
  /\ task[e] = "run" /\ out[e] = "send"
  /\ IF SinkClosed(Side(e))
       THEN SetOut(e, "TunnelGone") /\ UNCHANGED <<queue, sent>>
       ELSE /\ Room(Side(e))
            /\ Enqueue(Side(e), Frame("data", Id(e), sent[e] + 1))
            /\ sent' = [sent EXCEPT ![e] = @ + 1]
            /\ SetOut(e, "idle")
  /\ UNCHANGED <<loopVars, entry, inbound, task, inn, pending, chunk, written>>

CancelOut(e) ==
  /\ task[e] = "run" /\ Cancelled(e) /\ out[e] = "idle"
  /\ SetOut(e, "Cancelled")
  /\ UNCHANGED <<loopVars, queue, entry, inbound, task, inn, pending,
                 chunk, sent, written>>

----------------------------------------------------------------------------
(* relay_tunnel_to_socket: the chunks set aside first, then the queue.     *)

(* The half that ends drops what was still queued for it. *)
EndIn(e, v) ==
  /\ SetIn(e, v)
  /\ inbound' = [inbound EXCEPT ![e] = <<>>]
  /\ pending' = [pending EXCEPT ![e] = <<>>]
  /\ chunk' = [chunk EXCEPT ![e] = 0]

TakePending(e) ==
  /\ task[e] = "run" /\ inn[e] = "recv" /\ pending[e] # <<>>
  /\ chunk' = [chunk EXCEPT ![e] = Head(pending[e])]
  /\ pending' = [pending EXCEPT ![e] = Tail(@)]
  /\ SetIn(e, "write")
  /\ UNCHANGED <<loopVars, queue, entry, inbound, task, out, sent, written>>

(* Mutant of TakeInbound: the queue is not held back for the chunks set    *)
(* aside while connecting.                                                 *)
TakeInboundFirst(e) ==
  /\ task[e] = "run" /\ inn[e] = "recv" /\ inbound[e] # <<>>
  /\ IF Head(inbound[e]).type = "data"
       THEN /\ chunk' = [chunk EXCEPT ![e] = Head(inbound[e]).n]
            /\ inbound' = [inbound EXCEPT ![e] = Tail(@)]
            /\ SetIn(e, "write") /\ pending' = pending
       ELSE EndIn(e, "PeerClosed")
  /\ UNCHANGED <<loopVars, queue, entry, task, out, sent, written>>

TakeInbound(e) ==
  /\ task[e] = "run" /\ inn[e] = "recv" /\ pending[e] = <<>> /\ inbound[e] # <<>>
  /\ IF Head(inbound[e]).type = "data"
       THEN /\ chunk' = [chunk EXCEPT ![e] = Head(inbound[e]).n]
            /\ inbound' = [inbound EXCEPT ![e] = Tail(@)]
            /\ SetIn(e, "write") /\ pending' = pending
       ELSE EndIn(e, "PeerClosed")
  /\ UNCHANGED <<loopVars, queue, entry, task, out, sent, written>>

(* None: the queue is empty and its sender dropped with the map's entry. *)
InboundGone(e) ==
  /\ task[e] = "run" /\ inn[e] = "recv" /\ pending[e] = <<>>
  /\ inbound[e] = <<>> /\ ~entry[e]
  /\ EndIn(e, "TunnelGone")
  /\ UNCHANGED <<loopVars, queue, entry, task, out, sent, written>>

WriteSocket(e) ==
  /\ task[e] = "run" /\ inn[e] = "write"
  /\ written' = [written EXCEPT ![e] = Append(@, chunk[e])]
  /\ chunk' = [chunk EXCEPT ![e] = 0]
  /\ SetIn(e, "recv")
  /\ UNCHANGED <<loopVars, queue, entry, inbound, task, out, pending, sent>>

WriteFail(e) ==
  /\ task[e] = "run" /\ inn[e] = "write"
  /\ EndIn(e, "LocalEof")
  /\ UNCHANGED <<loopVars, queue, entry, task, out, sent, written>>

CancelIn(e) ==
  /\ task[e] = "run" /\ Cancelled(e)
  /\ inn[e] = "write" \/ (inn[e] = "recv" /\ pending[e] = <<>>)
  /\ EndIn(e, "Cancelled")
  /\ UNCHANGED <<loopVars, queue, entry, task, out, sent, written>>

----------------------------------------------------------------------------
(* run_channel.                                                            *)

(* What a finished task does last: the controller takes its id back. *)
AfterChannel(e) == IF Side(e) = "controller" THEN "remove" ELSE "done"

SendsClose(e) ==
  /\ inn[e] # "PeerClosed"
  /\ out[e] # "TunnelGone" /\ inn[e] # "TunnelGone"
  /\ out[e] = "LocalEof" \/ inn[e] = "LocalEof"

(* Mutant of Join: the other half is not waited for. *)
JoinFirst(e) ==
  /\ task[e] = "run" /\ (out[e] \in RelayEnd \/ inn[e] \in RelayEnd)
  /\ IF SendsClose(e) /\ ~SinkClosed(Side(e))
       THEN Room(Side(e)) /\ Enqueue(Side(e), Frame("close", Id(e), 0))
       ELSE queue' = queue
  /\ task' = IF out[e] \in RelayEnd /\ inn[e] \in RelayEnd
               THEN [task EXCEPT ![e] = AfterChannel(e)] ELSE task
  /\ UNCHANGED <<loopVars, entry, inbound, out, inn, pending,
                 chunk, sent, written>>

(* Both halves joined: `close` goes out only for a local reason. *)
Join(e) ==
  /\ task[e] = "run" /\ out[e] \in RelayEnd /\ inn[e] \in RelayEnd
  /\ task' = [task EXCEPT ![e] = IF SendsClose(e) THEN "close" ELSE AfterChannel(e)]
  /\ UNCHANGED <<loopVars, queue, entry, inbound, out, inn, pending,
                 chunk, sent, written>>

SendClose(e) ==
  /\ task[e] = "close"
  /\ IF SinkClosed(Side(e))
       THEN queue' = queue
       ELSE Room(Side(e)) /\ Enqueue(Side(e), Frame("close", Id(e), 0))
  /\ task' = [task EXCEPT ![e] = AfterChannel(e)]
  /\ UNCHANGED <<loopVars, entry, inbound, out, inn, pending, chunk, sent, written>>

Remove(e) ==
  /\ task[e] = "remove"
  /\ entry' = [entry EXCEPT ![e] = FALSE]
  /\ task' = [task EXCEPT ![e] = "done"]
  /\ UNCHANGED <<loopVars, queue, inbound, out, inn, pending, chunk, sent, written>>

----------------------------------------------------------------------------
(* The two loops.                                                          *)

(* A loop picks the next frame and sends it.  When the link is full it     *)
(* waits in stream.send, and does nothing else until there is room.        *)
SendNext(s) ==
  /\ loop[s] = "running" /\ queue[s] # <<>>
  /\ queue' = [queue EXCEPT ![s] = Tail(@)]
  /\ IF Len(link[s]) < LINK_FRAMES
       THEN /\ link' = [link EXCEPT ![s] = Append(@, Head(queue[s]))]
            /\ UNCHANGED <<loop, sending>>
       ELSE /\ loop' = [loop EXCEPT ![s] = "sending"]
            /\ sending' = [sending EXCEPT ![s] = Head(queue[s])]
            /\ link' = link
  /\ UNCHANGED <<nextId, checked, entry, inbound, taskVars>>

Unblock(s) ==
  /\ loop[s] = "sending" /\ Len(link[s]) < LINK_FRAMES
  /\ link' = [link EXCEPT ![s] = Append(@, sending[s])]
  /\ sending' = [sending EXCEPT ![s] = NoFrame]
  /\ loop' = [loop EXCEPT ![s] = "running"]
  /\ UNCHANGED <<queue, nextId, checked, entry, inbound, taskVars>>

(* on_frame and handle treat data and close of a channel in the map alike; *)
(* a chunk nobody will receive drops the entry.                            *)
Deliver(e, f) ==
  CASE ~entry[e] -> UNCHANGED <<entry, inbound>>
    [] entry[e] /\ f.type = "data" /\ Receiving(e) ->
         /\ inbound' = [inbound EXCEPT ![e] = Append(@, Data(f.n))]
         /\ entry' = entry
    [] entry[e] /\ f.type = "data" /\ ~Receiving(e) ->
         /\ entry' = [entry EXCEPT ![e] = FALSE]
         /\ inbound' = inbound
    [] OTHER ->
         /\ entry' = [entry EXCEPT ![e] = FALSE]
         /\ inbound' = IF Receiving(e)
                         THEN [inbound EXCEPT ![e] = Append(@, CloseCmd)]
                         ELSE inbound

(* tunnel_loop reads a frame.  A successful `opened` only raises credit, a *)
(* failed one closes the channel.                                          *)
OnFrame ==
  /\ loop["controller"] = "running" /\ link["controlled"] # <<>>
  /\ link' = [link EXCEPT !["controlled"] = Tail(@)]
  /\ LET f == Head(link["controlled"]) IN
       IF f.type = "opened" /\ f.n = 1
         THEN UNCHANGED <<entry, inbound>>
         ELSE Deliver(<<"controller", f.id>>, f)
  /\ UNCHANGED <<loop, sending, queue, nextId, checked, taskVars>>

Handle ==
  /\ loop["controlled"] = "running" /\ link["controller"] # <<>>
  /\ Head(link["controller"]).type # "open"
  /\ link' = [link EXCEPT !["controller"] = Tail(@)]
  /\ LET f == Head(link["controller"]) IN Deliver(<<"controlled", f.id>>, f)
  /\ UNCHANGED <<loop, sending, queue, nextId, checked, taskVars>>

(* on_open: dead entries go first; then the channel is refused (no         *)
(* permission, another target, too many) or gets a task.                   *)
OnOpen(permitted) ==
  /\ loop["controlled"] = "running" /\ link["controller"] # <<>>
  /\ LET f == Head(link["controller"])
         e == <<"controlled", f.id>>
         kept == [x \in Ends |-> entry[x] /\ (Side(x) = "controlled" => Receiving(x))]
         full == Cardinality({i \in Ids : kept[<<"controlled", i>>]}) >= MAX_CHANNELS
     IN /\ f.type = "open"
        /\ IF ~permitted \/ full
             THEN /\ Enqueue("controlled", Frame("opened", f.id, 0))
                  /\ entry' = kept /\ task' = task
             ELSE /\ entry' = [kept EXCEPT ![e] = TRUE]
                  /\ task' = [task EXCEPT ![e] = IF kept[e] THEN @ ELSE "connecting"]
                  /\ queue' = queue
  /\ link' = [link EXCEPT !["controller"] = Tail(@)]
  /\ UNCHANGED <<loop, sending, nextId, checked, inbound, out, inn,
                 pending, chunk, sent, written>>

(* A loop ends (a failed read or send, a close request, a time-out) and    *)
(* runs close_all: the map is cleared, then teardown raised.               *)
LoopEnd(s) ==
  /\ loop[s] \in {"running", "sending"}
  /\ loop' = [loop EXCEPT ![s] = "closed"]
  /\ sending' = [sending EXCEPT ![s] = NoFrame]
  /\ entry' = [e \in Ends |-> entry[e] /\ Side(e) # s]
  /\ UNCHANGED <<queue, link, nextId, checked, inbound, taskVars>>

(* Mutant of SendTimeout: the time-out is noticed and the send goes on. *)
SendTimeoutIgnored ==
  /\ loop["controlled"] = "sending"
  /\ UNCHANGED vars

(* The connection gives up a send after SEND_TIMEOUT_OTHER. *)
SendTimeout ==
  /\ loop["controlled"] = "sending"
  /\ LoopEnd("controlled")

(* A loop whose peer is gone fails to read or to send. *)
PeerGone(s) ==
  /\ \A r \in Sides \ {s} : loop[r] = "gone"
  /\ LoopEnd(s)

(* The loop's function returns and drops its ends of the queues. *)
DropQueues(s) ==
  /\ loop[s] = "closed"
  /\ loop' = [loop EXCEPT ![s] = "gone"]
  /\ queue' = [queue EXCEPT ![s] = <<>>]
  /\ UNCHANGED <<sending, link, nextId, checked, entry, inbound, taskVars>>

----------------------------------------------------------------------------
TaskStep(e) ==
  \/ SendData(e) \/ CancelOut(e) \/ TakePending(e) \/ TakeInbound(e)
  \/ InboundGone(e) \/ CancelIn(e) \/ Join(e) \/ SendClose(e)
  \/ Remove(e)

SocketStep(e) == ReadSocket(e) \/ ReadEof(e) \/ WriteSocket(e) \/ WriteFail(e)

ConnectStep(i) == ConnectCmd(i) \/ ConnectDropped(i) \/ ConnectOk(i) \/ ConnectFail(i)

LoopStep(s) == SendNext(s) \/ Unblock(s) \/ DropQueues(s) \/ PeerGone(s)

OpenStep == \E permitted \in BOOLEAN : OnOpen(permitted)

Next ==
  \/ OpenCheck \/ OpenInsert \/ OnFrame \/ Handle \/ SendTimeout \/ OpenStep
  \/ \E i \in Ids : SendOpen(i) \/ ConnectStep(i)
  \/ \E e \in Ends : TaskStep(e) \/ SocketStep(e)
  \/ \E s \in Sides : LoopStep(s) \/ LoopEnd(s)

Spec == Init /\ [][Next]_vars

(* Spawned tasks and loops run, a connect completes or times out, and the  *)
(* connection's sends time out.  Nothing is assumed of local sockets       *)
(* (SocketStep), of the user (OpenCheck) or of the controller's sends.     *)
Fairness ==
  /\ WF_vars(OpenInsert) /\ WF_vars(OnFrame) /\ WF_vars(Handle)
  /\ WF_vars(OpenStep) /\ WF_vars(SendTimeout)
  /\ \A i \in Ids : WF_vars(SendOpen(i)) /\ WF_vars(ConnectStep(i))
  /\ \A e \in Ends : WF_vars(TaskStep(e))
  /\ \A s \in Sides : WF_vars(LoopStep(s))

FairSpec == Spec /\ Fairness

----------------------------------------------------------------------------
TypeOK ==
  /\ loop \in [Sides -> {"running", "sending", "closed", "gone"}]
  /\ Len(queue["controller"]) <= DATA_QUEUE_FRAMES
  /\ \A s \in Sides : Len(link[s]) <= LINK_FRAMES
  /\ nextId \in Nat /\ checked \in BOOLEAN
  /\ entry \in [Ends -> BOOLEAN]
  /\ task \in [Ends -> {"none", "opening", "connecting", "run", "close", "remove", "done"}]
  /\ out \in [Ends -> {"none", "idle", "send"} \cup RelayEnd]
  /\ inn \in [Ends -> {"none", "recv", "write"} \cup RelayEnd]
  /\ sent \in [Ends -> 0..(UpChunks + DownChunks)]

(* Every frame of a side that its peer has not read yet, in order. *)
InFlight(s) ==
  link[s] \o (IF loop[s] = "sending" THEN <<sending[s]>> ELSE <<>>) \o queue[s]

(* How a flow has ended for its reader: with the peer's close taken by the *)
(* relay, in the middle of relaying, or before relaying began.             *)
Ending(half, stage) ==
  CASE half = "PeerClosed" -> "complete"
    [] half \in RelayEnd \ {"PeerClosed"} -> "broken"
    [] half = "none" /\ stage \in {"remove", "done"} -> "unread"
    [] OTHER -> "open"

(* A channel is a reliable ordered pipe in both directions: chunks are     *)
(* neither lost, repeated nor reordered on the way to the socket, the ones *)
(* set aside while the target was being connected included; a relay that   *)
(* ends with the peer's close has written everything the peer sent; and a  *)
(* close, or a failure, that comes while the target is still being         *)
(* connected drops what was set aside and leaves the socket untouched.     *)
Channel == INSTANCE Pipe WITH
  Flows     <- Ends,
  accepted  <- sent,
  delivered <- [e \in Ends |-> written[PeerOf(e)]],
  ending    <- [e \in Ends |-> Ending(inn[PeerOf(e)], task[PeerOf(e)])]
ImplementsPipe == Channel!Spec

(* `open` can never arrive after the channel's first data, and nothing of  *)
(* a channel follows its `close`, which is sent at most once.              *)
FrameOrder ==
  \A s \in Sides : LET fs == InFlight(s) IN
    \A j, k \in 1..Len(fs) : j < k /\ fs[j].id = fs[k].id =>
      fs[k].type # "open" /\ fs[j].type # "close"

(* The controller's map holds no id without a task that will take it back, *)
(* also when the channel was opened while the tunnel was closing; and no   *)
(* side ever keeps more than MAX_CHANNELS.                                 *)
EntriesOwned ==
  /\ \A i \in Ids : entry[<<"controller", i>>] =>
       task[<<"controller", i>>] \notin {"none", "done"}
  /\ \A s \in Sides : Cardinality(Live(s)) <= MAX_CHANNELS

(* Teardown reaches every channel of a side, the ones parked on a socket   *)
(* that never moves and the ones opened as the tunnel closes included:     *)
(* their tasks end and the map is empty, from some point on for good.      *)
TeardownReachesAll ==
  <>[]\A s \in Sides, i \in Ids :
    TornDown(s) => task[<<s, i>>] \in {"none", "done"} /\ ~entry[<<s, i>>]

(* The two loops never wait for each other for ever: each stops reading    *)
(* while it sends, so with both directions full neither can proceed until  *)
(* the connection's send times out.  Every send ends in the end.           *)
NoMutualBlock == \A s \in Sides : []<>(loop[s] # "sending")
============================================================================
