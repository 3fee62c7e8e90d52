---------------------------- MODULE FlowControl ----------------------------
(***************************************************************************)
(* Flow control of one direction of one multiplexed port-forward channel   *)
(* (src/src/port_forward_mux.rs, src/src/server/port_forward_mux.rs).      *)
(*                                                                         *)
(* The sending half reads its local socket under the credit its peer has   *)
(* granted (SendCredit, relay_socket_to_tunnel); the receiving end checks  *)
(* every frame against the window it has granted (RecvWindow::accept),     *)
(* queues it, writes it to its own socket and gives the window back in     *)
(* window_update frames (relay_tunnel_to_socket).  In the direction from   *)
(* the controller to the controlled side the window opens in two steps:    *)
(* INITIAL_WINDOW when the channel is opened, the rest with `opened`,      *)
(* which leaves only once the controlled side is connected to its target.  *)
(*                                                                         *)
(* A frame is its length; its bytes do not matter here.  The variables     *)
(* spent, advertised and returned, and the fields at and upto of a frame   *)
(* or grant in flight (where it starts and ends in the running total), are *)
(* history: no guard reads them, except spent for the bound MaxSpent.      *)
(***************************************************************************)
EXTENDS Integers, Sequences

CONSTANTS
  INITIAL_WINDOW,    \* credit of the controller before `opened`
  MIN_FRAME_CHARGE,  \* least window a data frame costs
  MAX_FRAME,         \* most bytes in one data frame
  CHANNEL_WINDOW,    \* window the receiving end grants in the end
  MAX_SEND_CREDIT,   \* cap the sending end puts on its own credit
  TwoStep,           \* TRUE: controller -> controlled (window grows at `opened`)
  MaxSpent           \* bound on the window charged in total

ASSUME WindowAssumption ==
  /\ INITIAL_WINDOW \in Nat /\ MIN_FRAME_CHARGE \in Nat \ {0}
  /\ MAX_FRAME \in Nat /\ CHANNEL_WINDOW \in Nat /\ MAX_SEND_CREDIT \in Nat
  /\ MIN_FRAME_CHARGE <= MAX_FRAME
  /\ INITIAL_WINDOW <= CHANNEL_WINDOW
  /\ INITIAL_WINDOW <= MAX_SEND_CREDIT
  /\ TwoStep \in BOOLEAN
  /\ MaxSpent \in Nat

VARIABLES
  credit,      \* SendCredit.credit
  permit,      \* the permit notify_one stores in SendCredit.notify
  sender,      \* where relay_socket_to_tunnel stands
  allow,       \* credit taken for the read in progress
  frame,       \* length of the frame being handed to the sink
  cancelled,   \* the cancel signal of the channel
  data,        \* data frames between the two ends, in order
  live,        \* the receiving end still has the channel in its map
  remaining,   \* RecvWindow.remaining
  drained,     \* RecvWindow.drained_since_update
  inbound,     \* Inbound::Data queued for the receiving task
  pending,     \* chunks set aside while the target is being connected
  pendingLen,  \* their charge, as run_controlled_channel counts it
  receiver,    \* where the receiving task stands
  chunk,       \* length of the chunk being written to the local socket
  grants,      \* `opened` and window_update frames on their way back
  opened,      \* ChannelEntry.opened: `opened` has raised the credit
  spent,       \* history: window charged by the sender so far
  advertised,  \* history: window granted by the receiver so far
  returned     \* history: window_update credit the sender has received

sendVars == <<credit, permit, sender, allow, frame, cancelled, opened, spent, returned>>
recvVars == <<live, remaining, drained, inbound, pending, pendingLen,
              receiver, chunk, advertised>>
vars == <<credit, permit, sender, allow, frame, cancelled, data, live,
          remaining, drained, inbound, pending, pendingLen, receiver, chunk,
          grants, opened, spent, advertised, returned>>

Lower(a, b) == IF a <= b THEN a ELSE b
Upper(a, b) == IF a >= b THEN a ELSE b

UPDATE_THRESHOLD == CHANNEL_WINDOW \div 2

(* What a data frame of this length costs its channel's window. *)
charge(len) == Upper(len, MIN_FRAME_CHARGE)

effective_window(w) == Upper(w, INITIAL_WINDOW)

(* Credit the sending end starts with, before its own cap, and window the  *)
(* receiving end starts with: INITIAL_WINDOW for the controller, the       *)
(* advertised window for the controlled side.                              *)
StartWindow == IF TwoStep THEN INITIAL_WINDOW
                          ELSE effective_window(CHANNEL_WINDOW)

(* pending_fits: before `opened` the controller may only have used         *)
(* INITIAL_WINDOW.                                                         *)
pending_fits(charged, len) == charged + charge(len) <= INITIAL_WINDOW

Init ==
  /\ credit = Lower(StartWindow, MAX_SEND_CREDIT)
  /\ permit = FALSE /\ sender = "take" /\ allow = 0 /\ frame = 0
  /\ cancelled = FALSE /\ data = <<>> /\ live = TRUE
  /\ remaining = StartWindow /\ drained = 0
  /\ inbound = <<>> /\ pending = <<>> /\ pendingLen = 0
  /\ receiver = IF TwoStep THEN "connecting" ELSE "idle"
  /\ chunk = 0 /\ grants = <<>>
  /\ opened = FALSE /\ spent = 0 /\ advertised = StartWindow /\ returned = 0

----------------------------------------------------------------------------
(* The sending half.                                                       *)

(* Mutant of AddCredit: nobody is notified. *)
AddCreditSilently(n) ==
  /\ credit' = Lower(credit + n, MAX_SEND_CREDIT)
  /\ permit' = permit

(* SendCredit::add: capped, then notify_one leaves a permit. *)
AddCredit(n) ==
  /\ credit' = Lower(credit + n, MAX_SEND_CREDIT)
  /\ permit' = TRUE

(* Mutant of Take: a whole frame is taken, however little there is. *)
TakeWholeFrame ==
  /\ sender = "take" /\ credit >= MIN_FRAME_CHARGE
  /\ allow' = MAX_FRAME
  /\ credit' = credit - allow'
  /\ sender' = "read"
  /\ UNCHANGED <<permit, frame, cancelled, opened, spent, returned, data, grants, recvVars>>

(* SendCredit::take with a whole minimum charge available. *)
Take ==
  /\ sender = "take" /\ credit >= MIN_FRAME_CHARGE
  /\ allow' = Lower(credit, MAX_FRAME)
  /\ credit' = credit - allow'
  /\ sender' = "read"
  /\ UNCHANGED <<permit, frame, cancelled, opened, spent, returned, data, grants, recvVars>>

(* Too little: the lock is released and the task goes to wait. *)
Park ==
  /\ sender = "take" /\ credit < MIN_FRAME_CHARGE
  /\ sender' = "parked"
  /\ UNCHANGED <<credit, permit, allow, frame, cancelled, opened, spent,
                 returned, data, grants, recvVars>>

(* notified().await returns once there is a permit, and uses it up. *)
Wake ==
  /\ sender = "parked" /\ permit
  /\ permit' = FALSE /\ sender' = "take"
  /\ UNCHANGED <<credit, allow, frame, cancelled, opened, spent, returned, data,
                 grants, recvVars>>

(* Mutant of Read: the refund ignores the least charge of a frame. *)
ReadChargesLength(n) ==
  /\ sender = "read" /\ spent + charge(n) <= MaxSpent
  /\ IF n < allow THEN AddCredit(allow - n) ELSE UNCHANGED <<credit, permit>>
  /\ spent' = spent + charge(n)
  /\ allow' = 0 /\ frame' = n /\ sender' = "send"
  /\ UNCHANGED <<cancelled, opened, returned, data, grants, recvVars>>

(* Mutant of Read: everything taken is refunded, as at the end of file. *)
ReadRefundsAll(n) ==
  /\ sender = "read" /\ spent + charge(n) <= MaxSpent
  /\ AddCredit(allow)
  /\ spent' = spent + charge(n)
  /\ allow' = 0 /\ frame' = n /\ sender' = "send"
  /\ UNCHANGED <<cancelled, opened, returned, data, grants, recvVars>>

(* The socket yields n bytes: what they do not cost is refunded. *)
Read(n) ==
  /\ sender = "read" /\ spent + charge(n) <= MaxSpent
  /\ IF charge(n) < allow THEN AddCredit(allow - charge(n))
                          ELSE UNCHANGED <<credit, permit>>
  /\ spent' = spent + charge(n)
  /\ allow' = 0 /\ frame' = n /\ sender' = "send"
  /\ UNCHANGED <<cancelled, opened, returned, data, grants, recvVars>>

(* Mutant of ReadEof: the credit taken for the read is not given back. *)
ReadEofKeepsCredit ==
  /\ sender = "read"
  /\ allow' = 0 /\ sender' = "ended"
  /\ UNCHANGED <<credit, permit, frame, cancelled, opened, spent, returned, data, grants, recvVars>>

(* End of file, or a read error: everything taken is refunded. *)
ReadEof ==
  /\ sender = "read"
  /\ AddCredit(allow)
  /\ allow' = 0 /\ sender' = "ended"
  /\ UNCHANGED <<frame, cancelled, opened, spent, returned, data, grants, recvVars>>

(* The frame goes down the ordered queue. *)
SendFrame ==
  /\ sender = "send"
  /\ data' = Append(data, [len |-> frame, at |-> spent - charge(frame),
                           upto |-> spent])
  /\ frame' = 0 /\ sender' = "take"
  /\ UNCHANGED <<credit, permit, allow, cancelled, opened, spent, returned, grants, recvVars>>

(* The other half of the channel, or the tunnel under it, has ended. *)
Cancel ==
  /\ ~cancelled
  /\ cancelled' = TRUE
  /\ UNCHANGED <<credit, permit, sender, allow, frame, opened, spent, returned, data,
                 grants, recvVars>>

(* cancel.changed() wins a select: a read in progress refunds its credit.  *)
(* A frame that is being sent is not interrupted.                          *)
StopSending ==
  /\ cancelled /\ sender \in {"take", "parked", "read"}
  /\ IF sender = "read" THEN AddCredit(allow) ELSE UNCHANGED <<credit, permit>>
  /\ allow' = 0 /\ sender' = "ended"
  /\ UNCHANGED <<frame, cancelled, opened, spent, returned, data, grants, recvVars>>

(* The first successful `opened` raises the credit to the peer's window    *)
(* (raise_initial); a repeated one must not.                               *)
OnOpened ==
  /\ grants # <<>> /\ Head(grants).kind = "opened"
  /\ grants' = Tail(grants)
  /\ opened' = TRUE
  /\ IF ~opened /\ Head(grants).add > 0
       THEN AddCredit(Head(grants).add) ELSE UNCHANGED <<credit, permit>>
  /\ UNCHANGED <<sender, allow, frame, cancelled, spent, returned, data, recvVars>>

OnWindowUpdate ==
  /\ grants # <<>> /\ Head(grants).kind = "window_update"
  /\ grants' = Tail(grants)
  /\ returned' = returned + Head(grants).add
  /\ AddCredit(Head(grants).add)
  /\ UNCHANGED <<sender, allow, frame, cancelled, opened, spent, data, recvVars>>

----------------------------------------------------------------------------
(* The receiving end.                                                      *)

(* on_frame / handle of a data frame: within the window it is charged and  *)
(* queued, over it the channel is dropped from the map.                    *)
OnData ==
  /\ data # <<>> /\ live
  /\ data' = Tail(data)
  /\ LET cost == charge(Head(data).len) IN
       IF cost <= remaining
         THEN /\ remaining' = remaining - cost
              /\ inbound' = Append(inbound, Head(data))
              /\ live' = live
         ELSE /\ live' = FALSE
              /\ UNCHANGED <<remaining, inbound>>
  /\ UNCHANGED <<sendVars, grants, drained, pending, pendingLen, receiver,
                 chunk, advertised>>

(* run_controlled_channel while the target is being connected: the command *)
(* arm is biased, so queued chunks are set aside first.                    *)
BufferPending ==
  /\ receiver = "connecting" /\ inbound # <<>>
  /\ inbound' = Tail(inbound)
  /\ IF pending_fits(pendingLen, Head(inbound).len)
       THEN /\ pending' = Append(pending, Head(inbound))
            /\ pendingLen' = pendingLen + charge(Head(inbound).len)
            /\ receiver' = receiver
       ELSE /\ receiver' = "closed"
            /\ UNCHANGED <<pending, pendingLen>>
  /\ UNCHANGED <<sendVars, data, grants, live, remaining, drained, chunk, advertised>>

(* Connected: the rest of the window is granted before `opened` leaves. *)
Connected ==
  /\ receiver = "connecting" /\ inbound = <<>>
  /\ LET extra == CHANNEL_WINDOW - INITIAL_WINDOW IN
       /\ remaining' = remaining + extra
       /\ advertised' = advertised + extra
       /\ grants' = Append(grants,
            [kind |-> "opened", add |-> effective_window(CHANNEL_WINDOW) - INITIAL_WINDOW,
             at |-> advertised, upto |-> advertised'])
  /\ receiver' = "idle"
  /\ UNCHANGED <<sendVars, data, live, drained, inbound, pending, pendingLen, chunk>>

(* relay_tunnel_to_socket picks the next chunk: the ones set aside first. *)
NextChunk ==
  /\ receiver = "idle" /\ (pending # <<>> \/ inbound # <<>>)
  /\ IF pending # <<>>
       THEN /\ chunk' = Head(pending).len /\ pending' = Tail(pending)
            /\ inbound' = inbound
       ELSE /\ chunk' = Head(inbound).len /\ inbound' = Tail(inbound)
            /\ pending' = pending
  /\ receiver' = "writing"
  /\ UNCHANGED <<sendVars, data, grants, live, remaining, drained, pendingLen, advertised>>

(* Mutant of Written: what has been advertised is not reset. *)
WrittenKeepsDrained ==
  /\ receiver = "writing"
  /\ LET add == drained + charge(chunk) IN
       /\ drained' = add
       /\ IF add < UPDATE_THRESHOLD
            THEN UNCHANGED <<remaining, grants, advertised>>
            ELSE /\ remaining' = remaining + add
                 /\ advertised' = advertised + add
                 /\ grants' = Append(grants,
                      [kind |-> "window_update", add |-> add,
                       at |-> advertised, upto |-> advertised'])
  /\ chunk' = 0 /\ receiver' = "idle"
  /\ UNCHANGED <<sendVars, data, live, inbound, pending, pendingLen>>

(* The chunk is written; RecvWindow::drained advertises once enough has    *)
(* been drained, and credits the same amount back to the window.           *)
Written ==
  /\ receiver = "writing"
  /\ LET add == drained + charge(chunk) IN
       IF add < UPDATE_THRESHOLD
         THEN /\ drained' = add
              /\ UNCHANGED <<remaining, grants, advertised>>
         ELSE /\ drained' = 0
              /\ remaining' = remaining + add
              /\ advertised' = advertised + add
              /\ grants' = Append(grants,
                   [kind |-> "window_update", add |-> add,
                    at |-> advertised, upto |-> advertised'])
  /\ chunk' = 0 /\ receiver' = "idle"
  /\ UNCHANGED <<sendVars, data, live, inbound, pending, pendingLen>>

----------------------------------------------------------------------------

Next ==
  \/ Take \/ Park \/ Wake \/ ReadEof \/ SendFrame \/ Cancel \/ StopSending
  \/ \E n \in 1..allow : Read(n)
  \/ OnOpened \/ OnWindowUpdate \/ OnData \/ BufferPending \/ Connected \/ NextChunk \/ Written

Spec == Init /\ [][Next]_vars

(* Tasks and tunnel loops run; what the sockets and the user do (Read,     *)
(* ReadEof, Cancel) is not forced.  Connected is: the connect either       *)
(* completes or times out, and a time-out ends the channel.                *)
Fairness ==
  /\ WF_vars(Take) /\ WF_vars(Park) /\ WF_vars(Wake) /\ WF_vars(SendFrame)
  /\ WF_vars(StopSending)
  /\ WF_vars(OnOpened) /\ WF_vars(OnWindowUpdate) /\ WF_vars(OnData) /\ WF_vars(BufferPending)
  /\ WF_vars(Connected) /\ WF_vars(NextChunk) /\ WF_vars(Written)

FairSpec == Spec /\ Fairness

----------------------------------------------------------------------------
Frames == [len : 1..MAX_FRAME, at : Nat, upto : Nat]
Grants == [kind : {"opened", "window_update"}, add : Nat, at : Nat, upto : Nat]

TypeOK ==
  /\ credit \in 0..MAX_SEND_CREDIT
  /\ permit \in BOOLEAN
  /\ sender \in {"take", "parked", "read", "send", "ended"}
  /\ allow \in 0..MAX_FRAME
  /\ frame \in 0..MAX_FRAME
  /\ cancelled \in BOOLEAN
  /\ data \in Seq(Frames)
  /\ live \in BOOLEAN
  /\ remaining \in Nat /\ drained \in Nat
  /\ inbound \in Seq(Frames)
  /\ pending \in Seq(Frames)
  /\ pendingLen \in Nat
  /\ receiver \in {"connecting", "idle", "writing", "closed"}
  /\ chunk \in 0..MAX_FRAME
  /\ grants \in Seq(Grants)
  /\ opened \in BOOLEAN
  /\ spent \in Nat /\ advertised \in Nat /\ returned \in Nat

(* Window granted to the sender that has reached it. *)
Credited == StartWindow + returned + (IF opened THEN CHANNEL_WINDOW - INITIAL_WINDOW ELSE 0)

(* A sender that keeps to its credit is never dropped for overrunning the  *)
(* window, nor for sending more than INITIAL_WINDOW while the target is    *)
(* being connected: accept() and pending_fits() never fail between two     *)
(* ends of this code, whatever the frame sizes, refunds and grants in      *)
(* flight, and whichever of the two ends has the larger window.            *)
NeverOverrun == live /\ receiver # "closed"

(* Credit the sender has, holds for a read or has spent never exceeds what *)
(* was granted to it: no refund, grant or update creates window.           *)
CreditBacked == credit + allow + spent <= Credited /\ Credited <= advertised

(* The receiver never holds more than its window of undrained data, and    *)
(* never believes the peer to have more credit than the window: what is    *)
(* credited back in drained() was really accepted before.                  *)
WindowBounded == remaining + drained <= effective_window(CHANNEL_WINDOW)

(* When both ends are the same build no credit is ever lost: the cap in    *)
(* add() discards nothing and a refund returns exactly what was taken.     *)
NoCreditLost ==
  CHANNEL_WINDOW <= MAX_SEND_CREDIT => credit + allow + spent = Credited

(* "Never keep more than our own advertised window in flight, whatever the *)
(* peer offers" (src/src/port_forward_mux.rs:33): what was taken or sent   *)
(* and not returned by window_update stays within the cap for every window *)
(* of the peer.  It is exact for the controlled side, whose sink has no    *)
(* other bound; the controller starts before it knows the peer's window    *)
(* and may have spent INITIAL_WINDOW when `opened` fills its credit up.    *)
InFlightCapped ==
  allow + spent - returned <= MAX_SEND_CREDIT + (IF TwoStep THEN INITIAL_WINDOW ELSE 0)

(* A parked sender resumes (or the channel ends): no wake-up is lost       *)
(* between the check under the lock and the wait, and no window is left    *)
(* stranded below the update threshold.                                    *)
NeverStuck == sender = "parked" ~> sender # "parked"
============================================================================
