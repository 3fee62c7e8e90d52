------------------------- MODULE FlowControlProofs -------------------------
(***************************************************************************)
(* The window accounting of FlowControl holds for every window, frame size *)
(* and charge: type correctness, NeverOverrun, CreditBacked, WindowBounded *)
(* and NoCreditLost, from one inductive invariant; InFlightCapped, for     *)
(* every window the peer offers, from a second one.                        *)
(*                                                                         *)
(* The window charged so far is a line that starts at 0.  Every frame and  *)
(* every grant in flight covers a stretch of it, from at to upto, and the  *)
(* stretches in a queue follow each other without a gap (Chain).  That     *)
(* replaces the sums over queues an accounting argument usually needs.     *)
(***************************************************************************)
EXTENDS FlowControl, TLAPS

(* The stretches in s lead from one point to another without a gap. *)
Chain(s, from, to) ==
  /\ from \in Nat /\ to \in Nat /\ from <= to
  /\ s = <<>> => from = to
  /\ s # <<>> => s[1].at = from /\ s[Len(s)].upto = to
  /\ \A i \in 1..Len(s) :
       s[i].at \in Nat /\ s[i].upto \in Nat /\ s[i].at <= s[i].upto /\ s[i].upto <= to
  /\ \A i \in 1..(Len(s) - 1) : s[i].upto = s[i + 1].at

(* Window charged by frames that were handed to the queue, accepted by the *)
(* receiver, and written out by it.                                        *)
Queued == IF sender = "send" THEN spent - charge(frame) ELSE spent
Accepted == advertised - remaining
FinalWindow == IF receiver = "connecting" THEN StartWindow ELSE CHANNEL_WINDOW
WrittenOut == advertised - FinalWindow + drained
Fetched == IF receiver = "writing" THEN WrittenOut + charge(chunk) ELSE WrittenOut
InboundFrom == IF inbound = <<>> THEN Accepted ELSE inbound[1].at

Costs(s) == \A i \in 1..Len(s) : s[i].upto = s[i].at + charge(s[i].len)
Adds(s) == \A i \in 1..Len(s) : s[i].upto = s[i].at + s[i].add

SenderInv ==
  /\ sender = "read" => MIN_FRAME_CHARGE <= allow
  /\ sender # "read" => allow = 0
  /\ sender = "send" => frame \in 1..MAX_FRAME /\ charge(frame) <= spent

(* `opened` is sent once, by the step that ends "connecting", and raises   *)
(* the credit once.                                                        *)
OpenedInv ==
  /\ receiver = "connecting" => TwoStep /\ grants = <<>> /\ ~opened /\ drained = 0
                                        /\ advertised = StartWindow
  /\ \A i \in 1..Len(grants) :
       grants[i].kind = "opened" =>
         i = 1 /\ TwoStep /\ ~opened /\ grants[i].add = CHANNEL_WINDOW - INITIAL_WINDOW
  /\ opened => TwoStep

DataInv ==
  /\ Chain(data, Accepted, Queued) /\ Costs(data)
  /\ Chain(inbound, InboundFrom, Accepted) /\ Costs(inbound)
  /\ Chain(pending, Fetched, InboundFrom) /\ Costs(pending)
  /\ receiver = "connecting" => pendingLen = InboundFrom /\ pendingLen \in Nat

IInv ==
  /\ TypeOK /\ SenderInv /\ OpenedInv /\ NeverOverrun
  /\ credit + allow + spent <= Credited
  /\ CHANNEL_WINDOW <= MAX_SEND_CREDIT => credit + allow + spent = Credited
  /\ Chain(grants, Credited, advertised) /\ Adds(grants)
  /\ DataInv

----------------------------------------------------------------------------
(* A stretch added at the end, or taken from the front, leaves a chain. *)
LEMMA ChainAppend ==
  ASSUME NEW S, NEW s \in Seq(S), NEW e \in S, NEW from, NEW to,
         Chain(s, from, to), e.at = to, e.upto \in Nat, to <= e.upto
  PROVE  Chain(Append(s, e), from, e.upto)
<1> DEFINE t == Append(s, e)
<1>1. t \in Seq(S) /\ Len(t) = Len(s) + 1 /\ Len(s) \in Nat
  OBVIOUS
<1>2. \A i \in 1..Len(s) : t[i] = s[i]
  OBVIOUS
<1>3. t[Len(s) + 1] = e
  OBVIOUS
<1>4. t # <<>>
  BY <1>1
<1>5. t[1].at = from
  <2>1. CASE s = <<>>
    BY <2>1, <1>3 DEF Chain
  <2>2. CASE s # <<>>
    <3>1. Len(s) >= 1
      BY <2>2, <1>1
    <3> QED BY <2>2, <3>1, <1>1, <1>2 DEF Chain
  <2> QED BY <2>1, <2>2
<1>6. \A i \in 1..Len(t) : /\ t[i].at \in Nat /\ t[i].upto \in Nat
                           /\ t[i].at <= t[i].upto /\ t[i].upto <= e.upto
  <2> SUFFICES ASSUME NEW i \in 1..Len(t)
               PROVE  /\ t[i].at \in Nat /\ t[i].upto \in Nat
                      /\ t[i].at <= t[i].upto /\ t[i].upto <= e.upto
    OBVIOUS
  <2>1. CASE i = Len(s) + 1
    BY <2>1, <1>3 DEF Chain
  <2>2. CASE i \in 1..Len(s)
    <3>1. /\ s[i].at \in Nat /\ s[i].upto \in Nat
          /\ s[i].at <= s[i].upto /\ s[i].upto <= to
      BY <2>2 DEF Chain
    <3> QED BY <3>1, <2>2, <1>2 DEF Chain
  <2> QED BY <2>1, <2>2, <1>1
<1>7. \A i \in 1..(Len(t) - 1) : t[i].upto = t[i + 1].at
  <2> SUFFICES ASSUME NEW i \in 1..(Len(t) - 1)
               PROVE  t[i].upto = t[i + 1].at
    OBVIOUS
  <2>1. CASE i = Len(s)
    <3>1. s # <<>> /\ s[Len(s)].upto = to
      BY <2>1, <1>1 DEF Chain
    <3> QED BY <2>1, <3>1, <1>1, <1>2, <1>3
  <2>2. CASE i \in 1..(Len(s) - 1)
    <3>1. s[i].upto = s[i + 1].at
      BY <2>2 DEF Chain
    <3> QED BY <3>1, <2>2, <1>1, <1>2
  <2> QED BY <2>1, <2>2, <1>1
<1>8. t[Len(t)].upto = e.upto
  BY <1>1, <1>3
<1>9. from \in Nat /\ from <= e.upto
  BY DEF Chain
<1> HIDE DEF t
<1>10. Chain(t, from, e.upto)
  BY <1>4, <1>5, <1>6, <1>7, <1>8, <1>9 DEF Chain
<1> QED BY <1>10 DEF t

LEMMA ChainTail ==
  ASSUME NEW S, NEW s \in Seq(S), NEW from, NEW to,
         Chain(s, from, to), s # <<>>
  PROVE  /\ Chain(Tail(s), s[1].upto, to)
         /\ Head(s) = s[1] /\ s[1].at = from
         /\ s[1].upto \in Nat /\ from <= s[1].upto /\ s[1].upto <= to
<1> DEFINE t == Tail(s)
<1>1. t \in Seq(S) /\ Len(s) \in Nat /\ Len(s) >= 1 /\ Len(t) = Len(s) - 1
  OBVIOUS
<1>2. \A i \in 1..Len(t) : t[i] = s[i + 1]
  OBVIOUS
<1>3. Head(s) = s[1] /\ s[1].at = from /\ s[1].upto \in Nat /\ from <= s[1].upto /\ s[1].upto <= to
  BY <1>1 DEF Chain
<1>4. t = <<>> => s[1].upto = to
  <2> SUFFICES ASSUME t = <<>> PROVE s[1].upto = to
    OBVIOUS
  <2>1. Len(t) = 0
    <3>1. Len(<<>>) = 0
      OBVIOUS
    <3> HIDE DEF t
    <3> QED BY <3>1
  <2>2. Len(s) = 1
    BY <2>1, <1>1
  <2>3. s[Len(s)].upto = to
    BY DEF Chain
  <2> QED BY <2>2, <2>3
<1>5. t # <<>> => t[1].at = s[1].upto /\ t[Len(t)].upto = to
  <2> SUFFICES ASSUME t # <<>> PROVE t[1].at = s[1].upto /\ t[Len(t)].upto = to
    OBVIOUS
  <2>1. Len(t) >= 1
    BY <1>1
  <2>2. t[1] = s[2] /\ t[Len(t)] = s[Len(s)]
    BY <2>1, <1>1, <1>2
  <2>3. s[1].upto = s[2].at /\ s[Len(s)].upto = to
    BY <2>1, <1>1 DEF Chain
  <2> QED BY <2>2, <2>3
<1>6. \A i \in 1..Len(t) : /\ t[i].at \in Nat /\ t[i].upto \in Nat
                           /\ t[i].at <= t[i].upto /\ t[i].upto <= to
  BY <1>1, <1>2 DEF Chain
<1>7. \A i \in 1..(Len(t) - 1) : t[i].upto = t[i + 1].at
  <2> SUFFICES ASSUME NEW i \in 1..(Len(t) - 1) PROVE t[i].upto = t[i + 1].at
    OBVIOUS
  <2>1. t[i] = s[i + 1] /\ t[i + 1] = s[i + 1 + 1]
    BY <1>1, <1>2
  <2>2. s[i + 1].upto = s[i + 1 + 1].at
    BY <1>1 DEF Chain
  <2> QED BY <2>1, <2>2
<1>8. to \in Nat
  BY DEF Chain
<1> HIDE DEF t
<1>9. Chain(t, s[1].upto, to)
  BY <1>3, <1>4, <1>5, <1>6, <1>7, <1>8 DEF Chain
<1> QED BY <1>3, <1>9 DEF t

(* Costs and Adds are per element, so they survive both as well. *)
LEMMA CostsKept ==
  ASSUME NEW S, NEW s \in Seq(S), Costs(s)
  PROVE  /\ s # <<>> => Costs(Tail(s)) /\ s[1].upto = s[1].at + charge(s[1].len)
         /\ \A e \in S : e.upto = e.at + charge(e.len) => Costs(Append(s, e))
BY DEF Costs

LEMMA AddsKept ==
  ASSUME NEW S, NEW s \in Seq(S), Adds(s)
  PROVE  /\ s # <<>> => Adds(Tail(s)) /\ s[1].upto = s[1].at + s[1].add
         /\ \A e \in S : e.upto = e.at + e.add => Adds(Append(s, e))
BY DEF Adds

----------------------------------------------------------------------------
LEMMA ConstantFacts ==
  /\ StartWindow \in Nat /\ INITIAL_WINDOW <= StartWindow /\ StartWindow <= CHANNEL_WINDOW
  /\ StartWindow = IF TwoStep THEN INITIAL_WINDOW ELSE CHANNEL_WINDOW
  /\ effective_window(CHANNEL_WINDOW) = CHANNEL_WINDOW
  /\ UPDATE_THRESHOLD \in Nat
  /\ \A n \in Nat : charge(n) \in Nat /\ MIN_FRAME_CHARGE <= charge(n) /\ n <= charge(n)
  /\ \A n, m \in Nat : n <= m /\ MIN_FRAME_CHARGE <= m => charge(n) <= m
BY WindowAssumption DEF StartWindow, effective_window, Upper, UPDATE_THRESHOLD, charge

(* The empty queue is a chain that leads nowhere. *)
LEMMA ChainEmpty ==
  ASSUME NEW n \in Nat PROVE Chain(<<>>, n, n) /\ Costs(<<>>) /\ Adds(<<>>)
BY DEF Chain, Costs, Adds

(* Every queue is a queue of its kind in the initial state. *)
LEMMA InitInv == Init => IInv
<1> SUFFICES ASSUME Init PROVE IInv
  OBVIOUS
<1> USE ConstantFacts, WindowAssumption DEF Init
<1>1. TypeOK
  <2>1. credit \in 0..MAX_SEND_CREDIT
    BY DEF Lower
  <2>2. receiver \in {"connecting", "idle", "writing", "closed"}
    BY DEF Init
  <2>3. permit \in BOOLEAN /\ cancelled \in BOOLEAN /\ live \in BOOLEAN /\ opened \in BOOLEAN
    BY DEF Init
  <2> QED BY <2>1, <2>2, <2>3 DEF TypeOK
<1>2. SenderInv /\ OpenedInv /\ NeverOverrun
  BY DEF SenderInv, OpenedInv, NeverOverrun
<1>3. Credited = StartWindow /\ advertised = StartWindow
  BY DEF Credited
<1>4. credit + allow + spent <= Credited
  BY <1>3 DEF Lower
<1>5. CHANNEL_WINDOW <= MAX_SEND_CREDIT => credit + allow + spent = Credited
  BY <1>3 DEF Lower
<1>6. Chain(grants, Credited, advertised) /\ Adds(grants)
  BY <1>3, ChainEmpty
<1>7. Accepted = 0 /\ Queued = 0 /\ InboundFrom = 0 /\ Fetched = 0
  BY DEF Accepted, Queued, InboundFrom, Fetched, WrittenOut, FinalWindow
<1>8. DataInv
  BY <1>7, ChainEmpty DEF DataInv
<1> QED BY <1>1, <1>2, <1>4, <1>5, <1>6, <1>8 DEF IInv

(* What a state that satisfies the invariant looks like in numbers. *)
LEMMA Numbers ==
  ASSUME IInv
  PROVE  /\ Credited \in Nat /\ Accepted \in Nat /\ Queued \in Nat
         /\ Fetched \in Nat /\ InboundFrom \in Nat
         /\ Fetched <= InboundFrom /\ InboundFrom <= Accepted /\ Accepted <= Queued
         /\ Queued <= spent /\ Credited <= advertised
         /\ WrittenOut <= Fetched
         /\ credit + allow <= remaining
         /\ remaining + drained <= CHANNEL_WINDOW
         /\ CHANNEL_WINDOW <= MAX_SEND_CREDIT => credit + allow <= MAX_SEND_CREDIT
<1>0. /\ TypeOK /\ SenderInv /\ DataInv
      /\ Chain(grants, Credited, advertised) /\ credit + allow + spent <= Credited
  BY DEF IInv
<1>1. /\ Credited \in Nat /\ Credited <= advertised
      /\ Accepted \in Nat /\ Queued \in Nat /\ Accepted <= Queued
      /\ InboundFrom \in Nat /\ InboundFrom <= Accepted
      /\ Fetched \in Nat /\ Fetched <= InboundFrom
  BY <1>0 DEF DataInv, Chain
<1>2. Queued <= spent
  <2>1. frame \in Nat /\ spent \in Nat
    BY <1>0, WindowAssumption DEF TypeOK
  <2>2. charge(frame) \in Nat
    BY <2>1, ConstantFacts
  <2> QED BY <2>1, <2>2 DEF Queued
<1>3. FinalWindow \in Nat /\ FinalWindow <= CHANNEL_WINDOW
  BY ConstantFacts, WindowAssumption DEF FinalWindow
<1>4. WrittenOut <= Fetched /\ WrittenOut \in Int
  <2>1. chunk \in Nat /\ advertised \in Nat /\ drained \in Nat
    BY <1>0, WindowAssumption DEF TypeOK
  <2>2. charge(chunk) \in Nat
    BY <2>1, ConstantFacts
  <2>3. WrittenOut \in Int
    BY <2>1, <1>3 DEF WrittenOut
  <2> QED BY <2>2, <2>3 DEF Fetched
<1>5. remaining + drained <= FinalWindow
  BY <1>0, <1>1, <1>3, <1>4 DEF Accepted, WrittenOut, TypeOK
<1>6. credit + allow <= remaining
  BY <1>0, <1>1, <1>2, WindowAssumption DEF Accepted, TypeOK
<1>7. remaining + drained <= CHANNEL_WINDOW
  BY <1>0, <1>3, <1>5, WindowAssumption DEF TypeOK
<1>8. CHANNEL_WINDOW <= MAX_SEND_CREDIT => credit + allow <= MAX_SEND_CREDIT
  BY <1>0, <1>6, <1>7, WindowAssumption DEF TypeOK
<1> QED BY <1>1, <1>2, <1>4, <1>6, <1>7, <1>8

(* A refund leaves the account balanced: of what was taken for a read, n   *)
(* is given back and the rest becomes spent.                               *)
LEMMA Refund ==
  ASSUME IInv, NEW n \in Nat, n <= allow
  PROVE  LET c == Lower(credit + n, MAX_SEND_CREDIT) IN
         /\ c \in 0..MAX_SEND_CREDIT
         /\ c <= credit + n
         /\ CHANNEL_WINDOW <= MAX_SEND_CREDIT => c = credit + n
BY Numbers, WindowAssumption DEF IInv, TypeOK, Lower

(* Steps of the sender that leave what it has charged and queued alone     *)
(* leave the receiver's books alone.                                       *)
LEMMA DataUntouched ==
  ASSUME DataInv, Queued' = Queued,
         UNCHANGED <<data, inbound, pending, pendingLen, receiver, chunk,
                     remaining, drained, advertised>>
  PROVE  DataInv'
BY DEF DataInv, Accepted, InboundFrom, Fetched, WrittenOut, FinalWindow

----------------------------------------------------------------------------
LEMMA Balance ==
  ASSUME NEW c \in Nat, NEW a \in Nat, NEW s \in Nat, NEW t \in Nat,
         NEW c1 \in Nat, NEW a1 \in Nat, c1 + a1 <= c + a, c + a + s <= t
  PROVE  c1 + a1 + s <= t
OBVIOUS

LEMMA Regroup ==
  ASSUME NEW a \in Nat, NEW b \in Nat, NEW c \in Nat, NEW n \in Nat
  PROVE  (a + n) + b + c = (a + b + c) + n /\ a + (b + n) + c = (a + b + c) + n
OBVIOUS

(* The steps of the sender that neither charge nor queue a frame. *)
LEMMA SenderSteps ==
  ASSUME IInv, Take \/ Park \/ Wake \/ ReadEof \/ Cancel \/ StopSending
  PROVE  IInv'
<1>0. TypeOK /\ SenderInv /\ OpenedInv /\ NeverOverrun
  BY DEF IInv
<1> USE WindowAssumption
<1>1. /\ UNCHANGED <<data, grants, opened, spent, returned, recvVars>>
      /\ frame' = frame /\ sender # "send" /\ sender' # "send"
      \/ Cancel
  BY DEF Take, Park, Wake, ReadEof, Cancel, StopSending
<1>2. UNCHANGED <<data, grants, opened, spent, returned, frame, recvVars>>
  BY <1>1 DEF Cancel
<1>3. Queued' = Queued
  BY <1>1, <1>2 DEF Queued, Cancel
<1>4. DataInv'
  BY <1>2, <1>3, DataUntouched DEF recvVars, IInv
<1>5. Chain(grants, Credited, advertised)' /\ Adds(grants)'
  BY <1>2 DEF IInv, Credited, recvVars
<1>6. OpenedInv' /\ NeverOverrun'
  BY <1>0, <1>2 DEF OpenedInv, NeverOverrun, recvVars
<1>7. /\ credit' \in 0..MAX_SEND_CREDIT /\ allow' \in 0..MAX_FRAME
      /\ credit' + allow' <= credit + allow
      /\ CHANNEL_WINDOW <= MAX_SEND_CREDIT => credit' + allow' = credit + allow
      /\ sender' = "read" => MIN_FRAME_CHARGE <= allow'
      /\ sender' # "read" => allow' = 0
      /\ sender' \in {"take", "parked", "read", "send", "ended"}
      /\ sender' = "send" => sender = "send"
  <2>1. CASE Take
    BY <2>1, <1>0 DEF Take, TypeOK, Lower, SenderInv
  <2>2. CASE Park \/ Wake \/ Cancel
    BY <2>2, <1>0 DEF Park, Wake, Cancel, TypeOK, SenderInv
  <2>3. CASE ReadEof
    <3>1. credit' = Lower(credit + allow, MAX_SEND_CREDIT) /\ allow' = 0 /\ sender' = "ended"
      BY <2>3 DEF ReadEof, AddCredit
    <3>2. allow \in Nat /\ allow <= allow /\ credit \in Nat
      BY <1>0 DEF TypeOK
    <3> QED BY <3>1, <3>2, Refund
  <2>4. CASE StopSending
    <3>1. CASE sender = "read"
      <4>1. credit' = Lower(credit + allow, MAX_SEND_CREDIT) /\ allow' = 0 /\ sender' = "ended"
        BY <2>4, <3>1 DEF StopSending, AddCredit
      <4>2. allow \in Nat /\ allow <= allow /\ credit \in Nat
        BY <1>0 DEF TypeOK
      <4> QED BY <4>1, <4>2, Refund
    <3>2. CASE sender # "read"
      BY <2>4, <3>2, <1>0 DEF StopSending, TypeOK, SenderInv
    <3> QED BY <3>1, <3>2
  <2> QED BY <2>1, <2>2, <2>3, <2>4
<1>8. permit' \in BOOLEAN /\ cancelled' \in BOOLEAN
  BY <1>0 DEF Take, Park, Wake, ReadEof, Cancel, StopSending, AddCredit, TypeOK
<1>9. TypeOK'
  BY <1>0, <1>2, <1>7, <1>8 DEF TypeOK, recvVars
<1>10. SenderInv'
  BY <1>0, <1>2, <1>7 DEF SenderInv
<1>11. /\ (credit + allow + spent <= Credited)'
       /\ (CHANNEL_WINDOW <= MAX_SEND_CREDIT => credit + allow + spent = Credited)'
  <2>1. Credited' = Credited /\ spent' = spent
    BY <1>2 DEF Credited
  <2>2. /\ credit + allow + spent <= Credited
        /\ CHANNEL_WINDOW <= MAX_SEND_CREDIT => credit + allow + spent = Credited
    BY DEF IInv
  <2>3. credit \in Nat /\ allow \in Nat /\ spent \in Nat /\ Credited \in Nat
    BY <1>0, Numbers DEF TypeOK
  <2>4. credit' \in Nat /\ allow' \in Nat
    BY <1>7
  <2>5. credit' + allow' <= credit + allow
    BY <1>7
  <2>6. CHANNEL_WINDOW <= MAX_SEND_CREDIT => credit' + allow' + spent = credit + allow + spent
    BY <1>7
  <2>7. credit' + allow' + spent <= Credited
    BY <2>2, <2>3, <2>4, <2>5, Balance
  <2> QED BY <2>1, <2>2, <2>6, <2>7
<1> QED BY <1>4, <1>5, <1>6, <1>9, <1>10, <1>11 DEF IInv

(* A read charges its frame, within what was taken for it. *)
LEMMA ReadStep ==
  ASSUME IInv, NEW n \in 1..allow, Read(n)
  PROVE  IInv'
<1>0. TypeOK /\ SenderInv /\ OpenedInv /\ NeverOverrun
  BY DEF IInv
<1> USE WindowAssumption
<1>1. UNCHANGED <<cancelled, opened, returned, data, grants, recvVars>> /\ sender = "read"
      /\ sender' = "send" /\ frame' = n /\ allow' = 0 /\ spent' = spent + charge(n)
  BY DEF Read
<1>2. n \in Nat /\ n \in 1..MAX_FRAME /\ allow \in Nat
  BY <1>0 DEF TypeOK
<1>3. charge(n) \in Nat /\ charge(n) <= allow
  BY <1>0, <1>1, <1>2, ConstantFacts DEF SenderInv
<1>4. Queued' = Queued
  BY <1>0, <1>1, <1>3 DEF Queued, TypeOK
<1>5. DataInv'
  BY <1>1, <1>4, DataUntouched DEF recvVars, IInv
<1>6. Chain(grants, Credited, advertised)' /\ Adds(grants)'
  BY <1>1 DEF IInv, Credited, recvVars
<1>7. OpenedInv' /\ NeverOverrun'
  BY <1>0, <1>1 DEF OpenedInv, NeverOverrun, recvVars
<1>8. /\ credit' \in 0..MAX_SEND_CREDIT /\ permit' \in BOOLEAN
      /\ credit' <= credit + (allow - charge(n))
      /\ CHANNEL_WINDOW <= MAX_SEND_CREDIT => credit' = credit + (allow - charge(n))
  <2>1. CASE charge(n) < allow
    <3>1. allow - charge(n) \in Nat /\ allow - charge(n) <= allow
      BY <1>2, <1>3
    <3> QED BY <2>1, <3>1, Refund DEF Read, AddCredit
  <2>2. CASE charge(n) = allow
    BY <2>2, <1>0, <1>2 DEF Read, TypeOK
  <2> QED BY <2>1, <2>2, <1>2, <1>3
<1>9. TypeOK'
  BY <1>0, <1>1, <1>2, <1>3, <1>8 DEF TypeOK, recvVars
<1>10. SenderInv'
  BY <1>0, <1>1, <1>2, <1>3 DEF SenderInv, TypeOK
<1>11. /\ (credit + allow + spent <= Credited)'
       /\ (CHANNEL_WINDOW <= MAX_SEND_CREDIT => credit + allow + spent = Credited)'
  <2>1. Credited' = Credited
    BY <1>1 DEF Credited
  <2>2. /\ credit + allow + spent <= Credited
        /\ CHANNEL_WINDOW <= MAX_SEND_CREDIT => credit + allow + spent = Credited
    BY DEF IInv
  <2>3. credit \in Nat /\ allow \in Nat /\ spent \in Nat /\ Credited \in Nat
    BY <1>0, Numbers DEF TypeOK
  <2>4. credit' \in Nat
    BY <1>8
  <2> QED BY <2>1, <2>2, <2>3, <2>4, <1>1, <1>3, <1>8
<1> QED BY <1>5, <1>6, <1>7, <1>9, <1>10, <1>11 DEF IInv

(* The frame charged before joins the end of the data queue. *)
LEMMA SendFrameStep ==
  ASSUME IInv, SendFrame
  PROVE  IInv'
<1>0. TypeOK /\ SenderInv /\ OpenedInv /\ NeverOverrun /\ DataInv
  BY DEF IInv
<1> USE WindowAssumption
<1> DEFINE e == [len |-> frame, at |-> spent - charge(frame), upto |-> spent]
<1>1. /\ UNCHANGED <<credit, permit, allow, cancelled, opened, spent, returned, grants, recvVars>>
      /\ sender = "send" /\ sender' = "take" /\ frame' = 0 /\ data' = Append(data, e)
  BY DEF SendFrame
<1>2. frame \in Nat /\ frame \in 1..MAX_FRAME /\ charge(frame) <= spent /\ spent \in Nat
  BY <1>0, <1>1 DEF SenderInv, TypeOK
<1>3. charge(frame) \in Nat
  BY <1>2, ConstantFacts
<1>4. spent - charge(frame) \in Nat
  BY <1>2, <1>3
<1>5. e \in Frames /\ e.at = Queued /\ e.upto = spent /\ e.at <= e.upto
      /\ e.upto = e.at + charge(e.len) /\ e.upto \in Nat
  BY <1>1, <1>2, <1>3, <1>4 DEF Frames, Queued
<1>6. data \in Seq(Frames) /\ Chain(data, Accepted, Queued) /\ Costs(data)
  BY <1>0 DEF TypeOK, DataInv
<1> HIDE DEF e
<1>7. Chain(data', Accepted, spent) /\ Costs(data')
  BY <1>1, <1>5, <1>6, ChainAppend, CostsKept
<1>8. Queued' = spent /\ Accepted' = Accepted /\ InboundFrom' = InboundFrom
      /\ Fetched' = Fetched
  BY <1>1 DEF Queued, Accepted, InboundFrom, Fetched, WrittenOut, FinalWindow, recvVars
<1>9. DataInv'
  BY <1>0, <1>1, <1>7, <1>8 DEF DataInv, recvVars
<1>10. data' \in Seq(Frames)
  BY <1>1, <1>5, <1>6
<1>11. TypeOK'
  BY <1>0, <1>1, <1>10 DEF TypeOK, recvVars
<1>12. SenderInv' /\ OpenedInv' /\ NeverOverrun'
  BY <1>0, <1>1 DEF SenderInv, OpenedInv, NeverOverrun, recvVars
<1>13. Credited' = Credited /\ advertised' = advertised
  BY <1>1 DEF Credited, recvVars
<1> QED BY <1>1, <1>9, <1>11, <1>12, <1>13 DEF IInv

----------------------------------------------------------------------------
(* The first grant in flight starts where the sender's credit ends, and    *)
(* fits under the cap when the receiver's window does.                     *)
LEMMA FirstGrant ==
  ASSUME IInv, grants # <<>>
  PROVE  LET g == grants[1]
             c == Lower(credit + g.add, MAX_SEND_CREDIT) IN
         /\ Head(grants) = g /\ g \in Grants
         /\ g.upto = Credited + g.add
         /\ Chain(Tail(grants), Credited + g.add, advertised) /\ Adds(Tail(grants))
         /\ Tail(grants) \in Seq(Grants) /\ Len(Tail(grants)) = Len(grants) - 1
         /\ \A i \in 1..Len(Tail(grants)) : Tail(grants)[i] = grants[i + 1]
         /\ c \in 0..MAX_SEND_CREDIT
         /\ c + allow + spent <= Credited + g.add
         /\ CHANNEL_WINDOW <= MAX_SEND_CREDIT => c + allow + spent = Credited + g.add
<1> DEFINE g == grants[1]
<1>1. /\ grants \in Seq(Grants) /\ Chain(grants, Credited, advertised) /\ Adds(grants)
      /\ TypeOK /\ credit + allow + spent <= Credited
      /\ CHANNEL_WINDOW <= MAX_SEND_CREDIT => credit + allow + spent = Credited
  BY DEF IInv, TypeOK
<1>2. /\ Head(grants) = g /\ g \in Grants /\ Tail(grants) \in Seq(Grants)
      /\ Len(Tail(grants)) = Len(grants) - 1
      /\ \A i \in 1..Len(Tail(grants)) : Tail(grants)[i] = grants[i + 1]
  BY <1>1
<1>3. g.add \in Nat
  BY <1>2 DEF Grants
<1>4. g.at = Credited /\ g.upto \in Nat /\ g.upto <= advertised /\ Chain(Tail(grants), g.upto, advertised)
  BY <1>1, ChainTail
<1>5. g.upto = g.at + g.add /\ Adds(Tail(grants))
  BY <1>1, AddsKept
<1>6. g.upto = Credited + g.add
  BY <1>4, <1>5
<1> HIDE DEF g
<1>7. /\ credit \in Nat /\ allow \in Nat /\ spent \in Nat /\ Credited \in Nat
      /\ remaining \in Nat /\ advertised \in Nat /\ credit <= MAX_SEND_CREDIT
  BY <1>1, Numbers, WindowAssumption DEF TypeOK
<1>8. advertised - remaining <= spent /\ remaining <= CHANNEL_WINDOW
  <2>1. Accepted <= spent /\ remaining + drained <= CHANNEL_WINDOW /\ drained \in Nat
    BY <1>1, <1>7, Numbers, SMTT(30) DEF TypeOK
  <2> QED BY <2>1, <1>7, WindowAssumption DEF Accepted
<1>9. CHANNEL_WINDOW <= MAX_SEND_CREDIT => credit + g.add <= MAX_SEND_CREDIT
  <2>1. SUFFICES ASSUME CHANNEL_WINDOW <= MAX_SEND_CREDIT
                 PROVE  credit + g.add <= MAX_SEND_CREDIT
    OBVIOUS
  <2>2. credit + allow + spent + g.add <= advertised
    BY <2>1, <1>1, <1>3, <1>4, <1>6, <1>7
  <2> QED BY <2>1, <2>2, <1>3, <1>7, <1>8, WindowAssumption
<1> DEFINE c == Lower(credit + g.add, MAX_SEND_CREDIT)
<1>10. c \in 0..MAX_SEND_CREDIT /\ c <= credit + g.add
  BY <1>3, <1>7, WindowAssumption DEF Lower
<1>11. CHANNEL_WINDOW <= MAX_SEND_CREDIT => c = credit + g.add
  BY <1>9 DEF Lower
<1>12. c \in Nat
  BY <1>10, WindowAssumption
<1> HIDE DEF c
<1>13. c + allow + spent <= Credited + g.add
  BY <1>1, <1>3, <1>7, <1>10, <1>12
<1>14. CHANNEL_WINDOW <= MAX_SEND_CREDIT => c + allow + spent = Credited + g.add
  <2>1. SUFFICES ASSUME CHANNEL_WINDOW <= MAX_SEND_CREDIT
                 PROVE  c + allow + spent = Credited + g.add
    OBVIOUS
  <2>2. credit + allow + spent = Credited /\ c = credit + g.add
    BY <2>1, <1>1, <1>11
  <2>3. (credit + g.add) + allow + spent = (credit + allow + spent) + g.add
    BY <1>3, <1>7, Regroup
  <2> QED BY <2>2, <2>3, Zenon
<1> QED BY <1>2, <1>4, <1>5, <1>6, <1>10, <1>13, <1>14 DEF c, g

(* A grant reaches the sender. *)
LEMMA GrantSteps ==
  ASSUME IInv, OnOpened \/ OnWindowUpdate
  PROVE  IInv'
<1> DEFINE g == grants[1]
<1>0. TypeOK /\ SenderInv /\ OpenedInv /\ NeverOverrun /\ DataInv
  BY DEF IInv
<1>1. /\ grants # <<>> /\ grants' = Tail(grants)
      /\ UNCHANGED <<sender, allow, frame, cancelled, spent, data, recvVars>>
  BY DEF OnOpened, OnWindowUpdate
<1>2. /\ Head(grants) = g /\ g \in Grants
      /\ Chain(grants', Credited + g.add, advertised) /\ Adds(grants')
      /\ grants' \in Seq(Grants) /\ Len(grants') = Len(grants) - 1
      /\ \A i \in 1..Len(grants') : grants'[i] = grants[i + 1]
  BY <1>1, FirstGrant
<1>3. g.add \in Nat /\ receiver # "connecting" /\ Len(grants) \in Nat /\ Len(grants) >= 1
  BY <1>0, <1>1, <1>2 DEF Grants, OpenedInv, TypeOK
<1>4. g.kind = "opened" => TwoStep /\ ~opened /\ g.add = CHANNEL_WINDOW - INITIAL_WINDOW
  BY <1>0, <1>3 DEF OpenedInv
<1>5. /\ credit' \in 0..MAX_SEND_CREDIT
      /\ credit' + allow + spent <= Credited + g.add
      /\ CHANNEL_WINDOW <= MAX_SEND_CREDIT => credit' + allow + spent = Credited + g.add
  <2>1. CASE credit' = Lower(credit + g.add, MAX_SEND_CREDIT)
    BY <2>1, <1>1, FirstGrant
  <2>2. CASE credit' = credit /\ g.add = 0
    <3>1. /\ credit + allow + spent <= Credited /\ Credited \in Nat
          /\ CHANNEL_WINDOW <= MAX_SEND_CREDIT => credit + allow + spent = Credited
      BY Numbers DEF IInv
    <3> QED BY <2>2, <3>1, <1>0 DEF TypeOK
  <2>3. credit' = Lower(credit + g.add, MAX_SEND_CREDIT) \/ (credit' = credit /\ g.add = 0)
    <3>1. CASE OnOpened
      BY <3>1, <1>2, <1>3, <1>4 DEF OnOpened, AddCredit
    <3>2. CASE OnWindowUpdate
      BY <3>2, <1>2 DEF OnWindowUpdate, AddCredit
    <3> QED BY <3>1, <3>2
  <2> QED BY <2>1, <2>2, <2>3
<1>6. /\ permit' \in BOOLEAN /\ opened' \in BOOLEAN
  BY <1>0 DEF OnOpened, OnWindowUpdate, AddCredit, TypeOK
<1>7. Credited' = Credited + g.add /\ returned' \in Nat
  <2>1. CASE OnOpened
    <3>1. opened' = TRUE /\ ~opened /\ g.add = CHANNEL_WINDOW - INITIAL_WINDOW
      BY <2>1, <1>2, <1>4 DEF OnOpened
    <3>2. returned' = returned /\ returned \in Nat
      BY <2>1, <1>0 DEF OnOpened, TypeOK
    <3> HIDE DEF g
    <3>3. Credited = StartWindow + returned
      BY <3>1, <3>2, ConstantFacts DEF Credited
    <3>4. Credited' = StartWindow + returned + (CHANNEL_WINDOW - INITIAL_WINDOW)
      BY <3>1, <3>2 DEF Credited
    <3> QED BY <3>1, <3>2, <3>3, <3>4
  <2>2. CASE OnWindowUpdate
    <3>1. returned' = returned + g.add /\ opened' = opened /\ returned \in Nat
      BY <2>2, <1>0, <1>2 DEF OnWindowUpdate, TypeOK
    <3> DEFINE x == IF opened THEN CHANNEL_WINDOW - INITIAL_WINDOW ELSE 0
    <3>2. x \in Nat
      BY WindowAssumption
    <3>3. Credited = StartWindow + returned + x
      BY DEF Credited
    <3>4. Credited' = StartWindow + (returned + g.add) + x
      BY <3>1 DEF Credited
    <3> HIDE DEF x, g
    <3>5. returned + g.add \in Nat
      BY <3>1, <1>3
    <3>6. StartWindow \in Nat
      BY ConstantFacts
    <3>7. StartWindow + (returned + g.add) + x = (StartWindow + returned + x) + g.add
      BY <3>1, <3>2, <3>6, <1>3, Regroup
    <3> QED BY <3>1, <3>3, <3>4, <3>5, <3>7, Zenon
  <2> QED BY <2>1, <2>2
<1>8. OpenedInv'
  <2>1. \A i \in 1..Len(grants') : grants'[i].kind # "opened"
    BY <1>0, <1>2, <1>3 DEF OpenedInv
  <2>2. receiver' # "connecting" /\ (opened' => TwoStep)
    BY <1>0, <1>1, <1>2, <1>3, <1>4 DEF OnOpened, OnWindowUpdate, OpenedInv, recvVars
  <2> QED BY <2>1, <2>2 DEF OpenedInv
<1>9. TypeOK'
  BY <1>0, <1>1, <1>2, <1>5, <1>6, <1>7 DEF TypeOK, recvVars
<1>10. SenderInv' /\ NeverOverrun'
  BY <1>0, <1>1 DEF SenderInv, NeverOverrun, recvVars
<1>11. DataInv'
  BY <1>0, <1>1, DataUntouched DEF recvVars, Queued
<1>12. /\ (credit + allow + spent <= Credited)'
       /\ (CHANNEL_WINDOW <= MAX_SEND_CREDIT => credit + allow + spent = Credited)'
  BY <1>1, <1>5, <1>7
<1>13. Chain(grants, Credited, advertised)' /\ Adds(grants)'
  BY <1>1, <1>2, <1>7 DEF recvVars
<1> QED BY <1>8, <1>9, <1>10, <1>11, <1>12, <1>13 DEF IInv

----------------------------------------------------------------------------
(* The head of a queue that is a chain of charged frames. *)
LEMMA FirstFrame ==
  ASSUME NEW s \in Seq(Frames), NEW from, NEW to, Chain(s, from, to), Costs(s), s # <<>>
  PROVE  /\ Head(s) = s[1] /\ s[1] \in Frames /\ Tail(s) \in Seq(Frames)
         /\ s[1].len \in 1..MAX_FRAME /\ charge(s[1].len) \in Nat
         /\ s[1].at = from /\ s[1].upto = from + charge(s[1].len)
         /\ from + charge(s[1].len) \in Nat /\ from + charge(s[1].len) <= to
         /\ Chain(Tail(s), from + charge(s[1].len), to) /\ Costs(Tail(s))
<1>1. Head(s) = s[1] /\ s[1] \in Frames /\ Tail(s) \in Seq(Frames)
  OBVIOUS
<1>2. s[1].len \in 1..MAX_FRAME /\ s[1].len \in Nat
  BY <1>1, WindowAssumption DEF Frames
<1>3. charge(s[1].len) \in Nat
  BY <1>2, ConstantFacts
<1>4. s[1].upto = s[1].at + charge(s[1].len) /\ Costs(Tail(s))
  BY CostsKept
<1>5. s[1].at = from /\ s[1].upto \in Nat /\ s[1].upto <= to /\ Chain(Tail(s), s[1].upto, to)
  BY ChainTail
<1> QED BY <1>1, <1>2, <1>3, <1>4, <1>5

(* A frame arrives: it is within the window, and joins the inbound queue. *)
LEMMA OnDataStep ==
  ASSUME IInv, OnData
  PROVE  IInv'
<1> DEFINE f == data[1]
           cost == charge(f.len)
<1>0. TypeOK /\ SenderInv /\ OpenedInv /\ NeverOverrun /\ DataInv
  BY DEF IInv
<1>1. /\ data # <<>> /\ data' = Tail(data)
      /\ UNCHANGED <<sendVars, grants, drained, pending, pendingLen, receiver, chunk, advertised>>
  BY DEF OnData
<1>2. /\ data \in Seq(Frames) /\ Chain(data, Accepted, Queued) /\ Costs(data)
      /\ inbound \in Seq(Frames) /\ Chain(inbound, InboundFrom, Accepted) /\ Costs(inbound)
  BY <1>0 DEF TypeOK, DataInv
<1>3. /\ Head(data) = f /\ f \in Frames /\ Tail(data) \in Seq(Frames) /\ cost \in Nat
      /\ f.at = Accepted /\ f.upto = Accepted + cost
      /\ Accepted + cost \in Nat /\ Accepted + cost <= Queued
      /\ Chain(Tail(data), Accepted + cost, Queued) /\ Costs(Tail(data))
  BY <1>1, <1>2, FirstFrame
<1> HIDE DEF f, cost
<1>4. /\ remaining \in Nat /\ advertised \in Nat /\ Accepted = advertised - remaining
      /\ Queued <= spent /\ spent \in Nat /\ Queued \in Nat /\ Credited <= advertised
      /\ spent <= Credited /\ Credited \in Nat
  <2>1. credit + allow + spent <= Credited /\ credit \in Nat /\ allow \in Nat /\ spent \in Nat
    BY <1>0, WindowAssumption DEF IInv, TypeOK
  <2>2. /\ remaining \in Nat /\ advertised \in Nat /\ Accepted = advertised - remaining
        /\ Queued <= spent /\ Queued \in Nat /\ Credited <= advertised /\ Credited \in Nat
    BY <1>0, Numbers DEF Accepted, TypeOK
  <2>3. spent <= Credited
    BY <2>1, <2>2
  <2> QED BY <2>1, <2>2, <2>3
<1>5. cost <= remaining
  <2>1. Accepted + cost <= advertised
    BY <1>3, <1>4
  <2>2. advertised \in Nat /\ remaining \in Nat /\ cost \in Nat /\ advertised - remaining + cost <= advertised
    BY <1>3, <1>4, <2>1
  <2> QED BY <2>2
<1>6. remaining' = remaining - cost /\ inbound' = Append(inbound, f) /\ live' = live
  BY <1>3, <1>5 DEF OnData, cost
<1>7. remaining - cost \in Nat
  BY <1>3, <1>4, <1>5
<1>8. Accepted' = Accepted + cost
  BY <1>1, <1>3, <1>4, <1>6, <1>7 DEF Accepted
<1>9. /\ Queued' = Queued /\ Credited' = Credited
      /\ UNCHANGED <<credit, permit, sender, allow, frame, cancelled, opened, spent, returned>>
  BY <1>1 DEF Queued, Credited, sendVars
<1>10. /\ Chain(inbound', InboundFrom, Accepted + cost) /\ Costs(inbound')
       /\ inbound' \in Seq(Frames)
  <2>1. Accepted <= f.upto /\ f.upto \in Nat
    BY <1>3, <1>4
  <2>2. Chain(Append(inbound, f), InboundFrom, f.upto)
    BY <2>1, <1>2, <1>3, ChainAppend
  <2>3. f.upto = f.at + charge(f.len)
    BY <1>3 DEF cost
  <2>4. Costs(Append(inbound, f))
    BY <2>3, <1>2, <1>3, CostsKept
  <2> QED BY <2>2, <2>4, <1>2, <1>3, <1>6
<1>11. InboundFrom' = InboundFrom
  <2>1. inbound' # <<>> /\ inbound'[1] = IF inbound = <<>> THEN f ELSE inbound[1]
    BY <1>2, <1>3, <1>6
  <2>2. CASE inbound = <<>>
    BY <2>1, <2>2, <1>3 DEF InboundFrom
  <2>3. CASE inbound # <<>>
    BY <2>1, <2>3 DEF InboundFrom
  <2> QED BY <2>2, <2>3
<1>12. Fetched' = Fetched
  BY <1>1 DEF Fetched, WrittenOut, FinalWindow
<1>13. DataInv'
  BY <1>0, <1>1, <1>3, <1>8, <1>9, <1>10, <1>11, <1>12 DEF DataInv
<1>14. TypeOK'
  BY <1>0, <1>1, <1>3, <1>6, <1>7, <1>9, <1>10 DEF TypeOK
<1>15. SenderInv' /\ OpenedInv' /\ NeverOverrun'
  BY <1>0, <1>1, <1>6, <1>9 DEF SenderInv, OpenedInv, NeverOverrun
<1> QED BY <1>1, <1>9, <1>13, <1>14, <1>15 DEF IInv

(* A chunk is set aside while connecting: it fits in INITIAL_WINDOW. *)
LEMMA BufferPendingStep ==
  ASSUME IInv, BufferPending
  PROVE  IInv'
<1> DEFINE f == inbound[1]
           cost == charge(f.len)
<1>0. TypeOK /\ SenderInv /\ OpenedInv /\ NeverOverrun /\ DataInv
  BY DEF IInv
<1>1. /\ inbound # <<>> /\ inbound' = Tail(inbound) /\ receiver = "connecting"
      /\ UNCHANGED <<sendVars, data, grants, live, remaining, drained, chunk, advertised>>
  BY DEF BufferPending
<1>2. /\ inbound \in Seq(Frames) /\ Chain(inbound, InboundFrom, Accepted) /\ Costs(inbound)
      /\ pending \in Seq(Frames) /\ Chain(pending, Fetched, InboundFrom) /\ Costs(pending)
      /\ pendingLen = InboundFrom /\ pendingLen \in Nat
  BY <1>0, <1>1 DEF TypeOK, DataInv
<1>3. /\ Head(inbound) = f /\ f \in Frames /\ Tail(inbound) \in Seq(Frames) /\ cost \in Nat
      /\ f.at = InboundFrom /\ f.upto = InboundFrom + cost
      /\ InboundFrom + cost \in Nat /\ InboundFrom + cost <= Accepted
      /\ Chain(Tail(inbound), InboundFrom + cost, Accepted) /\ Costs(Tail(inbound))
  BY <1>1, <1>2, FirstFrame
<1> HIDE DEF f, cost
<1>4. Accepted \in Nat /\ Accepted <= INITIAL_WINDOW
  <2>1. advertised = INITIAL_WINDOW /\ remaining \in Nat
    BY <1>0, <1>1, ConstantFacts DEF OpenedInv, TypeOK
  <2> QED BY <2>1, Numbers, WindowAssumption DEF Accepted
<1>5. pendingLen + cost <= INITIAL_WINDOW
  BY <1>2, <1>3, <1>4, WindowAssumption
<1>6. /\ pending' = Append(pending, f) /\ pendingLen' = pendingLen + cost
      /\ receiver' = receiver
  BY <1>3, <1>5 DEF BufferPending, pending_fits, cost
<1>7. /\ Queued' = Queued /\ Credited' = Credited /\ Accepted' = Accepted
      /\ Fetched' = Fetched
      /\ UNCHANGED <<credit, permit, sender, allow, frame, cancelled, opened, spent, returned>>
  BY <1>1, <1>6 DEF Queued, Credited, sendVars, Accepted, Fetched, WrittenOut, FinalWindow
<1>8. InboundFrom' = InboundFrom + cost
  BY <1>1, <1>3, <1>7 DEF InboundFrom, Chain
<1>9. Chain(pending', Fetched, InboundFrom + cost) /\ Costs(pending') /\ pending' \in Seq(Frames)
  <2>1. InboundFrom <= f.upto /\ f.upto \in Nat
    BY <1>2, <1>3
  <2>2. Chain(Append(pending, f), Fetched, f.upto)
    BY <2>1, <1>2, <1>3, ChainAppend
  <2>3. f.upto = f.at + charge(f.len)
    BY <1>3 DEF cost
  <2>4. Costs(Append(pending, f))
    BY <2>3, <1>2, <1>3, CostsKept
  <2> QED BY <2>2, <2>4, <1>2, <1>3, <1>6
<1>10. DataInv'
  BY <1>0, <1>1, <1>2, <1>3, <1>6, <1>7, <1>8, <1>9 DEF DataInv
<1>11. TypeOK'
  BY <1>0, <1>1, <1>2, <1>3, <1>6, <1>7, <1>9 DEF TypeOK
<1>12. SenderInv' /\ OpenedInv' /\ NeverOverrun'
  BY <1>0, <1>1, <1>6, <1>7 DEF SenderInv, OpenedInv, NeverOverrun
<1> QED BY <1>1, <1>7, <1>10, <1>11, <1>12 DEF IInv

(* A grant joins the end of the grants in flight. *)
LEMMA GrantSent ==
  ASSUME IInv, NEW k \in {"opened", "window_update"}, NEW n \in Nat,
         grants' = Append(grants, [kind |-> k, add |-> n, at |-> advertised,
                                   upto |-> advertised + n])
  PROVE  /\ Chain(grants', Credited, advertised + n) /\ Adds(grants')
         /\ grants' \in Seq(Grants)
<1> DEFINE g == [kind |-> k, add |-> n, at |-> advertised, upto |-> advertised + n]
<1>1. /\ grants \in Seq(Grants) /\ Chain(grants, Credited, advertised) /\ Adds(grants)
      /\ advertised \in Nat
  BY DEF IInv, TypeOK
<1>2. /\ g \in Grants /\ g.at = advertised /\ g.upto = advertised + n /\ g.upto = g.at + g.add
      /\ g.upto \in Nat /\ advertised <= g.upto
  BY <1>1 DEF Grants
<1> HIDE DEF g
<1>3. Chain(Append(grants, g), Credited, g.upto) /\ Adds(Append(grants, g))
  BY <1>1, <1>2, ChainAppend, AddsKept
<1>4. Append(grants, g) \in Seq(Grants)
  BY <1>1, <1>2
<1> QED BY <1>2, <1>3, <1>4 DEF g

(* Connected: window and advertisement grow together. *)
LEMMA ConnectedStep ==
  ASSUME IInv, Connected
  PROVE  IInv'
<1> DEFINE extra == CHANNEL_WINDOW - INITIAL_WINDOW
<1>0. TypeOK /\ SenderInv /\ OpenedInv /\ NeverOverrun /\ DataInv
  BY DEF IInv
<1>1. /\ receiver = "connecting" /\ inbound = <<>> /\ receiver' = "idle"
      /\ remaining' = remaining + extra /\ advertised' = advertised + extra
      /\ UNCHANGED <<sendVars, data, live, drained, inbound, pending, pendingLen, chunk>>
  BY DEF Connected
<1>2. /\ TwoStep /\ grants = <<>> /\ ~opened /\ StartWindow = INITIAL_WINDOW
  BY <1>0, <1>1, ConstantFacts DEF OpenedInv
<1>3. extra \in Nat /\ remaining \in Nat /\ advertised \in Nat /\ drained \in Nat
  BY <1>0, WindowAssumption DEF TypeOK
<1>4. grants' = Append(grants, [kind |-> "opened", add |-> extra, at |-> advertised,
                                upto |-> advertised + extra])
  BY <1>1, ConstantFacts DEF Connected
<1>5. /\ Chain(grants', Credited, advertised + extra) /\ Adds(grants')
      /\ grants' \in Seq(Grants)
  BY <1>3, <1>4, GrantSent
<1>6. /\ Len(grants') = 1 /\ grants'[1].kind = "opened" /\ grants'[1].add = extra
  BY <1>2, <1>4
<1>7. /\ Queued' = Queued /\ Credited' = Credited
      /\ UNCHANGED <<credit, permit, sender, allow, frame, cancelled, opened, spent, returned>>
  BY <1>1 DEF Queued, Credited, sendVars
<1>8. Accepted' = Accepted
  BY <1>1, <1>3 DEF Accepted
<1>9. InboundFrom' = InboundFrom
  BY <1>1, <1>8 DEF InboundFrom
<1>10. Fetched' = Fetched
  <2>1. Fetched = advertised - INITIAL_WINDOW + drained
    BY <1>1, <1>2 DEF Fetched, WrittenOut, FinalWindow
  <2>2. Fetched' = advertised' - CHANNEL_WINDOW + drained'
    BY <1>1 DEF Fetched, WrittenOut, FinalWindow
  <2>3. \A a, d, x, y \in Nat : x = a + extra /\ y = d =>
          x - CHANNEL_WINDOW + y = a - INITIAL_WINDOW + d
    BY WindowAssumption
  <2>4. advertised' \in Nat /\ drained' \in Nat
    BY <1>1, <1>3
  <2>5. advertised' - CHANNEL_WINDOW + drained' = advertised - INITIAL_WINDOW + drained
    BY <2>3, <2>4, <1>1, <1>3
  <2> QED BY <2>1, <2>2, <2>5
<1>11. DataInv'
  BY <1>0, <1>1, <1>7, <1>8, <1>9, <1>10 DEF DataInv
<1>12. TypeOK'
  BY <1>0, <1>1, <1>3, <1>5, <1>7, SMTT(30) DEF TypeOK
<1>13. SenderInv' /\ NeverOverrun'
  BY <1>0, <1>1, <1>7 DEF SenderInv, NeverOverrun
<1>14. OpenedInv'
  BY <1>1, <1>2, <1>6, <1>7 DEF OpenedInv
<1> QED BY <1>1, <1>5, <1>7, <1>11, <1>12, <1>13, <1>14 DEF IInv

(* The next chunk leaves the pending chunks, or the queue once they are    *)
(* written.                                                                *)
LEMMA NextChunkStep ==
  ASSUME IInv, NextChunk
  PROVE  IInv'
<1>0. TypeOK /\ SenderInv /\ OpenedInv /\ NeverOverrun /\ DataInv
  BY DEF IInv
<1>1. /\ receiver = "idle" /\ receiver' = "writing"
      /\ UNCHANGED <<sendVars, data, grants, live, remaining, drained, pendingLen, advertised>>
  BY DEF NextChunk
<1>2. /\ inbound \in Seq(Frames) /\ Chain(inbound, InboundFrom, Accepted) /\ Costs(inbound)
      /\ pending \in Seq(Frames) /\ Chain(pending, Fetched, InboundFrom) /\ Costs(pending)
      /\ Fetched \in Nat
  BY <1>0, Numbers DEF TypeOK, DataInv
<1>3. /\ Queued' = Queued /\ Credited' = Credited /\ Accepted' = Accepted
      /\ UNCHANGED <<credit, permit, sender, allow, frame, cancelled, opened, spent, returned>>
  BY <1>1 DEF Queued, Credited, sendVars, Accepted
<1>4. Fetched' = Fetched + charge(chunk')
  BY <1>1 DEF Fetched, WrittenOut, FinalWindow
<1>5. /\ chunk' \in 0..MAX_FRAME /\ pending' \in Seq(Frames) /\ inbound' \in Seq(Frames)
      /\ Chain(inbound', InboundFrom', Accepted') /\ Costs(inbound')
      /\ Chain(pending', Fetched', InboundFrom') /\ Costs(pending')
  <2>1. CASE pending # <<>>
    <3>1. chunk' = pending[1].len /\ pending' = Tail(pending) /\ inbound' = inbound
      BY <2>1, <1>2 DEF NextChunk
    <3>2. InboundFrom' = InboundFrom
      BY <3>1, <1>3 DEF InboundFrom
    <3>3. /\ pending[1].len \in 1..MAX_FRAME /\ Tail(pending) \in Seq(Frames)
          /\ Chain(Tail(pending), Fetched + charge(pending[1].len), InboundFrom)
          /\ Costs(Tail(pending))
      BY <2>1, <1>2, FirstFrame
    <3> QED BY <3>1, <3>2, <3>3, <1>2, <1>3, <1>4, WindowAssumption
  <2>2. CASE pending = <<>>
    <3>1. /\ inbound # <<>> /\ chunk' = inbound[1].len /\ inbound' = Tail(inbound)
          /\ pending' = <<>>
      BY <2>2, <1>2 DEF NextChunk
    <3>2. Fetched = InboundFrom
      BY <2>2, <1>2 DEF Chain
    <3> DEFINE mid == InboundFrom + charge(inbound[1].len)
    <3>3. /\ inbound[1].len \in 1..MAX_FRAME /\ Tail(inbound) \in Seq(Frames)
          /\ Chain(Tail(inbound), mid, Accepted) /\ mid \in Nat
          /\ Costs(Tail(inbound))
      BY <3>1, <1>2, FirstFrame
    <3>4. InboundFrom' = mid
      BY <3>1, <3>3, <1>3 DEF InboundFrom, Chain
    <3>5. Fetched' = mid
      BY <3>1, <3>2, <1>4
    <3> HIDE DEF mid
    <3>6. Chain(pending', Fetched', InboundFrom') /\ Costs(pending')
      BY <3>1, <3>3, <3>4, <3>5, ChainEmpty
    <3> QED BY <3>1, <3>3, <3>4, <3>6, <1>2, <1>3, WindowAssumption
  <2> QED BY <2>1, <2>2
<1>6. DataInv'
  BY <1>0, <1>1, <1>3, <1>5 DEF DataInv
<1>7. TypeOK'
  BY <1>0, <1>1, <1>3, <1>5 DEF TypeOK
<1>8. SenderInv' /\ OpenedInv' /\ NeverOverrun'
  BY <1>0, <1>1, <1>3 DEF SenderInv, OpenedInv, NeverOverrun
<1> QED BY <1>1, <1>3, <1>6, <1>7, <1>8 DEF IInv

(* A chunk is written, and perhaps the drained window advertised. *)
LEMMA WrittenStep ==
  ASSUME IInv, Written
  PROVE  IInv'
<1> DEFINE add == drained + charge(chunk)
<1>0. TypeOK /\ SenderInv /\ OpenedInv /\ NeverOverrun /\ DataInv
  BY DEF IInv
<1>1. /\ receiver = "writing" /\ receiver' = "idle" /\ chunk' = 0
      /\ UNCHANGED <<sendVars, data, live, inbound, pending, pendingLen>>
  BY DEF Written
<1>2. /\ chunk \in Nat /\ drained \in Nat /\ remaining \in Nat /\ advertised \in Nat
  BY <1>0, WindowAssumption DEF TypeOK
<1>3. charge(chunk) \in Nat /\ add \in Nat
  BY <1>2, ConstantFacts
<1>4. /\ Queued' = Queued /\ Credited' = Credited
      /\ UNCHANGED <<credit, permit, sender, allow, frame, cancelled, opened, spent, returned>>
  BY <1>1 DEF Queued, Credited, sendVars
<1>5. /\ drained' \in Nat /\ remaining' \in Nat /\ advertised' \in Nat
      /\ Accepted' = Accepted
      /\ advertised' + drained' = advertised + add
      /\ grants' \in Seq(Grants) /\ Chain(grants', Credited, advertised') /\ Adds(grants')
      /\ \A i \in 1..Len(grants') : grants'[i].kind = "opened" =>
           i \in 1..Len(grants) /\ grants'[i] = grants[i]
  <2>1. CASE add < UPDATE_THRESHOLD
    BY <2>1, <1>0, <1>2, <1>3 DEF Written, Accepted, IInv, TypeOK
  <2>2. CASE ~(add < UPDATE_THRESHOLD)
    <3> DEFINE g == [kind |-> "window_update", add |-> add, at |-> advertised,
                     upto |-> advertised + add]
    <3>1. /\ drained' = 0 /\ remaining' = remaining + add /\ advertised' = advertised + add
          /\ grants' = Append(grants, g)
      BY <2>2 DEF Written
    <3>2. Accepted' = Accepted
      <4>1. \A a, r, n \in Nat : (a + n) - (r + n) = a - r OBVIOUS
      <4>2. add \in Nat BY <1>3
      <4> HIDE DEF add
      <4> QED BY <3>1, <4>1, <4>2, <1>2 DEF Accepted
    <3>3. /\ Chain(grants', Credited, advertised + add) /\ Adds(grants')
          /\ grants' \in Seq(Grants)
      BY <3>1, <1>3, GrantSent
    <3>4. grants \in Seq(Grants) /\ g.kind = "window_update"
      BY <1>0 DEF TypeOK
    <3> HIDE DEF add, g
    <3>5. \A i \in 1..Len(grants') : grants'[i].kind = "opened" =>
           i \in 1..Len(grants) /\ grants'[i] = grants[i]
      BY <3>1, <3>4
    <3> QED BY <3>1, <3>2, <3>3, <3>5, <1>2, <1>3
  <2> QED BY <2>1, <2>2
<1>6. InboundFrom' = InboundFrom
  BY <1>1, <1>5 DEF InboundFrom
<1>7. Fetched' = Fetched
  <2>1. Fetched = advertised - CHANNEL_WINDOW + drained + charge(chunk)
    BY <1>1 DEF Fetched, WrittenOut, FinalWindow
  <2>2. Fetched' = advertised' - CHANNEL_WINDOW + drained'
    BY <1>1 DEF Fetched, WrittenOut, FinalWindow
  <2>3. \A a, d, c, x, y \in Nat : x + y = a + (d + c) =>
          a - CHANNEL_WINDOW + d + c = x - CHANNEL_WINDOW + y
    BY WindowAssumption
  <2>4. advertised - CHANNEL_WINDOW + drained + charge(chunk) = advertised' - CHANNEL_WINDOW + drained'
    <3>1. advertised' \in Nat /\ drained' \in Nat BY <1>5
    <3>2. advertised' + drained' = advertised + (drained + charge(chunk)) BY <1>5
    <3> HIDE DEF add
    <3> QED BY <2>3, <3>1, <3>2, <1>2, <1>3
  <2> QED BY <2>1, <2>2, <2>4
<1>8. DataInv'
  BY <1>0, <1>1, <1>4, <1>5, <1>6, <1>7 DEF DataInv
<1>9. TypeOK'
  BY <1>0, <1>1, <1>4, <1>5, WindowAssumption DEF TypeOK
<1>10. SenderInv' /\ NeverOverrun'
  BY <1>0, <1>1, <1>4 DEF SenderInv, NeverOverrun
<1>11. OpenedInv'
  BY <1>0, <1>1, <1>4, <1>5 DEF OpenedInv
<1> QED BY <1>4, <1>5, <1>8, <1>9, <1>10, <1>11 DEF IInv

----------------------------------------------------------------------------
(* A step of anything outside the module changes nothing. *)
LEMMA StutterStep ==
  ASSUME IInv, UNCHANGED vars
  PROVE  IInv'
BY DEF vars, IInv, TypeOK, SenderInv, OpenedInv, NeverOverrun, DataInv, Credited,
       Queued, Accepted, InboundFrom, Fetched, WrittenOut, FinalWindow

(* The invariant is inductive. *)
THEOREM InductiveInvariant == Spec => []IInv
<1>1. IInv /\ [Next]_vars => IInv'
  <2> SUFFICES ASSUME IInv, [Next]_vars PROVE IInv'
    OBVIOUS
  <2>1. CASE Take \/ Park \/ Wake \/ ReadEof \/ Cancel \/ StopSending
    BY <2>1, SenderSteps
  <2>2. CASE \E n \in 1..allow : Read(n)
    BY <2>2, ReadStep
  <2>3. CASE SendFrame
    BY <2>3, SendFrameStep
  <2>4. CASE OnOpened \/ OnWindowUpdate
    BY <2>4, GrantSteps
  <2>5. CASE OnData
    BY <2>5, OnDataStep
  <2>6. CASE BufferPending
    BY <2>6, BufferPendingStep
  <2>7. CASE Connected
    BY <2>7, ConnectedStep
  <2>8. CASE NextChunk
    BY <2>8, NextChunkStep
  <2>9. CASE Written
    BY <2>9, WrittenStep
  <2>10. CASE UNCHANGED vars
    BY <2>10, StutterStep
  <2> QED BY <2>1, <2>2, <2>3, <2>4, <2>5, <2>6, <2>7, <2>8, <2>9, <2>10 DEF Next
<1> QED BY <1>1, InitInv, PTL DEF Spec

(* Every variable keeps its type: no counter of SendCredit or RecvWindow   *)
(* ever goes below zero.                                                   *)
THEOREM TypeCorrect == Spec => []TypeOK
<1>1. IInv => TypeOK
  BY DEF IInv
<1> QED BY <1>1, InductiveInvariant, PTL

(* For every window, frame size and charge, RecvWindow::accept and         *)
(* pending_fits accept every frame a sender running this code sends.       *)
THEOREM NoOverrun == Spec => []NeverOverrun
<1>1. IInv => NeverOverrun
  BY DEF IInv
<1> QED BY <1>1, InductiveInvariant, PTL

(* Whatever is refunded, raised by `opened` or returned by window_update,  *)
(* the sender never has more than its peer has granted.                    *)
THEOREM CreditIsBacked == Spec => []CreditBacked
<1>1. IInv => CreditBacked
  BY Numbers DEF IInv, CreditBacked
<1> QED BY <1>1, InductiveInvariant, PTL

(* What a receiver holds undrained, and what it believes its peer may      *)
(* still send, stay within the window for every window and frame size.     *)
THEOREM WindowIsBounded == Spec => []WindowBounded
<1>1. IInv => WindowBounded
  BY Numbers, ConstantFacts DEF WindowBounded
<1> QED BY <1>1, InductiveInvariant, PTL

(* With a peer whose window is not above the own cap, no credit is lost:   *)
(* the cap in SendCredit::add never cuts anything off.                     *)
THEOREM Accounting == Spec => []NoCreditLost
<1>1. IInv => NoCreditLost
  BY DEF IInv, NoCreditLost
<1> QED BY <1>1, InductiveInvariant, PTL

(* What the sender has, holds or has out: no refund and no window_update   *)
(* raises it, and `opened` fills the credit up to MAX_SEND_CREDIT at most. *)
Cap == MAX_SEND_CREDIT + (IF TwoStep THEN INITIAL_WINDOW ELSE 0)
OutCapped == credit + allow + spent <= Cap + returned

LEMMA InitOut == Init => OutCapped
BY WindowAssumption DEF Init, OutCapped, Cap, Lower, StartWindow, effective_window, Upper

(* Added credit is capped, and is no more than what was added. *)
LEMMA AddedCredit ==
  ASSUME NEW n \in Nat, TypeOK, AddCredit(n)
  PROVE  credit' \in Nat /\ credit' <= credit + n /\ credit' <= MAX_SEND_CREDIT
BY WindowAssumption DEF TypeOK, AddCredit, Lower

(* What the steps make of the numbers. *)
LEMMA Sums ==
  ASSUME NEW c \in Nat, NEW a \in Nat, NEW s \in Nat, NEW r \in Nat, NEW K \in Nat,
         NEW n \in Nat, c + a + s <= K + r
  PROVE  /\ \A x, y \in Nat : a = 0 /\ x = c - y => x + y + s <= K + r
         /\ \A x \in Nat : n <= a /\ x <= c + (a - n) => x + 0 + (s + n) <= K + r
         /\ \A x \in Nat : x <= c + a => x + 0 + s <= K + r
         /\ \A x \in Nat : x <= c + n => x + a + s <= K + (r + n)
         /\ \A x, i, m \in Nat : c + a + s <= i + r /\ x <= m /\ K = m + i => x + a + s <= K + r
OBVIOUS

LEMMA StepOut ==
  ASSUME IInv, OutCapped, [Next]_vars
  PROVE  OutCapped'
<1>0. /\ credit \in Nat /\ allow \in Nat /\ spent \in Nat /\ returned \in Nat
      /\ MAX_SEND_CREDIT \in Nat /\ INITIAL_WINDOW \in Nat /\ Cap \in Nat /\ TypeOK
      /\ credit + allow + spent <= Cap + returned
  BY WindowAssumption DEF IInv, TypeOK, OutCapped, Cap
<1> DEFINE Goal == credit' + allow' + spent' <= Cap + returned'
<1>1. SUFFICES Goal
  BY DEF OutCapped, Cap
<1>2. CASE Take
  <2>1. /\ allow = 0 /\ allow' \in Nat /\ credit' \in Nat /\ credit' = credit - allow'
        /\ UNCHANGED <<spent, returned>>
    BY <1>0, <1>2, WindowAssumption DEF Take, IInv, SenderInv, Lower
  <2> QED BY <1>0, <2>1, Sums
<1>3. ASSUME NEW n \in 1..allow, Read(n) PROVE Goal
  <2>1. PICK c \in Nat : c = charge(n)
    BY <1>0, WindowAssumption DEF charge, Upper
  <2>2. c <= allow /\ spent' = spent + c /\ allow' = 0 /\ returned' = returned
    BY <1>0, <1>3, <2>1, WindowAssumption DEF Read, charge, Upper, IInv, SenderInv
  <2>3. credit' \in Nat /\ credit' <= credit + (allow - c)
    <3>1. CASE c < allow
      <4>1. allow - c \in Nat /\ AddCredit(allow - c)
        BY <1>0, <1>3, <2>1, <3>1 DEF Read
      <4> QED BY <1>0, <4>1, AddedCredit
    <3>2. CASE ~(c < allow)
      <4>1. credit' = credit /\ c = allow
        BY <1>0, <1>3, <2>1, <2>2, <3>2 DEF Read
      <4> QED BY <1>0, <4>1
    <3> QED BY <3>1, <3>2
  <2> QED BY <1>0, <2>2, <2>3, Sums
<1>4. CASE ReadEof \/ StopSending
  <2>1. /\ allow' = 0 /\ UNCHANGED <<spent, returned>>
        /\ AddCredit(allow) \/ credit' = credit
    BY <1>4 DEF ReadEof, StopSending
  <2>2. credit' \in Nat /\ credit' <= credit + allow
    BY <1>0, <2>1, AddedCredit
  <2> QED BY <1>0, <2>1, <2>2, Sums
<1>5. CASE OnOpened
  <2>1. UNCHANGED <<allow, spent, returned>>
    BY <1>5 DEF OnOpened
  <2>2. CASE credit' = credit
    BY <1>0, <2>1, <2>2
  <2>3. CASE credit' # credit
    <3>1. /\ grants # <<>> /\ grants \in Seq(Grants) /\ Head(grants).kind = "opened" /\ ~opened
          /\ AddCredit(Head(grants).add)
      BY <1>0, <1>5, <2>3 DEF OnOpened, TypeOK
    <3>2. Head(grants) = grants[1] /\ 1 \in 1..Len(grants) /\ Head(grants).add \in Nat
      <4>1. Head(grants) = grants[1] /\ 1 \in 1..Len(grants) /\ Head(grants) \in Grants
        BY <3>1
      <4> QED BY <4>1 DEF Grants
    <3>3. TwoStep
      BY <3>1, <3>2 DEF IInv, OpenedInv
    <3>4. Credited = INITIAL_WINDOW + returned
      BY <1>0, <3>1, <3>3 DEF Credited, StartWindow
    <3>5. credit + allow + spent <= INITIAL_WINDOW + returned
      BY <3>4 DEF IInv
    <3>6. credit' \in Nat /\ credit' <= MAX_SEND_CREDIT
      BY <1>0, <3>1, <3>2, AddedCredit
    <3>7. Cap = MAX_SEND_CREDIT + INITIAL_WINDOW
      BY <3>3 DEF Cap
    <3> QED BY <1>0, <2>1, <3>5, <3>6, <3>7, Sums
  <2> QED BY <2>2, <2>3
<1>6. CASE OnWindowUpdate
  <2>1. grants # <<>> /\ grants \in Seq(Grants)
    BY <1>0, <1>6 DEF OnWindowUpdate, TypeOK
  <2>2. PICK n \in Nat : n = Head(grants).add
    <3>1. Head(grants) \in Grants
      BY <2>1
    <3> QED BY <3>1 DEF Grants
  <2>3. /\ AddCredit(n) /\ returned' = returned + n /\ UNCHANGED <<allow, spent>>
    BY <1>6, <2>2 DEF OnWindowUpdate
  <2>4. credit' \in Nat /\ credit' <= credit + n
    BY <1>0, <2>3, AddedCredit
  <2> QED BY <1>0, <2>2, <2>3, <2>4, Sums
<1>7. CASE \/ Park \/ Wake \/ SendFrame \/ Cancel \/ OnData \/ BufferPending \/ Connected
           \/ NextChunk \/ Written \/ UNCHANGED vars
  <2>1. UNCHANGED <<credit, allow, spent, returned>>
    BY <1>7 DEF Park, Wake, SendFrame, Cancel, OnData, BufferPending, Connected, NextChunk, Written, vars, sendVars
  <2> QED BY <1>0, <2>1
<1> QED BY <1>2, <1>3, <1>4, <1>5, <1>6, <1>7 DEF Next

(* Whatever window a peer offers, and whatever is refunded and returned,   *)
(* a sender never has more out than its own cap, which is exact for the    *)
(* controlled side (its sink is unbounded) and exceeded by no more than    *)
(* INITIAL_WINDOW on the controller.                                       *)
THEOREM FlightIsCapped == Spec => []InFlightCapped
<1>1. IInv /\ OutCapped => InFlightCapped
  <2> SUFFICES ASSUME IInv, OutCapped PROVE InFlightCapped
    OBVIOUS
  <2>1. credit \in Nat /\ allow \in Nat /\ spent \in Nat /\ returned \in Nat /\ Cap \in Nat
    BY WindowAssumption DEF IInv, TypeOK, Cap
  <2>2. allow + spent - returned <= Cap
    BY <2>1 DEF OutCapped
  <2> QED BY <2>2 DEF InFlightCapped, Cap
<1>2. Spec => [](IInv /\ OutCapped)
  <2>1. IInv /\ OutCapped /\ [Next]_vars => OutCapped'
    BY StepOut
  <2> QED BY <2>1, InitOut, InductiveInvariant, PTL DEF Spec
<1> QED BY <1>1, <1>2, PTL
============================================================================
