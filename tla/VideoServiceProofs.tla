------------------------- MODULE VideoServiceProofs -------------------------
(***************************************************************************)
(* The safety of subscribing and of sharing an encoder, for any set of     *)
(* connections.  What makes it inductive: the two maps of a service never  *)
(* share a connection, which is why on_unsubscribe may stop at the first;  *)
(* only the thread's swap adds to subscribes, and it is reached without    *)
(* ending the encoder only when subscribes is empty.                       *)
(***************************************************************************)
EXTENDS VideoService, TLAPS

(* No connection is in both maps of the service. *)
Disjoint == subscribes \cap new_subscribes = {}

(* Whoever is inside Server::subscribe holds the lock of the Server. *)
Locked == \A c \in Conns : conn[c].pc \in {"second", "enter", "leave"} => server = c

(* What a connection inside Server::subscribe has asked for. *)
Asking ==
  \A c \in Conns :
    /\ At(c, "enter") => conn[c].want
    /\ At(c, "leave") => ~conn[c].want

(* SubscribedAsAsked, also while an acknowledgement is being passed on. *)
Wishes ==
  \A c \in Conns : conn[c].pc \in {"on", "notify"} =>
    /\ conn[c].want => c \in subscribes \cup new_subscribes
    /\ c \in subscribes \cup new_subscribes => conn[c].want \/ conn[c].torn

Membership == NothingLeft /\ Disjoint /\ Locked /\ Asking /\ Wishes

(* The key frame went to subscribers that are still subscribed. *)
KeyedSubscribed == keyed \subseteq subscribes

(* An encoder that has made a frame serves those it made its key frame     *)
(* for, and nobody else, or nobody who has it.                             *)
OneEncoder == ~svc.key => keyed = {} \/ keyed = subscribes

(* The encoder survives the swap only if nobody was subscribed before. *)
SwapAlone == Thread("swap") => subscribes = {}

Encoding == KeyedSubscribed /\ OneEncoder /\ SwapAlone

IInv == TypeOK /\ Membership /\ Encoding

-----------------------------------------------------------------------------
(* The initial state satisfies the invariant. *)
LEMMA InitInv == Init => IInv
<1> SUFFICES ASSUME Init PROVE IInv
  OBVIOUS
<1> USE DEF Init, ServiceInit, NewConn
<1>1. svc \in [pc : ThreadStages, key : BOOLEAN, ids : SUBSET Conns, got : SUBSET Conns]
  BY DEF ThreadStages
<1>2. conn \in [Conns -> [pc : Stages, want : BOOLEAN, torn : BOOLEAN]]
  BY DEF Stages
<1>3. switches \in 0..MaxSwitches
  BY VideoAssumption
<1>4. TypeOK
  BY <1>1, <1>2, <1>3 DEF TypeOK
<1>5. Membership
  BY DEF Membership, NothingLeft, Disjoint, Locked, Asking, Wishes, At
<1>6. Encoding
  BY DEF Encoding, KeyedSubscribed, OneEncoder, SwapAlone, Thread
<1> QED BY <1>4, <1>5, <1>6 DEF IInv

(* The thread's steps keep the types. *)
LEMMA ThreadType == TypeOK /\ ServiceThread => TypeOK'
<1> SUFFICES ASSUME TypeOK, ServiceThread PROVE TypeOK'
  OBVIOUS
<1> USE VideoAssumption DEF TypeOK, ThreadStages, Thread, Moves, Ends, serviceVars, peerVars
<1>1. CASE Start BY <1>1 DEF Start
<1>2. CASE Stop BY <1>2 DEF Stop
<1>3. CASE Switch BY <1>3 DEF Switch
<1>4. CASE Broadcast
  <2>1. CASE Ends BY <1>4, <2>1 DEF Broadcast
  <2>2. CASE Moves("bail") /\ UNCHANGED display_ids BY <1>4, <2>2 DEF Broadcast
  <2> QED BY <1>4, <2>1, <2>2 DEF Broadcast
<1>5. CASE Capture BY <1>5 DEF Capture
<1>6. CASE Snapshot BY <1>6 DEF Snapshot
<1>7. CASE Callback BY <1>7 DEF Callback
<1>8. CASE Swap
  <2>1. CASE Ends BY <1>8, <2>1 DEF Swap, swap_new_subscribes
  <2>2. CASE Moves("encode") /\ UNCHANGED display_ids BY <1>8, <2>2 DEF Swap, swap_new_subscribes
  <2> QED BY <1>8, <2>1, <2>2 DEF Swap
<1>9. CASE Encode BY <1>9 DEF Encode
<1>10. CASE EncodeFails
  <2>1. CASE Moves("register") /\ UNCHANGED <<display_ids, switches>> BY <1>10, <2>1 DEF EncodeFails
  <2>2. CASE switches < MaxSwitches /\ switches' = switches + 1 /\ Ends BY <1>10, <2>2 DEF EncodeFails
  <2> QED BY <1>10, <2>1, <2>2 DEF EncodeFails
<1>11. CASE Register BY <1>11 DEF Register
<1>12. CASE WaitNext BY <1>12 DEF WaitNext
<1>13. CASE Timeout BY <1>13 DEF Timeout
<1>14. CASE Done BY <1>14 DEF Done
<1> QED BY <1>1, <1>2, <1>3, <1>4, <1>5, <1>6, <1>7, <1>8, <1>9, <1>10, <1>11, <1>12, <1>13, <1>14
        DEF ServiceThread

(* The connections' own steps keep the types. *)
LEMMA ConnType ==
  ASSUME TypeOK, NEW c \in Conns, Deliver(c) \/ VideoReceived(c) \/ LoopEnds(c) \/ Notify(c) \/ Refresh(c)
  PROVE  TypeOK'
<1> USE VideoAssumption DEF TypeOK, Stages, At, Goes, serviceVars, threadVars, peerVars
<1>1. CASE Deliver(c) BY <1>1 DEF Deliver
<1>2. CASE VideoReceived(c) BY <1>2 DEF VideoReceived
<1>3. CASE LoopEnds(c) BY <1>3 DEF LoopEnds, NewConn
<1>4. CASE Notify(c) BY <1>4 DEF Notify
<1>5. CASE Refresh(c) BY <1>5 DEF Refresh
<1> QED BY <1>1, <1>2, <1>3, <1>4, <1>5

(* Subscribing keeps the types. *)
LEMMA SubscribingType == TypeOK /\ Subscribing => TypeOK'
<1> SUFFICES ASSUME TypeOK, Subscribing PROVE TypeOK'
  OBVIOUS
<1> USE DEF TypeOK, Stages, At, Goes, Subscribing, peerVars, on_subscribe, on_unsubscribe
<1> PICK c \in Conns : \/ Join(c) \/ SecondLook(c) \/ Enter(c) \/ Leave(c) \/ Remove(c)
                       \/ \E sub \in BOOLEAN : Subscribe(c, sub)
  BY DEF Subscriptions
<1>1. CASE Join(c) BY <1>1, ZenonT(60) DEF Join
<1>2. CASE SecondLook(c) BY <1>2 DEF SecondLook
<1>3. CASE Enter(c) BY <1>3 DEF Enter
<1>4. CASE Leave(c) BY <1>4 DEF Leave
<1>5. CASE Remove(c) BY <1>5 DEF Remove, NewConn
<1>6. ASSUME NEW sub \in BOOLEAN, Subscribe(c, sub) PROVE TypeOK'
  <2>1. PICK next \in Stages : conn' = [conn EXCEPT ![c].want = sub, ![c].torn = FALSE, ![c].pc = next]
    BY <1>6 DEF Subscribe
  <2>2. server' \in Conns \cup {Nobody}
    BY <1>6 DEF Subscribe
  <2> HIDE DEF Stages
  <2>3. conn' \in [Conns -> [pc : Stages, want : BOOLEAN, torn : BOOLEAN]]
    BY <2>1
  <2> QED BY <1>6, <2>2, <2>3 DEF Subscribe
<1> QED BY <1>1, <1>2, <1>3, <1>4, <1>5, <1>6

-----------------------------------------------------------------------------
(* What a step of the thread does to the maps: nothing, or the swap. *)
LEMMA ThreadSteps ==
  ASSUME ServiceThread
  PROVE  /\ UNCHANGED <<conn, server>>
         /\ Swap \/ UNCHANGED <<subscribes, new_subscribes>>
  BY DEF ServiceThread, Start, Stop, Switch, Broadcast, Capture, Snapshot, Callback, Swap,
         Encode, EncodeFails, Register, WaitNext, Timeout, Done, serviceVars

(* The thread keeps the membership: the swap moves connections from one    *)
(* map to the other and loses none.                                        *)
LEMMA ThreadMembership == TypeOK /\ Membership /\ ServiceThread => Membership'
<1> SUFFICES ASSUME TypeOK, Membership, ServiceThread PROVE Membership'
  OBVIOUS
<1> USE DEF Membership, NothingLeft, Disjoint, Locked, Asking, Wishes, At
<1>1. CASE Swap BY <1>1 DEF Swap, swap_new_subscribes
<1>2. CASE UNCHANGED <<subscribes, new_subscribes>> BY <1>2, ThreadSteps
<1> QED BY <1>1, <1>2, ThreadSteps

(* The connections' own steps keep it: none of them subscribes or leaves. *)
LEMMA ConnMembership ==
  ASSUME TypeOK, Membership, NEW c \in Conns,
         Deliver(c) \/ VideoReceived(c) \/ LoopEnds(c) \/ Notify(c) \/ Refresh(c)
  PROVE  Membership'
<1> USE DEF TypeOK, Membership, NothingLeft, Disjoint, Locked, Asking, Wishes, At, Goes, serviceVars, threadVars
<1>1. CASE Deliver(c) BY <1>1 DEF Deliver
<1>2. CASE VideoReceived(c) BY <1>2 DEF VideoReceived
<1>3. CASE LoopEnds(c) BY <1>3 DEF LoopEnds, NewConn
<1>4. CASE Notify(c) BY <1>4 DEF Notify
<1>5. CASE Refresh(c) BY <1>5 DEF Refresh
<1> QED BY <1>1, <1>2, <1>3, <1>4, <1>5

(* Subscribing keeps it.  A second look that finds the wished answer is    *)
(* right unless the swap came first, which torn records; on_unsubscribe    *)
(* leaves nothing behind because the maps are disjoint.                    *)
LEMMA SubscribingMembership == TypeOK /\ Membership /\ Subscribing => Membership'
<1> SUFFICES ASSUME TypeOK, Membership, Subscribing PROVE Membership'
  OBVIOUS
<1> USE ServiceAssumption
        DEF TypeOK, Membership, NothingLeft, Disjoint, Locked, Asking, Wishes, At, Goes, on_subscribe, on_unsubscribe
<1> PICK c \in Conns : \/ Join(c) \/ SecondLook(c) \/ Enter(c) \/ Leave(c) \/ Remove(c)
                       \/ \E sub \in BOOLEAN : Subscribe(c, sub)
  BY DEF Subscribing, Subscriptions
<1>1. CASE Join(c) BY <1>1 DEF Join
<1>2. CASE SecondLook(c) BY <1>2 DEF SecondLook
<1>3. CASE Enter(c) BY <1>3 DEF Enter
<1>4. CASE Leave(c) BY <1>4 DEF Leave
<1>5. CASE Remove(c) BY <1>5 DEF Remove, NewConn
<1>6. ASSUME NEW sub \in BOOLEAN, Subscribe(c, sub) PROVE Membership'
  <2>1. UNCHANGED <<subscribes, new_subscribes>> /\ At(c, "on") /\ server = Nobody
    BY <1>6 DEF Subscribe
  <2>2. CASE c \notin subscribes
    <3>1. conn' = [conn EXCEPT ![c].want = sub, ![c].torn = FALSE, ![c].pc = "second"] /\ server' = c
      BY <1>6, <2>2 DEF Subscribe
    <3> QED BY <2>1, <3>1
  <2>3. CASE c \in subscribes /\ sub
    <3>1. conn' = [conn EXCEPT ![c].want = TRUE, ![c].torn = FALSE, ![c].pc = "on"]
      BY <1>6, <2>3 DEF Subscribe
    <3>2. server' = server
      BY <1>6, <2>3 DEF Subscribe
    <3> QED BY <2>1, <2>3, <3>1, <3>2
  <2>4. CASE c \in subscribes /\ ~sub
    <3>1. conn' = [conn EXCEPT ![c].want = FALSE, ![c].torn = FALSE, ![c].pc = "leave"] /\ server' = c
      BY <1>6, <2>4 DEF Subscribe
    <3> QED BY <2>1, <3>1
  <2> QED BY <2>2, <2>3, <2>4
<1> QED BY <1>1, <1>2, <1>3, <1>4, <1>5, <1>6

-----------------------------------------------------------------------------
(* The thread's steps keep what is known of the encoder. *)
LEMMA ThreadEncoding == TypeOK /\ Encoding /\ ServiceThread => Encoding'
<1> SUFFICES ASSUME TypeOK, Encoding, ServiceThread PROVE Encoding'
  OBVIOUS
<1> USE DEF TypeOK, Encoding, KeyedSubscribed, OneEncoder, SwapAlone, Thread, Moves, Ends, serviceVars, peerVars
<1>1. CASE Start BY <1>1 DEF Start
<1>2. CASE Stop BY <1>2 DEF Stop
<1>3. CASE Switch BY <1>3 DEF Switch
<1>4. CASE Broadcast BY <1>4 DEF Broadcast
<1>5. CASE Capture BY <1>5 DEF Capture
<1>6. CASE Snapshot BY <1>6 DEF Snapshot
<1>7. CASE Callback BY <1>7 DEF Callback
<1>8. CASE Swap BY <1>8 DEF Swap, swap_new_subscribes
<1>9. CASE Encode BY <1>9 DEF Encode
<1>10. CASE EncodeFails BY <1>10 DEF EncodeFails
<1>11. CASE Register BY <1>11 DEF Register
<1>12. CASE WaitNext BY <1>12 DEF WaitNext
<1>13. CASE Timeout BY <1>13 DEF Timeout
<1>14. CASE Done BY <1>14 DEF Done
<1> QED BY <1>1, <1>2, <1>3, <1>4, <1>5, <1>6, <1>7, <1>8, <1>9, <1>10, <1>11, <1>12, <1>13, <1>14
        DEF ServiceThread

(* So does subscribing: it adds to new_subscribes only, and whoever leaves *)
(* is forgotten.                                                           *)
LEMMA SubscribingEncoding == TypeOK /\ Membership /\ Encoding /\ Subscribing => Encoding'
<1> SUFFICES ASSUME TypeOK, Membership, Encoding, Subscribing PROVE Encoding'
  OBVIOUS
<1>1. PICK c \in Conns : UNCHANGED <<subscribes, new_subscribes>> \/ on_subscribe(c) \/ on_unsubscribe(c)
  BY DEF Subscribing, Subscriptions, Join, SecondLook, Enter, Leave, Remove, Subscribe
<1>2. UNCHANGED svc /\ keyed' = keyed \cap (subscribes' \cup new_subscribes')
  BY DEF Subscribing
<1>3. subscribes' \subseteq subscribes /\ keyed' = keyed \cap subscribes'
  BY <1>1, <1>2 DEF on_subscribe, on_unsubscribe, Encoding, KeyedSubscribed, Membership, Disjoint
<1> QED BY <1>2, <1>3 DEF Encoding, KeyedSubscribed, OneEncoder, SwapAlone, Thread

(* The invariant is inductive. *)
LEMMA StepInv == IInv /\ [Next]_vars => IInv'
<1> SUFFICES ASSUME IInv, [Next]_vars PROVE IInv'
  OBVIOUS
<1>1. CASE ServiceThread
  BY <1>1, ThreadType, ThreadMembership, ThreadEncoding DEF IInv
<1>2. CASE Subscribing
  BY <1>2, SubscribingType, SubscribingMembership, SubscribingEncoding DEF IInv
<1>3. ASSUME NEW c \in Conns, Deliver(c) \/ VideoReceived(c) \/ LoopEnds(c) \/ Notify(c) \/ Refresh(c)
      PROVE  IInv'
  <2>1. UNCHANGED <<svc, keyed, subscribes>>
    BY <1>3 DEF Deliver, VideoReceived, LoopEnds, Notify, Refresh, serviceVars, threadVars
  <2>2. Encoding'
    BY <2>1 DEF IInv, Encoding, KeyedSubscribed, OneEncoder, SwapAlone, Thread
  <2> QED BY <1>3, <2>2, ConnType, ConnMembership DEF IInv
<1>4. CASE UNCHANGED vars
  <2> USE <1>4 DEF vars, serviceVars, threadVars, peerVars
  <2>1. TypeOK' BY DEF IInv, TypeOK
  <2>2. Membership' BY DEF IInv, Membership, NothingLeft, Disjoint, Locked, Asking, Wishes, At
  <2>3. Encoding' BY DEF IInv, Encoding, KeyedSubscribed, OneEncoder, SwapAlone, Thread
  <2> QED BY <2>1, <2>2, <2>3 DEF IInv
<1> QED BY <1>1, <1>2, <1>3, <1>4 DEF Next

(* The invariant holds in every state of the video service. *)
THEOREM ServiceInvariant == Spec => []IInv
  BY InitInv, StepInv, PTL DEF Spec

(* A connection that is gone is in neither map of the service, however its *)
(* subscriptions, its removal and the thread's swaps interleave.           *)
THEOREM GoneIsUnsubscribed == Spec => []NothingLeft
<1>1. IInv => NothingLeft BY DEF IInv, Membership
<1> QED BY <1>1, ServiceInvariant, PTL

(* Server::subscribe does what it was asked for, but for a wish to leave   *)
(* that falls between the two looks of is_subed and is recorded as torn.   *)
THEOREM AskedIsDone == Spec => []SubscribedAsAsked
<1>1. IInv => SubscribedAsAsked BY DEF IInv, Membership, Wishes, SubscribedAsAsked, At
<1> QED BY <1>1, ServiceInvariant, PTL

(* handle_one_frame never encodes a frame that builds on earlier ones for  *)
(* a mix of connections that have and have not got the key frame.          *)
THEOREM EncoderIsShared == Spec => []SharedEncoder
<1>1. IInv => SharedEncoder BY DEF IInv, Encoding, KeyedSubscribed, OneEncoder, SharedEncoder
<1> QED BY <1>1, ServiceInvariant, PTL
=============================================================================
