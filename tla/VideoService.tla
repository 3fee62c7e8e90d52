---------------------------- MODULE VideoService ----------------------------
(***************************************************************************)
(* The video service of one display (src/server/video_service.rs): its     *)
(* thread captures and encodes frames, sends each to all subscribers and   *)
(* waits until all have fetched it or a timeout has passed.  An encoder    *)
(* starts with a key frame and cannot be joined later, so the thread       *)
(* starts a new one (SWITCH) when a subscriber comes in.                   *)
(***************************************************************************)
EXTENDS HostService

CONSTANTS
  AckRequired,   \* the connections whose peer acknowledges frames itself
  MaxSwitches    \* bound: refreshes, and changes that restart the encoder

ASSUME VideoAssumption == AckRequired \subseteq Conns /\ MaxSwitches \in Nat

VARIABLES
  svc,          \* the service's thread
  queued,       \* the connections with frames in rx_video, however many
  owing,        \* those whose peer has frames it has not acknowledged
  display_ids,  \* DISPLAY_CONN_IDS of this display
  fetched,      \* the channel of FRAME_FETCHED_NOTIFIERS: who has fetched
  refresh,      \* OPTION_REFRESH
  switches,     \* refreshes and other reasons to switch so far
  keyed         \* history: who has been sent the encoder's key frame

threadVars == <<svc, display_ids, refresh, switches, keyed>>
peerVars == <<queued, owing>>
vars == <<serviceVars, threadVars, peerVars, fetched>>

(* pc: where the thread is. key: the encoder has not made a frame yet. ids *)
(* and got: send_conn_ids and fetched_conn_ids.                            *)
Init ==
  /\ ServiceInit
  /\ svc = [pc |-> "hibernate", key |-> TRUE, ids |-> {}, got |-> {}]
  /\ queued = {} /\ owing = {}
  /\ display_ids = {} /\ fetched = {}
  /\ refresh = FALSE /\ switches = 0
  /\ keyed = {}

Thread(pc) == svc.pc = pc

Moves(pc) == svc' = [svc EXCEPT !.pc = pc]

----------------------------------------------------------------------------
(* The thread. *)

(* run is called; a capturer and an encoder are made. *)
Start ==
  /\ Thread("hibernate") /\ has_subscribes
  /\ svc' = [pc |-> "top", key |-> TRUE, ids |-> {}, got |-> {}]
  /\ refresh' = FALSE /\ keyed' = {}
  /\ UNCHANGED <<serviceVars, peerVars, display_ids, fetched, switches>>

(* The end of run: the guard Raii is dropped. *)
Ends == svc' = [pc |-> "hibernate", key |-> TRUE, ids |-> {}, got |-> {}] /\ display_ids' = {}

(* Nobody is left. *)
Stop ==
  /\ Thread("top") /\ ~has_subscribes
  /\ Ends
  /\ UNCHANGED <<serviceVars, peerVars, fetched, refresh, switches, keyed>>

(* A refresh is asked for, or the codec, the desktop or the privacy mode   *)
(* has changed; the latter is also seen while waiting.                     *)
Switch ==
  /\ \/ Thread("top") /\ has_subscribes /\ refresh /\ UNCHANGED switches
     \/ Thread("top") /\ has_subscribes /\ switches < MaxSwitches /\ switches' = switches + 1
     \/ Thread("wait") /\ svc.ids # {} /\ switches < MaxSwitches /\ switches' = switches + 1
  /\ Moves("broadcast")
  /\ UNCHANGED <<serviceVars, peerVars, display_ids, fetched, refresh, keyed>>

(* try_broadcast_display_changed: if the display has changed everybody is  *)
(* told, the new subscribers by a snapshot.                                *)
Broadcast ==
  /\ Thread("broadcast")
  /\ \/ Ends
     \/ new_subscribes # {} /\ Moves("bail") /\ UNCHANGED display_ids
  /\ UNCHANGED <<serviceVars, peerVars, fetched, refresh, switches, keyed>>

(* A turn of the loop in which there is a frame; a turn in which capturing *)
(* would block changes nothing.                                            *)
Capture ==
  /\ Thread("top") /\ has_subscribes /\ ~refresh
  /\ Moves("snapshot")
  /\ UNCHANGED <<serviceVars, peerVars, display_ids, fetched, refresh, switches, keyed>>

(* Mutant: it looks for old subscribers. *)
SnapshotOfOld ==
  /\ Thread("snapshot")
  /\ Moves(IF subscribes # {} THEN "callback" ELSE "encode")
  /\ UNCHANGED <<serviceVars, peerVars, display_ids, fetched, refresh, switches, keyed>>

(* handle_one_frame: snapshot looks for new subscribers, its callback for  *)
(* old ones, and new ones are moved when the callback is over.             *)
Snapshot ==
  /\ Thread("snapshot")
  /\ Moves(IF new_subscribes # {} THEN "callback" ELSE "encode")
  /\ UNCHANGED <<serviceVars, peerVars, display_ids, fetched, refresh, switches, keyed>>

(* Mutant: the encoder goes on with a new subscriber. *)
CallbackGoesOn ==
  /\ Thread("callback")
  /\ Moves("swap")
  /\ UNCHANGED <<serviceVars, peerVars, display_ids, fetched, refresh, switches, keyed>>

Callback ==
  /\ Thread("callback")
  /\ Moves(IF subscribes # {} THEN "bail" ELSE "swap")
  /\ UNCHANGED <<serviceVars, peerVars, display_ids, fetched, refresh, switches, keyed>>

Swap ==
  /\ \/ Thread("swap") /\ Moves("encode") /\ UNCHANGED display_ids
     \/ Thread("bail") /\ Ends
  /\ swap_new_subscribes
  /\ UNCHANGED <<conn, server, peerVars, fetched, refresh, switches, keyed>>

(* The frame is encoded and sent, by send_video_frame, to whoever is       *)
(* subscribed by now.                                                      *)
Encode ==
  /\ Thread("encode")
  /\ svc' = [svc EXCEPT !.pc = "register", !.key = FALSE, !.ids = subscribes]
  /\ queued' = queued \cup {c \in subscribes : conn[c].pc \notin {"notifyLast", "closing"}}
  /\ keyed' = IF svc.key THEN subscribes ELSE keyed
  /\ UNCHANGED <<serviceVars, owing, display_ids, fetched, refresh, switches>>

EncodeFails ==
  /\ Thread("encode")
  /\ \/ Moves("register") /\ UNCHANGED <<display_ids, switches>>
     \/ switches < MaxSwitches /\ switches' = switches + 1 /\ Ends
  /\ UNCHANGED <<serviceVars, peerVars, fetched, refresh, keyed>>

(* set_send *)
Register ==
  /\ Thread("register")
  /\ svc' = [svc EXCEPT !.pc = IF svc.ids = {} THEN "done" ELSE "wait", !.got = {}]
  /\ display_ids' = IF svc.ids = {} THEN display_ids ELSE svc.ids
  /\ UNCHANGED <<serviceVars, peerVars, fetched, refresh, switches, keyed>>

(* try_wait_next takes all that is in the channel, and the numbers are     *)
(* compared.                                                               *)
WaitNext ==
  /\ Thread("wait") /\ fetched # {}
  /\ svc' = [svc EXCEPT !.got = svc.got \cup fetched,
                        !.pc = IF Cardinality(svc.got \cup fetched) >= Cardinality(svc.ids) THEN "done" ELSE "wait"]
  /\ fetched' = {}
  /\ UNCHANGED <<serviceVars, peerVars, display_ids, refresh, switches, keyed>>

Timeout ==
  /\ Thread("wait") /\ Moves("done")
  /\ UNCHANGED <<serviceVars, peerVars, display_ids, fetched, refresh, switches, keyed>>

Done ==
  /\ Thread("done")
  /\ svc' = [svc EXCEPT !.pc = "top", !.ids = {}, !.got = {}]
  /\ display_ids' = {}
  /\ UNCHANGED <<serviceVars, peerVars, fetched, refresh, switches, keyed>>

ServiceThread ==
  Start \/ Stop \/ Switch \/ Broadcast \/ Capture \/ Snapshot \/ Callback \/ Swap
    \/ Encode \/ EncodeFails \/ Register \/ WaitNext \/ Timeout \/ Done

----------------------------------------------------------------------------
(* The connections. *)

(* A frame is taken from rx_video and sent; it counts as fetched at once   *)
(* unless the peer acknowledges frames.                                    *)
Deliver(c) ==
  /\ At(c, "on") /\ c \in queued
  /\ queued' \in {queued, queued \ {c}}
  /\ IF c \in AckRequired THEN owing' = owing \cup {c} /\ UNCHANGED fetched
     ELSE fetched' = fetched \cup {c} /\ UNCHANGED owing
  /\ UNCHANGED <<serviceVars, threadVars>>

(* notify_video_frame_fetched_by_conn_id looks up where the connection is  *)
(* waited for, and tells the service afterwards.                           *)
VideoReceived(c) ==
  /\ At(c, "on") /\ c \in owing
  /\ owing' \in {owing, owing \ {c}}
  /\ Goes(c, IF c \in display_ids THEN "notify" ELSE "on")
  /\ UNCHANGED <<server, subscribes, new_subscribes, threadVars, queued, fetched>>

(* The connection's loop ends. *)
LoopEnds(c) ==
  /\ At(c, "on")
  /\ conn' = [conn EXCEPT ![c] = [NewConn EXCEPT !.pc = IF c \in display_ids THEN "notifyLast" ELSE "closing"]]
  /\ queued' = queued \ {c} /\ owing' = owing \ {c}
  /\ UNCHANGED <<server, subscribes, new_subscribes, threadVars, fetched>>

Notify(c) ==
  /\ \/ At(c, "notify") /\ Goes(c, "on")
     \/ At(c, "notifyLast") /\ Goes(c, "closing")
  /\ fetched' = fetched \cup {c}
  /\ UNCHANGED <<server, subscribes, new_subscribes, threadVars, peerVars>>

(* refresh_video_display *)
Refresh(c) ==
  /\ At(c, "on") /\ switches < MaxSwitches
  /\ refresh' = TRUE /\ switches' = switches + 1
  /\ UNCHANGED <<serviceVars, peerVars, svc, display_ids, fetched, keyed>>

(* The steps of HostService; whoever leaves starts anew. *)
Subscribing ==
  /\ Subscriptions
  /\ keyed' = keyed \cap (subscribes' \cup new_subscribes')
  /\ UNCHANGED <<svc, display_ids, refresh, switches, peerVars, fetched>>

Next ==
  \/ ServiceThread
  \/ Subscribing
  \/ \E c \in Conns : Deliver(c) \/ VideoReceived(c) \/ LoopEnds(c) \/ Notify(c) \/ Refresh(c)

(* The thread keeps running, a capturer can be made in the end and the     *)
(* screen changes again; the timer of a wait runs however many             *)
(* acknowledgements come.                                                  *)
Fairness == WF_vars(ServiceThread) /\ WF_vars(Timeout)

Spec == Init /\ [][Next]_vars /\ Fairness

----------------------------------------------------------------------------
(* Properties *)

Stages == {"out", "on", "second", "enter", "leave", "notify", "notifyLast", "closing", "gone"}

ThreadStages == {"hibernate", "top", "broadcast", "bail", "snapshot", "callback", "swap", "encode", "register", "wait", "done"}

(* The types of the variables. *)
TypeOK ==
  /\ conn \in [Conns -> [pc : Stages, want : BOOLEAN, torn : BOOLEAN]]
  /\ server \in Conns \cup {Nobody}
  /\ subscribes \subseteq Conns /\ new_subscribes \subseteq Conns
  /\ svc \in [pc : ThreadStages, key : BOOLEAN, ids : SUBSET Conns, got : SUBSET Conns]
  /\ queued \subseteq Conns /\ owing \subseteq Conns
  /\ display_ids \subseteq Conns /\ fetched \subseteq Conns
  /\ refresh \in BOOLEAN /\ switches \in 0..MaxSwitches
  /\ keyed \subseteq Conns

(* A connection that is gone is subscribed nowhere: on_unsubscribe removes *)
(* it from one of the two maps only, so it must never be in both, however  *)
(* subscribing and the thread's swap interleave.                           *)
NothingLeft == \A c \in Conns : conn[c].pc \in {"out", "gone"} => c \notin subscribes \cup new_subscribes

(* Once Server::subscribe has returned the connection is subscribed if and *)
(* only if it asked to be, with one exception: asking to leave is lost if  *)
(* the swap falls between the two looks of is_subed.                       *)
SubscribedAsAsked ==
  \A c \in Conns : At(c, "on") =>
    /\ conn[c].want => c \in subscribes \cup new_subscribes
    /\ c \in subscribes \cup new_subscribes => conn[c].want \/ conn[c].torn

(* A frame that builds on earlier ones goes to connections that have all   *)
(* been sent the encoder's key frame, or none of which has: a newcomer     *)
(* never joins the encoder of others.                                      *)
SharedEncoder ==
  Thread("encode") /\ ~svc.key => \A c, d \in subscribes : c \in keyed => d \in keyed

(* Whoever subscribes is taken over by the service in the end. *)
NewcomersServed == \A c \in Conns : c \in new_subscribes ~> c \notin new_subscribes
=============================================================================
