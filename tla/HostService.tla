---------------------------- MODULE HostService ----------------------------
(***************************************************************************)
(* One service of the controlled side and its subscribers                  *)
(* (src/server/service.rs, src/server.rs).  A service has a thread of its  *)
(* own; connections subscribe and leave at any time.  Whoever subscribes   *)
(* waits among the new subscribers until the thread has shown them where   *)
(* things stand (a snapshot).  The lock of the Server is held by a         *)
(* connection for a whole call; the service takes its own lock anew for    *)
(* every look, also twice within is_subed.                                 *)
(***************************************************************************)
EXTENDS Integers, FiniteSets

CONSTANTS
  Conns,      \* connection ids; an id is never used twice
  Nobody      \* no connection

ASSUME ServiceAssumption == Nobody \notin Conns /\ IsFiniteSet(Conns)

VARIABLES
  conn,            \* the connections
  server,          \* who holds the lock of the Server, or nobody
  subscribes,      \* ServiceInner::subscribes
  new_subscribes   \* ServiceInner::new_subscribes

serviceVars == <<conn, server, subscribes, new_subscribes>>

(* pc: where the task is. want: whether it has asked to be subscribed.     *)
(* torn (history): its wish to leave was lost, because is_subed missed it. *)
NewConn == [pc |-> "out", want |-> FALSE, torn |-> FALSE]

ServiceInit ==
  /\ conn = [c \in Conns |-> NewConn]
  /\ server = Nobody
  /\ subscribes = {} /\ new_subscribes = {}

At(c, pc) == conn[c].pc = pc

Goes(c, pc) == conn' = [conn EXCEPT ![c].pc = pc]

has_subscribes == subscribes # {} \/ new_subscribes # {}

(* Mutant: a connection that is subscribed becomes a new subscriber too. *)
SubscribesAgain(c) == new_subscribes' = new_subscribes \cup {c} /\ UNCHANGED subscribes

on_subscribe(c) ==
  /\ new_subscribes' = IF c \in subscribes THEN new_subscribes ELSE new_subscribes \cup {c}
  /\ UNCHANGED subscribes

(* Mutant: a new subscriber cannot leave. *)
LeavesOnlyOld(c) == subscribes' = subscribes \ {c} /\ UNCHANGED new_subscribes

on_unsubscribe(c) ==
  /\ subscribes' = subscribes \ {c}
  /\ new_subscribes' = IF c \in subscribes THEN new_subscribes ELSE new_subscribes \ {c}

swap_new_subscribes == subscribes' = subscribes \cup new_subscribes /\ new_subscribes' = {}

----------------------------------------------------------------------------
(* A connection is let in: add_monitor_connection. *)
Join(c) ==
  /\ At(c, "out") /\ server = Nobody
  /\ on_subscribe(c)
  /\ conn' = [conn EXCEPT ![c].pc = "on", ![c].want = TRUE]
  /\ UNCHANGED server

(* Server::subscribe, called when the peer switches displays or a          *)
(* permission changes. The first look of is_subed is at subscribes.        *)
Subscribe(c, sub) ==
  /\ At(c, "on") /\ server = Nobody
  /\ conn' = [conn EXCEPT ![c].want = sub, ![c].torn = FALSE,
                          ![c].pc = IF c \notin subscribes THEN "second" ELSE IF sub THEN "on" ELSE "leave"]
  /\ server' = IF c \in subscribes /\ sub THEN Nobody ELSE c
  /\ UNCHANGED <<subscribes, new_subscribes>>

(* The second look is at new_subscribes; nothing is done if the answer is  *)
(* the wanted one.                                                         *)
SecondLook(c) ==
  LET done == (c \in new_subscribes) = conn[c].want
  IN /\ At(c, "second")
     /\ conn' = [conn EXCEPT ![c].torn = c \in subscribes /\ done,
                             ![c].pc = IF done THEN "on" ELSE IF conn[c].want THEN "enter" ELSE "leave"]
     /\ server' = IF done THEN Nobody ELSE server
     /\ UNCHANGED <<subscribes, new_subscribes>>

Enter(c) ==
  /\ At(c, "enter")
  /\ on_subscribe(c)
  /\ Goes(c, "on") /\ server' = Nobody

Leave(c) ==
  /\ At(c, "leave")
  /\ on_unsubscribe(c)
  /\ Goes(c, "on") /\ server' = Nobody

(* remove_connection, the last thing a connection does. *)
Remove(c) ==
  /\ At(c, "closing") /\ server = Nobody
  /\ on_unsubscribe(c)
  /\ conn' = [conn EXCEPT ![c] = [NewConn EXCEPT !.pc = "gone"]]
  /\ UNCHANGED server

Subscriptions ==
  \E c \in Conns :
    \/ Join(c) \/ SecondLook(c) \/ Enter(c) \/ Leave(c) \/ Remove(c)
    \/ \E sub \in BOOLEAN : Subscribe(c, sub)
=============================================================================
