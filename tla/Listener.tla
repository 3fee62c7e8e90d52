------------------------------ MODULE Listener ------------------------------
(***************************************************************************)
(* One mapping of a port-forward window: its listener (listen,             *)
(* establish_tunnel, connect_and_login and connect_and_login_mux in        *)
(* src/src/port_forward.rs), the mode it has latched (Tunnel), and the     *)
(* loops of the tunnels it has set up (set_muxed and tunnel_loop in        *)
(* src/src/port_forward_mux.rs).                                           *)
(*                                                                         *)
(* The listener is one task: while it logs in it accepts nothing and reads *)
(* the window's messages only where the login does.  A tunnel loop is a    *)
(* task of its own that shares the latched state with the listener.  What  *)
(* happens inside a tunnel is MuxTunnel's subject, how mappings log in     *)
(* side by side is PortForwardLogin's.                                     *)
(***************************************************************************)
EXTENDS Naturals, FiniteSets

CONSTANTS
  port_forward_mux,  \* LoginConfigHandler.port_forward_mux, fixed per window
  MaxTunnels         \* bound: tunnels one listener sets up

ASSUME ListenerAssumption == port_forward_mux \in BOOLEAN /\ MaxTunnels \in Nat \ {0}

Handles == 1..MaxTunnels

VARIABLES
  listener,   \* accept; start, confirm, login (inside connect_and_login);
              \*   publish, spawn (inside set_muxed); stopped
  probing,    \* the login in progress is establish_tunnel's
  state,      \* TunnelState, with its handle
  loop,       \* handle -> its tunnel_loop
  used,       \* handles created so far
  mapped,     \* the window still has the mapping in `queues`
  close       \* a Data::Close waits in ui_receiver

vars == <<listener, probing, state, loop, used, mapped, close>>

Unset == [kind |-> "Unset", h |-> 0]
Legacy == [kind |-> "Legacy", h |-> 0]
Failed == [kind |-> "Failed", h |-> 0]
Muxed(h) == [kind |-> "Muxed", h |-> h]

(* Mutant of claim: a legacy peer is probed again at every accept. *)
claimProbesAgain ==
  IF ~port_forward_mux THEN "Legacy"
  ELSE IF state.kind = "Muxed" THEN "Muxed" ELSE "Claimed"

(* What the accept loop does next with a connection. *)
claim ==
  IF ~port_forward_mux \/ state.kind = "Legacy" THEN "Legacy"
  ELSE IF state.kind = "Muxed" THEN "Muxed" ELSE "Claimed"

(* Loops that have not run their last statement but one, the reset. *)
Unfinished(h) == loop[h] \in {"ready", "running", "sending", "broken", "closed"}

Init ==
  /\ listener = "accept" /\ probing = FALSE
  /\ state = Unset /\ loop = [h \in Handles |-> "none"] /\ used = 0
  /\ mapped = TRUE /\ close = FALSE

----------------------------------------------------------------------------
(* The window.                                                             *)

(* RemovePortForward: the mapping's sender is told to close and dropped. *)
RemovePortForward ==
  /\ mapped
  /\ mapped' = FALSE /\ close' = TRUE
  /\ UNCHANGED <<listener, probing, state, loop, used>>

----------------------------------------------------------------------------
(* The listener.                                                           *)

Go(l) == listener' = l /\ UNCHANGED <<probing, state, loop, used, mapped, close>>

(* A connection is accepted.  On a tunnel it becomes a channel (or is      *)
(* dropped, if open() finds the tunnel gone) and the listener stays here.  *)
Accept ==
  /\ listener = "accept"
  /\ IF claim = "Muxed"
       THEN UNCHANGED <<listener, probing>>
       ELSE listener' = "start" /\ probing' = (claim = "Claimed")
  /\ UNCHANGED <<state, loop, used, mapped, close>>

(* A login that ends without a stream: establish_tunnel latches Failed,    *)
(* the raw pipe latches nothing.  `stop` is close_port_forward.            *)
GiveUp(stop) ==
  /\ listener' = IF stop THEN "stopped" ELSE "accept"
  /\ state' = IF probing THEN Failed ELSE state
  /\ UNCHANGED <<probing, loop, used, mapped>>

StartFailed == listener = "start" /\ GiveUp(FALSE) /\ close' = close

Started(secured) == listener = "start" /\ Go(IF secured THEN "login" ELSE "confirm")

Continue == listener = "confirm" /\ Go("login")

(* confirm_insecure_connection refused by the user, or closed; with its    *)
(* sender gone the receiver yields None, which refuses too.                *)
Refuse ==
  /\ listener = "confirm"
  /\ GiveUp(TRUE) /\ close' = FALSE

(* Time-out, reset, refusal; a raw pipe also gives up at the local EOF,    *)
(* which a probing login only notes.                                       *)
LoginFailed == listener = "login" /\ GiveUp(FALSE) /\ close' = close

(* Both login loops read ui_receiver and ignore everything but Login and   *)
(* Message, Close included.                                                *)
CloseIgnored ==
  /\ listener = "login" /\ close
  /\ close' = FALSE
  /\ UNCHANGED <<listener, probing, state, loop, used, mapped>>

(* PeerInfo.  A raw pipe is handed to run_forward or run_legacy; the peer  *)
(* answers a probing login with or without the feature.                    *)
LoggedIn(mux) ==
  /\ listener = "login" /\ (mux => probing /\ used < MaxTunnels)
  /\ listener' = IF mux THEN "publish" ELSE "accept"
  /\ state' = IF probing /\ ~mux THEN Legacy ELSE state
  /\ UNCHANGED <<probing, loop, used, mapped, close>>

(* Mutant of Publish: the loop is spawned first, the handle not published. *)
SpawnFirst ==
  /\ listener = "publish"
  /\ used' = used + 1
  /\ loop' = [loop EXCEPT ![used'] = "running"]
  /\ listener' = "spawn"
  /\ UNCHANGED <<probing, state, mapped, close>>

(* set_muxed publishes the handle before it spawns the loop ... *)
Publish ==
  /\ listener = "publish"
  /\ used' = used + 1
  /\ state' = Muxed(used')
  /\ loop' = [loop EXCEPT ![used'] = "ready"]
  /\ listener' = "spawn"
  /\ UNCHANGED <<probing, mapped, close>>

(* ... and then the connection that brought it up becomes a channel,       *)
(* unless it has ended meanwhile.                                          *)
Spawn ==
  /\ listener = "spawn"
  /\ loop' = [loop EXCEPT ![used] = "running"]
  /\ listener' = "accept"
  /\ UNCHANGED <<probing, state, used, mapped, close>>

(* Data::Close in the accept loop ends the listener and drops its Tunnel. *)
Stop ==
  /\ listener = "accept" /\ close
  /\ listener' = "stopped" /\ close' = FALSE
  /\ UNCHANGED <<probing, state, loop, used, mapped>>

----------------------------------------------------------------------------
(* tunnel_loop.                                                            *)

SetLoop(h, l) ==
  /\ loop' = [loop EXCEPT ![h] = l]
  /\ UNCHANGED <<listener, probing, state, used, mapped, close>>

LoopSend(h) == loop[h] = "running" /\ SetLoop(h, "sending")
LoopSent(h) == loop[h] = "sending" /\ SetLoop(h, "running")

(* A failed read or send, a time-out, or the peer's close reason. *)
LoopBreak(h) == loop[h] \in {"running", "sending"} /\ SetLoop(h, "broken")

(* Mutant of LifetimeOver: the loop does not watch the listener's life. *)
LifetimeIgnored(h) == listener = "stopped" /\ loop[h] = "running" /\ SetLoop(h, "running")

(* lifetime.changed() fails once the listener has dropped the Tunnel. *)
LifetimeOver(h) == listener = "stopped" /\ loop[h] = "running" /\ SetLoop(h, "broken")

CloseAll(h) == loop[h] = "broken" /\ SetLoop(h, "closed")

(* Mutant of Reset: the loop returns and leaves the state as it was. *)
ResetForgotten(h) == loop[h] = "closed" /\ SetLoop(h, "done")

(* The reset does not look whose handle the state holds. *)
Reset(h) ==
  /\ loop[h] = "closed"
  /\ loop' = [loop EXCEPT ![h] = "done"]
  /\ state' = Unset
  /\ UNCHANGED <<listener, probing, used, mapped, close>>

----------------------------------------------------------------------------
LoginStep == StartFailed \/ (\E secured \in BOOLEAN : Started(secured)) \/ LoginFailed
             \/ (\E mux \in BOOLEAN : LoggedIn(mux)) \/ Publish \/ Spawn

LoopEnds(h) == LifetimeOver(h) \/ CloseAll(h) \/ Reset(h)

Next ==
  \/ RemovePortForward \/ Accept \/ LoginStep \/ Continue \/ Refuse
  \/ CloseIgnored \/ Stop
  \/ \E h \in Handles : LoopSend(h) \/ LoopSent(h) \/ LoopBreak(h) \/ LoopEnds(h)

Spec == Init /\ [][Next]_vars

(* A login ends one way or another (connect and read time-outs), the       *)
(* listener reads its queue and loops run; nothing is assumed of a loop's  *)
(* sends, which have no time-out on this side.  Strong fairness for Stop   *)
(* and LifetimeOver: the selects are random, so neither is passed over for *)
(* ever by connections or frames.  The user may leave the                  *)
(* insecure-connection question open, but a Close, or the end of the       *)
(* window's queue after it, answers it.                                    *)
Fairness ==
  /\ WF_vars(LoginStep) /\ SF_vars(Stop) /\ WF_vars(Refuse /\ (close \/ ~mapped))
  /\ \A h \in Handles : SF_vars(LifetimeOver(h)) /\ WF_vars(CloseAll(h)) /\ WF_vars(Reset(h))

FairSpec == Spec /\ Fairness

----------------------------------------------------------------------------
TypeOK ==
  /\ listener \in {"accept", "start", "confirm", "login", "publish", "spawn", "stopped"}
  /\ probing \in BOOLEAN
  /\ state \in {Unset, Legacy, Failed} \cup {Muxed(h) : h \in Handles}
  /\ loop \in [Handles -> {"none", "ready", "running", "sending", "broken", "closed", "done"}]
  /\ used \in 0..MaxTunnels /\ \A h \in Handles : h > used => loop[h] = "none"
  /\ mapped \in BOOLEAN /\ close \in BOOLEAN

(* The state is never left at Muxed with a handle whose loop has already   *)
(* reset it ("would pin it at Muxed with a dead handle and the listener    *)
(* could never re-establish"), and a live loop's handle is always the one  *)
(* the listener hands out, so no loop's reset can hit another's tunnel.    *)
NeverPinned ==
  /\ state.kind = "Muxed" => Unfinished(state.h)
  /\ \A h \in Handles : Unfinished(h) => state = Muxed(h)

(* The peer's answer fixes the listener's mode until it closes: Legacy is  *)
(* never left, not even by the reset of a tunnel set up earlier.           *)
LegacyLatched == [][state = Legacy => state' = Legacy]_state

(* A tunnel that breaks is always replaced: the state it occupied becomes  *)
(* claimable and no accept is served from the dead handle for ever.        *)
BrokenIsReplaced ==
  \A h \in Handles : loop[h] = "broken" ~> state # Muxed(h)

(* Dropping the Tunnel ends every loop, however busy its tunnel, unless a  *)
(* send never returns: the loop looks at its lifetime between sends only,  *)
(* and a peer that does not read keeps it in one for ever.                 *)
StoppedEndsTunnels ==
  \A h \in Handles :
    listener = "stopped" ~> (loop[h] \in {"none", "done"} \/ [](loop[h] = "sending"))

(* Removing a mapping closes its listener.  "Re-adding the mapping is how  *)
(* a user picks up an upgraded peer" (src/src/port_forward.rs:344) rests   *)
(* on it: the mode is latched until the listener closes.                   *)
RemovedStops == ~mapped ~> listener = "stopped"
=============================================================================
