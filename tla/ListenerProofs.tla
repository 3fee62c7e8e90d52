--------------------------- MODULE ListenerProofs ---------------------------
(***************************************************************************)
(* NeverPinned and LegacyLatched for a listener that sets up any number of *)
(* tunnels.  NeverPinned is not inductive: that a probing login finds no   *)
(* tunnel left behind rests on when the claim let it start.                *)
(***************************************************************************)
EXTENDS Listener, TLAPS

(* Inside connect_and_login or set_muxed, for establish_tunnel. *)
Establishing == probing /\ listener \in {"start", "confirm", "login", "publish"}

(* Type correctness as the provers use it: loop and used on their own. *)
Typed ==
  /\ listener \in {"accept", "start", "confirm", "login", "publish", "spawn", "stopped"}
  /\ probing \in BOOLEAN
  /\ state \in {Unset, Legacy, Failed} \cup {Muxed(h) : h \in Handles}
  /\ loop \in [Handles -> {"none", "ready", "running", "sending", "broken", "closed", "done"}]
  /\ used \in 0..MaxTunnels
  /\ mapped \in BOOLEAN /\ close \in BOOLEAN

Fresh == \A h \in Handles : h > used => loop[h] = "none"

(* While a tunnel is being established no other exists, and the mode is    *)
(* still open; the handle of a loop not yet spawned is the last one.       *)
Order ==
  /\ Establishing => state \in {Unset, Failed}
  /\ listener = "publish" => probing /\ used < MaxTunnels
  /\ listener = "spawn" => used \in Handles /\ state = Muxed(used) /\ loop[used] = "ready"
  /\ \A h \in Handles : loop[h] = "ready" => listener = "spawn" /\ h = used

IInv == Typed /\ Fresh /\ Order /\ NeverPinned

LEMMA StatesDiffer ==
  /\ Unset # Legacy /\ Unset # Failed /\ Legacy # Failed
  /\ \A h : Muxed(h) # Unset /\ Muxed(h) # Legacy /\ Muxed(h) # Failed
  /\ \A h : Muxed(h).kind = "Muxed" /\ Muxed(h).h = h
  /\ Unset.kind = "Unset" /\ Legacy.kind = "Legacy" /\ Failed.kind = "Failed"
  /\ \A g, h : Muxed(g) = Muxed(h) => g = h
BY DEF Unset, Legacy, Failed, Muxed

LEMMA InitIInv == Init => IInv
<1> SUFFICES ASSUME Init PROVE IInv OBVIOUS
<1>1. Typed
  <2>1. state \in {Unset, Legacy, Failed} BY DEF Init
  <2>2. used \in 0..MaxTunnels BY ListenerAssumption DEF Init
  <2>3. loop \in [Handles -> {"none", "ready", "running", "sending", "broken", "closed", "done"}]
    BY DEF Init
  <2> QED BY <2>1, <2>2, <2>3 DEF Init, Typed
<1>2. Fresh BY DEF Init, Fresh
<1>3. Order BY DEF Init, Order, Establishing
<1>4. NeverPinned BY StatesDiffer DEF Init, NeverPinned, Unfinished
<1> QED BY <1>1, <1>2, <1>3, <1>4 DEF IInv

(* Steps of the window and of the listener that touch neither the state    *)
(* nor a loop.                                                             *)
LEMMA QuietStep ==
  ASSUME IInv, Typed', Establishing' => state \in {Unset, Failed},
         UNCHANGED <<state, loop, used>>,
         (listener # "spawn" /\ listener' \notin {"publish", "spawn"})
         \/ (listener' = listener /\ probing' = probing)
  PROVE  IInv'
<1>1. Fresh' BY DEF IInv, Fresh
<1>2. NeverPinned' BY DEF IInv, NeverPinned, Unfinished
<1>3. Order' BY DEF IInv, Order, Establishing
<1> QED BY <1>1, <1>2, <1>3 DEF IInv

(* A tunnel loop moves without resetting the state. *)
LEMMA LoopMoves ==
  ASSUME IInv, NEW h \in Handles, NEW l \in {"running", "sending", "broken", "closed"},
         loop[h] \in {"running", "sending", "broken"}, SetLoop(h, l)
  PROVE  IInv'
<1> USE DEF IInv, SetLoop
<1>1. loop' = [loop EXCEPT ![h] = l] /\ UNCHANGED <<listener, probing, state, used, mapped, close>>
  OBVIOUS
<1>2. Typed' BY <1>1 DEF Typed
<1>3. Fresh' BY <1>1 DEF Typed, Fresh
<1>4. Order' BY <1>1 DEF Typed, Order, Establishing
<1>5. NeverPinned' BY <1>1 DEF Typed, NeverPinned, Unfinished
<1> QED BY <1>2, <1>3, <1>4, <1>5

(* A login given up: nothing unfinished is left where Failed is latched. *)
LEMMA GivesUp ==
  ASSUME IInv, NEW stop \in BOOLEAN, GiveUp(stop), close' \in BOOLEAN,
         listener \in {"start", "confirm", "login"}
  PROVE  IInv'
<1> USE DEF IInv, GiveUp
<1>1. Typed' BY DEF Typed
<1>2. Fresh' BY DEF Fresh
<1>3. Order' BY DEF Order, Establishing, Typed
<1>4. NeverPinned'
  <2>1. CASE ~probing BY <2>1 DEF NeverPinned, Unfinished
  <2>2. CASE probing
    <3>1. state \in {Unset, Failed} BY <2>2 DEF Order, Establishing
    <3>2. \A h \in Handles : ~Unfinished(h) BY <3>1, StatesDiffer DEF NeverPinned
    <3>3. state' = Failed /\ loop' = loop BY <2>2
    <3> QED BY <3>2, <3>3, StatesDiffer DEF NeverPinned, Unfinished
  <2> QED BY <2>1, <2>2 DEF Typed
<1> QED BY <1>1, <1>2, <1>3, <1>4

LEMMA NextIInv == IInv /\ [Next]_vars => IInv'
<1> SUFFICES ASSUME IInv, [Next]_vars PROVE IInv' OBVIOUS
<1>1. CASE UNCHANGED vars
  <2>1. Typed' BY <1>1 DEF IInv, Typed, vars
  <2> QED BY <1>1, <2>1, QuietStep DEF vars, IInv, Order, Establishing
<1>2. CASE RemovePortForward
  <2>1. Typed' BY <1>2 DEF IInv, Typed, RemovePortForward
  <2> QED BY <1>2, <2>1, QuietStep DEF RemovePortForward, IInv, Order, Establishing
<1>3. CASE Accept
  <2>1. Typed' BY <1>3 DEF IInv, Typed, Accept
  <2>2. Establishing' => state \in {Unset, Failed}
    <3>1. SUFFICES ASSUME Establishing' PROVE state \in {Unset, Failed} OBVIOUS
    <3>2. listener = "accept" BY <1>3 DEF Accept
    <3>3. claim # "Muxed" BY <1>3, <3>1, <3>2 DEF Accept, Establishing
    <3>4. claim = "Claimed" BY <1>3, <3>1, <3>3 DEF Accept, Establishing
    <3>5. state.kind # "Legacy" /\ state.kind # "Muxed" BY <3>4 DEF claim
    <3>6. state \in {Unset, Legacy, Failed} \cup {Muxed(h) : h \in Handles} BY DEF IInv, Typed
    <3> QED BY <3>5, <3>6, StatesDiffer
  <2> QED BY <1>3, <2>1, <2>2, QuietStep DEF Accept
<1>4. CASE StartFailed BY <1>4, GivesUp DEF StartFailed, IInv, Typed
<1>5. ASSUME NEW secured \in BOOLEAN, Started(secured) PROVE IInv'
  <2>1. Typed' BY <1>5 DEF IInv, Typed, Started, Go
  <2> QED BY <1>5, <2>1, QuietStep DEF Started, Go, IInv, Order, Establishing
<1>6. CASE Continue
  <2>1. Typed' BY <1>6 DEF IInv, Typed, Continue, Go
  <2> QED BY <1>6, <2>1, QuietStep DEF Continue, Go, IInv, Order, Establishing
<1>7. CASE Refuse BY <1>7, GivesUp DEF Refuse
<1>8. CASE LoginFailed BY <1>8, GivesUp DEF LoginFailed, IInv, Typed
<1>9. CASE CloseIgnored
  <2>1. Typed' BY <1>9 DEF IInv, Typed, CloseIgnored
  <2> QED BY <1>9, <2>1, QuietStep DEF CloseIgnored, IInv, Order, Establishing
<1>10. ASSUME NEW mux \in BOOLEAN, LoggedIn(mux) PROVE IInv'
  <2> USE <1>10 DEF IInv, LoggedIn
  <2>1. Typed' BY DEF Typed
  <2>2. Fresh' BY DEF Fresh
  <2>3. Order' BY DEF Order, Establishing, Typed
  <2>4. NeverPinned'
    <3>1. CASE probing /\ ~mux
      <4>1. state \in {Unset, Failed} BY <3>1 DEF Order, Establishing
      <4>2. \A h \in Handles : ~Unfinished(h) BY <4>1, StatesDiffer DEF NeverPinned
      <4> QED BY <3>1, <4>2, StatesDiffer DEF NeverPinned, Unfinished
    <3>2. CASE ~(probing /\ ~mux) BY <3>2 DEF NeverPinned, Unfinished
    <3> QED BY <3>1, <3>2
  <2> QED BY <2>1, <2>2, <2>3, <2>4
<1>11. CASE Publish
  <2>1. /\ listener = "publish" /\ used' = used + 1 /\ state' = Muxed(used')
        /\ loop' = [loop EXCEPT ![used'] = "ready"] /\ listener' = "spawn"
        /\ UNCHANGED <<probing, mapped, close>>
    BY <1>11 DEF Publish
  <2>2. used \in 0..MaxTunnels /\ used < MaxTunnels /\ MaxTunnels \in Nat
    BY <2>1, ListenerAssumption DEF IInv, Order, Typed
  <2>3. used' \in Handles BY <2>1, <2>2 DEF Handles
  <2>4. \A h \in Handles : ~Unfinished(h)
    <3>1. state \in {Unset, Failed} BY <2>1 DEF IInv, Order, Establishing
    <3> QED BY <3>1, StatesDiffer DEF IInv, NeverPinned
  <2>5. Typed' BY <2>1, <2>2, <2>3 DEF IInv, Typed, Handles
  <2>6. Fresh' BY <2>1, <2>2 DEF IInv, Typed, Fresh, Handles
  <2>7. Order' BY <2>1, <2>3, <2>4, StatesDiffer DEF IInv, Typed, Order, Establishing, Unfinished
  <2>8. NeverPinned' BY <2>1, <2>3, <2>4, StatesDiffer DEF IInv, Typed, NeverPinned, Unfinished
  <2> QED BY <2>5, <2>6, <2>7, <2>8 DEF IInv
<1>12. CASE Spawn
  <2>1. /\ listener = "spawn" /\ loop' = [loop EXCEPT ![used] = "running"]
        /\ listener' = "accept" /\ UNCHANGED <<probing, state, used, mapped, close>>
    BY <1>12 DEF Spawn
  <2>2. used \in Handles /\ state = Muxed(used) /\ loop[used] = "ready"
    BY <2>1 DEF IInv, Order
  <2>3. Typed' BY <2>1, <2>2 DEF IInv, Typed
  <2>4. Fresh' BY <2>1, <2>2 DEF IInv, Typed, Fresh
  <2>5. Order' BY <2>1, <2>2 DEF IInv, Typed, Order, Establishing
  <2>6. NeverPinned' BY <2>1, <2>2 DEF IInv, Typed, NeverPinned, Unfinished
  <2> QED BY <2>3, <2>4, <2>5, <2>6 DEF IInv
<1>13. CASE Stop
  <2>1. Typed' BY <1>13 DEF IInv, Typed, Stop
  <2> QED BY <1>13, <2>1, QuietStep DEF Stop, IInv, Order, Establishing
<1>14. ASSUME NEW h \in Handles, LoopSend(h) PROVE IInv' BY <1>14, LoopMoves DEF LoopSend
<1>15. ASSUME NEW h \in Handles, LoopSent(h) PROVE IInv' BY <1>15, LoopMoves DEF LoopSent
<1>16. ASSUME NEW h \in Handles, LoopBreak(h) PROVE IInv' BY <1>16, LoopMoves DEF LoopBreak
<1>17. ASSUME NEW h \in Handles, LifetimeOver(h) PROVE IInv'
  BY <1>17, LoopMoves DEF LifetimeOver
<1>18. ASSUME NEW h \in Handles, CloseAll(h) PROVE IInv' BY <1>18, LoopMoves DEF CloseAll
<1>19. ASSUME NEW h \in Handles, Reset(h) PROVE IInv'
  <2>1. /\ loop[h] = "closed" /\ loop' = [loop EXCEPT ![h] = "done"] /\ state' = Unset
        /\ UNCHANGED <<listener, probing, used, mapped, close>>
    BY <1>19 DEF Reset
  <2>2. state = Muxed(h) BY <2>1 DEF IInv, NeverPinned, Unfinished
  <2>3. \A g \in Handles : Unfinished(g) => g = h
    BY <2>2, StatesDiffer DEF IInv, NeverPinned
  <2>4. Typed' BY <2>1 DEF IInv, Typed
  <2>5. Fresh' BY <2>1 DEF IInv, Typed, Fresh
  <2>6. Order' BY <2>1, <2>2, StatesDiffer DEF IInv, Typed, Order, Establishing
  <2>7. NeverPinned' BY <2>1, <2>3, StatesDiffer DEF IInv, Typed, NeverPinned, Unfinished
  <2> QED BY <2>4, <2>5, <2>6, <2>7 DEF IInv
<1> QED
  BY <1>1, <1>2, <1>3, <1>4, <1>5, <1>6, <1>7, <1>8, <1>9, <1>10, <1>11, <1>12, <1>13,
     <1>14, <1>15, <1>16, <1>17, <1>18, <1>19 DEF Next, LoginStep, LoopEnds

(* IInv holds of every reachable state of a listener. *)
THEOREM ListenerInvariant == Spec => []IInv
BY InitIInv, NextIInv, PTL DEF Spec

(* The listener's state is well typed. *)
THEOREM ListenerTypeCorrect == Spec => []TypeOK
<1>1. IInv => TypeOK BY DEF IInv, Typed, Fresh, TypeOK
<1> QED BY <1>1, ListenerInvariant, PTL

(* A listener is never pinned to a dead tunnel, and never has two: publish *)
(* before spawn, and a reset at every exit of tunnel_loop.                 *)
THEOREM NoDeadTunnel == Spec => []NeverPinned
<1>1. IInv => NeverPinned BY DEF IInv
<1> QED BY <1>1, ListenerInvariant, PTL

(* Once Legacy, always Legacy: with no live tunnel there is no loop left   *)
(* to reset the state, and no login that would latch another mode.         *)
THEOREM LegacyStays == Spec => LegacyLatched
<1>1. IInv /\ [Next]_vars => [state = Legacy => state' = Legacy]_state
  <2> SUFFICES ASSUME IInv, [Next]_vars, state = Legacy PROVE state' = Legacy OBVIOUS
  <2>1. ~Establishing BY StatesDiffer DEF IInv, Order
  <2>2. \A h \in Handles : ~Unfinished(h) BY StatesDiffer DEF IInv, NeverPinned
  <2>3. listener # "publish" BY <2>1 DEF IInv, Order, Establishing
  <2>4. CASE LoginStep
    <3>1. CASE StartFailed BY <3>1, <2>1 DEF StartFailed, GiveUp, Establishing
    <3>2. ASSUME NEW secured \in BOOLEAN, Started(secured) PROVE state' = Legacy
      BY <3>2 DEF Started, Go
    <3>3. CASE LoginFailed BY <3>3, <2>1 DEF LoginFailed, GiveUp, Establishing
    <3>4. ASSUME NEW mux \in BOOLEAN, LoggedIn(mux) PROVE state' = Legacy
      BY <3>4, <2>1 DEF LoggedIn, Establishing
    <3>5. CASE Publish BY <3>5, <2>3 DEF Publish
    <3>6. CASE Spawn BY <3>6 DEF Spawn
    <3> QED BY <2>4, <3>1, <3>2, <3>3, <3>4, <3>5, <3>6 DEF LoginStep
  <2>5. CASE Refuse BY <2>5, <2>1 DEF Refuse, GiveUp, Establishing
  <2>6. CASE RemovePortForward \/ Accept \/ Continue \/ CloseIgnored \/ Stop
    BY <2>6 DEF RemovePortForward, Accept, Continue, Go, CloseIgnored, Stop
  <2>7. ASSUME NEW h \in Handles, LoopSend(h) \/ LoopSent(h) \/ LoopBreak(h) \/ LoopEnds(h)
        PROVE state' = Legacy
    BY <2>7, <2>2 DEF LoopSend, LoopSent, LoopBreak, LoopEnds, LifetimeOver, CloseAll,
                      SetLoop, Reset, Unfinished
  <2>8. CASE UNCHANGED vars BY <2>8 DEF vars
  <2> QED BY <2>4, <2>5, <2>6, <2>7, <2>8 DEF Next
<1> QED BY <1>1, ListenerInvariant, PTL DEF Spec, LegacyLatched
=============================================================================
