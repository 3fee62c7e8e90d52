-------------------------- MODULE PlayBridgeProofs --------------------------
(***************************************************************************)
(* The safety properties of PlayBridge for any set of keys and buttons and *)
(* any queue capacity.  They are proved together: that a slot taken from   *)
(* the queue holds a frame rests on RingConsistent, and that a report sent *)
(* from the queue is guarded on a queue being non-empty only while the     *)
(* watchdog is armed.                                                      *)
(***************************************************************************)
EXTENDS PlayBridge, TLAPS

FirmwareTyped ==
    /\ frames \in [Slots -> Frames \cup {NoFrame}]
    /\ head \in Slots /\ tail \in Slots /\ count \in 0 .. CAPACITY
    /\ release_stage \in 0 .. 2
    /\ watchdog_armed \in BOOLEAN /\ quiet \in BOOLEAN
    /\ link \in {"unplugged", "mounted", "suspended"}
    /\ out \in Frames \cup {NoFrame}
    /\ shown \in [Collections -> SUBSET Inputs]

HostTyped ==
    /\ device \in {"none", "open", "stale"}
    /\ keyboard \subseteq Keys /\ software_keyboard \subseteq Keys
    /\ mouse_buttons \subseteq Buttons /\ software_mouse_buttons \subseteq Buttons
    /\ active_sessions \in 0 .. MaxSessions
    /\ down \subseteq Inputs /\ injected \subseteq Inputs

FirmwareInv == FirmwareTyped /\ RingConsistent /\ HeldIsGuarded

IInv == FirmwareInv /\ HostTyped /\ InjectedIsRemembered

-----------------------------------------------------------------------------
\* QueueClear leaves an empty queue that is consistent.
LEMMA ClearKeepsRing ==
    ASSUME QueueClear
    PROVE  /\ RingConsistent'
           /\ frames' \in [Slots -> Frames \cup {NoFrame}]
           /\ head' \in Slots /\ tail' \in Slots /\ count' \in 0 .. CAPACITY
           /\ count' = 0
BY CapacityAssumption DEF QueueClear, RingConsistent, Waiting, Blank, Slots

\* A frame that finds room goes into the one slot after the window.
LEMMA PushKeepsRing ==
    ASSUME FirmwareInv, NEW f \in Frames, QueuePush(f)
    PROVE  /\ RingConsistent'
           /\ frames' \in [Slots -> Frames \cup {NoFrame}]
           /\ head' \in Slots /\ tail' \in Slots /\ count' \in 0 .. CAPACITY
<1>1. CASE count = CAPACITY
  BY <1>1 DEF FirmwareInv, FirmwareTyped, QueuePush, ringVars, RingConsistent, Waiting
<1>2. CASE count # CAPACITY
  <2> USE CapacityAssumption DEF Slots
  <2>1. /\ frames' = [frames EXCEPT ![tail] = f]
        /\ tail' = After(tail) /\ count' = count + 1 /\ head' = head
    BY <1>2 DEF QueuePush
  <2>2. head' \in Slots /\ tail' \in Slots /\ count' \in 0 .. CAPACITY
    BY <1>2, <2>1 DEF FirmwareInv, FirmwareTyped, After
  <2>3. frames' \in [Slots -> Frames \cup {NoFrame}]
    BY <2>1 DEF FirmwareInv, FirmwareTyped
  <2>4. tail' = IF head' + count' < CAPACITY THEN head' + count' ELSE head' + count' - CAPACITY
    BY <1>2, <2>1 DEF FirmwareInv, FirmwareTyped, RingConsistent, After
  <2>5. ASSUME NEW i \in Slots PROVE frames'[i] # NoFrame <=> Waiting(i)'
    <3>1. Waiting(i)' <=> Waiting(i) \/ i = tail
      BY <1>2, <2>1 DEF FirmwareInv, FirmwareTyped, RingConsistent, Waiting
    <3>2. frames'[i] = IF i = tail THEN f ELSE frames[i]
      BY <2>1 DEF FirmwareInv, FirmwareTyped
    <3>3. frames[i] # NoFrame <=> Waiting(i)
      BY DEF FirmwareInv, RingConsistent
    <3> QED BY <3>1, <3>2, <3>3, InputAssumption
  <2> QED BY <2>2, <2>3, <2>4, <2>5 DEF RingConsistent
<1> QED BY <1>1, <1>2

\* Taking a frame blanks the first slot of the window and no other.
LEMMA PopKeepsRing ==
    ASSUME FirmwareInv, count # 0, QueuePop
    PROVE  /\ RingConsistent'
           /\ frames' \in [Slots -> Frames \cup {NoFrame}]
           /\ head' \in Slots /\ tail' \in Slots /\ count' \in 0 .. CAPACITY
<1> USE CapacityAssumption DEF Slots
<1>1. /\ frames' = [frames EXCEPT ![head] = NoFrame]
      /\ head' = After(head) /\ count' = count - 1 /\ tail' = tail
  BY DEF QueuePop
<1>2. head' \in Slots /\ tail' \in Slots /\ count' \in 0 .. CAPACITY
  BY <1>1 DEF FirmwareInv, FirmwareTyped, After
<1>3. frames' \in [Slots -> Frames \cup {NoFrame}]
  BY <1>1 DEF FirmwareInv, FirmwareTyped
<1>4. tail' = IF head' + count' < CAPACITY THEN head' + count' ELSE head' + count' - CAPACITY
  BY <1>1 DEF FirmwareInv, FirmwareTyped, RingConsistent, After
<1>5. ASSUME NEW i \in Slots PROVE frames'[i] # NoFrame <=> Waiting(i)'
  <2>1. Waiting(i)' <=> Waiting(i) /\ i # head
    BY <1>1 DEF FirmwareInv, FirmwareTyped, RingConsistent, Waiting, After
  <2>2. frames'[i] = IF i = head THEN NoFrame ELSE frames[i]
    BY <1>1 DEF FirmwareInv, FirmwareTyped
  <2>3. frames[i] # NoFrame <=> Waiting(i)
    BY DEF FirmwareInv, RingConsistent
  <2> QED BY <2>1, <2>2, <2>3
<1> QED BY <1>2, <1>3, <1>4, <1>5 DEF RingConsistent

\* The first slot of a queue that is not empty holds a frame.
LEMMA FrontIsFrame ==
    ASSUME FirmwareInv, count # 0
    PROVE  frames[head] \in Frames
<1>1. Waiting(head)
  BY CapacityAssumption DEF FirmwareInv, FirmwareTyped, Waiting, Slots
<1>2. frames[head] # NoFrame
  BY <1>1 DEF FirmwareInv, FirmwareTyped, RingConsistent
<1> QED BY <1>2 DEF FirmwareInv, FirmwareTyped

-----------------------------------------------------------------------------
LEMMA SameFirmware ==
    ASSUME FirmwareInv, FirmwareIdle, out' \in Frames \cup {NoFrame}
    PROVE  FirmwareInv'
BY DEF FirmwareInv, FirmwareTyped, RingConsistent, Waiting, HeldIsGuarded, FirmwareIdle, ringVars

\* Asking for a release, from wherever it is asked.
LEMMA ReleaseRequested ==
    ASSUME FirmwareInv, QueueClear, release_stage' = 1, watchdog_armed' = FALSE,
           UNCHANGED <<quiet, out, shown>>, link' \in {"unplugged", "mounted", "suspended"}
    PROVE  FirmwareInv'
<1>1. /\ RingConsistent'
      /\ frames' \in [Slots -> Frames \cup {NoFrame}]
      /\ head' \in Slots /\ tail' \in Slots /\ count' \in 0 .. CAPACITY
      /\ count' = 0
  BY ClearKeepsRing
<1>2. FirmwareTyped'
  <2>1. release_stage' \in 0 .. 2 BY SMT
  <2>2. /\ quiet' \in BOOLEAN /\ watchdog_armed' \in BOOLEAN
        /\ out' \in Frames \cup {NoFrame}
        /\ shown' \in [Collections -> SUBSET Inputs]
    BY Zenon DEF FirmwareInv, FirmwareTyped
  <2> QED BY <1>1, <2>1, <2>2, Zenon DEF FirmwareTyped
<1>3. HeldIsGuarded' BY <1>1 DEF HeldIsGuarded
<1> QED BY <1>1, <1>2, <1>3, Zenon DEF FirmwareInv

LEMMA FirmwareStep ==
    ASSUME FirmwareInv, FirmwareNext \/ Umount
    PROVE  FirmwareInv'
<1>1. CASE SetReport
  <2>1. out \in Frames /\ out' = NoFrame /\ watchdog_armed' = TRUE /\ quiet' = FALSE
        /\ UNCHANGED <<release_stage, link, shown>>
    BY <1>1 DEF SetReport, FirmwareInv, FirmwareTyped
  <2>2. /\ RingConsistent'
        /\ frames' \in [Slots -> Frames \cup {NoFrame}]
        /\ head' \in Slots /\ tail' \in Slots /\ count' \in 0 .. CAPACITY
    <3>1. CASE out.cmd = "heartbeat"
      BY <1>1, <3>1 DEF SetReport, ringVars, FirmwareInv, FirmwareTyped, RingConsistent, Waiting
    <3>2. CASE out.cmd # "heartbeat"
      BY <1>1, <2>1, <3>2, PushKeepsRing DEF SetReport
    <3> QED BY <3>1, <3>2
  <2>3. HeldIsGuarded' BY <2>1 DEF HeldIsGuarded
  <2> QED BY <2>1, <2>2, <2>3 DEF FirmwareInv, FirmwareTyped
<1>2. CASE Mount
  BY <1>2, ReleaseRequested DEF Mount
<1>3. CASE Umount
  <2>1. shown' \in [Collections -> SUBSET Inputs] /\ \A c \in Collections : shown'[c] = {}
    BY <1>3 DEF Umount
  <2>2. release_stage' \in 0 .. 2 BY <1>3 DEF Umount, FirmwareInv, FirmwareTyped
  <2> QED BY <1>3, <2>1, <2>2, ClearKeepsRing
          DEF Umount, FirmwareInv, FirmwareTyped, HeldIsGuarded, Collections
<1>4. CASE Suspend
  BY <1>4, ReleaseRequested DEF Suspend, RequestReleaseAll
<1>5. CASE Resume
  BY <1>5, ReleaseRequested DEF Resume, RequestReleaseAll
<1>6. CASE SilenceElapses
  BY <1>6 DEF SilenceElapses, ringVars, FirmwareInv, FirmwareTyped, RingConsistent, Waiting,
              HeldIsGuarded
<1>7. CASE WatchdogTask
  BY <1>7, ReleaseRequested DEF WatchdogTask, RequestReleaseAll, FirmwareInv, FirmwareTyped
<1>8. CASE ReleaseTask
  <2>1. UNCHANGED <<frames, head, tail, count, watchdog_armed, quiet, link, out>>
    BY <1>8 DEF ReleaseTask, ringVars
  <2>2. RingConsistent' BY <2>1 DEF FirmwareInv, RingConsistent, Waiting
  <2>3. release_stage' \in 0 .. 2 BY <1>8 DEF ReleaseTask
  <2>4. shown' \in [Collections -> SUBSET Inputs]
    BY <1>8 DEF ReleaseTask, Report, FirmwareInv, FirmwareTyped
  <2>5. HeldIsGuarded'
    <3>1. CASE release_stage = 1
      <4>1. shown'["keyboard"] = {} /\ release_stage' = 2
        BY <1>8, <3>1 DEF ReleaseTask, Report, FirmwareInv, FirmwareTyped, Collections
      <4> QED BY <2>1, <4>1 DEF FirmwareInv, HeldIsGuarded
    <3>2. CASE release_stage # 1
      <4>1. shown'["relative"] = {} /\ shown'["keyboard"] = shown["keyboard"]
        BY <1>8, <3>2 DEF ReleaseTask, Report, FirmwareInv, FirmwareTyped, Collections
      <4> QED BY <2>1, <3>2, <4>1 DEF FirmwareInv, HeldIsGuarded
    <3> QED BY <3>1, <3>2
  <2> QED BY <2>1, <2>2, <2>3, <2>4, <2>5 DEF FirmwareInv, FirmwareTyped
<1>9. CASE SendCommand
  <2>1. UNCHANGED <<release_stage, watchdog_armed, quiet, link, out>> /\ count # 0
    BY <1>9 DEF SendCommand
  <2>2. /\ RingConsistent'
        /\ frames' \in [Slots -> Frames \cup {NoFrame}]
        /\ head' \in Slots /\ tail' \in Slots /\ count' \in 0 .. CAPACITY
    BY <1>9, <2>1, PopKeepsRing DEF SendCommand
  <2>3. shown' \in [Collections -> SUBSET Inputs]
    <3>1. frames[head] \in Frames BY <2>1, FrontIsFrame
    <3>2. frames[head].held \in SUBSET Inputs BY <3>1 DEF Frames
    <3> QED BY <1>9, <3>2 DEF SendCommand, Report, FirmwareInv, FirmwareTyped
  <2>4. watchdog_armed' BY <2>1 DEF FirmwareInv, HeldIsGuarded
  <2> QED BY <2>1, <2>2, <2>3, <2>4 DEF FirmwareInv, FirmwareTyped, HeldIsGuarded
<1>10. CASE ReleaseCommand
  BY <1>10, ReleaseRequested DEF ReleaseCommand, RequestReleaseAll, FirmwareInv, FirmwareTyped
<1> QED BY <1>1, <1>2, <1>3, <1>4, <1>5, <1>6, <1>7, <1>8, <1>9, <1>10 DEF FirmwareNext

-----------------------------------------------------------------------------
\* What the firmware may find in the endpoint after a write of f.
LEMMA SendKeepsFirmware ==
    ASSUME FirmwareInv, NEW f \in Frames, NEW o \in Outcomes, Send(f, o), FirmwareIdle
    PROVE  FirmwareInv' /\ device' \in {"none", "open", "stale"}
<1>1. out' \in Frames \cup {NoFrame} BY DEF Send, FirmwareInv, FirmwareTyped
<1> QED BY <1>1, SameFirmware DEF Send

LEMMA FramesMade ==
    /\ \A held \in SUBSET Inputs :
         /\ [cmd |-> "keyboard", held |-> held] \in Frames
         /\ [cmd |-> "relative", held |-> held] \in Frames
         /\ [cmd |-> "absolute", held |-> held] \in Frames
    /\ ReleaseFrame \in Frames /\ HeartbeatFrame \in Frames
BY DEF Frames, Collections, ReleaseFrame, HeartbeatFrame

LEMMA KeyStep ==
    ASSUME IInv, KeyEvent
    PROVE  IInv'
<1> USE InputAssumption
<1> PICK k \in Keys : \/ KeyReleasedInSoftware(k)
                     \/ \E isDown \in BOOLEAN :
                          KeySent(k, isDown) \/ \E o \in Outcomes : KeyFellBack(k, isDown, o)
  BY DEF KeyEvent
<1>1. CASE KeyReleasedInSoftware(k)
  <2>1. FirmwareInv'
    BY <1>1, SameFirmware DEF KeyReleasedInSoftware, IInv, FirmwareInv, FirmwareTyped
  <2>2. HostTyped' /\ InjectedIsRemembered'
    BY <1>1 DEF KeyReleasedInSoftware, Event, Inject, Pressed, IInv, HostTyped,
                InjectedIsRemembered, Inputs
  <2> QED BY <2>1, <2>2 DEF IInv
<1>2. ASSUME NEW isDown \in BOOLEAN, KeySent(k, isDown) PROVE IInv'
  <2>1. Pressed(keyboard, k, isDown) \subseteq Keys BY DEF Pressed, IInv, HostTyped
  <2>2. KeyFrame(k, isDown) \in Frames BY <2>1, FramesMade DEF KeyFrame, Inputs
  <2>3. FirmwareInv' /\ device' \in {"none", "open", "stale"}
    BY <1>2, <2>2, SendKeepsFirmware DEF KeySent, IInv, Outcomes
  <2>4. HostTyped' /\ InjectedIsRemembered'
    BY <1>2, <2>1, <2>3 DEF KeySent, Event, Pressed, AfterConnect, IInv, HostTyped,
                            InjectedIsRemembered, Inputs
  <2> QED BY <2>3, <2>4 DEF IInv
<1>3. ASSUME NEW isDown \in BOOLEAN, NEW o \in Outcomes, KeyFellBack(k, isDown, o) PROVE IInv'
  <2>1. Pressed(keyboard, k, isDown) \subseteq Keys BY DEF Pressed, IInv, HostTyped
  <2>2. KeyFrame(k, isDown) \in Frames BY <2>1, FramesMade DEF KeyFrame, Inputs
  <2>3. FirmwareInv' /\ device' \in {"none", "open", "stale"}
    BY <1>3, <2>2, SendKeepsFirmware DEF KeyFellBack, IInv
  <2>4. HostTyped' /\ InjectedIsRemembered'
    BY <1>3, <2>3 DEF KeyFellBack, Event, Inject, Pressed, AfterConnect, IInv, HostTyped,
                      InjectedIsRemembered, Inputs
  <2> QED BY <2>3, <2>4 DEF IInv
<1> QED BY <1>1, <1>2, <1>3

LEMMA ButtonStep ==
    ASSUME IInv, ButtonEvent
    PROVE  IInv'
<1> USE InputAssumption
<1> PICK b \in Buttons :
         \/ ButtonReleasedInSoftware(b)
         \/ \E isDown \in BOOLEAN :
              ButtonSent(b, isDown) \/ \E o \in Outcomes : ButtonFellBack(b, isDown, o)
  BY DEF ButtonEvent
<1>1. CASE ButtonReleasedInSoftware(b)
  <2>1. FirmwareInv'
    BY <1>1, SameFirmware DEF ButtonReleasedInSoftware, IInv, FirmwareInv, FirmwareTyped
  <2>2. HostTyped' /\ InjectedIsRemembered'
    BY <1>1 DEF ButtonReleasedInSoftware, Event, Inject, Pressed, IInv, HostTyped,
                InjectedIsRemembered, Inputs
  <2> QED BY <2>1, <2>2 DEF IInv
<1>2. ASSUME NEW isDown \in BOOLEAN, ButtonSent(b, isDown) PROVE IInv'
  <2>1. Pressed(mouse_buttons, b, isDown) \subseteq Buttons BY DEF Pressed, IInv, HostTyped
  <2>2. ButtonFrame(b, isDown) \in Frames BY <2>1, FramesMade DEF ButtonFrame, Inputs
  <2>3. FirmwareInv' /\ device' \in {"none", "open", "stale"}
    BY <1>2, <2>2, SendKeepsFirmware DEF ButtonSent, IInv, Outcomes
  <2>4. HostTyped' /\ InjectedIsRemembered'
    BY <1>2, <2>1, <2>3 DEF ButtonSent, Event, Pressed, AfterConnect, IInv, HostTyped,
                            InjectedIsRemembered, Inputs
  <2> QED BY <2>3, <2>4 DEF IInv
<1>3. ASSUME NEW isDown \in BOOLEAN, NEW o \in Outcomes, ButtonFellBack(b, isDown, o) PROVE IInv'
  <2>1. Pressed(mouse_buttons, b, isDown) \subseteq Buttons BY DEF Pressed, IInv, HostTyped
  <2>2. ButtonFrame(b, isDown) \in Frames BY <2>1, FramesMade DEF ButtonFrame, Inputs
  <2>3. FirmwareInv' /\ device' \in {"none", "open", "stale"}
    BY <1>3, <2>2, SendKeepsFirmware DEF ButtonFellBack, IInv
  <2>4. HostTyped' /\ InjectedIsRemembered'
    BY <1>3, <2>3 DEF ButtonFellBack, Event, Inject, Pressed, AfterConnect, IInv, HostTyped,
                      InjectedIsRemembered, Inputs
  <2> QED BY <2>3, <2>4 DEF IInv
<1> QED BY <1>1, <1>2, <1>3

\* Motion, the last session's end and a heartbeat: the frames that press
\* nothing new.
LEMMA FrameStep ==
    ASSUME IInv, NEW o \in Outcomes,
           MoveRelative(o) \/ MoveAbsolute(o) \/ LastSessionEnded(o) \/ Heartbeat(o)
    PROVE  IInv'
<1>1. mouse_buttons \in SUBSET Inputs BY DEF IInv, HostTyped, Inputs
<1>2. CASE MoveRelative(o)
  <2>1. FirmwareInv' /\ device' \in {"none", "open", "stale"}
    BY <1>1, <1>2, FramesMade, SendKeepsFirmware DEF MoveRelative, IInv
  <2> QED BY <1>2, <2>1 DEF MoveRelative, AfterConnect, IInv, HostTyped, InjectedIsRemembered
<1>3. CASE MoveAbsolute(o)
  <2>1. FirmwareInv' /\ device' \in {"none", "open", "stale"}
    BY <1>1, <1>3, FramesMade, SendKeepsFirmware DEF MoveAbsolute, IInv
  <2> QED BY <1>3, <2>1 DEF MoveAbsolute, AfterConnect, IInv, HostTyped, InjectedIsRemembered
<1>4. CASE LastSessionEnded(o)
  <2>1. FirmwareInv' /\ device' \in {"none", "open", "stale"}
    BY <1>4, FramesMade, SendKeepsFirmware DEF LastSessionEnded, IInv
  <2>2. active_sessions' \in 0 .. MaxSessions BY <1>4, HostAssumption DEF LastSessionEnded
  <2> QED BY <1>4, <2>1, <2>2
          DEF LastSessionEnded, AfterConnect, IInv, HostTyped, InjectedIsRemembered
<1>5. CASE Heartbeat(o)
  <2>1. FirmwareInv' /\ device' \in {"none", "open", "stale"}
    BY <1>5, FramesMade, SendKeepsFirmware DEF Heartbeat, IInv
  <2> QED BY <1>5, <2>1 DEF Heartbeat, IInv, HostTyped, InjectedIsRemembered
<1> QED BY <1>2, <1>3, <1>4, <1>5

LEMMA SilentStep ==
    ASSUME IInv, SessionStarted \/ SessionEnded \/ ProcessEnds
    PROVE  IInv'
<1>1. UNCHANGED firmwareVars BY DEF SessionStarted, SessionEnded, ProcessEnds
<1>2. FirmwareInv'
  BY <1>1, SameFirmware DEF firmwareVars, FirmwareIdle, ringVars, IInv, FirmwareInv, FirmwareTyped
<1>3. HostTyped'
  BY HostAssumption DEF SessionStarted, SessionEnded, ProcessEnds, IInv, HostTyped
<1>4. InjectedIsRemembered'
  BY DEF SessionStarted, SessionEnded, ProcessEnds, IInv, InjectedIsRemembered
<1> QED BY <1>2, <1>3, <1>4 DEF IInv

LEMMA SameHost ==
    ASSUME IInv, FirmwareInv', UNCHANGED <<keyboard, mouse_buttons, software_keyboard,
           software_mouse_buttons, active_sessions, down, injected>>,
           device' \in {"none", "open", "stale"}
    PROVE  IInv'
BY DEF IInv, HostTyped, InjectedIsRemembered

LEMMA InitIInv == Init => IInv
<1> SUFFICES ASSUME Init PROVE IInv OBVIOUS
<1> USE CapacityAssumption, HostAssumption
<1>1. FirmwareTyped
  <2>1. shown \in [Collections -> SUBSET Inputs] BY DEF Init, FirmwareInit
  <2>2. frames \in [Slots -> Frames \cup {NoFrame}] BY DEF Init, FirmwareInit, Blank
  <2>3. head \in Slots /\ tail \in Slots /\ count \in 0 .. CAPACITY /\ release_stage \in 0 .. 2
    BY DEF Init, FirmwareInit, Slots
  <2> QED BY <2>1, <2>2, <2>3 DEF Init, FirmwareInit, FirmwareTyped
<1>2. RingConsistent BY DEF Init, FirmwareInit, RingConsistent, Blank, Waiting, Slots
<1>3. HeldIsGuarded BY DEF Init, FirmwareInit, HeldIsGuarded, Collections
<1>4. HostTyped /\ InjectedIsRemembered BY DEF Init, HostTyped, InjectedIsRemembered
<1> QED BY <1>1, <1>2, <1>3, <1>4 DEF IInv, FirmwareInv

LEMMA NextIInv == IInv /\ [Next]_vars => IInv'
<1> SUFFICES ASSUME IInv, [Next]_vars PROVE IInv' OBVIOUS
<1>1. CASE FirmwareNext /\ UNCHANGED hostVars
  <2>1. FirmwareInv' BY <1>1, FirmwareStep DEF IInv
  <2> QED BY <1>1, <2>1, SameHost DEF hostVars, IInv, HostTyped
<1>2. CASE Unplug
  <2>1. FirmwareInv' BY <1>2, FirmwareStep DEF IInv, Unplug
  <2>2. device' \in {"none", "open", "stale"} BY <1>2 DEF Unplug, IInv, HostTyped
  <2> QED BY <1>2, <2>1, <2>2, SameHost DEF Unplug
<1>3. CASE HostNext
  BY <1>3, KeyStep, ButtonStep, FrameStep, SilentStep DEF HostNext
<1>4. CASE UNCHANGED vars
  <2>1. FirmwareInv'
    BY <1>4, SameFirmware
       DEF vars, firmwareVars, FirmwareIdle, ringVars, IInv, FirmwareInv, FirmwareTyped
  <2> QED BY <1>4, <2>1, SameHost DEF vars, hostVars, IInv, HostTyped
<1> QED BY <1>1, <1>2, <1>3, <1>4 DEF Next

-----------------------------------------------------------------------------
\* The inductive invariant, for every set of keys and buttons and every queue
\* capacity, sessions and processes coming and going.
THEOREM BridgeInvariant == Spec => []IInv
BY InitIInv, NextIInv, PTL DEF Spec

\* Type correctness of the host and the firmware.
THEOREM BridgeTypeCorrect == Spec => []TypeOK
<1>1. IInv => TypeOK BY DEF IInv, FirmwareInv, FirmwareTyped, HostTyped, TypeOK
<1> QED BY <1>1, BridgeInvariant, PTL

\* The command queue of the firmware never loses its place: queue_front hands
\* out frames that were pushed and queue_push overwrites none that waits.
THEOREM QueueSound == Spec => []RingConsistent
<1>1. IInv => RingConsistent BY DEF IInv, FirmwareInv
<1> QED BY <1>1, BridgeInvariant, PTL

\* No key and no button of the relative mouse is left pressed without the
\* watchdog or a release under way to let it go.
THEOREM NothingLeftPressed == Spec => []HeldIsGuarded
<1>1. IInv => HeldIsGuarded BY DEF IInv, FirmwareInv
<1> QED BY <1>1, BridgeInvariant, PTL

\* The software path releases what it pressed.
THEOREM FallbackRemembers == Spec => []InjectedIsRemembered
<1>1. IInv => InjectedIsRemembered BY DEF IInv
<1> QED BY <1>1, BridgeInvariant, PTL

=============================================================================
