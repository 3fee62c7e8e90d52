----------------------------- MODULE PlayBridge -----------------------------
(***************************************************************************)
(* The Play Bridge end to end: BridgeState of libs/enigo/src/win/bridge.rs *)
(* in the controlled machine's process, the frames it writes, the firmware *)
(* of BridgeFirmware, and what the machine then sees pressed.  An input    *)
(* event of a session is offered to the bridge first and injected with     *)
(* SendInput when the bridge says no (keybd_event, mouse_event and         *)
(* mouse_move_to in libs/enigo/src/win/win_impl.rs).                       *)
(*                                                                         *)
(* Every method of BridgeState runs under one mutex, so an event is one    *)
(* action.  A write hands its frame to the OUT endpoint, which holds one;  *)
(* the firmware is called back later.  Whether a probe for the device is   *)
(* due (PROBE_INTERVAL) and finds it, and whether a write fails, are       *)
(* choices: see Outcomes.                                                  *)
(***************************************************************************)
EXTENDS BridgeFirmware

CONSTANTS
    MaxSessions,    \* bound: input sessions open at once
    Repeats         \* whether a held key repeats its press (auto-repeat)

ASSUME HostAssumption == MaxSessions \in Nat /\ Repeats \in BOOLEAN

VARIABLES
    device,                     \* the HID handle: "none", "open", or "stale"
                                \*   (of a device unplugged since)
    keyboard, mouse_buttons,    \* what the bridge was last told is pressed
    software_keyboard,          \* pressed while the bridge was not there
    software_mouse_buttons,
    active_sessions,
    down,                       \* inputs whose last event is a press
    injected                    \* inputs pressed with SendInput, not released

hostVars == <<device, keyboard, mouse_buttons, software_keyboard,
              software_mouse_buttons, active_sessions, down, injected>>
vars == <<firmwareVars, hostVars>>

Init ==
    /\ FirmwareInit
    /\ device = "none"
    /\ keyboard = {} /\ mouse_buttons = {}
    /\ software_keyboard = {} /\ software_mouse_buttons = {}
    /\ active_sessions = 0
    /\ down = {} /\ injected = {}

Pressed(set, i, isDown) == IF isDown THEN set \cup {i} ELSE set \ {i}

-----------------------------------------------------------------------------
\* BridgeState::send and the ensure_connected and disconnect inside it.
\* "sent": the frame is written, over the open handle or one just opened;
\* "lost": the handle is there or just opened, but the write fails and it is
\* dropped; "absent": no handle and no device found, or no probe due yet.

Outcomes == {"sent", "lost", "absent"}

Send(f, o) ==
    /\ CASE o = "sent"   -> device # "stale" /\ link = "mounted" /\ out = NoFrame
         [] o = "lost"   -> device # "none" \/ link = "mounted"
         [] o = "absent" -> device = "none"
    /\ device' = IF o = "sent" THEN "open" ELSE "none"
    /\ out' = IF o = "sent" THEN f ELSE out

\* ensure_connected forgets what was pressed when it opens a handle.
Connects(o) == device = "none" /\ o # "absent"
AfterConnect(o, set) == IF Connects(o) THEN {} ELSE set

\* The firmware but for the endpoint it is written to.
FirmwareIdle == UNCHANGED <<ringVars, release_stage, watchdog_armed, quiet, link, shown>>

\* An input event: from a session's input thread.
Event(i, isDown) ==
    /\ active_sessions > 0
    /\ isDown => Repeats \/ i \notin down
    /\ ~isDown => i \in down
    /\ down' = Pressed(down, i, isDown)

\* The event is not taken by the bridge: SendInput.
Inject(i, isDown) == injected' = Pressed(injected, i, isDown)

\* send_keyboard_usage, a release of what the software path pressed.
KeyReleasedInSoftware(k) ==
    /\ Event(k, FALSE)
    /\ k \in software_keyboard
    /\ software_keyboard' = software_keyboard \ {k}
    /\ Inject(k, FALSE)
    /\ FirmwareIdle
    /\ UNCHANGED <<out, device, keyboard, mouse_buttons, software_mouse_buttons, active_sessions>>

\* send_keyboard_usage: the whole keyboard state goes out in one frame.
KeyFrame(k, isDown) == [cmd |-> "keyboard", held |-> Pressed(keyboard, k, isDown)]

KeySent(k, isDown) ==
    /\ Event(k, isDown)
    /\ isDown \/ k \notin software_keyboard
    /\ Send(KeyFrame(k, isDown), "sent")
    /\ keyboard' = AfterConnect("sent", Pressed(keyboard, k, isDown))
    /\ mouse_buttons' = AfterConnect("sent", mouse_buttons)
    /\ FirmwareIdle
    /\ UNCHANGED <<software_keyboard, software_mouse_buttons, active_sessions, injected>>

\* Mutant of KeyFellBack: the press is injected and not remembered.
KeyFellBackForgotten(k, isDown, o) ==
    /\ Event(k, isDown)
    /\ isDown \/ k \notin software_keyboard
    /\ o # "sent" /\ Send(KeyFrame(k, isDown), o)
    /\ mouse_buttons' = AfterConnect(o, mouse_buttons)
    /\ Inject(k, isDown)
    /\ FirmwareIdle
    /\ UNCHANGED <<keyboard, software_keyboard, software_mouse_buttons, active_sessions>>

\* The frame did not go out: keyboard is put back, a press is remembered as
\* the software path's.
KeyFellBack(k, isDown, o) ==
    /\ Event(k, isDown)
    /\ isDown \/ k \notin software_keyboard
    /\ o # "sent" /\ Send(KeyFrame(k, isDown), o)
    /\ mouse_buttons' = AfterConnect(o, mouse_buttons)
    /\ software_keyboard' = IF isDown THEN software_keyboard \cup {k} ELSE software_keyboard
    /\ Inject(k, isDown)
    /\ FirmwareIdle
    /\ UNCHANGED <<keyboard, software_mouse_buttons, active_sessions>>

KeyEvent ==
    \E k \in Keys :
        \/ KeyReleasedInSoftware(k)
        \/ \E isDown \in BOOLEAN :
             KeySent(k, isDown) \/ \E o \in Outcomes : KeyFellBack(k, isDown, o)

-----------------------------------------------------------------------------
\* send_mouse: the same for a button.

ButtonReleasedInSoftware(b) ==
    /\ Event(b, FALSE)
    /\ b \in software_mouse_buttons
    /\ software_mouse_buttons' = software_mouse_buttons \ {b}
    /\ Inject(b, FALSE)
    /\ FirmwareIdle
    /\ UNCHANGED <<out, device, keyboard, mouse_buttons, software_keyboard, active_sessions>>

ButtonFrame(b, isDown) == [cmd |-> "relative", held |-> Pressed(mouse_buttons, b, isDown)]

ButtonSent(b, isDown) ==
    /\ Event(b, isDown)
    /\ isDown \/ b \notin software_mouse_buttons
    /\ Send(ButtonFrame(b, isDown), "sent")
    /\ mouse_buttons' = AfterConnect("sent", Pressed(mouse_buttons, b, isDown))
    /\ keyboard' = AfterConnect("sent", keyboard)
    /\ FirmwareIdle
    /\ UNCHANGED <<software_keyboard, software_mouse_buttons, active_sessions, injected>>

ButtonFellBack(b, isDown, o) ==
    /\ Event(b, isDown)
    /\ isDown \/ b \notin software_mouse_buttons
    /\ o # "sent" /\ Send(ButtonFrame(b, isDown), o)
    /\ keyboard' = AfterConnect(o, keyboard)
    /\ software_mouse_buttons' =
         IF isDown THEN software_mouse_buttons \cup {b} ELSE software_mouse_buttons
    /\ Inject(b, isDown)
    /\ FirmwareIdle
    /\ UNCHANGED <<mouse_buttons, software_keyboard, active_sessions>>

ButtonEvent ==
    \E b \in Buttons :
        \/ ButtonReleasedInSoftware(b)
        \/ \E isDown \in BOOLEAN :
             ButtonSent(b, isDown) \/ \E o \in Outcomes : ButtonFellBack(b, isDown, o)

\* send_mouse for a motion or a wheel turn, which puts mouse_buttons back if
\* the frame did not go out.
MoveRelative(o) ==
    /\ active_sessions > 0
    /\ Send([cmd |-> "relative", held |-> mouse_buttons], o)
    /\ mouse_buttons' = IF o = "sent" THEN AfterConnect(o, mouse_buttons) ELSE mouse_buttons
    /\ keyboard' = AfterConnect(o, keyboard)
    /\ FirmwareIdle
    /\ UNCHANGED <<software_keyboard, software_mouse_buttons, active_sessions, down, injected>>

\* send_absolute_mouse carries the buttons too, and puts nothing back.
MoveAbsolute(o) ==
    /\ active_sessions > 0
    /\ Send([cmd |-> "absolute", held |-> mouse_buttons], o)
    /\ mouse_buttons' = AfterConnect(o, mouse_buttons)
    /\ keyboard' = AfterConnect(o, keyboard)
    /\ FirmwareIdle
    /\ UNCHANGED <<software_keyboard, software_mouse_buttons, active_sessions, down, injected>>

-----------------------------------------------------------------------------
\* Sessions, the heartbeat thread, and the end of the process.

SessionStarted ==
    /\ active_sessions < MaxSessions
    /\ active_sessions' = active_sessions + 1
    /\ UNCHANGED <<firmwareVars, device, keyboard, mouse_buttons, software_keyboard,
                   software_mouse_buttons, down, injected>>

SessionEnded ==
    /\ active_sessions > 1
    /\ active_sessions' = active_sessions - 1
    /\ UNCHANGED <<firmwareVars, device, keyboard, mouse_buttons, software_keyboard,
                   software_mouse_buttons, down, injected>>

\* The last session ends with a RELEASE_ALL; nobody is left to hold a key.
LastSessionEnded(o) ==
    /\ active_sessions = 1
    /\ active_sessions' = 0
    /\ down' = {}
    /\ Send(ReleaseFrame, o)
    /\ keyboard' = IF o = "sent" THEN {} ELSE AfterConnect(o, keyboard)
    /\ mouse_buttons' = IF o = "sent" THEN {} ELSE AfterConnect(o, mouse_buttons)
    /\ FirmwareIdle
    /\ UNCHANGED <<software_keyboard, software_mouse_buttons, injected>>

Heartbeat(o) ==
    /\ device # "none" /\ active_sessions > 0
    /\ Send(HeartbeatFrame, o)
    /\ FirmwareIdle
    /\ UNCHANGED <<keyboard, mouse_buttons, software_keyboard, software_mouse_buttons,
                   active_sessions, down, injected>>

\* The process ends, or is killed, without a word to the bridge; the next
\* one starts from BridgeState::new.
ProcessEnds ==
    /\ device' = "none"
    /\ keyboard' = {} /\ mouse_buttons' = {}
    /\ software_keyboard' = {} /\ software_mouse_buttons' = {}
    /\ active_sessions' = 0
    /\ down' = {} /\ injected' = {}
    /\ UNCHANGED firmwareVars

\* The device goes away under the handle.
Unplug ==
    /\ Umount
    /\ device' = IF device = "open" THEN "stale" ELSE device
    /\ UNCHANGED <<keyboard, mouse_buttons, software_keyboard, software_mouse_buttons,
                   active_sessions, down, injected>>

HostNext ==
    \/ KeyEvent \/ ButtonEvent
    \/ \E o \in Outcomes : MoveRelative(o) \/ MoveAbsolute(o)
    \/ SessionStarted \/ SessionEnded
    \/ \E o \in Outcomes : LastSessionEnded(o) \/ Heartbeat(o)
    \/ ProcessEnds

Next == (FirmwareNext /\ UNCHANGED hostVars) \/ Unplug \/ HostNext

Spec == Init /\ [][Next]_vars

\* The firmware's loop never stops, and a ready endpoint is polled.  Silence
\* becomes long enough once no session is left to write anything.
Fairness ==
    /\ WF_vars(SetReport /\ UNCHANGED hostVars)
    /\ WF_vars(WatchdogTask /\ UNCHANGED hostVars)
    /\ WF_vars(ReleaseTask /\ UNCHANGED hostVars)
    /\ WF_vars((SendCommand \/ ReleaseCommand) /\ UNCHANGED hostVars)
    /\ WF_vars(SilenceElapses /\ active_sessions = 0 /\ UNCHANGED hostVars)

FairSpec == Spec /\ Fairness

-----------------------------------------------------------------------------
TypeOK ==
    /\ frames \in [Slots -> Frames \cup {NoFrame}]
    /\ head \in Slots /\ tail \in Slots /\ count \in 0 .. CAPACITY
    /\ release_stage \in 0 .. 2
    /\ watchdog_armed \in BOOLEAN /\ quiet \in BOOLEAN
    /\ link \in {"unplugged", "mounted", "suspended"}
    /\ out \in Frames \cup {NoFrame}
    /\ shown \in [Collections -> SUBSET Inputs]
    /\ device \in {"none", "open", "stale"}
    /\ keyboard \subseteq Keys /\ software_keyboard \subseteq Keys
    /\ mouse_buttons \subseteq Buttons /\ software_mouse_buttons \subseteq Buttons
    /\ active_sessions \in 0 .. MaxSessions
    /\ down \subseteq Inputs /\ injected \subseteq Inputs

\* Slot i is one of the `count' slots that start at head.
Waiting(i) ==
    \/ head <= i /\ i < head + count
    \/ i + CAPACITY < head + count

\* RingConsistent: the indices of the command queue and its count agree, and
\* exactly the slots between them hold frames, so that queue_front never hands
\* out a slot that was not written and no waiting frame is overwritten, for
\* every mix of frames pushed, sent and cleared.
RingConsistent ==
    /\ tail = IF head + count < CAPACITY THEN head + count ELSE head + count - CAPACITY
    /\ \A i \in Slots : frames[i] # NoFrame <=> Waiting(i)

\* HeldIsGuarded: as long as the machine sees a key, or a button of the
\* relative mouse, pressed, either the watchdog is armed to let it go or the
\* release is under way and has not passed it yet: no unplugging, suspension,
\* RELEASE_ALL or frame that comes in the middle of a release leaves an input
\* pressed that nothing will ever release.
HeldIsGuarded ==
    /\ shown["keyboard"] # {} => watchdog_armed \/ release_stage = 1
    /\ shown["relative"] # {} => watchdog_armed \/ release_stage # 0
    /\ count # 0 => watchdog_armed

\* InjectedIsRemembered: what was pressed with SendInput, and only that, is
\* what software_keyboard and software_mouse_buttons say, so the release of a
\* press that fell back is injected too, however often the bridge came and
\* went in between.
InjectedIsRemembered == injected = software_keyboard \cup software_mouse_buttons

\* SilenceReleases: when from some moment on no session is open and the bridge
\* stays plugged in and awake, every key and every button of the relative
\* mouse is released for good, also when the RELEASE_ALL of the last session
\* was dropped by a full queue, failed to be written, or was never written
\* because the process was killed.
SilenceReleases ==
    <>[](active_sessions = 0 /\ link = "mounted")
        => <>[](shown["keyboard"] = {} /\ shown["relative"] = {})

\* NothingInFlight: the firmware has done all it was told to.
NothingInFlight == out = NoFrame /\ count = 0 /\ release_stage = 0

\* NoStuckKey: with the bridge connected and idle, it shows no key pressed
\* whose last event was its release (hardware/vynx_input_bridge/README.md on
\* the fallback: "This prevents mixed-source stuck keys").
NoStuckKey ==
    device = "open" /\ link = "mounted" /\ NothingInFlight => shown["keyboard"] \subseteq down

\* Rollover: the frame of a key's press still shows every key that the machine
\* sees pressed and that is still held (docs/VYNXDESK_PLAY_PRODUCT.md: "NKRO
\* keyboard usages 0 through 127 and eight left/right modifiers").
Rollover ==
    [][ \A k \in Keys : KeySent(k, TRUE) => shown["keyboard"] \cap down \subseteq out'.held ]_vars
=============================================================================
