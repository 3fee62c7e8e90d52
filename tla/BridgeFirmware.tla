--------------------------- MODULE BridgeFirmware ---------------------------
(***************************************************************************)
(* The firmware of the VynxDesk Play Bridge, the RP2040 board that turns   *)
(* command frames into USB keyboard and mouse reports                      *)
(* (hardware/vynx_input_bridge/src/main.c).  One loop runs tud_task, which *)
(* calls the USB callbacks, watchdog_task and command_task; nothing runs   *)
(* in an interrupt, so a callback or a task is one action.  A task that    *)
(* finds nothing to do, or an endpoint that is busy, changes nothing.      *)
(*                                                                         *)
(* A report is the set of keys or buttons it shows pressed: pointer motion *)
(* has no state.  The counters of bridge_status that only a status report  *)
(* reads, the LED and the CRC of a frame are left out: every frame the     *)
(* host writes is well formed, and one that is not changes a counter only. *)
(* Time is one bit, `quiet': VYNX_WATCHDOG_MS have passed since the last   *)
(* frame arrived.                                                          *)
(***************************************************************************)
EXTENDS Naturals

CONSTANTS
    Keys,       \* the key usages in play
    Buttons,    \* the mouse buttons in play
    CAPACITY,   \* VYNX_QUEUE_CAPACITY
    NoFrame     \* an empty slot of the queue or of the OUT endpoint

ASSUME CapacityAssumption == CAPACITY \in Nat \ {0}

VARIABLES
    frames,         \* command_queue.frames, unused slots blank
    head, tail,     \* where the next frame is taken from and put
    count,          \* how many frames wait
    release_stage,  \* 0 idle, 1 keyboard to be released, 2 mouse to be
    watchdog_armed,
    quiet,          \* more than VYNX_WATCHDOG_MS since last_contact_ms
    link,           \* the USB device: "unplugged", "mounted", "suspended"
    out,            \* the frame in the OUT endpoint, not yet called back
    shown           \* what the last report of each collection shows pressed

ringVars == <<frames, head, tail, count>>
firmwareVars == <<frames, head, tail, count, release_stage, watchdog_armed,
                  quiet, link, out, shown>>

Collections == {"keyboard", "relative", "absolute"}
Inputs == Keys \cup Buttons
Frames == [cmd : Collections \cup {"release", "heartbeat"}, held : SUBSET Inputs]
ReleaseFrame == [cmd |-> "release", held |-> {}]
HeartbeatFrame == [cmd |-> "heartbeat", held |-> {}]

ASSUME InputAssumption == Keys \cap Buttons = {} /\ NoFrame \notin Frames

Slots == 0 .. CAPACITY - 1
Blank == [i \in Slots |-> NoFrame]

\* (i + 1) % CAPACITY for an index of the queue.
After(i) == IF i + 1 = CAPACITY THEN 0 ELSE i + 1

FirmwareInit ==
    /\ frames = Blank /\ head = 0 /\ tail = 0 /\ count = 0
    /\ release_stage = 0
    /\ watchdog_armed = FALSE
    /\ quiet = FALSE
    /\ link = "unplugged"
    /\ out = NoFrame
    /\ shown = [c \in Collections |-> {}]

-----------------------------------------------------------------------------
\* The queue.  A slot outside the window is never read before it is written
\* again, so the model blanks it.

QueueClear == frames' = Blank /\ head' = 0 /\ tail' = 0 /\ count' = 0

\* Mutant of QueuePush: a full queue is overrun.
QueuePushOverruns(f) ==
    /\ frames' = [frames EXCEPT ![tail] = f]
    /\ tail' = After(tail)
    /\ count' = count + 1
    /\ UNCHANGED head

QueuePush(f) ==
    IF count = CAPACITY
    THEN UNCHANGED ringVars
    ELSE /\ frames' = [frames EXCEPT ![tail] = f]
         /\ tail' = After(tail)
         /\ count' = count + 1
         /\ UNCHANGED head

QueuePop ==
    IF count = 0
    THEN UNCHANGED ringVars
    ELSE /\ frames' = [frames EXCEPT ![head] = NoFrame]
         /\ head' = After(head)
         /\ count' = count - 1
         /\ UNCHANGED tail

\* Mutant of RequestReleaseAll: what waits is sent after the release.
RequestReleaseKeepsQueue ==
    /\ release_stage' = 1
    /\ watchdog_armed' = FALSE
    /\ UNCHANGED ringVars

RequestReleaseAll ==
    /\ QueueClear
    /\ release_stage' = 1
    /\ watchdog_armed' = FALSE

\* tud_hid_ready: only a device that is mounted and awake may report.
Ready == link = "mounted"

\* tud_hid_report: the host polls the endpoint and takes the report.
Report(c, held) == shown' = [shown EXCEPT ![c] = held]

-----------------------------------------------------------------------------
\* The callbacks of tud_task.

\* Mutant of SetReport: only a heartbeat arms the watchdog.
SetReportUnarmed ==
    /\ link = "mounted" /\ out # NoFrame
    /\ out' = NoFrame
    /\ quiet' = FALSE
    /\ watchdog_armed' = (watchdog_armed \/ out.cmd = "heartbeat")
    /\ IF out.cmd = "heartbeat" THEN UNCHANGED ringVars ELSE QueuePush(out)
    /\ UNCHANGED <<release_stage, link, shown>>

\* tud_hid_set_report_cb: a frame has come; whatever becomes of it, it is a
\* sign of life.  A heartbeat is not queued, and a frame that finds the queue
\* full is dropped.
SetReport ==
    /\ link = "mounted" /\ out # NoFrame
    /\ out' = NoFrame
    /\ quiet' = FALSE
    /\ watchdog_armed' = TRUE
    /\ IF out.cmd = "heartbeat" THEN UNCHANGED ringVars ELSE QueuePush(out)
    /\ UNCHANGED <<release_stage, link, shown>>

Mount ==
    /\ link = "unplugged"
    /\ link' = "mounted"
    /\ QueueClear
    /\ release_stage' = 1
    /\ watchdog_armed' = FALSE
    /\ UNCHANGED <<quiet, out, shown>>

\* tud_umount_cb, or the board losing its power with the cable and starting
\* over at the next one; the host drops the device and what it showed.
Umount ==
    /\ link # "unplugged"
    /\ link' = "unplugged"
    /\ QueueClear
    /\ watchdog_armed' = FALSE
    /\ release_stage' \in {release_stage, 0}
    /\ out' = NoFrame
    /\ shown' = [c \in Collections |-> {}]
    /\ UNCHANGED quiet

Suspend ==
    /\ link = "mounted"
    /\ link' = "suspended"
    /\ RequestReleaseAll
    /\ UNCHANGED <<quiet, out, shown>>

Resume ==
    /\ link = "suspended"
    /\ link' = "mounted"
    /\ RequestReleaseAll
    /\ UNCHANGED <<quiet, out, shown>>

-----------------------------------------------------------------------------
\* The tasks of the main loop.

\* VYNX_WATCHDOG_MS go by without a frame.
SilenceElapses ==
    /\ watchdog_armed /\ ~quiet
    /\ quiet' = TRUE
    /\ UNCHANGED <<ringVars, release_stage, watchdog_armed, link, out, shown>>

WatchdogTask ==
    /\ watchdog_armed /\ quiet
    /\ RequestReleaseAll
    /\ UNCHANGED <<quiet, link, out, shown>>

ReleaseTask ==
    /\ release_stage # 0 /\ Ready
    /\ IF release_stage = 1
       THEN Report("keyboard", {}) /\ release_stage' = 2
       ELSE Report("relative", {}) /\ release_stage' = 0
    /\ UNCHANGED <<ringVars, watchdog_armed, quiet, link, out>>

\* command_task on a report: it is sent as it stands and leaves the queue.
SendCommand ==
    /\ release_stage = 0 /\ count # 0 /\ Ready
    /\ frames[head].cmd \in Collections
    /\ Report(frames[head].cmd, frames[head].held)
    /\ QueuePop
    /\ UNCHANGED <<release_stage, watchdog_armed, quiet, link, out>>

\* command_task on a RELEASE_ALL: the queue is cleared with the frame in it,
\* and the queue_pop that follows finds nothing to take.
ReleaseCommand ==
    /\ release_stage = 0 /\ count # 0 /\ Ready
    /\ frames[head].cmd = "release"
    /\ RequestReleaseAll
    /\ UNCHANGED <<quiet, link, out, shown>>

\* Every step but Umount, which the host sees too.
FirmwareNext ==
    \/ SetReport \/ Mount \/ Suspend \/ Resume
    \/ SilenceElapses \/ WatchdogTask \/ ReleaseTask
    \/ SendCommand \/ ReleaseCommand

=============================================================================
