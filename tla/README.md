# VynxDesk in TLA+

TLA+ models of the parts of VynxDesk that are hard to test: how the controlled
side lets a connection in, its services and their subscribers, the port-forward
multiplexer, the Play input bridge and its firmware, and the managed-device
licensing service. TLC checks the models on small instances; TLAPS proves the
main safety properties for every value of the constants.

Source paths below are relative to the repository root (`PROJECT.json` writes
them with a leading `src/`).

## The system

VynxDesk is a remote desktop product: a controlling client, a controlled host
and, between them, direct, relayed or KCP connections arranged by a rendezvous
server. `PROJECT.json` lists every part; the ones that carry logic of their own:

| Part | State it keeps | Operations | What is hard |
|---|---|---|---|
| Host login (`src/server/connection.rs`, `src/server/login_failure_check.rs`) | connections, sessions that may be resumed, failures by address and prefix, temporary password, trusted devices, OS backoff | login request, password, code, click, switched sides, OS login, end of a connection | every connection is a task; limits are checked in one step and counted in another; four ways to waive the second factor |
| Host services (`src/server/service.rs`, `src/server.rs`) | subscribers, new subscribers | subscribe, leave, snapshot, swap | joining and leaving during a snapshot, a look in two halves |
| Video service (`src/server/video_service.rs`) | encoder, who was sent a frame, who fetched it | capture, encode, wait, switch | newcomers and the key frame, late acknowledgements, restarts |
| Channel flow control (`src/port_forward_mux.rs`) | credit, window, queues | read, charge, grant, refund | two-step window, partial refunds, parked senders |
| Tunnel (`src/port_forward_mux.rs`, `src/server/port_forward_mux.rs`) | channel map on either side, bounded queues | open, connect, data, close, teardown | order of frames from two halves, cancellation, two loops that block each other |
| Listener (`src/port_forward.rs`) | latched mode and tunnel handle | accept, establish, set_muxed, loop end | state shared with a loop that may end at any time |
| Port-forward login (`src/port_forward.rs`, `src/client.rs`) | one handler shared by all mappings | hash, login, prompt, refusal | tasks interleave at awaits over shared fields |
| Bridge firmware (`hardware/vynx_input_bridge/src/main.c`) | command ring, release stage, watchdog | USB callbacks, tasks | release while frames arrive, unplug, silence |
| Bridge host (`libs/enigo/src/win/bridge.rs`) | what is pressed on the bridge, what was injected | key, button, move, session, heartbeat | the bridge comes and goes while keys are held |
| Licensing (`services/licensing/service.py`) | licenses, devices, challenges, journal | operator commands, challenge, activate, refresh, devices | races for seats, replays, state checked before the lock |
| Downloader (`src/hbbs_http/downloader.rs`) | downloads by URL | start, cancel, remove | an old thread acting on a new entry |
| Client, rendezvous | routes, registration | message dispatch | time-outs and retries |

The parts interact as follows. A connection that the host login lets in
subscribes to the host's services, and is unsubscribed as the last thing it
does. A connection of the port-forward kind becomes a tunnel or a single
forward. On the controlling side the listener of a mapping asks the login for an
authorized stream and hands it to a tunnel; each accepted socket becomes a
channel of the tunnel, and flow control regulates each direction of a channel.
On the controlled side a channel is connected to its target by the connection's
port-forward half. Input events of a session go to the bridge host first and to
SendInput if it declines; the host writes frames that the firmware turns into
USB reports. The licensing service stands alone and is reached over HTTP.

## Modules

| Module | Models |
|---|---|
| `HostLogin` | admission on the controlled side, from `Connection::start` to the drop of its guards |
| `HostService` | one service's two maps of subscribers, and `Server::subscribe` under the Server's lock |
| `VideoService` | extends `HostService` with the thread of one display's video service and what connections tell it |
| `FlowControl` | one direction of one channel: `SendCredit`, `RecvWindow`, both relays |
| `Pipe` | abstract: an ordered pipe that ends complete (everything delivered), unread (nothing delivered) or broken |
| `MuxTunnel` | both ends of a tunnel: channels, queues, loops, link, teardown |
| `Listener` | `listen`, `establish_tunnel`, `set_muxed` and the life of tunnel loops |
| `PortForwardLogin` | several mappings logging in through one `LoginConfigHandler` |
| `BridgeFirmware` | `main.c`: ring, watchdog, two-stage release, USB callbacks |
| `PlayBridge` | composes the firmware with `BridgeState`, SendInput and the sessions |
| `Licensing` | `LicenseStore`: one action per committed transaction |
| `HostLoginProofs`, `VideoServiceProofs`, `MuxTunnelProofs`, `FlowControlProofs`, `ListenerProofs`, `PortForwardLoginProofs`, `PlayBridgeProofs`, `LicensingProofs` | theorems |
| `MC*` | instances for TLC |

Every action stands for what runs between two points where others can run: two
awaits of a task (`MuxTunnel`, `Listener`, `PortForwardLogin`), one call under a
mutex (`PlayBridge`), the steps of a handler between two looks at shared state
(`HostLogin`, `VideoService`), one callback or task of the firmware's single
loop, one SQLite transaction. `PROJECT.json` maps each definition to its lines.

How the data is abstracted:

- *HostLogin*: a password is a number, temporary ones in the order they are
  generated; a session key is the peer that reports it; a scope is a peer and a
  kind of session. Time is in minutes, on a wall clock that may be set either
  way. A handler is split exactly where it acts later on what it read earlier:
  between `check_failure` and `update_failure` (stages `stranger`, `password`,
  `wrong`, `code`), between judging the backoff, taking the gate, asking the OS
  and counting (`os`, `verify`, `refused`), and between the loop's end and the
  drop of the connection (`left`, `forwarding`, `ending`). A click is a message
  that the loop reads later. What the peer or the local user has shown (`proofs`),
  right passwords and codes per peer, and wrong guesses are history and guard
  nothing.
- *VideoService*: frames are not counted, only who has one queued and who owes
  an acknowledgement; `keyed`, who has been sent the encoder's key frame, is
  history.
- *FlowControl*: a frame is its length. `at` and `upto` of frames and grants,
  and the totals, are history and guard nothing but the bound `MaxSpent`.
- *MuxTunnel*: a chunk is its number. Credit is left out, since FlowControl
  shows that no peer running this code trips the window, and reads are free to
  happen at any time, which covers every pace credit could allow.
- *Listener*: a login ends in a failure, a plain stream or a multiplexed one.
- *PortForwardLogin*: a salted hash is the password and the challenge it answers.
- *BridgeFirmware*: a report is the set it shows pressed; time is one bit, "the
  watchdog's time has passed since the last frame".
- *Licensing*: a signature is the key it verifies under; a code is its license
  and how often it was rotated; a transaction that raises leaves no trace.

Two definitions stand for code outside the repository and are marked external:
TinyUSB's `tud_hid_ready` and `tud_hid_report`. Sockets and streams appear as the
choices they leave to the code: a read or a write succeeds, fails or never ends.

## Runs

All bounds are CONSTANTS of the modules. "Why enough" says which cases the
bound must reach. The type invariants of most modules are part of the proofs
and are not repeated in the runs.

| Run | Instance | Shows | Why enough |
|---|---|---|---|
| `host_login` | two connections of two addresses in one prefix, a listed and an unlisted peer, two requests and one, one offer to switch sides, passwords, codes and clicks in every order | nobody is let in without the factors; a click serves what was seen; limits are exceeded by one attempt per connection at most; the temporary password is replaced in time | two connections reach every race between a check and its count, and one can open, renew or resume the session of the other; a second request meets the latched scope and the pending click |
| `host_os_login` | two terminal logins, or one and a stranger; three minutes; backoff of 1 and 2 | the whitelist's budget comes back by admission or age only; no login gets past the policy while a backoff runs, and an attempt made then uses up a pass from before it | a failure, a backoff, the idle reset and a clock set back fit into three minutes; two logins meet at the gate, and one past the policy tries its credentials in the backoff the other has set |
| `video` | two connections, one that acknowledges frames itself, one switch; fair | nobody stays subscribed after leaving; subscribed as asked; no newcomer in others' encoder; newcomers are taken over | one is served while the other comes, leaves, refreshes or closes at every step of the thread |
| `flow` | controller to controlled side; window 8, initial 4, frames up to 3, charge at least 2, 14 charged in total; fair | no overrun, credit backed and not lost, window bounded, no sender parked for ever | 14 is nearly two windows: every grant is used and refilled; lengths 1, 2, 3 are below, at and above the least charge. The other direction, windows that differ and the cap on what is in flight are in the theorems |
| `mux` | one channel, two chunks up and one down, queues and link of 1; fair | order of frames, entries owned, the tunnel implements `Pipe`, teardown ends every task, loops that both wait to send get out | a queue of 1 is full at once, and all queues can be full together; one chunk is set aside while connecting and the other queued behind it, or both set aside. Several channels, and the limit on them, are covered by the theorems |
| `listener` | three tunnels; fair | never pinned to a dead tunnel, mode latched, broken tunnel replaced; once the listener has stopped a loop ends unless one of its sends never returns | a tunnel breaks while a successor is being set up, twice |
| `login` | two mappings, one probing, the insecure question, two connections each, one prompt; fair | each login answers its own challenge with its own target; a typed password is kept and sent | two tasks suffice for every overwrite of the handler; the second connection meets late answers to the first. With two prompts (1.9 million states, four minutes) the result is the same |
| `bridge` | a key, a button, a ring of 1, two sessions; fair | whatever is pressed is guarded, SendInput remembered; after the last session the keyboard and relative mouse are released for good | the RELEASE_ALL itself can be dropped by the full ring; sessions overlap. In a ring of one slot the indices never move: the ring's own arithmetic is left to `QueueSound`, which is proved for every capacity |
| `licensing` | one license with one seat, two keys, three challenges, three operator commands, four instants | seats, one use of a challenge, token terms, journal, refusals, enrolment | two keys race for the seat; release, rotation and expiry fall between challenge and use |

Deadlock checking is off where the instance may stop: all bytes charged, all
connections used, the clock at its bound. The bridge's run checks it.

Three more runs end in a violation, each a disagreement between the code and
what the repository says about it:

| Run | What the code does |
|---|---|
| `listener_remove` | a mapping removed during a login: the `Close` is read and ignored, and the listener never stops |
| `bridge_repeat` | a repeat of a key pressed through SendInput goes to the bridge, its release does not: the key stays pressed |
| `bridge_rollover` | the press that opens the device is forgotten, and the next press lifts it (Ctrl, then C) |

Smaller things met while modelling have no run of their own:

- The comment on `MAX_SEND_CREDIT` says that no more is ever in flight "whatever
  the peer offers". That is exact on the controlled side. The controller has
  `INITIAL_WINDOW` to spend before it learns the offer, and a peer with a larger
  window than its own fills its credit up to the cap besides: `InFlightCapped`
  states the bound with that term, and `FlightIsCapped` proves it.
- The OS-login policy is judged before the gate is taken and a failure is counted
  after it is left, so a login that is past the policy tries its credentials
  although another's failure has set a backoff meanwhile; each such login has one
  attempt (`BackoffHolds`).
- A close that the controlled side reads while it connects to the target drops
  the chunks it has set aside, so data sent just before a close may never reach
  the target: the flow ends unread (`Pipe`), not in part.
- The release of the bridge leaves the absolute mouse's buttons as they were.
- The insecure-connection question throws away a password typed meanwhile.
- `is_subed` looks at the two maps under two locks. If the swap falls between,
  a wish to leave is dropped; `SubscribedAsAsked` states the exception (`torn`).
  Looking at the new subscribers first would close the gap.
- When the last subscriber leaves and another comes before the thread looks,
  the newcomer goes on with the old encoder and sees nothing until a key frame:
  `SharedEncoder` says that old and new are never mixed, not that every newcomer
  has a key frame.
- A connection tells the video service that it has fetched its frame and
  unsubscribes only afterwards (`connection.rs:1091`); a frame encoded in between is waited for until
  the time-out.
- The channel of fetched frames is keyed by the display's index, which a monitor
  and a camera of the same index share.

Every property of a passing run has a mutant, a plausible slip in the code
(written just before the definition it mutates), under which TLC finds it
violated.

## Fairness

Weak fairness is given only to what a runtime must run in the end: a task that
can proceed, a loop with a frame to handle, a firmware task, a send time-out,
the silence of a host that has no session left (its heartbeat stops with the
last session, so nothing resets the timer). Strong fairness is used in
`Listener` for two select branches, `Stop` and `LifetimeOver`, whose channel
stays ready while other branches come and go: tokio polls the branches of a
select in random order, so a ready one is taken eventually. Nothing the user
does is fair, and no read from a socket: opens, reads, closes, key presses and
breakage may never happen.

Some runs assume more of the other end, because their property is about the
protocol and not about a peer that stands still. In `flow` the target connects
and its socket takes what is written (a socket that never does keeps the window
for good, by design). In `login` the peer's Hash arrives or the connection ends,
which the code's read time-out guarantees. `mux` assumes that the controlled
side's send times out, which the code does with a timer, and nothing of the
controller, which has none; for the same reason `listener` assumes nothing of a
loop's send, and `StoppedEndsTunnels` excepts the loop that stays in one for
ever. In `video` the thread keeps running, a capturer can
be made in the end, the screen changes again and the timer of a wait runs
whatever acknowledgements come; refreshes and other reasons to switch are
bounded by `MaxSwitches`, since a display that restarts for ever serves nobody.
No acknowledgement is fair.

## Proofs

No theorem assumes more than the named ASSUMEs of the modules, which say little
beyond the constants' types (`WindowAssumption` also orders the window sizes as
the constants of the code are ordered, `BoundsAssumption` that the longest
backoff is no longer than the idle time that resets it).

- **HostLoginProofs** (`OnlyTheProvedAreLetIn`, `ClickIsForWhatWasSeen`): for any
  number of connections, peers and requests. `AuthorizedProved` speaks of
  connections that are in; the invariant (`LoginInv`) says of each connection in
  the middle of a login what has been proved so far (`Sound`: where the second
  factor is no longer asked for, why), and of every session that may be resumed
  that its peer gave the password it holds and, where it waives the code, a code
  (`Resumable`). A session is opened before the second factor is given, which is
  why the two are separate. A click is tied to its scope by the latch: a later
  request with another scope ends the connection.
- **HostLoginProofs**, second part (`AttemptsAreLimited`, `GuessesAreLimited`,
  `BudgetIsEarned`, `BackoffIsKept`): for any addresses, prefixes, limits,
  backoffs and connections. Each step is accounted for at each counter: it does
  not charge it and begins no attempt, or the counter stands below its limit, or
  it charges the connection's pending attempt (`Accounted`). Guesses at the
  temporary password are bounded by what is counted against the current one plus
  the connections that have compared and not counted. A backoff ends at most
  `BackoffMax` after the last failure, and a running one implies more than the
  free failures, so neither the idle reset nor a failure without a backoff can
  cut it short. Nothing keeps a login that is already past the policy from trying
  its credentials; `BackoffHolds` says that such attempts use up passes given
  before the backoff.
- **VideoServiceProofs** (`GoneIsUnsubscribed`, `AskedIsDone`,
  `EncoderIsShared`): for any number of connections. Needed: the two maps are
  disjoint, who is inside `Server::subscribe` holds its lock, and the swap leaves
  the encoder alive only if nobody was subscribed before.
- **MuxTunnelProofs** (`ChannelsOwned`, `FramesInOrder`, `TunnelIsPipe`): for any
  ids, queue sizes and chunks. The invariant `FlightInv` orders what is queued,
  on the link and still to be sent by the two halves of a channel: nothing
  follows a close, and no open is sent twice. `TunnelIsPipe` is the refinement:
  every step of the tunnel is a step of `Pipe` or leaves it alone. How a flow ends
  is read off the reader's half and task (`Ending`): complete when its relay took
  the peer's close, unread when it ended before it relayed (also by a close that
  came while connecting), broken otherwise. Its invariant
  `PipeInv` follows a chunk from socket to socket: what is set aside and queued
  at an end is numbered on from what it has written (`InOrder`), what is on the
  way carries on from there, up to the last chunk sent while the sender's loop
  lives (`Numbered`), an end comes after the last, and an end that is anywhere on
  the way or seen is that of a task that sends no more (`Evidence`). The count of
  chunks in a queue would need induction; a counter per frame, said to exist,
  takes its place. The parts an end gives up (a write that fails, a cancelled
  half, a loop that ends) are exempt, because no close is taken after them.
- **FlowControlProofs** (`TypeCorrect`, `NoOverrun`, `CreditIsBacked`,
  `WindowIsBounded`, `Accounting`, `FlightIsCapped`): for every window, cap,
  frame size and charge. `FlightIsCapped` does not rest on the accounting, which
  needs the peer's window to be within the cap, but on an invariant of its own:
  credit held, taken and spent, less what `window_update` has returned, stays
  within the bound (`OutCapped`), since only `opened` raises it and `add` stops at
  the cap. The totals of queues are what an
  accounting argument needs and what cannot be summed here without induction.
  Instead the window charged so far is a line, each frame and grant in flight
  covers a stretch of it, and the invariant says that the stretches in each
  queue follow each other without a gap (`Chain`); queue ends then give the
  totals by subtraction.
- **ListenerProofs** (`NoDeadTunnel`, `LegacyStays`): for any number of tunnels.
  `NeverPinned` is not inductive: it needs `Order`, that nothing else is alive
  while a tunnel is being established and that a loop not yet spawned is the
  newest.
- **PortForwardLoginProofs** (`LoginsAreOwn`, `TypedIsNotLost`): for any number
  of mappings, passwords and connections. The invariant is about the turn: a
  mapping is queued for it at most once, only the first of the queue is past the
  wait, and between the two halves of `login_with_hash` the handler's target and
  mode are still that mapping's. The rest is about one mapping: what its loop has
  read waits in `pending_login` until the hash is there.
- **PlayBridgeProofs** (`BridgeTypeCorrect`, `QueueSound`, `NothingLeftPressed`,
  `FallbackRemembers`): for any keys, buttons and ring capacity. The ring's
  consistency and the guard are proved together, since a report comes from a slot
  of the ring, and a frame waits only while the watchdog is armed.
- **LicensingProofs** (`SeatsNeverOversold`, `NoReplay`, `TokensEndInTime`,
  `OnlyProvedEnrol`, `TheRefusedStayRefused`, `JournalIsTrue`): for any number of licenses, keys,
  challenges and commands. `OneShot` needs that a nonce has one row and none once
  honoured; `TokenWithinLicense` that a token's license was issued, so that no
  later step shortens it; `SeatLimit` that the active devices are finitely many.
  The two action properties follow from the same invariant and a lemma on who
  may enrol, mint and serve. `JournalExplains` needs that every event is of a
  license that was issued, so that the first event of a license is its issue.

Only model-checked: the liveness properties, `NeverStuck`, `TypedIsSent`,
`TeardownReachesAll`, `NoMutualBlock`, `BrokenIsReplaced`,
`StoppedEndsTunnels`, `SilenceReleases` and `NewcomersServed`: fairness is out
of the prover's reach. Every other property of a passing run has its theorem.
Only proved: `InFlightCapped`, since the case it is about, a peer of another
build, is not an instance the other properties of `flow` speak of, and
`RingConsistent`, since a ring that wraps around makes the bridge's run too
large (7 million states).

## Not modelled

Capture, codecs, audio, clipboards, printing and input injection are platform
and library calls; the user interfaces present state that others own;
`hbb_common` is a submodule that is not in the repository. Within the modelled
parts: the permissions a connection has once it is in and the messages it then
handles, services without a snapshot (cursor, clipboard, audio), the Telegram bot
and the arithmetic of one-time codes, two-factor and OS logins of a port forward
on the controlling side, RDP start-up, the licensing service's rate counters and
HTTP framing, the bridge's status counters, LED and frame CRC, and wrap-around
of channel ids (2^32 opens of one tunnel).

Smaller simplifications, at the lines they concern:

- *HostLogin*: an id whitelist that is empty returns before it decays or checks
  anything (`connection.rs:1322`); the model has one that lists somebody. A
  session key is the peer, not its id, name and session id. Every port forward is
  a single one that ends the loop; a multiplexed forward stays in it
  (`connection.rs:1678`). A code that cannot be computed (`connection.rs:2938`)
  changes nothing and is left out. What a user sees when clicking is the
  connection's current scope rather than what `try_start_cm` last sent
  (`connection.rs:2219`). `guesses` counts the comparisons of a login's password,
  not those with the password of a session (`connection.rs:2496`).
- *Licensing*: `issue` reads the clock before it gets the lock (`service.py:182`),
  the model at the commit; the check of the key's id (`service.py:304`) is part of
  the activation's identity.
- *PlayBridge*: keys and buttons come from a live session, which `key_event`
  itself does not ask for; `release_all` appears where the sessions call it, not as
  a call of its own (`bridge.rs:383`).
- *PortForwardLogin*: what is typed is never empty; an empty password would be
  replaced by the remembered one (`client.rs:4589`).

The downloader, record upload, quality of service, the updater, the rendezvous
mediator, the client's routes and the terminal service are not modelled yet;
`PROJECT.json` says of each why or what is planned.

## Plan

Done, in this order: FlowControl and its proofs, MuxTunnel over Pipe, Listener
and its proofs, PortForwardLogin, the bridge and its proofs, Licensing and its
proofs, HostLogin and HostService with VideoService, the proofs of MuxTunnel,
VideoService, HostLogin and PortForwardLogin, the accounting of FlowControl and
the refinement of Pipe.

Next, by what is most exposed:

1. `Downloader`: threads keyed by URL, with retry, cancel, removal and the
   delayed deletion.
2. Terminals kept across reconnections; routes and retries of the client and the
   rendezvous mediator.
3. `RecordUpload`, `VideoQoS` bounds, the updater's check thread.
4. Request rates of the licensing service.

To prove: the safety properties of each new module as it comes.
