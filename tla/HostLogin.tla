---------------------------- MODULE HostLogin ----------------------------
(***************************************************************************)
(* How the controlled side admits a connection (src/server/connection.rs,  *)
(* src/server/login_failure_check.rs): login requests, the limits on wrong *)
(* attempts, the second factor, the click in the connection manager, the   *)
(* sessions a reconnection may resume, switching sides and the OS login of *)
(* a terminal.  Every connection is a task of its own; what they share is  *)
(* behind mutexes that are taken and left several times by one handler, so *)
(* a handler is split wherever it acts later on what it read earlier.      *)
(*                                                                         *)
(* A password is a number: the temporary passwords are numbered from 1 in  *)
(* the order they are generated.  A session key is the peer that reports   *)
(* it.  Time is counted in minutes.                                        *)
(***************************************************************************)
EXTENDS Integers, FiniteSets

CONSTANTS
  Conns,          \* connection ids; an id is never used twice
  Nobody,         \* no connection
  Peers,          \* controlling peers, as they report themselves
  Allowed,        \* the peers the id whitelist lets in
  Asks,           \* who a connection may say it is, and the session it asks for
  Buckets,        \* addresses and IPv6 prefixes that failures are counted by
  AddressOf,      \* the bucket of a connection's own address
  PrefixesOf,     \* the buckets of the prefixes around it
  Limit,          \* failures after which a bucket is blocked
  PerMinute,      \* failures of one address within one minute
  DecayWindow,    \* ID_WHITELIST_FAILURE_DECAY_MINUTES
  MaxConsecutive, \* MAX_CONSECUTIVE_FAILURES of one temporary password
  FreeFailures,   \* OS login failures without a backoff
  BackoffBase,    \* OS_CREDENTIAL_LOGIN_BACKOFF_BASE_SECONDS
  BackoffMax,     \* OS_CREDENTIAL_LOGIN_BACKOFF_MAX_SECONDS
  IdleReset,      \* OS_CREDENTIAL_LOGIN_TOTAL_IDLE_RESET_MS
  MaxLogins,      \* bound: login requests and codes of a connection
  MaxInvites,     \* bound: switches of sides that are offered
  MaxClock        \* bound: the last minute

SessionTypes == {"remote", "file", "camera", "forward", "terminal"}

ASSUME ConnsAssumption == IsFiniteSet(Conns) /\ Nobody \notin Conns /\ Peers # {}

Scopes == [peer : Peers, type : SessionTypes]

ASSUME AsksAssumption == Asks \in [Conns -> SUBSET Scopes] /\ Allowed \subseteq Peers

ASSUME BucketsAssumption ==
  /\ AddressOf \in [Conns -> Buckets]
  /\ PrefixesOf \in [Conns -> SUBSET Buckets]
  /\ Limit \in [Buckets -> Nat]

ASSUME BoundsAssumption ==
  /\ MaxConsecutive \in Nat \ {0}
  /\ {PerMinute, DecayWindow, FreeFailures, IdleReset} \subseteq Nat
  /\ {BackoffBase, BackoffMax} \subseteq Nat \ {0}
  /\ BackoffMax <= IdleReset
  /\ MaxLogins \in [Conns -> Nat] /\ {MaxInvites, MaxClock} \subseteq Nat

VARIABLES
  conn,       \* the connections
  sessions,   \* SESSIONS
  authed,     \* AUTHED_CONNS
  fails,      \* LOGIN_FAILURES: password, second factor, id whitelist
  temp,       \* the temporary password
  tempFails,  \* TEMPORARY_PASSWORD_FAILURES
  trusted,    \* Config::get_trusted_devices
  offers,     \* SWITCH_SIDES_UUID
  os,         \* OS_CREDENTIAL_LOGIN_FAILURE_STATE
  gate,       \* who holds OS_CREDENTIAL_LOGIN_MUTEX, or nobody
  clock,
  earned,     \* history: the right passwords a peer has given
  coded,      \* history: the peers that have given a right code
  guesses     \* history: wrong guesses at temp since it was new or guessed

shared == <<sessions, authed, fails, temp, tempFails, trusted, offers, os, gate>>
history == <<earned, coded, guesses>>
vars == <<conn, shared, clock, history>>

NoPassword == 0
WrongPassword == -1
PermanentPassword == -2

(* The maps of LOGIN_FAILURES, by what was wrong. *)
Kinds == {"password", "code", "id"}

NoFailure == [minute |-> 0, inMinute |-> 0, total |-> 0]

NoSession == [live |-> FALSE, password |-> NoPassword, tfa |-> FALSE, fresh |-> FALSE, readers |-> {}]

Unknown == [peer |-> CHOOSE p \in Peers : TRUE, type |-> "remote"]

(* A connection as Connection::start makes it. need2fa is require_2fa; had *)
(* and at are what check_failure returned; then is what an OS login goes   *)
(* on with. History: wants, the first value of need2fa; seen, what the     *)
(* user saw when clicking; granted and byClick, the admission; proofs,     *)
(* what the peer or the local user has shown.                              *)
NewConn ==
  [pc |-> "new", asked |-> 0, latched |-> FALSE, scope |-> Unknown, password |-> NoPassword,
   osLogin |-> FALSE, token |-> FALSE, authorized |-> FALSE, need2fa |-> FALSE, wants |-> FALSE,
   awaiting |-> FALSE, fromSwitch |-> FALSE, cm |-> FALSE, shown |-> FALSE, clicked |-> FALSE,
   seen |-> Unknown, granted |-> Unknown, byClick |-> FALSE, socket |-> FALSE,
   then |-> "logon", trust |-> FALSE, had |-> FALSE, at |-> 0, proofs |-> {}]

Init ==
  /\ conn = [c \in Conns |-> NewConn]
  /\ sessions = [p \in Peers |-> NoSession]
  /\ authed = {}
  /\ fails = [i \in Kinds |-> [k \in Buckets |-> NoFailure]]
  /\ temp = 1
  /\ tempFails = [password |-> 0, n |-> 0]
  /\ trusted = {}
  /\ offers = [open |-> {}, made |-> 0]
  /\ os = [total |-> 0, until |-> 0, last |-> 0]
  /\ gate = Nobody
  /\ clock = 1
  /\ earned = [p \in Peers |-> {}]
  /\ coded = {}
  /\ guesses = 0

----------------------------------------------------------------------------
(* Wrong attempts, counted by address and by IPv6 prefix. *)

BucketsOf(c) == {AddressOf[c]} \cup PrefixesOf[c]

bump_failure_entry(e, minute) ==
  [minute |-> minute, inMinute |-> IF e.minute = minute THEN e.inMinute + 1 ELSE 1, total |-> e.total + 1]

(* The map i of f after a wrong attempt of c in that minute. *)
Charged(f, i, c, minute) ==
  [f EXCEPT ![i] = [k \in Buckets |-> IF k \in BucketsOf(c) THEN bump_failure_entry(@[k], minute) ELSE @[k]]]

clear_failures(f, i, c) ==
  [f EXCEPT ![i] = [k \in Buckets |-> IF k \in BucketsOf(c) THEN NoFailure ELSE @[k]]]

(* Mutant: the window is not looked at. *)
DecaysAtOnce(f, c) ==
  [f EXCEPT !["id"] = [k \in Buckets |-> IF k \in BucketsOf(c) THEN NoFailure ELSE @[k]]]

decay_stale_failures(f, c) ==
  [f EXCEPT !["id"] = [k \in Buckets |->
     IF k \in BucketsOf(c) /\ @[k].minute # 0 /\ clock - @[k].minute >= DecayWindow THEN NoFailure ELSE @[k]]]

(* Mutant: the prefixes are not looked at. *)
BlockedByAddress(f, i, c) ==
  \/ f[i][AddressOf[c]].total > Limit[AddressOf[c]]
  \/ f[i][AddressOf[c]].minute = clock /\ f[i][AddressOf[c]].inMinute > PerMinute

(* check_failure: a prefix or the address has too many, or the address has *)
(* too many within this minute.                                            *)
Blocked(f, i, c) ==
  \/ \E k \in BucketsOf(c) : f[i][k].total > Limit[k]
  \/ f[i][AddressOf[c]].minute = clock /\ f[i][AddressOf[c]].inMinute > PerMinute

(* The failure and the minute that check_failure hands to update_failure. *)
Noted(r, i, c) == [r EXCEPT !.had = fails[i][AddressOf[c]].minute # 0, !.at = clock]

(* update_failure with remove: nothing, unless the address had an entry. *)
Forgiven(f, i, c) == IF conn[c].had THEN clear_failures(f, i, c) ELSE f

----------------------------------------------------------------------------
(* Sessions a reconnection may resume. *)

(* The retain of is_recent_session. *)
Recent(s) == [p \in Peers |-> IF s[p].fresh THEN s[p] ELSE NoSession]

(* Mutant: the second factor is taken as given. *)
InsertWithSecondFactor(s, p, password) ==
  [s EXCEPT ![p] = IF @.live THEN [@ EXCEPT !.password = password, !.tfa = TRUE]
                   ELSE [NoSession EXCEPT !.live = TRUE, !.password = password, !.tfa = TRUE, !.fresh = TRUE]]

update_or_insert_session(s, p, password) ==
  [s EXCEPT ![p] = IF @.live THEN [@ EXCEPT !.password = password, !.tfa = FALSE]
                   ELSE [NoSession EXCEPT !.live = TRUE, !.password = password, !.fresh = TRUE]]

set_session_2fa(s, p) ==
  [s EXCEPT ![p] = IF @.live THEN [@ EXCEPT !.tfa = TRUE]
                   ELSE [NoSession EXCEPT !.live = TRUE, !.tfa = TRUE, !.fresh = TRUE]]

check_remove_session(s, c) ==
  LET p == conn[c].scope.peer
      is_remote == \E a \in authed : a.conn = c /\ a.type = "remote"
      another_remote == \E a \in authed : a.conn # c /\ a.peer = p /\ a.type = "remote"
  IN [s EXCEPT ![p] = IF is_remote \/ ~another_remote THEN NoSession ELSE @]

----------------------------------------------------------------------------
(* Admission: send_logon_response_and_keep_alive and what it calls. *)

Is(c, stage) == conn[c].pc = stage

(* The handler returns to the select loop. *)
Idle(r) == [r EXCEPT !.pc = "idle", !.then = "logon", !.trust = FALSE, !.had = FALSE, !.at = 0]

(* The same, and try_start_cm has told the manager. *)
Shown(r) == [Idle(r) EXCEPT !.shown = TRUE]

(* The loop is left; only these fields are used after it. *)
Left(r) == [NewConn EXCEPT !.pc = "left", !.authorized = r.authorized, !.scope = r.scope]

(* should_use_terminal_os_login_scope *)
OsScope(r) == r.scope.type = "terminal" /\ r.osLogin

os_credential_login_backoff(n) ==
  LET exp == IF n - FreeFailures - 1 < 7 THEN n - FreeFailures - 1 ELSE 7
      wait == BackoffBase * 2^exp
  IN IF n <= FreeFailures THEN 0 ELSE IF wait < BackoffMax THEN wait ELSE BackoffMax

(* Mutant: any idle time resets. *)
ResetsAtOnce == [total |-> 0, until |-> 0, last |-> 0]

(* reset_totals_on_idle, then normalize_backoff. *)
OsNow ==
  LET o == IF os.last # 0 /\ clock - os.last >= IdleReset THEN [total |-> 0, until |-> 0, last |-> 0] ELSE os
  IN IF o.until <= clock THEN [o EXCEPT !.until = 0] ELSE o

(* connect_port_forward_if_needed and the rest of the admission. A forward *)
(* whose target refuses ends the connection.                               *)
Admit(c, r, s, f) ==
  \/ /\ r.scope.type = "forward"
     /\ conn' = [conn EXCEPT ![c] = Left(r)]
     /\ sessions' = s /\ fails' = f /\ UNCHANGED authed
  \/ /\ conn' = [conn EXCEPT ![c] = [Shown(r) EXCEPT !.authorized = TRUE, !.granted = r.scope,
                                                     !.socket = r.scope.type = "forward"]]
     /\ fails' = clear_failures(f, "id", c)
     /\ authed' = authed \cup {[conn |-> c, type |-> r.scope.type, peer |-> r.scope.peer]}
     /\ sessions' = [s EXCEPT ![r.scope.peer].readers = IF s[r.scope.peer].live THEN @ \cup {c} ELSE @]

(* The first half of prepare_terminal_login_for_authorization: an OS login *)
(* is judged by the policy; a session user's token is there or is not.     *)
Prepare(c, r, s, f, then) ==
  IF r.scope.type # "terminal" \/ r.token
  THEN /\ UNCHANGED os
       /\ IF then = "logon" THEN Admit(c, r, s, f)
          ELSE conn' = [conn EXCEPT ![c] = Shown(r)] /\ sessions' = s /\ fails' = f /\ UNCHANGED authed
  ELSE IF OsScope(r)
  THEN /\ os' = OsNow
       /\ conn' = [conn EXCEPT ![c] = IF OsNow.until # 0 THEN Left(r) ELSE [r EXCEPT !.pc = "os", !.then = then]]
       /\ sessions' = s /\ fails' = f /\ UNCHANGED authed
  ELSE /\ UNCHANGED os
       /\ \/ Admit(c, [r EXCEPT !.token = TRUE], s, f)
          \/ conn' = [conn EXCEPT ![c] = Left(r)] /\ sessions' = s /\ fails' = f /\ UNCHANGED authed

(* send_logon_response_and_keep_alive for the connection r, with the       *)
(* sessions s and the failures f as the handler has left them.             *)
Logon(c, r, s, f) ==
  LET recent == IF r.need2fa /\ ~r.authorized THEN Recent(s) ELSE s
      waived == r.password # NoPassword /\ recent[r.scope.peer].live /\ recent[r.scope.peer].tfa
  IN IF r.authorized
     THEN conn' = [conn EXCEPT ![c] = Shown(r)] /\ sessions' = s /\ fails' = f /\ UNCHANGED <<authed, os>>
     ELSE IF r.need2fa /\ ~waived /\ ~r.fromSwitch
     THEN /\ conn' = [conn EXCEPT ![c] = [Shown(r) EXCEPT !.awaiting = TRUE]]
          /\ sessions' = recent /\ fails' = f /\ UNCHANGED <<authed, os>>
     ELSE Prepare(c, [r EXCEPT !.awaiting = FALSE], recent, f, "logon")

----------------------------------------------------------------------------
(* Login requests. *)

(* Connection::start up to its loop: on_open may refuse the address. *)
Open(c) ==
  /\ Is(c, "new")
  /\ \E tfa \in BOOLEAN : conn' = [conn EXCEPT ![c].pc = "idle", ![c].need2fa = tfa, ![c].wants = tfa]
  /\ UNCHANGED <<shared, clock, history>>

Requests(c) ==
  [scope : Asks[c], password : {NoPassword, WrongPassword, PermanentPassword} \cup 1..temp,
   hwid : BOOLEAN, osLogin : BOOLEAN]

(* handle_login_request_without_validation, after reset of the scope. *)
Requested(r, lr) ==
  [r EXCEPT !.asked = @ + 1, !.latched = TRUE, !.scope = lr.scope, !.password = lr.password,
            !.osLogin = lr.osLogin /\ lr.scope.type = "terminal", !.awaiting = FALSE, !.need2fa = @ /\ ~(lr.hwid /\ lr.scope.peer \in trusted)]

(* Mutant: only the identity is latched. *)
PeerChanged(c, lr) == conn[c].latched /\ lr.scope.peer # conn[c].scope.peer

(* The request changes the scope that was latched by an earlier one. *)
ScopeChanged(c, lr) == conn[c].latched /\ lr.scope # conn[c].scope

(* on_message for a LoginRequest, up to the password: the scope, the id    *)
(* whitelist, the permission for the type, then what the request asks for. *)
LoginRequest(c) ==
  /\ Is(c, "idle") /\ ~conn[c].authorized /\ conn[c].asked < MaxLogins[c]
  /\ \E lr \in Requests(c) :
       LET f == decay_stale_failures(fails, c)
           r0 == Requested(conn[c], lr)
           r == [r0 EXCEPT !.cm = @ \/ ~OsScope(r0)]
           s == Recent(sessions)
           p == lr.scope.peer
       IN \/ /\ ScopeChanged(c, lr)
             /\ conn' = [conn EXCEPT ![c] = Left(@)]
             /\ UNCHANGED <<fails, sessions, authed, os>>
          \/ /\ ~ScopeChanged(c, lr) /\ Blocked(f, "id", c)
             /\ conn' = [conn EXCEPT ![c] = Left(r0)]
             /\ fails' = f /\ UNCHANGED <<sessions, authed, os>>
          \/ /\ ~ScopeChanged(c, lr) /\ ~Blocked(f, "id", c) /\ p \notin Allowed
             /\ conn' = [conn EXCEPT ![c] = [Noted(r0, "id", c) EXCEPT !.pc = "stranger"]]
             /\ fails' = f /\ UNCHANGED <<sessions, authed, os>>
          \/ /\ ~ScopeChanged(c, lr) /\ ~Blocked(f, "id", c) /\ p \in Allowed
             /\ \/ \* the type is not permitted here, privacy mode is on, or the name is wrong
                   conn' = [conn EXCEPT ![c] = Left(r0)] /\ fails' = f /\ UNCHANGED <<sessions, authed, os>>
                \/ \* only a click can let it in
                   IF OsScope(r) THEN Prepare(c, r, sessions, f, "show")
                   ELSE conn' = [conn EXCEPT ![c] = Shown(r)] /\ fails' = f /\ UNCHANGED <<sessions, authed, os>>
                \/ \* a recent session of this peer has this password
                   /\ lr.password # NoPassword /\ s[p].live /\ s[p].password = lr.password
                   /\ Logon(c, r, s, f)
                \/ /\ ~(lr.password # NoPassword /\ s[p].live /\ s[p].password = lr.password)
                   /\ IF lr.password = NoPassword
                      THEN IF OsScope(r) THEN Prepare(c, r, s, f, "show")
                           ELSE conn' = [conn EXCEPT ![c] = Shown(r)] /\ sessions' = s /\ fails' = f /\ UNCHANGED <<authed, os>>
                      ELSE /\ conn' = [conn EXCEPT ![c] = IF Blocked(f, "password", c) THEN Idle(r)
                                                         ELSE [Noted(r, "password", c) EXCEPT !.pc = "password"]]
                           /\ sessions' = s /\ fails' = f /\ UNCHANGED <<authed, os>>
  /\ UNCHANGED <<temp, tempFails, trusted, offers, gate, clock, history>>

(* The end of check_id_whitelist for an id that is not listed. *)
RefuseStranger(c) ==
  /\ Is(c, "stranger")
  /\ fails' = Charged(fails, "id", c, conn[c].at)
  /\ conn' = [conn EXCEPT ![c] = Left(@)]
  /\ UNCHANGED <<sessions, authed, temp, tempFails, trusted, offers, os, gate, clock, history>>

(* validate_password; a right temporary password opens or renews the       *)
(* peer's session before the second factor is asked for.                   *)
ValidatePassword(c) ==
  LET r == conn[c]
      p == r.scope.peer
  IN /\ Is(c, "password")
     /\ \/ /\ r.password = temp
           /\ tempFails' = [password |-> temp, n |-> 0] /\ guesses' = 0
           /\ earned' = [earned EXCEPT ![p] = @ \cup {temp}]
           /\ Logon(c, [r EXCEPT !.proofs = @ \cup {"password"}], update_or_insert_session(sessions, p, temp),
                    Forgiven(fails, "password", c))
        \/ /\ r.password = PermanentPassword
           /\ Logon(c, [r EXCEPT !.proofs = @ \cup {"password"}], sessions, Forgiven(fails, "password", c))
           /\ UNCHANGED <<tempFails, guesses, earned>>
        \/ /\ r.password \notin {temp, PermanentPassword}
           /\ conn' = [conn EXCEPT ![c].pc = "wrong"]
           /\ guesses' = guesses + 1
           /\ UNCHANGED <<sessions, authed, fails, tempFails, os, earned>>
     /\ UNCHANGED <<temp, trusted, offers, gate, clock, coded>>

(* Mutant: one failure too late. *)
RotationLate(n) == n > MaxConsecutive

RotationDue(n) == n >= MaxConsecutive

(* The failure is counted for the address and for the password that is     *)
(* current by then, which is replaced after too many.                      *)
PasswordWrong(c) ==
  LET n == (IF tempFails.password = temp THEN tempFails.n ELSE 0) + 1
  IN /\ Is(c, "wrong")
     /\ fails' = Charged(fails, "password", c, conn[c].at)
     /\ conn' = [conn EXCEPT ![c] = Shown(@)]
     /\ IF RotationDue(n)
        THEN temp' = temp + 1 /\ tempFails' = [password |-> temp + 1, n |-> 0] /\ guesses' = 0
        ELSE tempFails' = [password |-> temp, n |-> n] /\ UNCHANGED <<temp, guesses>>
     /\ UNCHANGED <<sessions, authed, trusted, offers, os, gate, clock, earned, coded>>

(* on_message for Auth2fa; it is ignored unless a code is awaited. *)
Auth2fa(c) ==
  /\ Is(c, "idle") /\ conn[c].awaiting /\ conn[c].asked < MaxLogins[c]
  /\ ~Blocked(fails, "code", c)
  /\ conn' = [conn EXCEPT ![c] = [Noted(conn[c], "code", c) EXCEPT !.pc = "code", !.asked = @ + 1]]
  /\ UNCHANGED <<shared, clock, history>>

(* add_trusted_device, where the handler gets that far. *)
Trusting(c, trust) == IF trust /\ conn'[c].pc = "idle" THEN trusted \cup {conn[c].scope.peer} ELSE trusted

(* The code is checked. A right one is remembered for the session, and for *)
(* the device if the peer asks for that.                                   *)
CheckCode(c) ==
  LET p == conn[c].scope.peer
  IN /\ Is(c, "code")
     /\ \/ /\ \E trust \in BOOLEAN :
                /\ Logon(c, [conn[c] EXCEPT !.need2fa = FALSE, !.trust = trust, !.proofs = @ \cup {"code"}],
                         set_session_2fa(sessions, p), Forgiven(fails, "code", c))
                /\ trusted' = Trusting(c, trust)
           /\ coded' = coded \cup {p}
        \/ /\ conn' = [conn EXCEPT ![c] = Idle(@)]
           /\ fails' = Charged(fails, "code", c, conn[c].at)
           /\ UNCHANGED <<sessions, authed, os, coded, trusted>>
     /\ UNCHANGED <<temp, tempFails, offers, gate, clock, earned, guesses>>

----------------------------------------------------------------------------
(* The OS login of a terminal, tried by one connection at a time. *)

TryGate(c) ==
  /\ Is(c, "os")
  /\ IF gate = Nobody THEN gate' = c /\ conn' = [conn EXCEPT ![c].pc = "verify"]
     ELSE conn' = [conn EXCEPT ![c] = Left(@)] /\ UNCHANGED gate
  /\ UNCHANGED <<sessions, authed, fails, temp, tempFails, trusted, offers, os, clock, history>>

(* fill_terminal_user_token; the gate is left before a failure is counted. *)
VerifyOsLogin(c) ==
  LET r == [conn[c] EXCEPT !.token = TRUE, !.cm = TRUE]
  IN /\ Is(c, "verify")
     /\ gate' = Nobody
     /\ \/ /\ conn' = [conn EXCEPT ![c].pc = "refused"]
           /\ UNCHANGED <<sessions, authed, fails>>
        \/ IF r.then = "logon" THEN Admit(c, r, sessions, fails)
           ELSE conn' = [conn EXCEPT ![c] = Shown(r)] /\ UNCHANGED <<sessions, authed, fails>>
        \/ \* the terminal to resume belongs to another kind of user
           conn' = [conn EXCEPT ![c] = Left(@)] /\ UNCHANGED <<sessions, authed, fails>>
     /\ trusted' = Trusting(c, conn[c].trust)
     /\ UNCHANGED <<temp, tempFails, offers, os, clock, history>>

(* record_os_credential_failure *)
RecordOsFailure(c) ==
  LET n == OsNow.total + 1
      wait == os_credential_login_backoff(n)
  IN /\ Is(c, "refused")
     /\ os' = [total |-> n, until |-> IF wait > 0 THEN clock + wait ELSE OsNow.until, last |-> clock]
     /\ conn' = [conn EXCEPT ![c] = Left(@)]
     /\ UNCHANGED <<sessions, authed, fails, temp, tempFails, trusted, offers, gate, clock, earned, coded, guesses>>

----------------------------------------------------------------------------
(* The connection manager and switching sides. *)

(* The local user accepts what the manager shows. *)
Click(c) ==
  /\ ~Is(c, "gone") /\ conn[c].cm /\ conn[c].shown /\ ~conn[c].clicked /\ ~conn[c].authorized
  /\ conn' = [conn EXCEPT ![c].clicked = TRUE, ![c].seen = conn[c].scope, ![c].proofs = @ \cup {"click"}]
  /\ UNCHANGED <<shared, clock, history>>

(* Data::Authorize is read by the connection's loop. *)
Authorize(c) ==
  /\ Is(c, "idle") /\ conn[c].clicked /\ ~conn[c].authorized
  /\ Logon(c, [conn[c] EXCEPT !.need2fa = FALSE, !.byClick = TRUE], sessions, fails)
  /\ UNCHANGED <<temp, tempFails, trusted, offers, gate, clock, history>>

(* The local user asks a peer to switch sides; the offer ends by time. *)
OfferSwitch(p) ==
  /\ offers.made < MaxInvites
  /\ offers' = [open |-> offers.open \cup {p}, made |-> offers.made + 1]
  /\ UNCHANGED <<conn, sessions, authed, fails, temp, tempFails, trusted, os, gate, clock, history>>

OfferExpires(p) ==
  /\ p \in offers.open
  /\ offers' = [offers EXCEPT !.open = @ \ {p}]
  /\ UNCHANGED <<conn, sessions, authed, fails, temp, tempFails, trusted, os, gate, clock, history>>

(* on_message for SwitchSidesResponse. It takes the offer away, also if    *)
(* the uuid is not the offered one.                                        *)
SwitchSidesResponse(c, p) ==
  /\ Is(c, "idle") /\ p \in offers.open /\ conn[c].asked < MaxLogins[c]
  /\ conn[c].authorized => conn[c].granted.type = "remote"
  /\ offers' = [offers EXCEPT !.open = @ \ {p}]
  /\ LET lr == [scope |-> [peer |-> p, type |-> "remote"], password |-> NoPassword, hwid |-> FALSE, osLogin |-> FALSE]
         r == [Requested(conn[c], lr) EXCEPT !.latched = conn[c].latched, !.cm = TRUE]
         f == decay_stale_failures(fails, c)
     IN \/ conn' = [conn EXCEPT ![c].asked = @ + 1] /\ UNCHANGED <<sessions, authed, fails, os>>
        \/ /\ Blocked(f, "id", c)
           /\ conn' = [conn EXCEPT ![c] = Left(r)] /\ fails' = f /\ UNCHANGED <<sessions, authed, os>>
        \/ /\ ~Blocked(f, "id", c) /\ p \notin Allowed
           /\ conn' = [conn EXCEPT ![c] = [Noted(r, "id", c) EXCEPT !.pc = "stranger"]]
           /\ fails' = f /\ UNCHANGED <<sessions, authed, os>>
        \/ /\ ~Blocked(f, "id", c) /\ p \in Allowed
           /\ Logon(c, [r EXCEPT !.fromSwitch = TRUE, !.proofs = @ \cup {"offer"}], sessions, f)
  /\ UNCHANGED <<temp, tempFails, trusted, gate, clock, history>>

----------------------------------------------------------------------------
(* The end of a connection. *)

(* Ended for good: by the manager, the web console or the peer's           *)
(* CloseReason. The session goes unless a remote connection still needs it.*)
CloseNoRetry(c) ==
  /\ Is(c, "idle")
  /\ sessions' = check_remove_session(sessions, c)
  /\ conn' = [conn EXCEPT ![c] = Left(@)]
  /\ UNCHANGED <<authed, fails, temp, tempFails, trusted, offers, os, gate, clock, history>>

(* Reset, time-out or a failed send: the peer may come back. *)
ConnectionLost(c) ==
  /\ Is(c, "idle")
  /\ conn' = [conn EXCEPT ![c] = Left(@)]
  /\ UNCHANGED <<shared, clock, history>>

(* The loop of a legacy forward ends as soon as it is admitted. *)
StartForwarding(c) ==
  /\ Is(c, "idle") /\ conn[c].authorized /\ conn[c].socket
  /\ conn' = [conn EXCEPT ![c] = [Left(@) EXCEPT !.socket = TRUE]]
  /\ UNCHANGED <<shared, clock, history>>

(* After the loop: a connection that was let in costs the temporary        *)
(* password, before a forward even starts.                                 *)
UpdateTemporaryPassword(c) ==
  /\ Is(c, "left")
  /\ IF conn[c].authorized THEN temp' = temp + 1 /\ guesses' = 0 ELSE UNCHANGED <<temp, guesses>>
  /\ conn' = [conn EXCEPT ![c].pc = IF conn[c].socket THEN "forwarding" ELSE "ending"]
  /\ UNCHANGED <<sessions, authed, fails, tempFails, trusted, offers, os, gate, clock, earned, coded>>

(* try_port_forward_loop only ever ends with an error. *)
ForwardEnds(c) ==
  /\ Is(c, "forwarding")
  /\ sessions' = check_remove_session(sessions, c)
  /\ conn' = [conn EXCEPT ![c].pc = "ending", ![c].socket = FALSE]
  /\ UNCHANGED <<authed, fails, temp, tempFails, trusted, offers, os, gate, clock, history>>

(* The guards of start and of the connection are dropped. *)
Drop(c) ==
  /\ Is(c, "ending")
  /\ conn' = [conn EXCEPT ![c] = [NewConn EXCEPT !.pc = "gone"]]
  /\ authed' = {a \in authed : a.conn # c}
  /\ UNCHANGED <<sessions, fails, temp, tempFails, trusted, offers, os, gate, clock, history>>

(* A message arrives, or none has for SESSION_TIMEOUT. *)
SessionRefreshed(p) ==
  /\ sessions[p].live /\ ~sessions[p].fresh
  /\ \E c \in sessions[p].readers : Is(c, "idle")
  /\ sessions' = [sessions EXCEPT ![p].fresh = TRUE]
  /\ UNCHANGED <<conn, authed, fails, temp, tempFails, trusted, offers, os, gate, clock, history>>

SessionAges(p) ==
  /\ sessions[p].fresh
  /\ sessions' = [sessions EXCEPT ![p].fresh = FALSE]
  /\ UNCHANGED <<conn, authed, fails, temp, tempFails, trusted, offers, os, gate, clock, history>>

(* Time passes, or the wall clock is set. *)
Tick ==
  /\ clock' \in 1..MaxClock /\ clock' # clock
  /\ UNCHANGED <<conn, shared, history>>

Next ==
  \/ \E c \in Conns :
       \/ Open(c) \/ LoginRequest(c) \/ RefuseStranger(c) \/ ValidatePassword(c) \/ PasswordWrong(c)
       \/ Auth2fa(c) \/ CheckCode(c) \/ TryGate(c) \/ VerifyOsLogin(c) \/ RecordOsFailure(c)
       \/ Click(c) \/ Authorize(c) \/ CloseNoRetry(c) \/ ConnectionLost(c)
       \/ StartForwarding(c) \/ UpdateTemporaryPassword(c) \/ ForwardEnds(c) \/ Drop(c)
       \/ \E p \in Peers : SwitchSidesResponse(c, p)
  \/ \E p \in Peers : OfferSwitch(p) \/ OfferExpires(p) \/ SessionRefreshed(p) \/ SessionAges(p)
  \/ Tick

Spec == Init /\ [][Next]_vars

----------------------------------------------------------------------------
(* Properties *)

Stages == {"new", "idle", "stranger", "password", "wrong", "code", "os", "verify", "refused",
           "left", "forwarding", "ending", "gone"}

ConnState ==
  [pc : Stages, asked : Nat, latched : BOOLEAN, scope : Scopes, password : Int, osLogin : BOOLEAN,
   token : BOOLEAN, authorized : BOOLEAN, need2fa : BOOLEAN, wants : BOOLEAN, awaiting : BOOLEAN,
   fromSwitch : BOOLEAN, cm : BOOLEAN, shown : BOOLEAN, clicked : BOOLEAN, seen : Scopes, granted : Scopes,
   byClick : BOOLEAN, socket : BOOLEAN, then : {"logon", "show"}, trust : BOOLEAN, had : BOOLEAN, at : Nat,
   proofs : SUBSET {"password", "code", "click", "offer"}]

Session == [live : BOOLEAN, password : Nat, tfa : BOOLEAN, fresh : BOOLEAN, readers : SUBSET Conns]

Entry == [minute : Nat, inMinute : Nat, total : Nat]

(* The types of the variables. *)
TypeOK ==
  /\ conn \in [Conns -> ConnState]
  /\ sessions \in [Peers -> Session]
  /\ authed \subseteq [conn : Conns, type : SessionTypes, peer : Peers]
  /\ fails \in [Kinds -> [Buckets -> Entry]]
  /\ temp \in Nat \ {0}
  /\ tempFails \in [password : Nat, n : Nat]
  /\ trusted \subseteq Peers
  /\ offers \in [open : SUBSET Peers, made : Nat]
  /\ os \in [total : Nat, until : Nat, last : Nat]
  /\ gate \in Conns \cup {Nobody}
  /\ clock \in Nat \ {0}
  /\ earned \in [Peers -> SUBSET Nat]
  /\ coded \subseteq Peers
  /\ guesses \in Nat

FirstFactor(r) == "password" \in r.proofs \/ r.password \in earned[r.scope.peer]

SecondFactor(r) == r.wants => "code" \in r.proofs \/ r.scope.peer \in coded

(* A connection is let in only if the local user clicked or offered to     *)
(* switch sides, or if its peer gave the password, on this connection or   *)
(* on an earlier one whose session it resumes, and, where the host asked   *)
(* for a second factor, a right code then or before.                       *)
AuthorizedProved ==
  \A c \in Conns : Is(c, "idle") /\ conn[c].authorized =>
    \/ conn[c].proofs \cap {"click", "offer"} # {}
    \/ FirstFactor(conn[c]) /\ SecondFactor(conn[c])

(* The click in the connection manager lets in the peer and the kind of    *)
(* session that were on the screen when the user clicked, although further *)
(* login requests may be handled before the click is.                      *)
ClickServesWhatWasSeen ==
  \A c \in Conns : conn[c].authorized /\ conn[c].byClick /\ "offer" \notin conn[c].proofs =>
    conn[c].granted = conn[c].seen

(* The stages in which an attempt has passed check_failure and is not yet  *)
(* counted.                                                                *)
Uncounted(i) == CASE i = "password" -> {"password", "wrong"} [] i = "code" -> {"code"} [] i = "id" -> {"stranger"}

(* However the tasks interleave between check_failure and update_failure,  *)
(* no address or prefix gets further than one attempt per connection       *)
(* beyond its limit.                                                       *)
FailuresBounded ==
  \A i \in Kinds, k \in Buckets :
    fails[i][k].total + Cardinality({c \in Conns : conn[c].pc \in Uncounted(i) /\ k \in BucketsOf(c)})
      <= Limit[k] + Cardinality(Conns)

(* The budget of the id whitelist is given back by an admission from that  *)
(* address or by time, never by a request that merely names a listed id.   *)
WhitelistBudget ==
  [][\A k \in Buckets : fails'["id"][k].total < fails["id"][k].total =>
       \/ \E c \in Conns : k \in BucketsOf(c) /\ ~conn[c].authorized /\ conn'[c].authorized
       \/ clock - fails["id"][k].minute >= DecayWindow]_vars

(* A temporary password is replaced before it has been guessed at more     *)
(* than MaxConsecutive times in a row, plus the guesses under way.         *)
GuessesBounded == guesses < MaxConsecutive + Cardinality({c \in Conns : conn[c].pc = "wrong"})

(* The logins that evaluate_os_credential_policy has let past and that     *)
(* have not tried their credentials yet.                                   *)
Passed == {c \in Conns : Is(c, "os")}

(* While a backoff runs no login gets past the policy: neither the reset   *)
(* after an idle time nor a wall clock that is set back forgives it. The   *)
(* policy is not asked again behind the gate, so credentials can still be  *)
(* tried at the OS then, but each attempt uses up a pass given before the  *)
(* failure that set the backoff was counted.                               *)
BackoffHolds ==
  [][os.until > clock =>
       /\ Passed' \subseteq Passed
       /\ \A c \in Conns : ~Is(c, "verify") /\ conn'[c].pc = "verify" => c \in Passed \ Passed']_vars
=============================================================================
