-------------------------- MODULE HostLoginProofs --------------------------
(***************************************************************************)
(* Who is let in, for any number of connections, peers, addresses and      *)
(* requests.  The invariant says of every connection in the middle of a    *)
(* login what has been proved so far (Sound), and of every session that    *)
(* may be resumed that its peer gave the password it holds and, where it   *)
(* waives the second factor, a right code (Resumable).                     *)
(***************************************************************************)
EXTENDS HostLogin, FiniteSetTheorems, TLAPS

(* AuthorizedProved, for one connection and given histories. *)
Personal(r) == "click" \in r.proofs \/ "offer" \in r.proofs
First(r, E) == "password" \in r.proofs \/ r.password \in E[r.scope.peer]
Second(r, C) == r.wants => "code" \in r.proofs \/ r.scope.peer \in C
Proved(r, E, C) == Personal(r) \/ (First(r, E) /\ Second(r, C))

(* The peer is known: it has sent a login request or was invited. *)
Named(r) == r.latched \/ "offer" \in r.proofs

(* What holds of a connection while it is handling a request. *)
Sound(r, E, C) ==
  /\ r.authorized => Proved(r, E, C)
  /\ r.wants /\ ~r.need2fa => Personal(r) \/ "code" \in r.proofs \/ (r.latched /\ r.scope.peer \in C)
  /\ r.awaiting => Named(r) /\ (Personal(r) \/ First(r, E))
  /\ r.fromSwitch => "offer" \in r.proofs
  /\ r.shown => Named(r)
  /\ r.clicked => "click" \in r.proofs /\ ("offer" \in r.proofs \/ (r.latched /\ r.seen = r.scope))
  /\ r.byClick => r.clicked
  /\ r.authorized /\ r.byClick => "offer" \in r.proofs \/ r.granted = r.seen
  /\ r.trust => r.scope.peer \in C

Active == {"new", "idle", "password", "wrong", "code", "os", "verify", "refused"}

ConnOK(r, E, C) ==
  /\ r.pc \in Active => Sound(r, E, C)
  /\ r.pc = "new" => ~r.authorized
  /\ r.pc \in {"new", "idle"} => ~r.trust
  /\ r.pc \in {"password", "wrong", "code", "os", "verify"} => Named(r)
  /\ r.pc \in {"os", "verify"} /\ r.then = "logon" => Proved(r, E, C)
  /\ r.pc = "code" => Personal(r) \/ First(r, E)
  /\ r.pc \notin Active /\ r.authorized /\ r.byClick => "offer" \in r.proofs \/ r.granted = r.seen

(* Sessions that may be resumed. *)
Resumable(s, E, C) ==
  \A p \in Peers : s[p].live =>
    /\ s[p].password # NoPassword => s[p].password \in E[p]
    /\ s[p].tfa => p \in C

-----------------------------------------------------------------------------
(* The records of connections. *)

LEMMA UnknownType == Unknown \in Scopes
  BY ConnsAssumption DEF Unknown, Scopes, SessionTypes

LEMMA NewConnType == NewConn \in ConnState
  BY UnknownType DEF NewConn, ConnState, Stages, NoPassword

(* The fields that Sound is about, but for shown, are the same in both. *)
Keeps(r, x) ==
  /\ x.authorized = r.authorized /\ x.need2fa = r.need2fa /\ x.wants = r.wants /\ x.awaiting = r.awaiting
  /\ x.fromSwitch = r.fromSwitch /\ x.latched = r.latched /\ x.clicked = r.clicked /\ x.byClick = r.byClick
  /\ x.seen = r.seen /\ x.granted = r.granted /\ x.scope = r.scope /\ x.password = r.password
  /\ x.proofs = r.proofs /\ (x.trust => r.trust)

LEMMA KeepsSound ==
  ASSUME NEW r, NEW x, NEW E, NEW C, Keeps(r, x), Sound(r, E, C),
         x.shown => r.shown \/ Named(r)
  PROVE  /\ Sound(x, E, C) /\ (Named(r) => Named(x)) /\ (Personal(r) => Personal(x))
         /\ (Proved(r, E, C) => Proved(x, E, C)) /\ (First(r, E) => First(x, E))
  BY DEF Keeps, Sound, Proved, Personal, First, Second, Named

(* What has been given is not taken back. *)
LEMMA MoreProofs ==
  ASSUME NEW r \in ConnState, NEW E, NEW C, NEW E2, NEW C2,
         \A p \in Peers : E[p] \subseteq E2[p], C \subseteq C2
  PROVE  /\ First(r, E) => First(r, E2)
         /\ Proved(r, E, C) => Proved(r, E2, C2)
         /\ Sound(r, E, C) => Sound(r, E2, C2)
         /\ ConnOK(r, E, C) => ConnOK(r, E2, C2)
<1>1. r.scope.peer \in Peers
  BY DEF ConnState, Scopes
<1>2. First(r, E) => First(r, E2)
  BY <1>1 DEF First
<1>3. Second(r, C) => Second(r, C2)
  BY DEF Second
<1>4. Proved(r, E, C) => Proved(r, E2, C2)
  BY <1>2, <1>3 DEF Proved
<1>5. Sound(r, E, C) => Sound(r, E2, C2)
  BY <1>2, <1>3, <1>4 DEF Sound
<1> QED BY <1>2, <1>4, <1>5 DEF ConnOK

LEMMA IdleType ==
  ASSUME NEW r \in ConnState
  PROVE  /\ Idle(r) \in ConnState /\ Idle(r).pc = "idle" /\ Idle(r).shown = r.shown /\ ~Idle(r).trust
         /\ Keeps(r, Idle(r))
<1>1. Idle(r) \in ConnState
  BY DEF Idle, ConnState, Stages
<1> QED BY <1>1 DEF Idle, ConnState, Keeps

LEMMA ShownType ==
  ASSUME NEW r \in ConnState
  PROVE  /\ Shown(r) \in ConnState /\ Shown(r).pc = "idle" /\ Shown(r).shown /\ ~Shown(r).trust
         /\ Keeps(r, Shown(r))
<1> DEFINE x == Idle(r)
<1>1. x \in ConnState /\ x.pc = "idle" /\ ~x.trust /\ Keeps(r, x) /\ Shown(r) = [x EXCEPT !.shown = TRUE]
  BY IdleType DEF Shown
<1> HIDE DEF x
<1>2. Shown(r) \in ConnState
  BY <1>1, ZenonT(60) DEF ConnState
<1> QED BY <1>1, <1>2 DEF ConnState, Keeps

LEMMA LeftType ==
  ASSUME NEW r \in ConnState
  PROVE  Left(r) \in ConnState /\ Left(r).pc = "left" /\ ~Left(r).byClick /\ Left(r).authorized = r.authorized
<1>1. Left(r) \in ConnState
  BY NewConnType DEF Left, ConnState, Stages
<1>2. ~NewConn.byClick
  BY DEF NewConn
<1> QED BY <1>1, <1>2, NewConnType DEF Left, ConnState

(* A connection that is left has nothing to prove any more. *)
LEMMA LeftOK ==
  ASSUME NEW r \in ConnState, NEW E, NEW C
  PROVE  ConnOK(Left(r), E, C)
  BY LeftType DEF ConnOK, Active

-----------------------------------------------------------------------------
(* The sessions. *)

SessionsOK(s, E, C) == s \in [Peers -> Session] /\ Resumable(s, E, C)

LEMMA NoSessionType == NoSession \in Session /\ ~NoSession.live
  BY DEF NoSession, Session, NoPassword

LEMMA RecentOK ==
  ASSUME NEW s, NEW E, NEW C, SessionsOK(s, E, C)
  PROVE  SessionsOK(Recent(s), E, C)
<1>1. Recent(s) \in [Peers -> Session]
  BY NoSessionType DEF SessionsOK, Recent
<1>2. \A p \in Peers : Recent(s)[p].live => Recent(s)[p] = s[p]
  BY NoSessionType DEF Recent
<1> QED BY <1>1, <1>2 DEF SessionsOK, Resumable

LEMMA InsertOK ==
  ASSUME NEW s, NEW E, NEW C, SessionsOK(s, E, C), NEW p \in Peers, NEW n \in Nat, n \in E[p]
  PROVE  SessionsOK(update_or_insert_session(s, p, n), E, C)
<1> DEFINE t == update_or_insert_session(s, p, n)
<1>1. t = [s EXCEPT ![p] = IF s[p].live THEN [s[p] EXCEPT !.password = n, !.tfa = FALSE]
                           ELSE [NoSession EXCEPT !.live = TRUE, !.password = n, !.fresh = TRUE]]
  BY DEF SessionsOK, update_or_insert_session
<1> HIDE DEF t
<1>2. t[p] \in Session /\ t[p].password = n /\ ~t[p].tfa
  <2>1. CASE s[p].live
    <3>1. t[p] = [s[p] EXCEPT !.password = n, !.tfa = FALSE] /\ s[p] \in Session
      BY <1>1, <2>1 DEF SessionsOK
    <3> QED BY <3>1 DEF Session
  <2>2. CASE ~s[p].live
    <3>1. t[p] = [NoSession EXCEPT !.live = TRUE, !.password = n, !.fresh = TRUE]
      BY <1>1, <2>2 DEF SessionsOK
    <3> QED BY <3>1 DEF Session, NoSession
  <2> QED BY <2>1, <2>2
<1>3. t \in [Peers -> Session] /\ \A q \in Peers \ {p} : t[q] = s[q]
  BY <1>1, <1>2 DEF SessionsOK
<1>4. SessionsOK(t, E, C)
  BY <1>2, <1>3 DEF SessionsOK, Resumable
<1> QED BY <1>4 DEF t

LEMMA Set2faOK ==
  ASSUME NEW s, NEW E, NEW C, SessionsOK(s, E, C), NEW p \in Peers, p \in C
  PROVE  SessionsOK(set_session_2fa(s, p), E, C)
<1> DEFINE t == set_session_2fa(s, p)
<1>1. t = [s EXCEPT ![p] = IF s[p].live THEN [s[p] EXCEPT !.tfa = TRUE]
                           ELSE [NoSession EXCEPT !.live = TRUE, !.tfa = TRUE, !.fresh = TRUE]]
  BY DEF SessionsOK, set_session_2fa
<1> HIDE DEF t
<1>2. t[p] \in Session /\ t[p].password = (IF s[p].live THEN s[p].password ELSE NoPassword)
  <2>1. CASE s[p].live
    <3>1. t[p] = [s[p] EXCEPT !.tfa = TRUE] /\ s[p] \in Session
      BY <1>1, <2>1 DEF SessionsOK
    <3> QED BY <2>1, <3>1 DEF Session
  <2>2. CASE ~s[p].live
    <3>1. t[p] = [NoSession EXCEPT !.live = TRUE, !.tfa = TRUE, !.fresh = TRUE]
      BY <1>1, <2>2 DEF SessionsOK
    <3>2. t[p] \in Session
      BY <3>1, NoSessionType DEF Session
    <3>3. t[p].password = NoPassword
      BY <3>1 DEF NoSession
    <3> QED BY <2>2, <3>2, <3>3
  <2> QED BY <2>1, <2>2
<1>3. t \in [Peers -> Session] /\ \A q \in Peers \ {p} : t[q] = s[q]
  BY <1>1, <1>2 DEF SessionsOK
<1>4. SessionsOK(t, E, C)
  BY <1>2, <1>3 DEF SessionsOK, Resumable
<1> QED BY <1>4 DEF t

(* Removing a session, refreshing it or counting its readers. *)
LEMMA SessionKept ==
  ASSUME NEW s, NEW t \in [Peers -> Session], NEW E, NEW C, SessionsOK(s, E, C),
         \A p \in Peers : t[p].live => s[p].live /\ t[p].password = s[p].password /\ t[p].tfa = s[p].tfa
  PROVE  SessionsOK(t, E, C)
  BY DEF SessionsOK, Resumable

LEMMA RemoveOK ==
  ASSUME NEW s, NEW E, NEW C, SessionsOK(s, E, C), NEW c
  PROVE  SessionsOK(check_remove_session(s, c), E, C)
<1> DEFINE t == check_remove_session(s, c)
           p == conn[c].scope.peer
<1>1. t = s \/ t = [s EXCEPT ![p] = NoSession]
  BY DEF SessionsOK, check_remove_session
<1>2. t \in [Peers -> Session] /\ \A q \in Peers : t[q].live => t[q] = s[q]
  BY <1>1, NoSessionType DEF SessionsOK
<1> HIDE DEF t
<1>3. SessionsOK(t, E, C)
  BY <1>2, SessionKept
<1> QED BY <1>3 DEF t

-----------------------------------------------------------------------------
(* Admission. *)

Outcome(c, E, C) ==
  \E x \in ConnState :
    conn' = [conn EXCEPT ![c] = x] /\ x.pc \in {"idle", "left", "os"} /\ ConnOK(x, E, C)

LEMMA ShownOK ==
  ASSUME NEW r \in ConnState, NEW E, NEW C, Sound(r, E, C), Named(r)
  PROVE  ConnOK(Shown(r), E, C)
  BY ShownType, KeepsSound DEF ConnOK, Active

LEMMA AdmitOK ==
  ASSUME NEW c \in Conns, NEW r \in ConnState, NEW s, NEW f, NEW E, NEW C, SessionsOK(s, E, C),
         Sound(r, E, C), Proved(r, E, C), Named(r), Admit(c, r, s, f)
  PROVE  Outcome(c, E, C) /\ SessionsOK(sessions', E, C)
<1>1. CASE conn' = [conn EXCEPT ![c] = Left(r)] /\ sessions' = s
  BY <1>1, LeftType, LeftOK DEF Outcome
<1>2. CASE /\ conn' = [conn EXCEPT ![c] = [Shown(r) EXCEPT !.authorized = TRUE, !.granted = r.scope,
                                                         !.socket = r.scope.type = "forward"]]
           /\ sessions' = [s EXCEPT ![r.scope.peer].readers = IF s[r.scope.peer].live THEN @ \cup {c} ELSE @]
  <2> DEFINE y == Shown(r)
             x == [y EXCEPT !.authorized = TRUE, !.granted = r.scope, !.socket = r.scope.type = "forward"]
  <2>1. y \in ConnState /\ y.pc = "idle" /\ ~y.trust /\ Keeps(r, y) /\ r.scope \in Scopes
    BY ShownType DEF ConnState
  <2> HIDE DEF y
  <2>2. x \in ConnState
    BY <2>1 DEF ConnState
  <2>3. /\ x.pc = "idle" /\ ~x.trust /\ x.granted = r.scope /\ x.authorized
        /\ x.need2fa = r.need2fa /\ x.wants = r.wants /\ x.awaiting = r.awaiting
        /\ x.fromSwitch = r.fromSwitch /\ x.latched = r.latched /\ x.clicked = r.clicked /\ x.byClick = r.byClick
        /\ x.seen = r.seen /\ x.scope = r.scope /\ x.password = r.password /\ x.proofs = r.proofs
    BY <2>1 DEF ConnState, Keeps
  <2>4. conn' = [conn EXCEPT ![c] = x]
    BY <1>2 DEF y
  <2> HIDE DEF x
  <2>5. Sound(x, E, C)
    BY <2>3 DEF Sound, Proved, Personal, First, Second, Named
  <2>6. ConnOK(x, E, C)
    BY <2>3, <2>5 DEF ConnOK, Active
  <2>7. sessions' \in [Peers -> Session]
    BY <1>2, ZenonT(60) DEF SessionsOK, Session
  <2>8. \A p \in Peers : sessions'[p].live = s[p].live /\ sessions'[p].password = s[p].password
                         /\ sessions'[p].tfa = s[p].tfa
    BY <1>2 DEF SessionsOK, Session
  <2>9. SessionsOK(sessions', E, C)
    BY <2>7, <2>8, SessionKept
  <2> QED BY <2>2, <2>3, <2>4, <2>6, <2>9 DEF Outcome
<1> QED BY <1>1, <1>2 DEF Admit

LEMMA PrepareOK ==
  ASSUME NEW c \in Conns, NEW r \in ConnState, NEW s, NEW f, NEW E, NEW C, SessionsOK(s, E, C),
         NEW then \in {"logon", "show"}, Sound(r, E, C), Named(r),
         then = "logon" => Proved(r, E, C), then = "show" => OsScope(r), Prepare(c, r, s, f, then)
  PROVE  Outcome(c, E, C) /\ SessionsOK(sessions', E, C)
<1>1. CASE Admit(c, r, s, f) /\ then = "logon"
  BY <1>1, AdmitOK
<1>2. CASE conn' = [conn EXCEPT ![c] = Shown(r)] /\ sessions' = s
  BY <1>2, ShownType, ShownOK DEF Outcome
<1>3. CASE conn' = [conn EXCEPT ![c] = Left(r)] /\ sessions' = s
  BY <1>3, LeftType, LeftOK DEF Outcome
<1>4. CASE OsScope(r) /\ conn' = [conn EXCEPT ![c] = [r EXCEPT !.pc = "os", !.then = then]] /\ sessions' = s
  <2> DEFINE x == [r EXCEPT !.pc = "os", !.then = then]
  <2>1. x \in ConnState
    BY DEF ConnState, Stages
  <2>2. x.pc = "os" /\ x.then = then /\ x.shown = r.shown /\ Keeps(r, x)
    BY DEF ConnState, Keeps
  <2> HIDE DEF x
  <2>3. Sound(x, E, C) /\ (then = "logon" => Proved(x, E, C))
    BY <2>2, KeepsSound
  <2>4. Named(x)
    BY <2>2 DEF Keeps, Named
  <2>5. ConnOK(x, E, C)
    BY <2>2, <2>3, <2>4 DEF ConnOK, Active
  <2> QED BY <1>4, <2>1, <2>2, <2>5 DEF Outcome, x
<1>5. CASE Admit(c, [r EXCEPT !.token = TRUE], s, f) /\ then = "logon"
  <2> DEFINE x == [r EXCEPT !.token = TRUE]
  <2>1. x \in ConnState
    BY DEF ConnState
  <2>2. x.shown = r.shown /\ Keeps(r, x)
    BY DEF ConnState, Keeps
  <2> HIDE DEF x
  <2>3. Sound(x, E, C) /\ Proved(x, E, C) /\ Named(x)
    BY <1>5, <2>2, KeepsSound DEF Keeps
  <2> QED BY <1>5, <2>1, <2>3, AdmitOK DEF x
<1> QED BY <1>1, <1>2, <1>3, <1>4, <1>5 DEF Prepare

LEMMA LogonOK ==
  ASSUME NEW c \in Conns, NEW r \in ConnState, NEW s, NEW f, NEW E, NEW C, SessionsOK(s, E, C),
         Sound(r, E, C), Named(r), Personal(r) \/ First(r, E), Logon(c, r, s, f)
  PROVE  Outcome(c, E, C) /\ SessionsOK(sessions', E, C)
<1> DEFINE recent == IF r.need2fa /\ ~r.authorized THEN Recent(s) ELSE s
           waived == r.password # NoPassword /\ recent[r.scope.peer].live /\ recent[r.scope.peer].tfa
<1>1. SessionsOK(recent, E, C) /\ r.scope.peer \in Peers
  BY RecentOK DEF ConnState, Scopes
<1>2. CASE r.authorized
  <2>1. conn' = [conn EXCEPT ![c] = Shown(r)] /\ sessions' = s
    BY <1>2 DEF Logon
  <2> QED BY <2>1, ShownType, ShownOK DEF Outcome
<1>3. CASE ~r.authorized /\ r.need2fa /\ ~waived /\ ~r.fromSwitch
  <2> DEFINE y == Shown(r)
             x == [y EXCEPT !.awaiting = TRUE]
  <2>1. conn' = [conn EXCEPT ![c] = x] /\ sessions' = recent
    BY <1>3 DEF Logon
  <2>2. y \in ConnState /\ y.pc = "idle" /\ ~y.trust /\ Keeps(r, y)
    BY ShownType
  <2> HIDE DEF y
  <2>3. x \in ConnState
    BY <2>2 DEF ConnState
  <2>4. /\ x.pc = "idle" /\ ~x.trust /\ x.authorized = r.authorized
        /\ x.need2fa = r.need2fa /\ x.wants = r.wants
        /\ x.fromSwitch = r.fromSwitch /\ x.latched = r.latched /\ x.clicked = r.clicked /\ x.byClick = r.byClick
        /\ x.seen = r.seen /\ x.scope = r.scope /\ x.password = r.password /\ x.proofs = r.proofs
    BY <2>2 DEF ConnState, Keeps
  <2> HIDE DEF x
  <2>5. Sound(x, E, C)
    BY <1>3, <2>4 DEF Sound, Proved, Personal, First, Second, Named
  <2>6. ConnOK(x, E, C)
    BY <2>4, <2>5 DEF ConnOK, Active
  <2> QED BY <1>1, <2>1, <2>3, <2>4, <2>6 DEF Outcome
<1>4. CASE ~r.authorized /\ ~(r.need2fa /\ ~waived /\ ~r.fromSwitch)
  <2> DEFINE x == [r EXCEPT !.awaiting = FALSE]
  <2>1. Prepare(c, x, recent, f, "logon")
    BY <1>4 DEF Logon
  <2>2. x \in ConnState
    BY DEF ConnState
  <2>3. /\ x.authorized = r.authorized /\ x.awaiting = FALSE /\ x.shown = r.shown /\ x.trust = r.trust
        /\ x.need2fa = r.need2fa /\ x.wants = r.wants
        /\ x.fromSwitch = r.fromSwitch /\ x.latched = r.latched /\ x.clicked = r.clicked /\ x.byClick = r.byClick
        /\ x.seen = r.seen /\ x.scope = r.scope /\ x.password = r.password /\ x.proofs = r.proofs
    BY DEF ConnState
  <2>4. waived => r.scope.peer \in C
    BY <1>1 DEF SessionsOK, Resumable
  <2>5. Proved(r, E, C)
    BY <1>4, <2>4 DEF Sound, Proved, Personal, Second, Named
  <2> HIDE DEF x, recent
  <2>6. Sound(x, E, C) /\ Proved(x, E, C)
    BY <1>4, <2>3, <2>5 DEF Sound, Proved, Personal, First, Second, Named
  <2>7. Named(x)
    BY <2>3 DEF Named
  <2> QED BY <1>1, <2>1, <2>2, <2>6, <2>7, PrepareOK
<1> QED BY <1>2, <1>3, <1>4

-----------------------------------------------------------------------------
(* The invariant. *)

LoginType ==
  /\ conn \in [Conns -> ConnState]
  /\ temp \in Nat \ {0} /\ clock \in Nat \ {0}
  /\ earned \in [Peers -> SUBSET Nat] /\ coded \subseteq Peers

LoginInv ==
  /\ LoginType
  /\ trusted \subseteq coded
  /\ SessionsOK(sessions, earned, coded)
  /\ \A c \in Conns : ConnOK(conn[c], earned, coded)

LEMMA InitLogin == Init => LoginInv
<1> SUFFICES ASSUME Init PROVE LoginInv
  OBVIOUS
<1>1. LoginType /\ trusted \subseteq coded
  BY NewConnType DEF Init, LoginType
<1>2. SessionsOK(sessions, earned, coded)
  BY NoSessionType DEF Init, SessionsOK, Resumable
<1>3. Sound(NewConn, earned, coded) /\ NewConn.pc = "new" /\ ~NewConn.authorized /\ ~NewConn.trust
  BY DEF NewConn, Sound
<1>4. ConnOK(NewConn, earned, coded)
  BY <1>3 DEF ConnOK, Active
<1> QED BY <1>1, <1>2, <1>4 DEF Init, LoginInv

(* A step of one connection, whatever it adds to the histories. *)
LEMMA ConnStep ==
  ASSUME LoginInv, NEW c \in Conns, NEW x \in ConnState, conn' = [conn EXCEPT ![c] = x],
         ConnOK(x, earned', coded'), SessionsOK(sessions', earned', coded'),
         temp' \in Nat \ {0}, clock' \in Nat \ {0}, earned' \in [Peers -> SUBSET Nat], coded' \subseteq Peers,
         \A p \in Peers : earned[p] \subseteq earned'[p], coded \subseteq coded', trusted' \subseteq coded'
  PROVE  LoginInv'
<1>1. LoginType'
  BY DEF LoginInv, LoginType
<1>2. ASSUME NEW d \in Conns PROVE ConnOK(conn'[d], earned', coded')
  <2>1. CASE d = c
    BY <2>1 DEF LoginInv, LoginType
  <2>2. CASE d # c
    <3>1. conn'[d] = conn[d] /\ conn[d] \in ConnState /\ ConnOK(conn[d], earned, coded)
      BY <2>2 DEF LoginInv, LoginType
    <3> QED BY <3>1, MoreProofs
  <2> QED BY <2>1, <2>2
<1> QED BY <1>1, <1>2 DEF LoginInv

LEMMA QuietStep ==
  ASSUME LoginInv, NEW c \in Conns, NEW x \in ConnState, conn' = [conn EXCEPT ![c] = x],
         ConnOK(x, earned, coded), SessionsOK(sessions', earned, coded),
         UNCHANGED <<trusted, clock, earned, coded>>, temp' \in Nat \ {0}
  PROVE  LoginInv'
<1>1. LoginType /\ trusted \subseteq coded
  BY DEF LoginInv
<1> QED BY <1>1, ConnStep DEF LoginType

LEMMA OutcomeStep ==
  ASSUME LoginInv, NEW c \in Conns, Outcome(c, earned, coded), SessionsOK(sessions', earned, coded),
         UNCHANGED <<trusted, clock, earned, coded, temp>>
  PROVE  LoginInv'
<1>1. temp' \in Nat \ {0}
  BY DEF LoginInv, LoginType
<1> QED BY <1>1, QuietStep DEF Outcome

(* Steps that leave the sessions and the histories alone. *)
LEMMA LocalStep ==
  ASSUME LoginInv, NEW c \in Conns, NEW x \in ConnState, conn' = [conn EXCEPT ![c] = x],
         ConnOK(x, earned, coded), UNCHANGED <<sessions, trusted, clock, earned, coded, temp>>
  PROVE  LoginInv'
<1>1. temp' \in Nat \ {0} /\ SessionsOK(sessions', earned, coded)
  BY DEF LoginInv, LoginType
<1> QED BY <1>1, QuietStep

LEMMA ConnFacts ==
  ASSUME LoginInv, NEW c \in Conns
  PROVE  /\ conn[c] \in ConnState /\ ConnOK(conn[c], earned, coded)
         /\ conn[c].pc \in Active => Sound(conn[c], earned, coded)
  BY DEF LoginInv, LoginType, ConnOK

-----------------------------------------------------------------------------
(* Every action. *)

LEMMA OpenOK == ASSUME LoginInv, NEW c \in Conns, Open(c) PROVE LoginInv'
<1>1. PICK tfa \in BOOLEAN : conn' = [conn EXCEPT ![c].pc = "idle", ![c].need2fa = tfa, ![c].wants = tfa]
  BY DEF Open
<1> DEFINE r == conn[c]
           x == [r EXCEPT !.pc = "idle", !.need2fa = tfa, !.wants = tfa]
<1>2. r \in ConnState /\ r.pc = "new" /\ ConnOK(r, earned, coded) /\ Sound(r, earned, coded)
  BY ConnFacts DEF Open, Is, Active
<1>3. conn' = [conn EXCEPT ![c] = x]
  BY <1>1 DEF LoginInv, LoginType
<1> HIDE DEF r
<1>4. x \in ConnState
  BY <1>2 DEF ConnState, Stages
<1>5. /\ x.pc = "idle" /\ x.trust = r.trust /\ x.authorized = r.authorized /\ x.need2fa = x.wants /\ x.awaiting = r.awaiting
      /\ x.fromSwitch = r.fromSwitch /\ x.latched = r.latched /\ x.clicked = r.clicked /\ x.byClick = r.byClick
      /\ x.seen = r.seen /\ x.granted = r.granted /\ x.scope = r.scope /\ x.password = r.password
      /\ x.proofs = r.proofs /\ x.shown = r.shown
  BY <1>2 DEF ConnState
<1> HIDE DEF x
<1>6. ConnOK(x, earned, coded)
  <2>1. ~r.authorized /\ ~r.trust
    BY <1>2 DEF ConnOK
  <2>2. Sound(x, earned, coded)
    BY <1>2, <1>5, <2>1 DEF Sound, Personal, First, Named
  <2> QED BY <1>5, <2>1, <2>2 DEF ConnOK, Active
<1> QED BY <1>3, <1>4, <1>6, LocalStep DEF Open, shared, history

(* The connection leaves. *)
LEMMA LeavingOK ==
  ASSUME LoginInv, NEW c \in Conns, NEW r \in ConnState, conn' = [conn EXCEPT ![c] = Left(r)],
         UNCHANGED <<trusted, clock, earned, coded, temp>>, SessionsOK(sessions', earned, coded)
  PROVE  LoginInv'
<1>1. Left(r) \in ConnState /\ ConnOK(Left(r), earned, coded) /\ temp' \in Nat \ {0}
  BY LeftType, LeftOK DEF LoginInv, LoginType
<1> QED BY <1>1, QuietStep

LEMMA RefuseStrangerOK == ASSUME LoginInv, NEW c \in Conns, RefuseStranger(c) PROVE LoginInv'
<1>1. conn' = [conn EXCEPT ![c] = Left(conn[c])] /\ conn[c] \in ConnState
  BY ConnFacts DEF RefuseStranger
<1> QED BY <1>1, LeavingOK DEF RefuseStranger, history, LoginInv

LEMMA PasswordWrongOK == ASSUME LoginInv, NEW c \in Conns, PasswordWrong(c) PROVE LoginInv'
<1> DEFINE r == conn[c]
<1>1. conn' = [conn EXCEPT ![c] = Shown(r)]
  BY DEF PasswordWrong, LoginInv, LoginType
<1>2. r \in ConnState /\ Sound(r, earned, coded) /\ Named(r)
  BY ConnFacts DEF PasswordWrong, Is, Active, ConnOK
<1>3. Shown(r) \in ConnState /\ ConnOK(Shown(r), earned, coded)
  BY <1>2, ShownType, ShownOK
<1>4. temp' \in Nat \ {0} /\ SessionsOK(sessions', earned, coded)
  BY DEF PasswordWrong, LoginInv, LoginType
<1> QED BY <1>1, <1>3, <1>4, QuietStep DEF PasswordWrong

LEMMA NotedType ==
  ASSUME LoginInv, NEW r \in ConnState, NEW i, NEW c
  PROVE  Noted(r, i, c) \in ConnState /\ Noted(r, i, c).shown = r.shown /\ Keeps(r, Noted(r, i, c))
<1>1. clock \in Nat
  BY DEF LoginInv, LoginType
<1>2. Noted(r, i, c) \in ConnState
  BY <1>1 DEF ConnState, Noted
<1> QED BY <1>1, <1>2 DEF ConnState, Noted, Keeps

LEMMA Auth2faOK == ASSUME LoginInv, NEW c \in Conns, Auth2fa(c) PROVE LoginInv'
<1> DEFINE r == conn[c]
           y == Noted(r, "code", c)
           n == y.asked + 1
           x == [y EXCEPT !.pc = "code", !.asked = n]
<1>1. conn' = [conn EXCEPT ![c] = x]
  BY DEF Auth2fa
<1>2. r \in ConnState /\ r.awaiting /\ Sound(r, earned, coded)
  BY ConnFacts DEF Auth2fa, Is, Active
<1>3. y \in ConnState /\ y.shown = r.shown /\ Keeps(r, y)
  BY <1>2, NotedType
<1> HIDE DEF r, y
<1>n. n \in Nat
  BY <1>3 DEF ConnState
<1> HIDE DEF n
<1>4. x \in ConnState
  BY <1>3, <1>n DEF ConnState, Stages
<1>5. x.pc = "code" /\ x.shown = r.shown /\ Keeps(r, x)
  BY <1>3 DEF ConnState, Keeps
<1> HIDE DEF x
<1>6. Sound(x, earned, coded) /\ Named(x) /\ (Personal(x) \/ First(x, earned))
  BY <1>2, <1>5, KeepsSound DEF Sound
<1>7. ConnOK(x, earned, coded)
  BY <1>5, <1>6 DEF ConnOK, Active
<1> QED BY <1>1, <1>4, <1>7, LocalStep DEF Auth2fa, shared, history

(* The OS login of a terminal. *)
LEMMA TryGateOK == ASSUME LoginInv, NEW c \in Conns, TryGate(c) PROVE LoginInv'
<1> DEFINE r == conn[c]
           x == [r EXCEPT !.pc = "verify"]
<1>1. r \in ConnState /\ r.pc = "os" /\ ConnOK(r, earned, coded) /\ Sound(r, earned, coded)
  BY ConnFacts DEF TryGate, Is, Active
<1>2. conn' = [conn EXCEPT ![c] = x] \/ conn' = [conn EXCEPT ![c] = Left(r)]
  BY DEF TryGate, LoginInv, LoginType
<1> HIDE DEF r
<1>3. x \in ConnState
  BY <1>1 DEF ConnState, Stages
<1>4. x.pc = "verify" /\ x.then = r.then /\ x.shown = r.shown /\ Keeps(r, x)
  BY <1>1 DEF ConnState, Keeps
<1> HIDE DEF x
<1>5. ConnOK(x, earned, coded)
  <2>1. Sound(x, earned, coded)
    BY <1>1, <1>4, KeepsSound
  <2>2. Named(x) /\ (x.then = "logon" => Proved(x, earned, coded))
    BY <1>1, <1>4, KeepsSound DEF ConnOK
  <2> QED BY <1>4, <2>1, <2>2 DEF ConnOK, Active
<1>6. Left(r) \in ConnState /\ ConnOK(Left(r), earned, coded)
  BY <1>1, LeftType, LeftOK
<1> QED BY <1>2, <1>3, <1>5, <1>6, LocalStep DEF TryGate, history

LEMMA VerifyOsLoginOK == ASSUME LoginInv, NEW c \in Conns, VerifyOsLogin(c) PROVE LoginInv'
<1> DEFINE q == conn[c]
           r == [q EXCEPT !.token = TRUE, !.cm = TRUE]
           y == [q EXCEPT !.pc = "refused"]
<1>1. /\ q \in ConnState /\ q.pc = "verify" /\ ConnOK(q, earned, coded) /\ Sound(q, earned, coded)
      /\ LoginType /\ SessionsOK(sessions, earned, coded) /\ trusted \subseteq coded
  BY ConnFacts DEF VerifyOsLogin, Is, Active, LoginInv
<1>2. UNCHANGED <<clock, earned, coded, temp>> /\ trusted' \subseteq coded
  <2>1. trusted' = trusted \/ (q.trust /\ trusted' = trusted \cup {q.scope.peer})
    BY DEF VerifyOsLogin, Trusting
  <2> QED BY <1>1, <2>1 DEF VerifyOsLogin, history, Sound
<1>3. r \in ConnState /\ y \in ConnState
  <2> HIDE DEF q
  <2> QED BY <1>1 DEF ConnState, Stages
<1>4. /\ r.pc = "verify" /\ r.then = q.then /\ r.shown = q.shown /\ Keeps(q, r)
      /\ y.pc = "refused" /\ y.shown = q.shown /\ Keeps(q, y)
  <2> HIDE DEF q
  <2> QED BY <1>1 DEF ConnState, Keeps
<1>5. \/ conn' = [conn EXCEPT ![c] = y] /\ UNCHANGED sessions
      \/ r.then = "logon" /\ Admit(c, r, sessions, fails)
      \/ conn' = [conn EXCEPT ![c] = Shown(r)] /\ UNCHANGED sessions
      \/ conn' = [conn EXCEPT ![c] = Left(q)] /\ UNCHANGED sessions
  BY DEF VerifyOsLogin, LoginInv, LoginType
<1> HIDE DEF q, r, y
<1>6. Sound(r, earned, coded) /\ Named(r) /\ (r.then = "logon" => Proved(r, earned, coded))
  BY <1>1, <1>4, KeepsSound DEF ConnOK
<1>7. ConnOK(y, earned, coded)
  <2>1. Sound(y, earned, coded)
    BY <1>1, <1>4, KeepsSound
  <2> QED BY <1>4, <2>1 DEF ConnOK, Active
<1>8. \E x \in ConnState : /\ conn' = [conn EXCEPT ![c] = x] /\ ConnOK(x, earned, coded)
                          /\ SessionsOK(sessions', earned, coded)
  <2>1. CASE r.then = "logon" /\ Admit(c, r, sessions, fails)
    BY <1>1, <1>3, <1>6, <2>1, AdmitOK DEF Outcome
  <2>2. CASE conn' = [conn EXCEPT ![c] = y] /\ UNCHANGED sessions
    BY <1>1, <1>3, <1>7, <2>2
  <2>3. CASE conn' = [conn EXCEPT ![c] = Shown(r)] /\ UNCHANGED sessions
    BY <1>1, <1>3, <1>6, <2>3, ShownType, ShownOK
  <2>4. CASE conn' = [conn EXCEPT ![c] = Left(q)] /\ UNCHANGED sessions
    BY <1>1, <2>4, LeftType, LeftOK
  <2> QED BY <1>5, <2>1, <2>2, <2>3, <2>4
<1> QED BY <1>1, <1>2, <1>8, ConnStep DEF LoginType

LEMMA RecordOsFailureOK == ASSUME LoginInv, NEW c \in Conns, RecordOsFailure(c) PROVE LoginInv'
<1>1. conn' = [conn EXCEPT ![c] = Left(conn[c])] /\ conn[c] \in ConnState
  BY ConnFacts DEF RecordOsFailure
<1> QED BY <1>1, LeavingOK DEF RecordOsFailure, LoginInv

(* The connection manager. *)
LEMMA ClickOK == ASSUME LoginInv, NEW c \in Conns, Click(c) PROVE LoginInv'
<1> DEFINE r == conn[c]
           x == [r EXCEPT !.clicked = TRUE, !.seen = r.scope, !.proofs = r.proofs \cup {"click"}]
<1>1. r \in ConnState /\ ConnOK(r, earned, coded) /\ r.shown /\ ~r.authorized
  BY ConnFacts DEF Click
<1>2. conn' = [conn EXCEPT ![c] = x]
  BY DEF Click, LoginInv, LoginType
<1> HIDE DEF r
<1>3. x \in ConnState
  BY <1>1 DEF ConnState
<1>4. /\ x.pc = r.pc /\ x.then = r.then /\ x.trust = r.trust /\ x.authorized = r.authorized
      /\ x.need2fa = r.need2fa /\ x.wants = r.wants /\ x.awaiting = r.awaiting /\ x.shown = r.shown
      /\ x.fromSwitch = r.fromSwitch /\ x.latched = r.latched /\ x.clicked /\ x.byClick = r.byClick
      /\ x.scope = r.scope /\ x.seen = r.scope /\ x.password = r.password /\ x.proofs = r.proofs \cup {"click"}
  BY <1>1 DEF ConnState
<1> HIDE DEF x
<1>5. r.pc \in Active => Sound(x, earned, coded)
  BY <1>1, <1>4 DEF ConnOK, Sound, Personal, First, Named
<1>6. Personal(x) /\ Proved(x, earned, coded) /\ (Named(r) => Named(x))
  BY <1>4 DEF Personal, Proved, Named
<1>7. ConnOK(x, earned, coded)
  BY <1>1, <1>4, <1>5, <1>6 DEF ConnOK
<1> QED BY <1>2, <1>3, <1>7, LocalStep DEF Click, shared, history

LEMMA AuthorizeOK == ASSUME LoginInv, NEW c \in Conns, Authorize(c) PROVE LoginInv'
<1> DEFINE r == conn[c]
           x == [r EXCEPT !.need2fa = FALSE, !.byClick = TRUE]
<1>1. r \in ConnState /\ Sound(r, earned, coded) /\ r.clicked /\ ~r.authorized
  BY ConnFacts DEF Authorize, Is, Active
<1>2. Logon(c, x, sessions, fails) /\ SessionsOK(sessions, earned, coded)
  BY DEF Authorize, LoginInv
<1> HIDE DEF r
<1>3. x \in ConnState
  BY <1>1 DEF ConnState
<1>4. /\ x.trust = r.trust /\ x.authorized = r.authorized
      /\ x.wants = r.wants /\ x.awaiting = r.awaiting /\ x.shown = r.shown
      /\ x.fromSwitch = r.fromSwitch /\ x.latched = r.latched /\ x.clicked = r.clicked
      /\ x.scope = r.scope /\ x.seen = r.seen /\ x.password = r.password /\ x.proofs = r.proofs
  BY <1>1 DEF ConnState
<1> HIDE DEF x
<1>5. Sound(x, earned, coded) /\ Named(x) /\ Personal(x)
  BY <1>1, <1>4 DEF Sound, Personal, First, Named
<1>6. Outcome(c, earned, coded) /\ SessionsOK(sessions', earned, coded)
  BY <1>2, <1>3, <1>5, LogonOK
<1> QED BY <1>6, OutcomeStep DEF Authorize, history

-----------------------------------------------------------------------------
(* The end of a connection. *)

LEMMA ClosingOK == ASSUME LoginInv, NEW c \in Conns, CloseNoRetry(c) \/ ConnectionLost(c) PROVE LoginInv'
<1>1. conn' = [conn EXCEPT ![c] = Left(conn[c])] /\ conn[c] \in ConnState
  BY ConnFacts DEF CloseNoRetry, ConnectionLost
<1>2. SessionsOK(sessions', earned, coded)
  BY RemoveOK DEF CloseNoRetry, ConnectionLost, shared, LoginInv
<1>3. UNCHANGED <<trusted, clock, earned, coded, temp>>
  BY DEF CloseNoRetry, ConnectionLost, shared, history
<1> QED BY <1>1, <1>2, <1>3, LeavingOK

(* Stages in which only the end of the connection is left to do. *)
LEMMA EndingOK ==
  ASSUME NEW x, NEW E, NEW C, x.pc \in {"left", "forwarding", "ending", "gone"}, ~x.byClick
  PROVE  ConnOK(x, E, C)
  BY DEF ConnOK, Active

LEMMA StartForwardingOK == ASSUME LoginInv, NEW c \in Conns, StartForwarding(c) PROVE LoginInv'
<1> DEFINE y == Left(conn[c])
           x == [y EXCEPT !.socket = TRUE]
<1>1. conn' = [conn EXCEPT ![c] = x]
  BY DEF StartForwarding, LoginInv, LoginType
<1>2. y \in ConnState /\ y.pc = "left" /\ ~y.byClick
  BY ConnFacts, LeftType
<1> HIDE DEF y
<1>3. x \in ConnState
  BY <1>2 DEF ConnState
<1>4. x.pc = "left" /\ ~x.byClick
  BY <1>2 DEF ConnState
<1> HIDE DEF x
<1>5. ConnOK(x, earned, coded)
  BY <1>4, EndingOK
<1>6. UNCHANGED <<sessions, trusted, clock, earned, coded, temp>>
  BY DEF StartForwarding, shared, history
<1> QED BY <1>1, <1>3, <1>5, <1>6, LocalStep

LEMMA EndStagesOK ==
  ASSUME LoginInv, NEW c \in Conns, UpdateTemporaryPassword(c) \/ ForwardEnds(c)
  PROVE  LoginInv'
<1> DEFINE r == conn[c]
<1>1. r \in ConnState /\ ConnOK(r, earned, coded) /\ r.pc \in {"left", "forwarding"}
  BY ConnFacts DEF UpdateTemporaryPassword, ForwardEnds, Is
<1>2. PICK pc \in {"forwarding", "ending"}, socket \in BOOLEAN :
        conn' = [conn EXCEPT ![c] = [r EXCEPT !.pc = pc, !.socket = socket]]
  <2>1. CASE UpdateTemporaryPassword(c)
    <3>1. PICK pc \in {"forwarding", "ending"} : conn' = [conn EXCEPT ![c] = [r EXCEPT !.pc = pc]]
      BY <2>1 DEF UpdateTemporaryPassword
    <3>2. [r EXCEPT !.pc = pc] = [r EXCEPT !.pc = pc, !.socket = r.socket] /\ r.socket \in BOOLEAN
      <4> HIDE DEF r
      <4> QED BY <1>1 DEF ConnState
    <3> QED BY <3>1, <3>2
  <2>2. CASE ForwardEnds(c)
    BY <2>2 DEF ForwardEnds
  <2> QED BY <2>1, <2>2
<1> DEFINE x == [r EXCEPT !.pc = pc, !.socket = socket]
<1> HIDE DEF r
<1>3. x \in ConnState
  BY <1>1 DEF ConnState, Stages
<1>4. /\ x.pc = pc /\ x.authorized = r.authorized /\ x.byClick = r.byClick /\ x.granted = r.granted
      /\ x.seen = r.seen /\ x.proofs = r.proofs
  BY <1>1 DEF ConnState
<1>5. conn' = [conn EXCEPT ![c] = x]
  BY <1>2
<1> HIDE DEF x
<1>6. ConnOK(x, earned, coded)
  BY <1>1, <1>4 DEF ConnOK, Active
<1>7. SessionsOK(sessions', earned, coded)
  BY RemoveOK DEF UpdateTemporaryPassword, ForwardEnds, LoginInv
<1>8. temp' \in Nat \ {0} /\ UNCHANGED <<trusted, clock, earned, coded>>
  BY DEF UpdateTemporaryPassword, ForwardEnds, LoginInv, LoginType, history
<1> QED BY <1>3, <1>5, <1>6, <1>7, <1>8, QuietStep

LEMMA DropOK == ASSUME LoginInv, NEW c \in Conns, Drop(c) PROVE LoginInv'
<1> DEFINE x == [NewConn EXCEPT !.pc = "gone"]
<1>1. conn' = [conn EXCEPT ![c] = x]
  BY DEF Drop
<1>2. x \in ConnState
  BY NewConnType DEF ConnState, Stages
<1>3. x.pc = "gone" /\ ~x.byClick
  BY DEF NewConn
<1> HIDE DEF x
<1>4. ConnOK(x, earned, coded)
  BY <1>3, EndingOK
<1>5. UNCHANGED <<sessions, trusted, clock, earned, coded, temp>>
  BY DEF Drop, history
<1> QED BY <1>1, <1>2, <1>4, <1>5, LocalStep

(* Steps of no connection. *)
LEMMA WorldOK ==
  ASSUME LoginInv, Tick \/ (\E p \in Peers : OfferSwitch(p) \/ OfferExpires(p)) \/ UNCHANGED vars
  PROVE  LoginInv'
<1>1. UNCHANGED <<conn, sessions, trusted, temp, earned, coded>>
  BY DEF Tick, OfferSwitch, OfferExpires, vars, shared, history
<1>2. clock' \in Nat \ {0}
  BY DEF Tick, OfferSwitch, OfferExpires, vars, LoginInv, LoginType
<1> QED BY <1>1, <1>2 DEF LoginInv, LoginType

LEMMA AgeingOK ==
  ASSUME LoginInv, NEW p \in Peers, SessionRefreshed(p) \/ SessionAges(p)
  PROVE  LoginInv'
<1>1. UNCHANGED <<conn, trusted, temp, clock, earned, coded>>
  BY DEF SessionRefreshed, SessionAges, history
<1>2. PICK b \in BOOLEAN : sessions' = [sessions EXCEPT ![p].fresh = b]
  BY DEF SessionRefreshed, SessionAges
<1>3. sessions \in [Peers -> Session]
  BY DEF LoginInv, SessionsOK
<1>4. sessions' \in [Peers -> Session]
  BY <1>2, <1>3 DEF Session
<1>5. \A q \in Peers : /\ sessions'[q].live = sessions[q].live /\ sessions'[q].password = sessions[q].password
                        /\ sessions'[q].tfa = sessions[q].tfa
  BY <1>2, <1>3 DEF Session
<1>6. SessionsOK(sessions', earned, coded)
  BY <1>4, <1>5, SessionKept DEF LoginInv
<1> QED BY <1>1, <1>6 DEF LoginInv, LoginType

-----------------------------------------------------------------------------
(* A password is validated. *)
LEMMA ValidatePasswordOK == ASSUME LoginInv, NEW c \in Conns, ValidatePassword(c) PROVE LoginInv'
<1> DEFINE r == conn[c]
           p == r.scope.peer
           x == [r EXCEPT !.proofs = r.proofs \cup {"password"}]
<1>1. /\ r \in ConnState /\ r.pc = "password" /\ Sound(r, earned, coded) /\ Named(r) /\ p \in Peers
      /\ LoginType /\ SessionsOK(sessions, earned, coded) /\ trusted \subseteq coded
  BY ConnFacts DEF ValidatePassword, Is, Active, ConnOK, LoginInv, ConnState, Scopes
<1>2. UNCHANGED <<temp, trusted, clock, coded>>
  BY DEF ValidatePassword
<1>3. x \in ConnState
  <2> HIDE DEF r
  <2> QED BY <1>1 DEF ConnState
<1>4. /\ x.pc = r.pc /\ x.trust = r.trust /\ x.authorized = r.authorized /\ x.granted = r.granted
      /\ x.need2fa = r.need2fa /\ x.wants = r.wants /\ x.awaiting = r.awaiting /\ x.shown = r.shown
      /\ x.fromSwitch = r.fromSwitch /\ x.latched = r.latched /\ x.clicked = r.clicked /\ x.byClick = r.byClick
      /\ x.scope = r.scope /\ x.seen = r.seen /\ x.password = r.password /\ x.proofs = r.proofs \cup {"password"}
  <2> HIDE DEF r
  <2> QED BY <1>1 DEF ConnState
<1>5. ASSUME NEW E, Sound(r, E, coded) PROVE Sound(x, E, coded) /\ Named(x) /\ First(x, E)
  <2> HIDE DEF r, x
  <2> QED BY <1>1, <1>4, <1>5 DEF Sound, Proved, Personal, First, Second, Named
<1>6. CASE /\ earned' = [earned EXCEPT ![p] = earned[p] \cup {temp}]
           /\ Logon(c, x, update_or_insert_session(sessions, p, temp), Forgiven(fails, "password", c))
  <2>1. earned' \in [Peers -> SUBSET Nat] /\ temp \in earned'[p] /\ \A q \in Peers : earned[q] \subseteq earned'[q]
    BY <1>1, <1>6 DEF LoginType
  <2>2. Sound(r, earned', coded) /\ SessionsOK(sessions, earned', coded)
    BY <1>1, <2>1, MoreProofs DEF SessionsOK, Resumable
  <2>3. SessionsOK(update_or_insert_session(sessions, p, temp), earned', coded)
    BY <1>1, <2>1, <2>2, InsertOK DEF LoginType
  <2> HIDE DEF x
  <2>4. Outcome(c, earned', coded) /\ SessionsOK(sessions', earned', coded)
    BY <1>3, <1>5, <1>6, <2>2, <2>3, LogonOK
  <2> QED BY <1>1, <1>2, <2>1, <2>4, ConnStep DEF Outcome, LoginType
<1>7. CASE Logon(c, x, sessions, Forgiven(fails, "password", c)) /\ UNCHANGED earned
  <2> HIDE DEF x
  <2>1. Outcome(c, earned, coded) /\ SessionsOK(sessions', earned, coded)
    BY <1>1, <1>3, <1>5, <1>7, LogonOK
  <2> QED BY <1>2, <1>7, <2>1, OutcomeStep
<1>8. CASE conn' = [conn EXCEPT ![c].pc = "wrong"] /\ UNCHANGED <<sessions, earned>>
  <2> DEFINE y == [r EXCEPT !.pc = "wrong"]
  <2>1. conn' = [conn EXCEPT ![c] = y]
    BY <1>8
  <2> HIDE DEF r
  <2>2. y \in ConnState
    BY <1>1 DEF ConnState, Stages
  <2>3. y.pc = "wrong" /\ y.shown = r.shown /\ Keeps(r, y)
    BY <1>1 DEF ConnState, Keeps
  <2> HIDE DEF y
  <2>4. Sound(y, earned, coded) /\ Named(y)
    BY <1>1, <2>3, KeepsSound
  <2>5. ConnOK(y, earned, coded)
    BY <2>3, <2>4 DEF ConnOK, Active
  <2> QED BY <1>2, <1>8, <2>1, <2>2, <2>5, LocalStep
<1> QED BY <1>6, <1>7, <1>8 DEF ValidatePassword

(* A code is checked. *)
LEMMA CheckCodeOK == ASSUME LoginInv, NEW c \in Conns, CheckCode(c) PROVE LoginInv'
<1> DEFINE r == conn[c]
           p == r.scope.peer
<1>1. /\ r \in ConnState /\ r.pc = "code" /\ Sound(r, earned, coded) /\ Named(r) /\ p \in Peers
      /\ Personal(r) \/ First(r, earned)
      /\ LoginType /\ SessionsOK(sessions, earned, coded) /\ trusted \subseteq coded
  BY ConnFacts DEF CheckCode, Is, Active, ConnOK, LoginInv, ConnState, Scopes
<1>2. UNCHANGED <<temp, clock, earned>>
  BY DEF CheckCode
<1>3. ASSUME NEW trust \in BOOLEAN, trusted' = Trusting(c, trust), coded' = coded \cup {p},
             Logon(c, [r EXCEPT !.need2fa = FALSE, !.trust = trust, !.proofs = r.proofs \cup {"code"}],
                   set_session_2fa(sessions, p), Forgiven(fails, "code", c))
      PROVE  LoginInv'
  <2> DEFINE x == [r EXCEPT !.need2fa = FALSE, !.trust = trust, !.proofs = r.proofs \cup {"code"}]
             C == coded \cup {p}
  <2>1. x \in ConnState
    <3> HIDE DEF r
    <3> QED BY <1>1 DEF ConnState
  <2>2. /\ x.authorized = r.authorized /\ x.granted = r.granted
        /\ x.wants = r.wants /\ x.awaiting = r.awaiting /\ x.shown = r.shown
        /\ x.fromSwitch = r.fromSwitch /\ x.latched = r.latched /\ x.clicked = r.clicked /\ x.byClick = r.byClick
        /\ x.scope = r.scope /\ x.seen = r.seen /\ x.password = r.password /\ x.proofs = r.proofs \cup {"code"}
    <3> HIDE DEF r
    <3> QED BY <1>1 DEF ConnState
  <2>3. Sound(r, earned, C) /\ SessionsOK(sessions, earned, C)
    <3>1. coded \subseteq C /\ \A q \in Peers : earned[q] \subseteq earned[q]
      OBVIOUS
    <3> HIDE DEF r, C
    <3>2. Sound(r, earned, C)
      BY <1>1, <3>1, MoreProofs
    <3> QED BY <1>1, <3>1, <3>2 DEF SessionsOK, Resumable
  <2>4. SessionsOK(set_session_2fa(sessions, p), earned, C)
    BY <1>1, <2>3, Set2faOK
  <2>5. Sound(x, earned, C) /\ Named(x) /\ (Personal(x) \/ First(x, earned))
    <3>1. x.scope.peer \in C
      BY <2>2
    <3> HIDE DEF r, x, C
    <3> QED BY <1>1, <2>2, <2>3, <3>1 DEF Sound, Proved, Personal, First, Second, Named
  <2>6. trusted' \subseteq C
    BY <1>1, <1>3 DEF Trusting
  <2> HIDE DEF x
  <2>7. Outcome(c, earned, C) /\ SessionsOK(sessions', earned, C)
    BY <1>3, <2>1, <2>4, <2>5, LogonOK DEF x
  <2> QED BY <1>1, <1>2, <1>3, <2>6, <2>7, ConnStep DEF Outcome, LoginType
<1>4. CASE conn' = [conn EXCEPT ![c] = Idle(r)] /\ UNCHANGED <<sessions, coded, trusted>>
  <2>1. Idle(r) \in ConnState /\ ConnOK(Idle(r), earned, coded)
    BY <1>1, IdleType, KeepsSound DEF ConnOK, Active
  <2> QED BY <1>2, <1>4, <2>1, LocalStep
<1> QED BY <1>3, <1>4 DEF CheckCode

-----------------------------------------------------------------------------
(* A login is requested. *)
LEMMA RequestedType ==
  ASSUME NEW r \in ConnState, NEW lr, lr.scope \in Scopes, lr.password \in Int, lr.osLogin \in BOOLEAN,
         lr.hwid \in BOOLEAN
  PROVE  /\ Requested(r, lr) \in ConnState
         /\ Requested(r, lr).pc = r.pc /\ Requested(r, lr).latched /\ Requested(r, lr).scope = lr.scope
         /\ Requested(r, lr).password = lr.password /\ ~Requested(r, lr).awaiting
         /\ ~Requested(r, lr).need2fa => ~r.need2fa \/ lr.scope.peer \in trusted
         /\ Requested(r, lr).authorized = r.authorized /\ Requested(r, lr).wants = r.wants
         /\ Requested(r, lr).fromSwitch = r.fromSwitch /\ Requested(r, lr).clicked = r.clicked
         /\ Requested(r, lr).shown = r.shown /\ Requested(r, lr).byClick = r.byClick
         /\ Requested(r, lr).seen = r.seen /\ Requested(r, lr).granted = r.granted
         /\ Requested(r, lr).proofs = r.proofs /\ Requested(r, lr).trust = r.trust
<1> DEFINE n == r.asked + 1
           need == r.need2fa /\ ~(lr.hwid /\ lr.scope.peer \in trusted)
           login == lr.osLogin /\ lr.scope.type = "terminal"
           x == [r EXCEPT !.asked = n, !.latched = TRUE, !.scope = lr.scope, !.password = lr.password,
                          !.osLogin = login, !.awaiting = FALSE, !.need2fa = need]
<1>1. Requested(r, lr) = x
  BY DEF Requested
<1>2. n \in Nat /\ need \in BOOLEAN /\ login \in BOOLEAN
  BY DEF ConnState
<1>3. ~need => ~r.need2fa \/ lr.scope.peer \in trusted
  OBVIOUS
<1> HIDE DEF n, need, login
<1>4. x \in ConnState
  BY <1>2 DEF ConnState
<1>5. /\ x.pc = r.pc /\ x.latched /\ x.scope = lr.scope /\ x.password = lr.password
      /\ ~x.awaiting /\ x.need2fa = need
      /\ x.authorized = r.authorized /\ x.wants = r.wants /\ x.fromSwitch = r.fromSwitch
      /\ x.clicked = r.clicked /\ x.shown = r.shown /\ x.byClick = r.byClick /\ x.seen = r.seen
      /\ x.granted = r.granted /\ x.proofs = r.proofs /\ x.trust = r.trust
  BY DEF ConnState
<1> HIDE DEF x
<1> QED BY <1>1, <1>3, <1>4, <1>5

(* A request that keeps to the scope that is latched, if any is, leaves    *)
(* what has been proved; only a trusted peer is spared the second factor.  *)
LEMMA RequestedSound ==
  ASSUME NEW r \in ConnState, NEW x, NEW lr, NEW E, NEW C, Sound(r, E, C), ~r.authorized, ~r.trust,
         trusted \subseteq C, r.latched => lr.scope = r.scope, x = Requested(r, lr),
         lr.scope \in Scopes, lr.password \in Int, lr.osLogin \in BOOLEAN, lr.hwid \in BOOLEAN
  PROVE  x \in ConnState /\ Sound(x, E, C) /\ Named(x)
<1>1. /\ x \in ConnState /\ x.latched /\ x.scope = lr.scope /\ ~x.awaiting
      /\ ~x.need2fa => ~r.need2fa \/ lr.scope.peer \in trusted
      /\ x.authorized = r.authorized /\ x.wants = r.wants /\ x.fromSwitch = r.fromSwitch
      /\ x.clicked = r.clicked /\ x.shown = r.shown /\ x.byClick = r.byClick /\ x.seen = r.seen
      /\ x.granted = r.granted /\ x.proofs = r.proofs /\ x.trust = r.trust
  BY RequestedType
<1> QED BY <1>1 DEF Sound, Personal, Named

LEMMA LoginRequestOK == ASSUME LoginInv, NEW c \in Conns, LoginRequest(c) PROVE LoginInv'
<1> DEFINE q == conn[c]
           f == decay_stale_failures(fails, c)
           s == Recent(sessions)
<1>1. /\ q \in ConnState /\ q.pc = "idle" /\ Sound(q, earned, coded) /\ ~q.authorized /\ ~q.trust
      /\ SessionsOK(sessions, earned, coded) /\ SessionsOK(s, earned, coded) /\ trusted \subseteq coded
      /\ temp \in Nat
  BY ConnFacts, RecentOK DEF LoginRequest, Is, Active, ConnOK, LoginInv, LoginType
<1>2. UNCHANGED <<trusted, clock, earned, coded, temp>>
  BY DEF LoginRequest, history
<1>3. PICK lr \in Requests(c) :
        \/ /\ ScopeChanged(c, lr)
           /\ conn' = [conn EXCEPT ![c] = Left(q)] /\ UNCHANGED sessions
        \/ /\ ~ScopeChanged(c, lr)
           /\ conn' = [conn EXCEPT ![c] = Left(Requested(q, lr))] /\ UNCHANGED sessions
        \/ /\ ~ScopeChanged(c, lr)
           /\ conn' = [conn EXCEPT ![c] = [Noted(Requested(q, lr), "id", c) EXCEPT !.pc = "stranger"]]
           /\ UNCHANGED sessions
        \/ \E r, t : /\ r = [Requested(q, lr) EXCEPT !.cm = @ \/ ~OsScope(Requested(q, lr))]
                     /\ ~ScopeChanged(c, lr)
                     /\ t \in {sessions, s}
                     /\ \/ OsScope(r) /\ Prepare(c, r, t, f, "show")
                        \/ conn' = [conn EXCEPT ![c] = Shown(r)] /\ sessions' = t
                        \/ /\ lr.password # NoPassword /\ s[lr.scope.peer].live
                           /\ s[lr.scope.peer].password = lr.password /\ Logon(c, r, s, f)
                        \/ conn' = [conn EXCEPT ![c] = Idle(r)] /\ sessions' = t
                        \/ /\ conn' = [conn EXCEPT ![c] = [Noted(r, "password", c) EXCEPT !.pc = "password"]]
                           /\ sessions' = t
  BY DEF LoginRequest, LoginInv, LoginType
<1>4. /\ lr.scope \in Scopes /\ lr.password \in Int /\ lr.osLogin \in BOOLEAN /\ lr.hwid \in BOOLEAN
      /\ lr.scope.peer \in Peers
  BY <1>1, AsksAssumption DEF Requests, Scopes, NoPassword, WrongPassword, PermanentPassword
<1>5. CASE conn' = [conn EXCEPT ![c] = Left(q)] /\ UNCHANGED sessions
  BY <1>1, <1>2, <1>5, LeavingOK
<1> SUFFICES ASSUME ~ScopeChanged(c, lr) PROVE LoginInv'
  BY <1>3, <1>5
<1> DEFINE r0 == Requested(q, lr)
<1>6. /\ r0 \in ConnState /\ Sound(r0, earned, coded) /\ Named(r0) /\ ~r0.authorized
      /\ r0.scope = lr.scope /\ r0.password = lr.password
  <2>1. q.latched => lr.scope = q.scope
    BY DEF ScopeChanged
  <2> HIDE DEF q
  <2> QED BY <1>1, <1>4, <2>1, RequestedSound, RequestedType, SMTT(30)
<1> HIDE DEF r0, q, f, s
<1>7. CASE conn' = [conn EXCEPT ![c] = Left(r0)] /\ UNCHANGED sessions
  BY <1>1, <1>2, <1>6, <1>7, LeavingOK
<1>8. CASE /\ conn' = [conn EXCEPT ![c] = [Noted(r0, "id", c) EXCEPT !.pc = "stranger"]]
           /\ UNCHANGED sessions
  <2> DEFINE y == Noted(r0, "id", c)
             x == [y EXCEPT !.pc = "stranger"]
  <2>1. y \in ConnState /\ Keeps(r0, y) /\ conn' = [conn EXCEPT ![c] = x]
    BY <1>6, <1>8, NotedType
  <2> HIDE DEF y
  <2>2. x \in ConnState
    BY <2>1 DEF ConnState, Stages
  <2>3. x.pc = "stranger" /\ ~x.authorized
    BY <1>6, <2>1 DEF ConnState, Keeps
  <2> HIDE DEF x
  <2>4. ConnOK(x, earned, coded)
    BY <2>3 DEF ConnOK, Active
  <2> QED BY <1>2, <1>8, <2>1, <2>2, <2>4, LocalStep
<1>9. ASSUME NEW r, r = [r0 EXCEPT !.cm = @ \/ ~OsScope(r0)], NEW t \in {sessions, s},
             \/ OsScope(r) /\ Prepare(c, r, t, f, "show")
             \/ conn' = [conn EXCEPT ![c] = Shown(r)] /\ sessions' = t
             \/ /\ lr.password # NoPassword /\ s[lr.scope.peer].live
                /\ s[lr.scope.peer].password = lr.password /\ Logon(c, r, s, f)
             \/ conn' = [conn EXCEPT ![c] = Idle(r)] /\ sessions' = t
             \/ /\ conn' = [conn EXCEPT ![c] = [Noted(r, "password", c) EXCEPT !.pc = "password"]]
                /\ sessions' = t
      PROVE  LoginInv'
  <2> DEFINE cm == r0.cm \/ ~OsScope(r0)
  <2>1. r = [r0 EXCEPT !.cm = cm] /\ cm \in BOOLEAN
    BY <1>6, <1>9 DEF ConnState, OsScope, Scopes
  <2> HIDE DEF cm
  <2>2. r \in ConnState
    BY <1>6, <2>1 DEF ConnState
  <2>3. r.shown = r0.shown /\ Keeps(r0, r)
    BY <1>6, <2>1 DEF ConnState, Keeps
  <2>4. Sound(r, earned, coded) /\ Named(r) /\ r.password = lr.password /\ r.scope = lr.scope
    BY <1>6, <2>3, KeepsSound DEF Keeps
  <2>5. SessionsOK(t, earned, coded)
    BY <1>1
  <2>6. CASE OsScope(r) /\ Prepare(c, r, t, f, "show")
    <3>1. Outcome(c, earned, coded) /\ SessionsOK(sessions', earned, coded)
      BY <2>2, <2>4, <2>5, <2>6, PrepareOK
    <3> QED BY <1>2, <3>1, OutcomeStep
  <2>7. CASE conn' = [conn EXCEPT ![c] = Shown(r)] /\ sessions' = t
    <3>1. Shown(r) \in ConnState /\ ConnOK(Shown(r), earned, coded) /\ temp' \in Nat \ {0}
      BY <1>2, <2>2, <2>4, ShownType, ShownOK DEF LoginInv, LoginType
    <3> QED BY <1>2, <2>5, <2>7, <3>1, QuietStep
  <2>8. CASE /\ lr.password # NoPassword /\ s[lr.scope.peer].live
             /\ s[lr.scope.peer].password = lr.password /\ Logon(c, r, s, f)
    <3>1. First(r, earned)
      BY <1>1, <1>4, <2>4, <2>8 DEF SessionsOK, Resumable, First
    <3>2. Outcome(c, earned, coded) /\ SessionsOK(sessions', earned, coded)
      BY <1>1, <2>2, <2>4, <2>8, <3>1, LogonOK
    <3> QED BY <1>2, <3>2, OutcomeStep
  <2>9. CASE conn' = [conn EXCEPT ![c] = Idle(r)] /\ sessions' = t
    <3>1. Idle(r) \in ConnState /\ temp' \in Nat \ {0}
      BY <1>2, <2>2, IdleType DEF LoginInv, LoginType
    <3>2. ConnOK(Idle(r), earned, coded)
      BY <2>2, <2>4, IdleType, KeepsSound DEF ConnOK, Active
    <3> QED BY <1>2, <2>5, <2>9, <3>1, <3>2, QuietStep
  <2>10. CASE /\ conn' = [conn EXCEPT ![c] = [Noted(r, "password", c) EXCEPT !.pc = "password"]]
              /\ sessions' = t
    <3> DEFINE y == Noted(r, "password", c)
               x == [y EXCEPT !.pc = "password"]
    <3>1. y \in ConnState /\ y.shown = r.shown /\ Keeps(r, y) /\ conn' = [conn EXCEPT ![c] = x]
      BY <2>2, <2>10, NotedType
    <3> HIDE DEF y
    <3>2. x \in ConnState
      BY <3>1 DEF ConnState, Stages
    <3>3. x.pc = "password" /\ x.shown = r.shown /\ Keeps(r, x)
      BY <3>1 DEF ConnState, Keeps
    <3> HIDE DEF x
    <3>4. Sound(x, earned, coded) /\ Named(x)
      BY <2>4, <3>3, KeepsSound
    <3>5. ConnOK(x, earned, coded) /\ temp' \in Nat \ {0}
      BY <1>2, <3>3, <3>4 DEF ConnOK, Active, LoginInv, LoginType
    <3> QED BY <1>2, <2>5, <2>10, <3>1, <3>2, <3>5, QuietStep
  <2> QED BY <1>9, <2>6, <2>7, <2>8, <2>9, <2>10
<1> QED BY <1>3, <1>7, <1>8, <1>9 DEF r0

(* The peer answers an offer to switch sides. *)
LEMMA SwitchSidesResponseOK ==
  ASSUME LoginInv, NEW c \in Conns, NEW p \in Peers, SwitchSidesResponse(c, p)
  PROVE  LoginInv'
<1> DEFINE q == conn[c]
           f == decay_stale_failures(fails, c)
           lr == [scope |-> [peer |-> p, type |-> "remote"], password |-> NoPassword, hwid |-> FALSE, osLogin |-> FALSE]
           y == Requested(q, lr)
           r == [y EXCEPT !.latched = q.latched, !.cm = TRUE]
<1>1. /\ q \in ConnState /\ q.pc = "idle" /\ Sound(q, earned, coded) /\ ~q.trust
      /\ SessionsOK(sessions, earned, coded)
  BY ConnFacts DEF SwitchSidesResponse, Is, Active, ConnOK, LoginInv
<1>2. UNCHANGED <<trusted, clock, earned, coded, temp>>
  BY DEF SwitchSidesResponse, history
<1>3. \/ conn' = [conn EXCEPT ![c].asked = @ + 1] /\ UNCHANGED sessions
      \/ conn' = [conn EXCEPT ![c] = Left(r)] /\ UNCHANGED sessions
      \/ conn' = [conn EXCEPT ![c] = [Noted(r, "id", c) EXCEPT !.pc = "stranger"]] /\ UNCHANGED sessions
      \/ Logon(c, [r EXCEPT !.fromSwitch = TRUE, !.proofs = r.proofs \cup {"offer"}], sessions, f)
  BY DEF SwitchSidesResponse
<1>4. lr.scope \in Scopes /\ lr.password \in Int /\ lr.osLogin \in BOOLEAN /\ lr.hwid \in BOOLEAN
  BY DEF Scopes, SessionTypes, NoPassword
<1> HIDE DEF q, lr, f
<1>5. /\ y \in ConnState /\ ~y.awaiting
      /\ y.authorized = q.authorized /\ y.byClick = q.byClick /\ y.seen = q.seen /\ y.granted = q.granted
      /\ y.proofs = q.proofs /\ y.trust = q.trust /\ y.clicked = q.clicked /\ y.wants = q.wants
  BY <1>1, <1>4, RequestedType
<1> HIDE DEF y
<1>6. r \in ConnState
  BY <1>1, <1>5 DEF ConnState
<1>7. /\ ~r.awaiting /\ r.authorized = q.authorized /\ r.byClick = q.byClick /\ r.seen = q.seen
      /\ r.granted = q.granted /\ r.proofs = q.proofs /\ ~r.trust /\ r.clicked = q.clicked
  BY <1>1, <1>5 DEF ConnState
<1> HIDE DEF r
<1>8. CASE conn' = [conn EXCEPT ![c].asked = @ + 1] /\ UNCHANGED sessions
  <2> DEFINE n == q.asked + 1
             x == [q EXCEPT !.asked = n]
  <2>1. conn' = [conn EXCEPT ![c] = x]
    BY <1>8 DEF q
  <2>2. n \in Nat
    BY <1>1 DEF ConnState
  <2> HIDE DEF n
  <2>3. x \in ConnState
    BY <1>1, <2>2 DEF ConnState
  <2>4. x.pc = "idle" /\ x.shown = q.shown /\ ~x.trust /\ Keeps(q, x)
    BY <1>1 DEF ConnState, Keeps
  <2> HIDE DEF x
  <2>5. ConnOK(x, earned, coded)
    BY <1>1, <2>4, KeepsSound DEF ConnOK, Active
  <2> QED BY <1>2, <1>8, <2>1, <2>3, <2>5, LocalStep
<1>9. CASE conn' = [conn EXCEPT ![c] = Left(r)] /\ UNCHANGED sessions
  BY <1>1, <1>2, <1>6, <1>9, LeavingOK
<1>10. CASE conn' = [conn EXCEPT ![c] = [Noted(r, "id", c) EXCEPT !.pc = "stranger"]] /\ UNCHANGED sessions
  <2> DEFINE z == Noted(r, "id", c)
             x == [z EXCEPT !.pc = "stranger"]
  <2>1. z \in ConnState /\ Keeps(r, z) /\ conn' = [conn EXCEPT ![c] = x]
    BY <1>6, <1>10, NotedType
  <2> HIDE DEF z
  <2>2. x \in ConnState
    BY <2>1 DEF ConnState, Stages
  <2>3. x.pc = "stranger" /\ Keeps(r, x)
    BY <2>1 DEF ConnState, Keeps
  <2> HIDE DEF x
  <2>4. x.authorized /\ x.byClick => "offer" \in x.proofs \/ x.granted = x.seen
    BY <1>1, <1>7, <2>3 DEF Keeps, Sound
  <2>5. ConnOK(x, earned, coded)
    BY <2>3, <2>4 DEF ConnOK, Active
  <2> QED BY <1>2, <1>10, <2>1, <2>2, <2>5, LocalStep
<1>11. CASE Logon(c, [r EXCEPT !.fromSwitch = TRUE, !.proofs = r.proofs \cup {"offer"}], sessions, f)
  <2> DEFINE x == [r EXCEPT !.fromSwitch = TRUE, !.proofs = r.proofs \cup {"offer"}]
  <2>1. x \in ConnState
    BY <1>6 DEF ConnState
  <2>2. /\ ~x.awaiting /\ ~x.trust /\ x.clicked = r.clicked /\ x.byClick = r.byClick
        /\ x.proofs = r.proofs \cup {"offer"}
    BY <1>6, <1>7 DEF ConnState
  <2>3. Logon(c, x, sessions, f)
    BY <1>11
  <2> HIDE DEF x
  <2>4. Sound(x, earned, coded) /\ Named(x) /\ Personal(x)
    BY <1>1, <1>7, <2>2 DEF Sound, Proved, Personal, Named
  <2>5. Outcome(c, earned, coded) /\ SessionsOK(sessions', earned, coded)
    BY <1>1, <2>1, <2>3, <2>4, LogonOK
  <2> QED BY <1>2, <2>5, OutcomeStep
<1> QED BY <1>3, <1>8, <1>9, <1>10, <1>11

LEMMA StepLogin == LoginInv /\ [Next]_vars => LoginInv'
<1> SUFFICES ASSUME LoginInv, [Next]_vars PROVE LoginInv'
  OBVIOUS
<1>1. ASSUME NEW c \in Conns,
             \/ Open(c) \/ LoginRequest(c) \/ RefuseStranger(c) \/ ValidatePassword(c) \/ PasswordWrong(c)
             \/ Auth2fa(c) \/ CheckCode(c)
      PROVE  LoginInv'
  BY <1>1, OpenOK, LoginRequestOK, RefuseStrangerOK, ValidatePasswordOK, PasswordWrongOK, Auth2faOK, CheckCodeOK
<1>2. ASSUME NEW c \in Conns, TryGate(c) \/ VerifyOsLogin(c) \/ RecordOsFailure(c) \/ Click(c) \/ Authorize(c)
      PROVE  LoginInv'
  BY <1>2, TryGateOK, VerifyOsLoginOK, RecordOsFailureOK, ClickOK, AuthorizeOK
<1>3. ASSUME NEW c \in Conns,
             \/ CloseNoRetry(c) \/ ConnectionLost(c) \/ StartForwarding(c) \/ UpdateTemporaryPassword(c)
             \/ ForwardEnds(c) \/ Drop(c) \/ \E p \in Peers : SwitchSidesResponse(c, p)
      PROVE  LoginInv'
  BY <1>3, ClosingOK, StartForwardingOK, EndStagesOK, DropOK, SwitchSidesResponseOK
<1>4. ASSUME Tick \/ (\E p \in Peers : OfferSwitch(p) \/ OfferExpires(p)) \/ UNCHANGED vars
      PROVE  LoginInv'
  BY <1>4, WorldOK
<1>5. ASSUME NEW p \in Peers, SessionRefreshed(p) \/ SessionAges(p)
      PROVE  LoginInv'
  BY <1>5, AgeingOK
<1> QED BY <1>1, <1>2, <1>3, <1>4, <1>5 DEF Next

(* What every connection in the middle of a login has proved, and what     *)
(* every session that may be resumed stands for, is as LoginInv says in    *)
(* every reachable state.                                                  *)
THEOREM LoginInvariant == Spec => []LoginInv
  BY InitLogin, StepLogin, PTL DEF Spec

(* Nobody is let in without the local user's click or offer, or the        *)
(* password and, where it was asked for, the code: however the requests,   *)
(* answers, clicks and ends of any number of connections interleave, and   *)
(* whatever sessions and trusted devices they share.                       *)
THEOREM OnlyTheProvedAreLetIn == Spec => []AuthorizedProved
<1>1. LoginInv => AuthorizedProved
  <2> SUFFICES ASSUME LoginInv, NEW c \in Conns, Is(c, "idle"), conn[c].authorized
               PROVE  \/ conn[c].proofs \cap {"click", "offer"} # {}
                      \/ FirstFactor(conn[c]) /\ SecondFactor(conn[c])
    BY DEF AuthorizedProved
  <2>1. Proved(conn[c], earned, coded)
    BY ConnFacts DEF Is, Active, Sound
  <2> QED BY <2>1 DEF Proved, Personal, First, Second, FirstFactor, SecondFactor
<1> QED BY <1>1, LoginInvariant, PTL

(* A click lets in what was on the screen when it was made, whatever the   *)
(* peer asks for between the click and its handling by the connection.     *)
THEOREM ClickIsForWhatWasSeen == Spec => []ClickServesWhatWasSeen
<1>1. LoginInv => ClickServesWhatWasSeen
  <2> SUFFICES ASSUME LoginInv, NEW c \in Conns, conn[c].authorized, conn[c].byClick, "offer" \notin conn[c].proofs
               PROVE  conn[c].granted = conn[c].seen
    BY DEF ClickServesWhatWasSeen
  <2> QED BY ConnFacts DEF ConnOK, Sound
<1> QED BY <1>1, LoginInvariant, PTL

-----------------------------------------------------------------------------
(***************************************************************************)
(* The limits on wrong attempts, for any number of connections and any     *)
(* limits.  A handler checks a limit in one step and counts the failure in *)
(* a later one; the invariants say how the attempts between the two are    *)
(* accounted for, and how far a backoff may reach.                         *)
(***************************************************************************)

(* How a handler of connection c that ends in an admission leaves it: the  *)
(* OS login is entered only when no backoff runs, and the failures f that  *)
(* the handler has so far are touched only if somebody is let in.          *)
Leaves(c, wasIn, f) ==
  \E x \in ConnState :
    /\ conn' = [conn EXCEPT ![c] = x]
    /\ \/ x.pc \in {"idle", "left"}
       \/ x.pc = "os" /\ OsNow.until = 0 /\ ~x.authorized
    /\ os' \in {os, OsNow}
    /\ \/ fails' = f
       \/ fails' = clear_failures(f, "id", c) /\ ~wasIn /\ x.authorized

LEMMA AdmitLeaves ==
  ASSUME NEW c \in Conns, NEW r \in ConnState, NEW s, NEW f, ~r.authorized, Admit(c, r, s, f), os' \in {os, OsNow}
  PROVE  Leaves(c, FALSE, f)
<1>1. CASE conn' = [conn EXCEPT ![c] = Left(r)] /\ fails' = f
  BY <1>1, LeftType DEF Leaves
<1>2. CASE /\ conn' = [conn EXCEPT ![c] = [Shown(r) EXCEPT !.authorized = TRUE, !.granted = r.scope,
                                                         !.socket = r.scope.type = "forward"]]
           /\ fails' = clear_failures(f, "id", c)
  <2> DEFINE y == Shown(r)
             x == [y EXCEPT !.authorized = TRUE, !.granted = r.scope, !.socket = r.scope.type = "forward"]
  <2>1. y \in ConnState /\ y.pc = "idle" /\ r.scope \in Scopes
    BY ShownType DEF ConnState
  <2>2. conn' = [conn EXCEPT ![c] = x]
    BY <1>2
  <2> HIDE DEF y
  <2>3. x \in ConnState
    BY <2>1 DEF ConnState
  <2>4. x.pc = "idle" /\ x.authorized
    BY <2>1 DEF ConnState
  <2> HIDE DEF x
  <2> QED BY <1>2, <2>2, <2>3, <2>4 DEF Leaves
<1> QED BY <1>1, <1>2 DEF Admit

LEMMA PrepareLeaves ==
  ASSUME NEW c \in Conns, NEW r \in ConnState, NEW s, NEW f, NEW then \in {"logon", "show"}, ~r.authorized,
         Prepare(c, r, s, f, then)
  PROVE  Leaves(c, FALSE, f)
<1>1. CASE Admit(c, r, s, f) /\ UNCHANGED os
  BY <1>1, AdmitLeaves
<1>2. CASE conn' = [conn EXCEPT ![c] = Shown(r)] /\ fails' = f /\ UNCHANGED os
  BY <1>2, ShownType DEF Leaves
<1>3. CASE conn' = [conn EXCEPT ![c] = Left(r)] /\ fails' = f /\ os' \in {os, OsNow}
  BY <1>3, LeftType DEF Leaves
<1>4. CASE /\ conn' = [conn EXCEPT ![c] = [r EXCEPT !.pc = "os", !.then = then]] /\ fails' = f
           /\ OsNow.until = 0 /\ os' = OsNow
  <2> DEFINE x == [r EXCEPT !.pc = "os", !.then = then]
  <2>1. x \in ConnState
    BY DEF ConnState, Stages
  <2>2. x.pc = "os" /\ ~x.authorized
    BY DEF ConnState
  <2>3. conn' = [conn EXCEPT ![c] = x]
    BY <1>4
  <2> HIDE DEF x
  <2> QED BY <1>4, <2>1, <2>2, <2>3 DEF Leaves
<1>5. CASE Admit(c, [r EXCEPT !.token = TRUE], s, f) /\ UNCHANGED os
  <2> DEFINE x == [r EXCEPT !.token = TRUE]
  <2>1. x \in ConnState
    BY DEF ConnState
  <2>2. ~x.authorized
    BY DEF ConnState
  <2>3. Admit(c, x, s, f)
    BY <1>5
  <2> HIDE DEF x
  <2> QED BY <1>5, <2>1, <2>2, <2>3, AdmitLeaves
<1> QED BY <1>1, <1>2, <1>3, <1>4, <1>5 DEF Prepare

LEMMA LogonLeaves ==
  ASSUME NEW c \in Conns, NEW r \in ConnState, NEW s, NEW f, Logon(c, r, s, f)
  PROVE  Leaves(c, r.authorized, f)
<1>1. CASE conn' = [conn EXCEPT ![c] = Shown(r)] /\ fails' = f /\ UNCHANGED os
  BY <1>1, ShownType DEF Leaves
<1>2. CASE conn' = [conn EXCEPT ![c] = [Shown(r) EXCEPT !.awaiting = TRUE]] /\ fails' = f /\ UNCHANGED os
  <2> DEFINE y == Shown(r)
             x == [y EXCEPT !.awaiting = TRUE]
  <2>1. y \in ConnState /\ y.pc = "idle" /\ conn' = [conn EXCEPT ![c] = x]
    BY <1>2, ShownType
  <2> HIDE DEF y
  <2>2. x \in ConnState
    BY <2>1 DEF ConnState
  <2>3. x.pc = "idle"
    BY <2>1 DEF ConnState
  <2> HIDE DEF x
  <2> QED BY <1>2, <2>1, <2>2, <2>3 DEF Leaves
<1>3. ASSUME NEW t, ~r.authorized, Prepare(c, [r EXCEPT !.awaiting = FALSE], t, f, "logon")
      PROVE  Leaves(c, r.authorized, f)
  <2> DEFINE x == [r EXCEPT !.awaiting = FALSE]
  <2>1. x \in ConnState
    BY DEF ConnState
  <2>2. ~x.authorized
    BY <1>3 DEF ConnState
  <2>3. Prepare(c, x, t, f, "logon")
    BY <1>3
  <2> HIDE DEF x
  <2>4. Leaves(c, FALSE, f)
    BY <2>1, <2>2, <2>3, PrepareLeaves
  <2> QED BY <1>3, <2>4 DEF Leaves
<1> QED BY <1>1, <1>2, <1>3 DEF Logon

-----------------------------------------------------------------------------
(* The counters. *)

FailsType(f) == f \in [Kinds -> [Buckets -> Entry]]

LEMMA NoFailureType == NoFailure \in Entry /\ NoFailure.total = 0
  BY DEF NoFailure, Entry

LEMMA ClearedFailures ==
  ASSUME NEW f, FailsType(f), NEW j \in Kinds, NEW c
  PROVE  /\ FailsType(clear_failures(f, j, c))
         /\ \A i \in Kinds, k \in Buckets :
              clear_failures(f, j, c)[i][k].total = IF i = j /\ k \in BucketsOf(c) THEN 0 ELSE f[i][k].total
<1> DEFINE m == [k \in Buckets |-> IF k \in BucketsOf(c) THEN NoFailure ELSE f[j][k]]
           g == clear_failures(f, j, c)
<1>1. g = [f EXCEPT ![j] = m]
  BY DEF clear_failures, FailsType
<1>2. m \in [Buckets -> Entry] /\ \A k \in Buckets : m[k] = IF k \in BucketsOf(c) THEN NoFailure ELSE f[j][k]
  BY NoFailureType DEF FailsType
<1> HIDE DEF m
<1>3. g \in [Kinds -> [Buckets -> Entry]] /\ g[j] = m /\ \A i \in Kinds \ {j} : g[i] = f[i]
  BY <1>1, <1>2 DEF FailsType
<1> HIDE DEF g
<1>4. FailsType(g) /\ \A i \in Kinds, k \in Buckets :
                        g[i][k].total = IF i = j /\ k \in BucketsOf(c) THEN 0 ELSE f[i][k].total
  BY <1>2, <1>3, NoFailureType DEF FailsType
<1> QED BY <1>4 DEF g

LEMMA ForgivenFailures ==
  ASSUME NEW f, FailsType(f), NEW j \in Kinds, NEW c
  PROVE  /\ FailsType(Forgiven(f, j, c))
         /\ \A i \in Kinds, k \in Buckets :
              /\ Forgiven(f, j, c)[i][k].total <= f[i][k].total
              /\ i # j => Forgiven(f, j, c)[i][k].total = f[i][k].total
<1>1. \A i \in Kinds, k \in Buckets : f[i][k].total \in Nat
  BY DEF FailsType, Entry
<1> QED BY <1>1, ClearedFailures DEF Forgiven

LEMMA ChargedFailures ==
  ASSUME NEW f, FailsType(f), NEW j \in Kinds, NEW c, NEW n \in Nat
  PROVE  /\ FailsType(Charged(f, j, c, n))
         /\ \A i \in Kinds, k \in Buckets :
              Charged(f, j, c, n)[i][k].total = IF i = j /\ k \in BucketsOf(c) THEN f[i][k].total + 1 ELSE f[i][k].total
<1> DEFINE m == [k \in Buckets |-> IF k \in BucketsOf(c) THEN bump_failure_entry(f[j][k], n) ELSE f[j][k]]
           g == Charged(f, j, c, n)
<1>1. g = [f EXCEPT ![j] = m]
  BY DEF Charged, FailsType
<1>2. \A k \in Buckets : /\ f[j][k] \in Entry /\ bump_failure_entry(f[j][k], n) \in Entry
                         /\ bump_failure_entry(f[j][k], n).total = f[j][k].total + 1
  <2> TAKE k \in Buckets
  <2> DEFINE e == f[j][k]
  <2>1. e \in Entry
    BY DEF FailsType
  <2> HIDE DEF e
  <2>2. bump_failure_entry(e, n) \in Entry /\ bump_failure_entry(e, n).total = e.total + 1
    BY <2>1 DEF bump_failure_entry, Entry
  <2> QED BY <2>1, <2>2 DEF e
<1>3. m \in [Buckets -> Entry]
  BY <1>2
<1>4. \A k \in Buckets : m[k].total = IF k \in BucketsOf(c) THEN f[j][k].total + 1 ELSE f[j][k].total
  BY <1>2
<1> HIDE DEF m
<1>5. g \in [Kinds -> [Buckets -> Entry]] /\ g[j] = m /\ \A i \in Kinds \ {j} : g[i] = f[i]
  BY <1>1, <1>3 DEF FailsType
<1> HIDE DEF g
<1>6. FailsType(g) /\ \A i \in Kinds, k \in Buckets :
                        g[i][k].total = IF i = j /\ k \in BucketsOf(c) THEN f[i][k].total + 1 ELSE f[i][k].total
  BY <1>4, <1>5 DEF FailsType
<1> QED BY <1>6 DEF g

LEMMA DecayedFailures ==
  ASSUME NEW f, FailsType(f), NEW c
  PROVE  /\ FailsType(decay_stale_failures(f, c))
         /\ \A i \in Kinds, k \in Buckets :
              /\ decay_stale_failures(f, c)[i][k].total <= f[i][k].total
              /\ \/ decay_stale_failures(f, c)[i][k].total = f[i][k].total
                 \/ i = "id" /\ clock - f[i][k].minute >= DecayWindow
<1> DEFINE old(k) == k \in BucketsOf(c) /\ f["id"][k].minute # 0 /\ clock - f["id"][k].minute >= DecayWindow
           m == [k \in Buckets |-> IF old(k) THEN NoFailure ELSE f["id"][k]]
           g == decay_stale_failures(f, c)
<1>1. g = [f EXCEPT !["id"] = m]
  BY DEF decay_stale_failures, FailsType
<1>2. m \in [Buckets -> Entry] /\ \A k \in Buckets : m[k] = IF old(k) THEN NoFailure ELSE f["id"][k]
  BY NoFailureType DEF FailsType, Kinds
<1>3. \A k \in Buckets : old(k) => clock - f["id"][k].minute >= DecayWindow
  OBVIOUS
<1> HIDE DEF m, old
<1>4. g \in [Kinds -> [Buckets -> Entry]] /\ g["id"] = m /\ \A i \in Kinds \ {"id"} : g[i] = f[i]
  BY <1>1, <1>2 DEF FailsType, Kinds
<1> HIDE DEF g
<1>5. \A i \in Kinds, k \in Buckets : f[i][k].total \in Nat
  BY DEF FailsType, Entry
<1>6. FailsType(g) /\ \A i \in Kinds, k \in Buckets :
                        /\ g[i][k].total <= f[i][k].total
                        /\ \/ g[i][k].total = f[i][k].total
                           \/ i = "id" /\ clock - f[i][k].minute >= DecayWindow
  BY <1>2, <1>3, <1>4, <1>5, NoFailureType DEF FailsType
<1> QED BY <1>6 DEF g

-----------------------------------------------------------------------------
(* The backoff of the OS login. *)

OsState == [total : Nat, until : Nat, last : Nat]

(* A backoff ends at most BackoffMax after the last failure, and only many *)
(* failures set one.                                                       *)
BackoffOK(o) ==
  /\ o \in OsState
  /\ o.until <= o.last + BackoffMax
  /\ o.until # 0 => o.total > FreeFailures

LEMMA SmallPowers == ASSUME NEW e \in 0..7 PROVE 2^e \in Nat \ {0}
<1>1. CASE e = 0
  BY <1>1
<1>2. CASE e = 1
  BY <1>2
<1>3. CASE e = 2
  BY <1>3
<1>4. CASE e = 3
  BY <1>4
<1>5. CASE e = 4
  BY <1>5
<1>6. CASE e = 5
  BY <1>6
<1>7. CASE e = 6
  BY <1>7
<1>8. CASE e = 7
  BY <1>8
<1> QED BY <1>1, <1>2, <1>3, <1>4, <1>5, <1>6, <1>7, <1>8

LEMMA BackoffRange ==
  ASSUME NEW n \in Nat
  PROVE  /\ os_credential_login_backoff(n) \in 0..BackoffMax
         /\ n > FreeFailures => os_credential_login_backoff(n) > 0
         /\ n <= FreeFailures => os_credential_login_backoff(n) = 0
<1> DEFINE exp == IF n - FreeFailures - 1 < 7 THEN n - FreeFailures - 1 ELSE 7
           power == 2^exp
           wait == BackoffBase * power
<1>1. FreeFailures \in Nat /\ BackoffBase \in Nat \ {0} /\ BackoffMax \in Nat \ {0}
  BY BoundsAssumption
<1>2. CASE n <= FreeFailures
  BY <1>1, <1>2 DEF os_credential_login_backoff
<1>3. CASE n > FreeFailures
  <2>1. exp \in 0..7
    BY <1>1, <1>3
  <2>2. power \in Nat \ {0}
    <3> HIDE DEF exp
    <3> QED BY <2>1, SmallPowers
  <2>3. os_credential_login_backoff(n) = IF wait < BackoffMax THEN wait ELSE BackoffMax
    BY <1>1, <1>3 DEF os_credential_login_backoff
  <2> HIDE DEF power
  <2>4. wait \in Nat \ {0}
    BY <1>1, <2>2
  <2> HIDE DEF wait
  <2> QED BY <1>1, <1>3, <2>3, <2>4
<1> QED BY <1>1, <1>2, <1>3

(* The idle reset and the normalization keep it, and show a backoff as     *)
(* over only if it is, wherever the wall clock stands.                     *)
LEMMA OsNowOK ==
  ASSUME BackoffOK(os), clock \in Nat
  PROVE  BackoffOK(OsNow) /\ (OsNow.until = 0 => os.until <= clock)
<1> DEFINE zero == [total |-> 0, until |-> 0, last |-> 0]
           o == IF os.last # 0 /\ clock - os.last >= IdleReset THEN zero ELSE os
<1>1. IdleReset \in Nat /\ BackoffMax \in Nat /\ BackoffMax <= IdleReset /\ FreeFailures \in Nat
  BY BoundsAssumption
<1>2. OsNow = IF o.until <= clock THEN [o EXCEPT !.until = 0] ELSE o
  BY DEF OsNow
<1>3. BackoffOK(zero) /\ zero.until = 0
  BY <1>1 DEF BackoffOK, OsState
<1>4. o = os \/ (o = zero /\ clock - os.last >= IdleReset)
  OBVIOUS
<1>5. os.until \in Nat /\ os.last \in Nat /\ os.until <= os.last + BackoffMax
  BY DEF BackoffOK, OsState
<1>6. BackoffOK(o) /\ (o.until <= clock => os.until <= clock)
  <2> HIDE DEF o, zero
  <2> QED BY <1>1, <1>3, <1>4, <1>5
<1> HIDE DEF o
<1>7. o \in OsState
  BY <1>6 DEF BackoffOK
<1>8. CASE o.until <= clock
  <2> DEFINE u == [o EXCEPT !.until = 0]
  <2>1. u \in OsState /\ u.until = 0 /\ u.last = o.last /\ u.total = o.total
    BY <1>7 DEF OsState
  <2>2. OsNow = u
    BY <1>2, <1>8
  <2> HIDE DEF u
  <2>3. u.last \in Nat
    BY <2>1 DEF OsState
  <2>4. BackoffOK(u)
    BY <1>1, <2>1, <2>3 DEF BackoffOK
  <2> QED BY <1>6, <1>8, <2>2, <2>4
<1>9. CASE ~(o.until <= clock)
  <2>1. OsNow = o
    BY <1>2, <1>9
  <2>2. o.until # 0
    BY <1>9
  <2> QED BY <1>6, <2>1, <2>2
<1> QED BY <1>8, <1>9

LEMMA RecordedOK ==
  ASSUME BackoffOK(os), clock \in Nat, NEW c \in Conns, RecordOsFailure(c)
  PROVE  BackoffOK(os')
<1> DEFINE o == OsNow
           n == o.total + 1
           wait == os_credential_login_backoff(n)
           until == IF wait > 0 THEN clock + wait ELSE o.until
<1>1. os' = [total |-> n, until |-> until, last |-> clock]
  BY DEF RecordOsFailure
<1>2. BackoffOK(o)
  BY OsNowOK
<1> HIDE DEF o
<1>3. o.total \in Nat /\ o.until \in Nat /\ n \in Nat /\ (o.until # 0 => o.total > FreeFailures)
  BY <1>2 DEF BackoffOK, OsState
<1>4. BackoffMax \in Nat /\ FreeFailures \in Nat
  BY BoundsAssumption
<1>5. /\ wait \in 0..BackoffMax /\ (n > FreeFailures => wait > 0) /\ (n <= FreeFailures => wait = 0)
  <2> HIDE DEF n
  <2> QED BY <1>3, BackoffRange
<1> HIDE DEF wait
<1>6. /\ until \in Nat /\ until <= clock + BackoffMax /\ (until # 0 => n > FreeFailures)
  BY <1>3, <1>4, <1>5
<1> HIDE DEF until, n
<1> QED BY <1>1, <1>3, <1>6 DEF BackoffOK, OsState

-----------------------------------------------------------------------------
(* The invariant. *)

(* Whoever is at the OS login has not been let in. *)
Pending == \A c \in Conns : conn[c].pc \in {"os", "verify"} => ~conn[c].authorized

Limits == FailsType(fails) /\ FailuresBounded /\ BackoffOK(os) /\ Pending

Wrong == {c \in Conns : conn[c].pc = "wrong"}

(* The failures that are counted against the current temporary password. *)
Counted == IF tempFails.password = temp THEN tempFails.n ELSE 0

Guesses ==
  /\ tempFails \in [password : Nat, n : Nat] /\ tempFails.n < MaxConsecutive
  /\ guesses \in Nat /\ guesses <= Counted + Cardinality(Wrong)

LimitInv == LoginInv /\ Limits /\ Guesses

(* A step of c into x, seen from one counter: the step does not charge it  *)
(* and c does not become a pending attempt, or it stands below its limit,  *)
(* or the pending attempt of c is charged.                                 *)
Accounted(c, x, i, k) ==
  \/ /\ fails'[i][k].total <= fails[i][k].total
     /\ x.pc \in Uncounted(i) /\ k \in BucketsOf(c) => conn[c].pc \in Uncounted(i)
  \/ fails'[i][k].total <= Limit[k]
  \/ /\ fails'[i][k].total <= fails[i][k].total + 1 /\ k \in BucketsOf(c)
     /\ conn[c].pc \in Uncounted(i) /\ x.pc \notin Uncounted(i)

LEMMA AccountedStep ==
  ASSUME LimitInv, NEW c \in Conns, NEW x \in ConnState, conn' = [conn EXCEPT ![c] = x], FailsType(fails'),
         \A i \in Kinds, k \in Buckets : Accounted(c, x, i, k)
  PROVE  FailuresBounded'
<1> SUFFICES ASSUME NEW i \in Kinds, NEW k \in Buckets
             PROVE  fails'[i][k].total
                      + Cardinality({d \in Conns : conn'[d].pc \in Uncounted(i) /\ k \in BucketsOf(d)})
                    <= Limit[k] + Cardinality(Conns)
  BY DEF FailuresBounded, Uncounted, BucketsOf
<1> DEFINE old == {d \in Conns : conn[d].pc \in Uncounted(i) /\ k \in BucketsOf(d)}
           new == {d \in Conns : conn'[d].pc \in Uncounted(i) /\ k \in BucketsOf(d)}
<1> SUFFICES fails'[i][k].total + Cardinality(new) <= Limit[k] + Cardinality(Conns)
  OBVIOUS
<1>1. /\ fails[i][k].total \in Nat /\ fails'[i][k].total \in Nat /\ Limit[k] \in Nat
      /\ fails[i][k].total + Cardinality(old) <= Limit[k] + Cardinality(Conns)
  BY BucketsAssumption DEF LimitInv, Limits, FailsType, Entry, FailuresBounded
<1>2. /\ IsFiniteSet(old) /\ IsFiniteSet(new) /\ IsFiniteSet(Conns) /\ Cardinality(old) \in Nat
      /\ Cardinality(new) \in Nat /\ Cardinality(Conns) \in Nat /\ Cardinality(new) <= Cardinality(Conns)
  BY ConnsAssumption, FS_Subset, FS_CardinalityType
<1>3. conn'[c] = x /\ (\A d \in Conns \ {c} : conn'[d] = conn[d])
  BY DEF LimitInv, LoginInv, LoginType
<1>4. CASE /\ fails'[i][k].total <= fails[i][k].total
           /\ x.pc \in Uncounted(i) /\ k \in BucketsOf(c) => conn[c].pc \in Uncounted(i)
  <2>1. new \subseteq old
    BY <1>3, <1>4
  <2>2. Cardinality(new) <= Cardinality(old)
    BY <1>2, <2>1, FS_Subset
  <2> HIDE DEF old, new
  <2> QED BY <1>1, <1>2, <1>4, <2>2
<1>5. CASE fails'[i][k].total <= Limit[k]
  <2> HIDE DEF old, new
  <2> QED BY <1>1, <1>2, <1>5
<1>6. CASE /\ fails'[i][k].total <= fails[i][k].total + 1 /\ k \in BucketsOf(c)
           /\ conn[c].pc \in Uncounted(i) /\ x.pc \notin Uncounted(i)
  <2>1. new = old \ {c} /\ c \in old
    BY <1>3, <1>6
  <2> HIDE DEF old, new
  <2>2. Cardinality(new) = Cardinality(old) - 1
    BY <1>2, <2>1, FS_RemoveElement
  <2> QED BY <1>1, <1>2, <1>6, <2>2
<1> QED BY <1>4, <1>5, <1>6 DEF Accounted

(* BackoffHolds and WhitelistBudget, for one step. *)
Entering ==
  \A c \in Conns :
    /\ ~Is(c, "os") /\ conn'[c].pc = "os" => os.until <= clock
    /\ ~Is(c, "verify") /\ conn'[c].pc = "verify" => Is(c, "os")

Budget ==
  \A k \in Buckets : fails'["id"][k].total < fails["id"][k].total =>
    \/ \E c \in Conns : k \in BucketsOf(c) /\ ~conn[c].authorized /\ conn'[c].authorized
    \/ clock - fails["id"][k].minute >= DecayWindow

(* The failures f are those of the state, less some that were forgiven;    *)
(* those of the id whitelist only for their age.                           *)
Lowered(f) ==
  /\ FailsType(f)
  /\ \A i \in Kinds, k \in Buckets : f[i][k].total <= fails[i][k].total
  /\ \A k \in Buckets : f["id"][k].total = fails["id"][k].total \/ clock - fails["id"][k].minute >= DecayWindow

LEMMA LoweredFailures ==
  ASSUME LimitInv, NEW c
  PROVE  /\ Lowered(fails) /\ Lowered(decay_stale_failures(fails, c))
         /\ Lowered(Forgiven(fails, "password", c)) /\ Lowered(Forgiven(fails, "code", c))
<1>1. FailsType(fails) /\ \A i \in Kinds, k \in Buckets : fails[i][k].total \in Nat
  BY DEF LimitInv, Limits, FailsType, Entry
<1>2. "id" \in Kinds /\ "password" \in Kinds /\ "code" \in Kinds
  BY DEF Kinds
<1>3. Lowered(fails)
  BY <1>1 DEF Lowered
<1>4. Lowered(decay_stale_failures(fails, c))
  BY <1>1, <1>2, DecayedFailures DEF Lowered
<1>5. Lowered(Forgiven(fails, "password", c))
  BY <1>1, <1>2, ForgivenFailures DEF Lowered
<1>6. Lowered(Forgiven(fails, "code", c))
  BY <1>1, <1>2, ForgivenFailures DEF Lowered
<1> QED BY <1>3, <1>4, <1>5, <1>6

LEMMA EnteringStep ==
  ASSUME LimitInv, NEW c \in Conns, NEW x \in ConnState, conn' = [conn EXCEPT ![c] = x],
         x.pc = "os" => conn[c].pc = "os" \/ OsNow.until = 0,
         x.pc = "verify" => conn[c].pc \in {"os", "verify"}
  PROVE  Entering
<1>1. conn'[c] = x /\ (\A d \in Conns \ {c} : conn'[d] = conn[d])
  BY DEF LimitInv, LoginInv, LoginType
<1>2. OsNow.until = 0 => os.until <= clock
  BY OsNowOK DEF LimitInv, Limits, LoginInv, LoginType
<1> QED BY <1>1, <1>2 DEF Entering, Is

LEMMA PendingStep ==
  ASSUME LimitInv, NEW c \in Conns, NEW x \in ConnState, conn' = [conn EXCEPT ![c] = x],
         x.pc \in {"os", "verify"} => ~x.authorized
  PROVE  Pending'
<1>1. conn'[c] = x /\ (\A d \in Conns \ {c} : conn'[d] = conn[d])
  BY DEF LimitInv, LoginInv, LoginType
<1> QED BY <1>1 DEF LimitInv, Limits, Pending

LEMMA UncountedStages ==
  /\ Uncounted("password") = {"password", "wrong"} /\ Uncounted("code") = {"code"} /\ Uncounted("id") = {"stranger"}
  /\ \A i \in Kinds : Uncounted(i) \subseteq {"password", "wrong", "code", "stranger"}
  BY DEF Uncounted, Kinds

(* The handler ends, with failures that are no more than before. *)
LEMMA LeavesLimits ==
  ASSUME LimitInv, NEW c \in Conns, NEW f, Lowered(f), Leaves(c, conn[c].authorized, f)
  PROVE  Limits' /\ Entering /\ Budget
<1>1. PICK x \in ConnState :
        /\ conn' = [conn EXCEPT ![c] = x]
        /\ x.pc \in {"idle", "left"} \/ (x.pc = "os" /\ ~x.authorized /\ OsNow.until = 0)
        /\ os' \in {os, OsNow}
        /\ fails' = f \/ (fails' = clear_failures(f, "id", c) /\ ~conn[c].authorized /\ x.authorized)
  BY DEF Leaves
<1>0. FailsType(f) /\ \A i \in Kinds, k \in Buckets : f[i][k].total <= fails[i][k].total
  BY DEF Lowered
<1>2. /\ FailsType(fails')
      /\ \A i \in Kinds, k \in Buckets : fails'[i][k].total <= f[i][k].total
  <2>1. CASE fails' = f
    BY <1>0, <2>1 DEF FailsType, Entry
  <2>2. CASE fails' = clear_failures(f, "id", c)
    <3>1. \A i \in Kinds, k \in Buckets : f[i][k].total \in Nat
      BY <1>0 DEF FailsType, Entry
    <3>2. "id" \in Kinds
      BY DEF Kinds
    <3>3. /\ FailsType(fails')
          /\ \A i \in Kinds, k \in Buckets :
               fails'[i][k].total = IF i = "id" /\ k \in BucketsOf(c) THEN 0 ELSE f[i][k].total
      BY <1>0, <2>2, <3>2, ClearedFailures
    <3> QED BY <3>1, <3>3
  <2> QED BY <1>1, <2>1, <2>2
<1>3. \A i \in Kinds, k \in Buckets : Accounted(c, x, i, k)
  <2> TAKE i \in Kinds, k \in Buckets
  <2>1. x.pc \notin Uncounted(i)
    BY <1>1, UncountedStages
  <2>2. fails[i][k].total \in Nat /\ f[i][k].total \in Nat /\ fails'[i][k].total \in Nat
    BY <1>0, <1>2 DEF LimitInv, Limits, FailsType, Entry
  <2>3. fails'[i][k].total <= fails[i][k].total
    BY <1>0, <1>2, <2>2
  <2> QED BY <2>1, <2>3 DEF Accounted
<1>4. BackoffOK(os')
  BY <1>1, OsNowOK DEF LimitInv, Limits, LoginInv, LoginType
<1>5. FailuresBounded'
  BY <1>1, <1>2, <1>3, AccountedStep
<1>6. Pending'
  BY <1>1, PendingStep
<1>7. Entering
  BY <1>1, EnteringStep
<1>8. Budget
  <2>0. clock \in Nat /\ DecayWindow \in Nat /\ \A k \in Buckets : fails["id"][k].minute \in Nat
    BY BoundsAssumption DEF LimitInv, Limits, LoginInv, LoginType, FailsType, Entry, Kinds
  <2> SUFFICES ASSUME NEW k \in Buckets, fails'["id"][k].total < fails["id"][k].total,
                      clock - fails["id"][k].minute < DecayWindow
               PROVE  k \in BucketsOf(c) /\ ~conn[c].authorized /\ conn'[c].authorized
    BY <2>0 DEF Budget
  <2>1. f["id"][k].total = fails["id"][k].total
    BY <2>0 DEF Lowered
  <2>2. "id" \in Kinds /\ fails["id"][k].total \in Nat
    BY DEF LimitInv, Limits, FailsType, Entry, Kinds
  <2>3. fails' = clear_failures(f, "id", c) /\ ~conn[c].authorized /\ x.authorized
    BY <1>1, <2>1, <2>2
  <2>4. fails'["id"][k].total = IF k \in BucketsOf(c) THEN 0 ELSE f["id"][k].total
    BY <1>0, <2>2, <2>3, ClearedFailures
  <2>5. conn'[c] = x
    BY <1>1 DEF LimitInv, LoginInv, LoginType
  <2> QED BY <2>1, <2>2, <2>3, <2>4, <2>5
<1>9. Limits'
  BY <1>2, <1>4, <1>5, <1>6 DEF Limits, BackoffOK, FailsType, OsState
<1> QED BY <1>7, <1>8, <1>9

(* A step that counts nothing and begins no attempt. *)
LEMMA StageLimits ==
  ASSUME LimitInv, NEW c \in Conns, NEW x \in ConnState, conn' = [conn EXCEPT ![c] = x], UNCHANGED fails,
         BackoffOK(os'), x.pc \in {"os", "verify"} => ~x.authorized,
         x.pc = "os" => conn[c].pc = "os", x.pc = "verify" => conn[c].pc \in {"os", "verify"},
         \A i \in Kinds : x.pc \in Uncounted(i) => conn[c].pc \in Uncounted(i)
  PROVE  Limits' /\ Entering /\ Budget
<1>1. FailsType(fails')
  BY DEF LimitInv, Limits
<1>2. \A i \in Kinds, k \in Buckets : Accounted(c, x, i, k)
  <2> TAKE i \in Kinds, k \in Buckets
  <2>1. fails[i][k].total \in Nat
    BY DEF LimitInv, Limits, FailsType, Entry
  <2> QED BY <2>1 DEF Accounted
<1>3. FailuresBounded'
  BY <1>1, <1>2, AccountedStep
<1>4. Pending'
  BY PendingStep
<1>5. Entering
  BY EnteringStep
<1>6. Budget
  <2>1. \A k \in Buckets : fails["id"][k].total \in Nat
    BY DEF LimitInv, Limits, FailsType, Entry, Kinds
  <2> QED BY <2>1 DEF Budget
<1>7. Limits'
  BY <1>1, <1>3, <1>4 DEF Limits, BackoffOK, FailsType, OsState
<1> QED BY <1>5, <1>6, <1>7

(* A pending attempt is charged. *)
LEMMA ChargeLimits ==
  ASSUME LimitInv, NEW c \in Conns, NEW x \in ConnState, conn' = [conn EXCEPT ![c] = x], UNCHANGED os,
         NEW j \in Kinds, conn[c].pc \in Uncounted(j), x.pc \in {"idle", "left"},
         fails' = Charged(fails, j, c, conn[c].at)
  PROVE  Limits' /\ Entering /\ Budget
<1>1. conn[c].at \in Nat /\ FailsType(fails)
  BY DEF LimitInv, Limits, LoginInv, LoginType, ConnState
<1>2. /\ FailsType(fails')
      /\ \A i \in Kinds, k \in Buckets :
           fails'[i][k].total = IF i = j /\ k \in BucketsOf(c) THEN fails[i][k].total + 1 ELSE fails[i][k].total
  BY <1>1, ChargedFailures
<1>3. \A i \in Kinds, k \in Buckets : Accounted(c, x, i, k)
  <2> TAKE i \in Kinds, k \in Buckets
  <2>1. x.pc \notin Uncounted(i)
    BY UncountedStages
  <2>2. fails[i][k].total \in Nat
    BY <1>1 DEF FailsType, Entry
  <2> QED BY <1>2, <2>1, <2>2 DEF Accounted
<1>4. FailuresBounded'
  BY <1>2, <1>3, AccountedStep
<1>5. Pending'
  BY PendingStep
<1>6. BackoffOK(os')
  BY DEF LimitInv, Limits
<1>7. Entering
  BY EnteringStep
<1>8. Budget
  <2>1. "id" \in Kinds /\ \A k \in Buckets : fails["id"][k].total \in Nat
    BY DEF LimitInv, Limits, FailsType, Entry, Kinds
  <2> QED BY <1>2, <2>1 DEF Budget
<1>9. Limits'
  BY <1>2, <1>4, <1>5, <1>6 DEF Limits, BackoffOK, FailsType, OsState
<1> QED BY <1>7, <1>8, <1>9

(* An attempt begins, below every limit that is on it. *)
LEMMA AttemptLimits ==
  ASSUME LimitInv, NEW c \in Conns, NEW x \in ConnState, conn' = [conn EXCEPT ![c] = x], UNCHANGED os,
         NEW j \in Kinds, x.pc \in {"password", "code", "stranger"}, x.pc \in Uncounted(j), Lowered(fails'),
         ~Blocked(fails', j, c)
  PROVE  Limits' /\ Entering /\ Budget
<1>0. FailsType(fails') /\ \A i \in Kinds, k \in Buckets : fails'[i][k].total <= fails[i][k].total
  BY DEF Lowered
<1>1. \A i \in Kinds, k \in Buckets : Accounted(c, x, i, k)
  <2> TAKE i \in Kinds, k \in Buckets
  <2>1. CASE i = j /\ k \in BucketsOf(c)
    <3>1. ~(fails'[i][k].total > Limit[k])
      BY <2>1 DEF Blocked
    <3>2. fails'[i][k].total \in Nat /\ Limit[k] \in Nat
      BY <1>0, BucketsAssumption DEF FailsType, Entry
    <3> QED BY <3>1, <3>2 DEF Accounted
  <2>2. CASE i # j
    <3>1. x.pc \notin Uncounted(i)
      BY <2>2, UncountedStages DEF Kinds
    <3> QED BY <1>0, <3>1 DEF Accounted
  <2>3. CASE k \notin BucketsOf(c)
    BY <1>0, <2>3 DEF Accounted
  <2> QED BY <2>1, <2>2, <2>3
<1>2. FailuresBounded'
  BY <1>0, <1>1, AccountedStep
<1>3. Pending'
  BY PendingStep
<1>4. BackoffOK(os')
  BY DEF LimitInv, Limits
<1>5. Entering
  BY EnteringStep
<1>6. Budget
  <2>1. "id" \in Kinds /\ \A k \in Buckets : fails["id"][k].total \in Nat
    BY DEF LimitInv, Limits, FailsType, Entry, Kinds
  <2> QED BY <1>0, <2>1 DEF Budget, Lowered
<1>7. Limits'
  BY <1>0, <1>2, <1>3, <1>4 DEF Limits, BackoffOK, FailsType, OsState
<1> QED BY <1>5, <1>6, <1>7

-----------------------------------------------------------------------------
(* Every action of a connection. *)

Within == Limits' /\ Entering /\ Budget

LEMMA CurrentConn ==
  ASSUME LimitInv, NEW c \in Conns
  PROVE  /\ conn[c] \in ConnState /\ BackoffOK(os) /\ conn \in [Conns -> ConnState]
         /\ (conn[c].pc \in {"os", "verify"} => ~conn[c].authorized)
  BY DEF LimitInv, Limits, Pending, LoginInv, LoginType

(* Steps to a stage that is not reached by any attempt. *)
LEMMA QuietStage ==
  ASSUME LimitInv, NEW c \in Conns, NEW x \in ConnState, conn' = [conn EXCEPT ![c] = x], UNCHANGED fails,
         BackoffOK(os'), x.pc \in {"idle", "left", "refused", "forwarding", "ending", "gone"}
  PROVE  Within
  BY UncountedStages, StageLimits DEF Within

LEMMA OpenWithin == ASSUME LimitInv, NEW c \in Conns, Open(c) PROVE Within
<1>1. PICK tfa \in BOOLEAN : conn' = [conn EXCEPT ![c].pc = "idle", ![c].need2fa = tfa, ![c].wants = tfa]
  BY DEF Open
<1> DEFINE r == conn[c]
           x == [r EXCEPT !.pc = "idle", !.need2fa = tfa, !.wants = tfa]
<1>2. r \in ConnState /\ BackoffOK(os) /\ conn' = [conn EXCEPT ![c] = x]
  BY <1>1, CurrentConn
<1> HIDE DEF r
<1>3. x \in ConnState
  BY <1>2 DEF ConnState, Stages
<1>4. x.pc = "idle"
  BY <1>2 DEF ConnState
<1>5. UNCHANGED <<fails, os>>
  BY DEF Open, shared
<1> HIDE DEF x
<1> QED BY <1>2, <1>3, <1>4, <1>5, QuietStage

LEMMA LoginRequestWithin == ASSUME LimitInv, NEW c \in Conns, LoginRequest(c) PROVE Within
<1> DEFINE q == conn[c]
           f == decay_stale_failures(fails, c)
           s == Recent(sessions)
<1>1. q \in ConnState /\ ~q.authorized /\ temp \in Nat /\ Lowered(fails) /\ Lowered(f) /\ LoginInv
  BY CurrentConn, LoweredFailures DEF LoginRequest, LimitInv, LoginInv, LoginType
<1>2. PICK lr \in Requests(c) :
        \/ conn' = [conn EXCEPT ![c] = Left(q)] /\ UNCHANGED <<fails, os>>
        \/ conn' = [conn EXCEPT ![c] = Left(Requested(q, lr))] /\ fails' = f /\ UNCHANGED os
        \/ /\ conn' = [conn EXCEPT ![c] = [Noted(Requested(q, lr), "id", c) EXCEPT !.pc = "stranger"]]
           /\ ~Blocked(f, "id", c) /\ fails' = f /\ UNCHANGED os
        \/ \E r, t : /\ r = [Requested(q, lr) EXCEPT !.cm = @ \/ ~OsScope(Requested(q, lr))]
                     /\ \/ Prepare(c, r, t, f, "show")
                        \/ conn' = [conn EXCEPT ![c] = Shown(r)] /\ fails' = f /\ UNCHANGED os
                        \/ Logon(c, r, s, f)
                        \/ conn' = [conn EXCEPT ![c] = Idle(r)] /\ fails' = f /\ UNCHANGED os
                        \/ /\ conn' = [conn EXCEPT ![c] = [Noted(r, "password", c) EXCEPT !.pc = "password"]]
                           /\ ~Blocked(f, "password", c) /\ fails' = f /\ UNCHANGED os
  BY CurrentConn DEF LoginRequest
<1>3. lr.scope \in Scopes /\ lr.password \in Int /\ lr.osLogin \in BOOLEAN /\ lr.hwid \in BOOLEAN
  BY <1>1, AsksAssumption DEF Requests, Scopes, NoPassword, WrongPassword, PermanentPassword
<1> DEFINE r0 == Requested(q, lr)
<1>4. r0 \in ConnState /\ ~r0.authorized
  <2> HIDE DEF q
  <2> QED BY <1>1, <1>3, RequestedType
<1> HIDE DEF r0, f, s
<1>5. ASSUME NEW g \in {fails, f}, NEW x \in ConnState, x.pc \in {"idle", "left"}, conn' = [conn EXCEPT ![c] = x],
             fails' = g, UNCHANGED os
      PROVE  Within
  <2>1. Leaves(c, conn[c].authorized, g) /\ Lowered(g)
    BY <1>1, <1>5 DEF Leaves
  <2> QED BY <2>1, LeavesLimits DEF Within
<1>6. CASE conn' = [conn EXCEPT ![c] = Left(q)] /\ UNCHANGED <<fails, os>>
  BY <1>1, <1>5, <1>6, LeftType
<1>7. CASE conn' = [conn EXCEPT ![c] = Left(r0)] /\ fails' = f /\ UNCHANGED os
  BY <1>4, <1>5, <1>7, LeftType
<1>8. ASSUME NEW j \in Kinds, NEW r \in ConnState, NEW pc \in {"stranger", "password"}, pc \in Uncounted(j),
             conn' = [conn EXCEPT ![c] = [Noted(r, j, c) EXCEPT !.pc = pc]], ~Blocked(f, j, c),
             fails' = f, UNCHANGED os
      PROVE  Within
  <2> DEFINE y == Noted(r, j, c)
             x == [y EXCEPT !.pc = pc]
  <2>1. y \in ConnState /\ conn' = [conn EXCEPT ![c] = x]
    BY <1>1, <1>8, NotedType
  <2> HIDE DEF y
  <2>2. x \in ConnState
    BY <2>1 DEF ConnState, Stages
  <2>3. x.pc = pc
    BY <2>1 DEF ConnState
  <2> HIDE DEF x
  <2> QED BY <1>1, <1>8, <2>1, <2>2, <2>3, AttemptLimits DEF Within
<1>9. CASE /\ conn' = [conn EXCEPT ![c] = [Noted(r0, "id", c) EXCEPT !.pc = "stranger"]]
           /\ ~Blocked(f, "id", c) /\ fails' = f /\ UNCHANGED os
  <2>1. "id" \in Kinds /\ "stranger" \in Uncounted("id")
    BY UncountedStages DEF Kinds
  <2> QED BY <1>4, <1>8, <1>9, <2>1
<1>10. ASSUME NEW r, NEW t, r = [r0 EXCEPT !.cm = @ \/ ~OsScope(r0)],
              \/ Prepare(c, r, t, f, "show")
              \/ conn' = [conn EXCEPT ![c] = Shown(r)] /\ fails' = f /\ UNCHANGED os
              \/ Logon(c, r, s, f)
              \/ conn' = [conn EXCEPT ![c] = Idle(r)] /\ fails' = f /\ UNCHANGED os
              \/ /\ conn' = [conn EXCEPT ![c] = [Noted(r, "password", c) EXCEPT !.pc = "password"]]
                 /\ ~Blocked(f, "password", c) /\ fails' = f /\ UNCHANGED os
       PROVE  Within
  <2> DEFINE cm == r0.cm \/ ~OsScope(r0)
  <2>1. r = [r0 EXCEPT !.cm = cm] /\ cm \in BOOLEAN
    BY <1>4, <1>10 DEF ConnState, OsScope, Scopes
  <2> HIDE DEF cm
  <2>2. r \in ConnState
    BY <1>4, <2>1 DEF ConnState
  <2>3. ~r.authorized
    BY <1>4, <2>1 DEF ConnState
  <2>4. CASE Prepare(c, r, t, f, "show")
    <3>1. Leaves(c, FALSE, f)
      BY <2>2, <2>3, <2>4, PrepareLeaves
    <3>2. Leaves(c, conn[c].authorized, f)
      BY <1>1, <3>1 DEF Leaves
    <3> QED BY <1>1, <3>2, LeavesLimits DEF Within
  <2>5. CASE Logon(c, r, s, f)
    <3>1. Leaves(c, r.authorized, f)
      BY <2>2, <2>5, LogonLeaves
    <3>2. Leaves(c, conn[c].authorized, f)
      BY <1>1, <2>3, <3>1 DEF Leaves
    <3> QED BY <1>1, <3>2, LeavesLimits DEF Within
  <2>6. CASE conn' = [conn EXCEPT ![c] = Shown(r)] /\ fails' = f /\ UNCHANGED os
    BY <1>5, <2>2, <2>6, ShownType
  <2>7. CASE conn' = [conn EXCEPT ![c] = Idle(r)] /\ fails' = f /\ UNCHANGED os
    BY <1>5, <2>2, <2>7, IdleType
  <2>8. CASE /\ conn' = [conn EXCEPT ![c] = [Noted(r, "password", c) EXCEPT !.pc = "password"]]
             /\ ~Blocked(f, "password", c) /\ fails' = f /\ UNCHANGED os
    <3>1. "password" \in Kinds /\ "password" \in Uncounted("password")
      BY UncountedStages DEF Kinds
    <3> QED BY <1>8, <2>2, <2>8, <3>1
  <2> QED BY <1>10, <2>4, <2>5, <2>6, <2>7, <2>8
<1> QED BY <1>2, <1>6, <1>7, <1>9, <1>10 DEF r0

(* The connection leaves its loop, or is further on its way out. *)
LEMMA LeavingWithin ==
  ASSUME LimitInv, NEW c \in Conns,
         CloseNoRetry(c) \/ ConnectionLost(c) \/ StartForwarding(c) \/ UpdateTemporaryPassword(c)
           \/ ForwardEnds(c) \/ Drop(c)
  PROVE  Within
<1> DEFINE r == conn[c]
<1>1. r \in ConnState /\ BackoffOK(os')  /\ UNCHANGED fails
  BY CurrentConn DEF CloseNoRetry, ConnectionLost, StartForwarding, UpdateTemporaryPassword, ForwardEnds, Drop, shared
<1>2. CASE conn' = [conn EXCEPT ![c] = Left(r)]
  BY <1>1, <1>2, LeftType, QuietStage
<1>3. CASE conn' = [conn EXCEPT ![c] = [Left(r) EXCEPT !.socket = TRUE]]
  <2> DEFINE y == Left(r)
             x == [y EXCEPT !.socket = TRUE]
  <2>1. y \in ConnState /\ y.pc = "left" /\ conn' = [conn EXCEPT ![c] = x]
    BY <1>1, <1>3, LeftType
  <2> HIDE DEF y
  <2>2. x \in ConnState
    BY <2>1 DEF ConnState
  <2>3. x.pc = "left"
    BY <2>1 DEF ConnState
  <2> HIDE DEF x
  <2> QED BY <1>1, <2>1, <2>2, <2>3, QuietStage
<1>4. ASSUME NEW pc \in {"forwarding", "ending"}, conn' = [conn EXCEPT ![c] = [r EXCEPT !.pc = pc]]
      PROVE  Within
  <2> DEFINE x == [r EXCEPT !.pc = pc]
  <2>1. conn' = [conn EXCEPT ![c] = x]
    BY <1>4
  <2> HIDE DEF r
  <2>2. x \in ConnState
    BY <1>1 DEF ConnState, Stages
  <2>3. x.pc = pc
    BY <1>1 DEF ConnState
  <2> HIDE DEF x
  <2> QED BY <1>1, <2>1, <2>2, <2>3, QuietStage
<1>5. CASE conn' = [conn EXCEPT ![c] = [r EXCEPT !.pc = "ending", !.socket = FALSE]]
  <2> DEFINE x == [r EXCEPT !.pc = "ending", !.socket = FALSE]
  <2>1. conn' = [conn EXCEPT ![c] = x]
    BY <1>5
  <2> HIDE DEF r
  <2>2. x \in ConnState
    BY <1>1 DEF ConnState, Stages
  <2>3. x.pc = "ending"
    BY <1>1 DEF ConnState
  <2> HIDE DEF x
  <2> QED BY <1>1, <2>1, <2>2, <2>3, QuietStage
<1>6. CASE conn' = [conn EXCEPT ![c] = [NewConn EXCEPT !.pc = "gone"]]
  <2> DEFINE x == [NewConn EXCEPT !.pc = "gone"]
  <2>1. x \in ConnState
    BY NewConnType DEF ConnState, Stages
  <2>2. x.pc = "gone" /\ conn' = [conn EXCEPT ![c] = x]
    BY <1>6 DEF NewConn
  <2> HIDE DEF x
  <2> QED BY <1>1, <2>1, <2>2, QuietStage
<1>7. CASE CloseNoRetry(c) \/ ConnectionLost(c)
  BY <1>2, <1>7, CurrentConn DEF CloseNoRetry, ConnectionLost
<1>8. CASE StartForwarding(c)
  BY <1>3, <1>8, CurrentConn DEF StartForwarding
<1>9. CASE UpdateTemporaryPassword(c)
  <2>1. PICK pc \in {"forwarding", "ending"} : conn' = [conn EXCEPT ![c] = [r EXCEPT !.pc = pc]]
    BY <1>9, CurrentConn DEF UpdateTemporaryPassword
  <2> QED BY <1>4, <2>1
<1>10. CASE ForwardEnds(c)
  BY <1>5, <1>10, CurrentConn DEF ForwardEnds
<1>11. CASE Drop(c)
  BY <1>6, <1>11 DEF Drop
<1> QED BY <1>7, <1>8, <1>9, <1>10, <1>11

(* Attempts that are charged. *)
LEMMA RefuseStrangerWithin == ASSUME LimitInv, NEW c \in Conns, RefuseStranger(c) PROVE Within
<1>1. conn' = [conn EXCEPT ![c] = Left(conn[c])] /\ conn[c] \in ConnState
  BY CurrentConn DEF RefuseStranger
<1>2. "id" \in Kinds /\ conn[c].pc \in Uncounted("id")
  BY UncountedStages DEF RefuseStranger, Is, Kinds
<1>3. fails' = Charged(fails, "id", c, conn[c].at) /\ UNCHANGED os
  BY DEF RefuseStranger
<1> QED BY <1>1, <1>2, <1>3, LeftType, ChargeLimits DEF Within

LEMMA PasswordWrongWithin == ASSUME LimitInv, NEW c \in Conns, PasswordWrong(c) PROVE Within
<1>1. conn' = [conn EXCEPT ![c] = Shown(conn[c])] /\ conn[c] \in ConnState
  BY CurrentConn DEF PasswordWrong
<1>2. "password" \in Kinds /\ conn[c].pc \in Uncounted("password")
  BY UncountedStages DEF PasswordWrong, Is, Kinds
<1>3. fails' = Charged(fails, "password", c, conn[c].at) /\ UNCHANGED os
  BY DEF PasswordWrong
<1> QED BY <1>1, <1>2, <1>3, ShownType, ChargeLimits DEF Within

LEMMA Auth2faWithin == ASSUME LimitInv, NEW c \in Conns, Auth2fa(c) PROVE Within
<1> DEFINE r == conn[c]
           y == Noted(r, "code", c)
           n == y.asked + 1
           x == [y EXCEPT !.pc = "code", !.asked = n]
<1>1. conn' = [conn EXCEPT ![c] = x]
  BY DEF Auth2fa
<1>2. r \in ConnState /\ LoginInv /\ Lowered(fails)
  BY CurrentConn, LoweredFailures DEF LimitInv
<1>3. y \in ConnState
  BY <1>2, NotedType
<1> HIDE DEF y
<1>4. n \in Nat
  BY <1>3 DEF ConnState
<1> HIDE DEF n
<1>5. x \in ConnState
  BY <1>3, <1>4 DEF ConnState, Stages
<1>6. x.pc = "code"
  BY <1>3 DEF ConnState
<1>7. UNCHANGED <<fails, os>> /\ ~Blocked(fails, "code", c)
  BY DEF Auth2fa, shared
<1>8. "code" \in Kinds /\ "code" \in Uncounted("code")
  BY UncountedStages DEF Kinds
<1>9. ~Blocked(fails', "code", c) /\ Lowered(fails')
  BY <1>2, <1>7
<1> HIDE DEF x
<1> QED BY <1>1, <1>5, <1>6, <1>7, <1>8, <1>9, AttemptLimits DEF Within

(* Handlers that end in an admission. *)
LEMMA LogonWithin ==
  ASSUME LimitInv, NEW c \in Conns, NEW r \in ConnState, NEW s, NEW f, Lowered(f), Logon(c, r, s, f),
         r.authorized = conn[c].authorized
  PROVE  Within
<1>1. Leaves(c, conn[c].authorized, f)
  BY LogonLeaves
<1> QED BY <1>1, LeavesLimits DEF Within

LEMMA ValidatePasswordWithin == ASSUME LimitInv, NEW c \in Conns, ValidatePassword(c) PROVE Within
<1> DEFINE r == conn[c]
           x == [r EXCEPT !.proofs = r.proofs \cup {"password"}]
           y == [r EXCEPT !.pc = "wrong"]
           f == Forgiven(fails, "password", c)
<1>1. r \in ConnState /\ r.pc = "password" /\ Lowered(f) /\ BackoffOK(os)
  BY CurrentConn, LoweredFailures DEF ValidatePassword, Is
<1>2. \/ \E s : Logon(c, x, s, f)
      \/ conn' = [conn EXCEPT ![c] = y] /\ UNCHANGED <<fails, os>>
  BY CurrentConn DEF ValidatePassword
<1>3. x \in ConnState /\ y \in ConnState
  <2> HIDE DEF r
  <2> QED BY <1>1 DEF ConnState, Stages
<1>4. x.authorized = r.authorized /\ y.pc = "wrong"
  <2> HIDE DEF r
  <2> QED BY <1>1 DEF ConnState
<1> HIDE DEF x, y, f
<1>5. CASE \E s : Logon(c, x, s, f)
  BY <1>1, <1>3, <1>4, <1>5, LogonWithin
<1>6. CASE conn' = [conn EXCEPT ![c] = y] /\ UNCHANGED <<fails, os>>
  <2>1. \A i \in Kinds : y.pc \in Uncounted(i) => r.pc \in Uncounted(i)
    BY <1>1, <1>4, UncountedStages DEF Kinds
  <2>2. BackoffOK(os')
    BY <1>1, <1>6
  <2> QED BY <1>3, <1>4, <1>6, <2>1, <2>2, StageLimits DEF Within
<1> QED BY <1>2, <1>5, <1>6

LEMMA CheckCodeWithin == ASSUME LimitInv, NEW c \in Conns, CheckCode(c) PROVE Within
<1> DEFINE r == conn[c]
           x(trust) == [r EXCEPT !.need2fa = FALSE, !.trust = trust, !.proofs = r.proofs \cup {"code"}]
           f == Forgiven(fails, "code", c)
<1>1. r \in ConnState /\ r.pc = "code" /\ Lowered(f)
  BY CurrentConn, LoweredFailures DEF CheckCode, Is
<1>2. \/ \E trust \in BOOLEAN : \E s : Logon(c, x(trust), s, f)
      \/ conn' = [conn EXCEPT ![c] = Idle(r)] /\ fails' = Charged(fails, "code", c, r.at) /\ UNCHANGED os
  BY CurrentConn DEF CheckCode
<1>3. ASSUME NEW trust \in BOOLEAN PROVE x(trust) \in ConnState
  <2> HIDE DEF r
  <2> QED BY <1>1 DEF ConnState
<1>4. ASSUME NEW trust \in BOOLEAN PROVE x(trust).authorized = r.authorized
  <2> HIDE DEF r
  <2> QED BY <1>1 DEF ConnState
<1> HIDE DEF x, f
<1>5. CASE \E trust \in BOOLEAN : \E s : Logon(c, x(trust), s, f)
  BY <1>1, <1>3, <1>4, <1>5, LogonWithin
<1>6. CASE conn' = [conn EXCEPT ![c] = Idle(r)] /\ fails' = Charged(fails, "code", c, r.at) /\ UNCHANGED os
  <2>1. "code" \in Kinds /\ r.pc \in Uncounted("code")
    BY <1>1, UncountedStages DEF Kinds
  <2> QED BY <1>1, <1>6, <2>1, IdleType, ChargeLimits DEF Within
<1> QED BY <1>2, <1>5, <1>6

LEMMA AuthorizeWithin == ASSUME LimitInv, NEW c \in Conns, Authorize(c) PROVE Within
<1> DEFINE r == conn[c]
           x == [r EXCEPT !.need2fa = FALSE, !.byClick = TRUE]
<1>1. r \in ConnState /\ Lowered(fails) /\ Logon(c, x, sessions, fails)
  BY CurrentConn, LoweredFailures DEF Authorize
<1>2. x \in ConnState
  <2> HIDE DEF r
  <2> QED BY <1>1 DEF ConnState
<1>3. x.authorized = r.authorized
  <2> HIDE DEF r
  <2> QED BY <1>1 DEF ConnState
<1> HIDE DEF x
<1> QED BY <1>1, <1>2, <1>3, LogonWithin

LEMMA SwitchSidesResponseWithin ==
  ASSUME LimitInv, NEW c \in Conns, NEW p \in Peers, SwitchSidesResponse(c, p)
  PROVE  Within
<1> DEFINE q == conn[c]
           f == decay_stale_failures(fails, c)
           lr == [scope |-> [peer |-> p, type |-> "remote"], password |-> NoPassword, hwid |-> FALSE, osLogin |-> FALSE]
           y == Requested(q, lr)
           r == [y EXCEPT !.latched = q.latched, !.cm = TRUE]
<1>1. q \in ConnState /\ q.pc = "idle" /\ Lowered(f) /\ Lowered(fails) /\ BackoffOK(os) /\ LoginInv
  BY CurrentConn, LoweredFailures DEF SwitchSidesResponse, Is, LimitInv
<1>2. \/ conn' = [conn EXCEPT ![c].asked = @ + 1] /\ UNCHANGED <<fails, os>>
      \/ conn' = [conn EXCEPT ![c] = Left(r)] /\ fails' = f /\ UNCHANGED os
      \/ /\ conn' = [conn EXCEPT ![c] = [Noted(r, "id", c) EXCEPT !.pc = "stranger"]]
         /\ ~Blocked(f, "id", c) /\ fails' = f /\ UNCHANGED os
      \/ Logon(c, [r EXCEPT !.fromSwitch = TRUE, !.proofs = r.proofs \cup {"offer"}], sessions, f)
  BY DEF SwitchSidesResponse
<1>3. lr.scope \in Scopes /\ lr.password \in Int /\ lr.osLogin \in BOOLEAN /\ lr.hwid \in BOOLEAN
  BY DEF Scopes, SessionTypes, NoPassword
<1> HIDE DEF q, lr, f
<1>4. y \in ConnState /\ y.authorized = q.authorized
  BY <1>1, <1>3, RequestedType
<1> HIDE DEF y
<1>5. r \in ConnState
  BY <1>1, <1>4 DEF ConnState
<1>6. r.authorized = q.authorized
  BY <1>1, <1>4 DEF ConnState
<1> HIDE DEF r
<1>7. CASE conn' = [conn EXCEPT ![c].asked = @ + 1] /\ UNCHANGED <<fails, os>>
  <2> DEFINE n == q.asked + 1
             x == [q EXCEPT !.asked = n]
  <2>1. conn' = [conn EXCEPT ![c] = x]
    BY <1>7 DEF q
  <2>2. n \in Nat
    BY <1>1 DEF ConnState
  <2> HIDE DEF n
  <2>3. x \in ConnState
    BY <1>1, <2>2 DEF ConnState
  <2>4. x.pc = "idle"
    BY <1>1 DEF ConnState
  <2>5. BackoffOK(os')
    BY <1>1, <1>7
  <2> HIDE DEF x
  <2> QED BY <1>7, <2>1, <2>3, <2>4, <2>5, QuietStage
<1>8. CASE conn' = [conn EXCEPT ![c] = Left(r)] /\ fails' = f /\ UNCHANGED os
  <2>1. Leaves(c, conn[c].authorized, f)
    BY <1>5, <1>8, LeftType DEF Leaves
  <2> QED BY <1>1, <2>1, LeavesLimits DEF Within
<1>9. CASE /\ conn' = [conn EXCEPT ![c] = [Noted(r, "id", c) EXCEPT !.pc = "stranger"]]
           /\ ~Blocked(f, "id", c) /\ fails' = f /\ UNCHANGED os
  <2> DEFINE z == Noted(r, "id", c)
             x == [z EXCEPT !.pc = "stranger"]
  <2>1. z \in ConnState /\ conn' = [conn EXCEPT ![c] = x]
    BY <1>1, <1>5, <1>9, NotedType
  <2> HIDE DEF z
  <2>2. x \in ConnState
    BY <2>1 DEF ConnState, Stages
  <2>3. x.pc = "stranger"
    BY <2>1 DEF ConnState
  <2>4. "id" \in Kinds /\ "stranger" \in Uncounted("id")
    BY UncountedStages DEF Kinds
  <2> HIDE DEF x
  <2> QED BY <1>1, <1>9, <2>1, <2>2, <2>3, <2>4, AttemptLimits DEF Within
<1>10. CASE Logon(c, [r EXCEPT !.fromSwitch = TRUE, !.proofs = r.proofs \cup {"offer"}], sessions, f)
  <2> DEFINE x == [r EXCEPT !.fromSwitch = TRUE, !.proofs = r.proofs \cup {"offer"}]
  <2>1. x \in ConnState
    BY <1>5 DEF ConnState
  <2>2. x.authorized = conn[c].authorized
    BY <1>5, <1>6 DEF ConnState, q
  <2>3. Logon(c, x, sessions, f)
    BY <1>10
  <2> HIDE DEF x
  <2> QED BY <1>1, <2>1, <2>2, <2>3, LogonWithin
<1> QED BY <1>2, <1>7, <1>8, <1>9, <1>10

(* The OS login. *)
LEMMA TryGateWithin == ASSUME LimitInv, NEW c \in Conns, TryGate(c) PROVE Within
<1> DEFINE r == conn[c]
           x == [r EXCEPT !.pc = "verify"]
<1>1. r \in ConnState /\ r.pc = "os" /\ ~r.authorized /\ BackoffOK(os') /\ UNCHANGED fails
  BY CurrentConn DEF TryGate, Is
<1>2. conn' = [conn EXCEPT ![c] = x] \/ conn' = [conn EXCEPT ![c] = Left(r)]
  BY CurrentConn DEF TryGate
<1>3. x \in ConnState
  <2> HIDE DEF r
  <2> QED BY <1>1 DEF ConnState, Stages
<1>4. x.pc = "verify" /\ ~x.authorized
  <2> HIDE DEF r
  <2> QED BY <1>1 DEF ConnState
<1> HIDE DEF x
<1>5. CASE conn' = [conn EXCEPT ![c] = x]
  BY <1>1, <1>3, <1>4, <1>5, UncountedStages, StageLimits DEF Within
<1>6. CASE conn' = [conn EXCEPT ![c] = Left(r)]
  BY <1>1, <1>6, LeftType, QuietStage
<1> QED BY <1>2, <1>5, <1>6

LEMMA VerifyOsLoginWithin == ASSUME LimitInv, NEW c \in Conns, VerifyOsLogin(c) PROVE Within
<1> DEFINE q == conn[c]
           r == [q EXCEPT !.token = TRUE, !.cm = TRUE]
           y == [q EXCEPT !.pc = "refused"]
<1>1. q \in ConnState /\ q.pc = "verify" /\ ~q.authorized /\ BackoffOK(os') /\ UNCHANGED os /\ Lowered(fails)
  BY CurrentConn, LoweredFailures DEF VerifyOsLogin, Is
<1>2. \/ conn' = [conn EXCEPT ![c] = y] /\ UNCHANGED fails
      \/ Admit(c, r, sessions, fails)
      \/ conn' = [conn EXCEPT ![c] = Shown(r)] /\ UNCHANGED fails
      \/ conn' = [conn EXCEPT ![c] = Left(q)] /\ UNCHANGED fails
  BY CurrentConn DEF VerifyOsLogin
<1>3. r \in ConnState /\ y \in ConnState
  <2> HIDE DEF q
  <2> QED BY <1>1 DEF ConnState, Stages
<1>4. ~r.authorized /\ y.pc = "refused"
  <2> HIDE DEF q
  <2> QED BY <1>1 DEF ConnState
<1> HIDE DEF r, y
<1>5. CASE conn' = [conn EXCEPT ![c] = y] /\ UNCHANGED fails
  BY <1>1, <1>3, <1>4, <1>5, QuietStage
<1>6. CASE Admit(c, r, sessions, fails)
  <2>1. Leaves(c, FALSE, fails)
    BY <1>1, <1>3, <1>4, <1>6, AdmitLeaves
  <2>2. Leaves(c, conn[c].authorized, fails)
    BY <1>1, <2>1 DEF Leaves
  <2> QED BY <1>1, <2>2, LeavesLimits DEF Within
<1>7. CASE conn' = [conn EXCEPT ![c] = Shown(r)] /\ UNCHANGED fails
  BY <1>1, <1>3, <1>7, ShownType, QuietStage
<1>8. CASE conn' = [conn EXCEPT ![c] = Left(q)] /\ UNCHANGED fails
  BY <1>1, <1>8, LeftType, QuietStage
<1> QED BY <1>2, <1>5, <1>6, <1>7, <1>8

LEMMA RecordOsFailureWithin == ASSUME LimitInv, NEW c \in Conns, RecordOsFailure(c) PROVE Within
<1>1. conn' = [conn EXCEPT ![c] = Left(conn[c])] /\ conn[c] \in ConnState /\ UNCHANGED fails
  BY CurrentConn DEF RecordOsFailure
<1>2. BackoffOK(os')
  BY RecordedOK DEF LimitInv, Limits, LoginInv, LoginType
<1> QED BY <1>1, <1>2, LeftType, QuietStage

LEMMA ClickWithin == ASSUME LimitInv, NEW c \in Conns, Click(c) PROVE Within
<1> DEFINE r == conn[c]
           x == [r EXCEPT !.clicked = TRUE, !.seen = r.scope, !.proofs = r.proofs \cup {"click"}]
<1>1. r \in ConnState /\ ~r.authorized /\ BackoffOK(os') /\ UNCHANGED fails
  BY CurrentConn DEF Click, shared
<1>2. conn' = [conn EXCEPT ![c] = x]
  BY CurrentConn DEF Click
<1>3. x \in ConnState
  <2> HIDE DEF r
  <2> QED BY <1>1 DEF ConnState
<1>4. x.pc = r.pc /\ ~x.authorized
  <2> HIDE DEF r
  <2> QED BY <1>1 DEF ConnState
<1> HIDE DEF x
<1> QED BY <1>1, <1>2, <1>3, <1>4, StageLimits DEF Within

(* Steps of no connection. *)
LEMMA WorldWithin ==
  ASSUME LimitInv,
         Tick \/ (\E p \in Peers : OfferSwitch(p) \/ OfferExpires(p) \/ SessionRefreshed(p) \/ SessionAges(p))
           \/ UNCHANGED vars
  PROVE  Within
<1>1. UNCHANGED <<conn, fails, os>>
  BY DEF Tick, OfferSwitch, OfferExpires, SessionRefreshed, SessionAges, vars, shared
<1>2. Entering
  BY <1>1 DEF Entering, Is
<1>3. Budget
  <2>1. \A k \in Buckets : fails["id"][k].total \in Nat
    BY DEF LimitInv, Limits, FailsType, Entry, Kinds
  <2> QED BY <1>1, <2>1 DEF Budget
<1>4. Limits'
  BY <1>1 DEF LimitInv, Limits, FailsType, FailuresBounded, Uncounted, BucketsOf, BackoffOK, OsState, Pending
<1> QED BY <1>2, <1>3, <1>4 DEF Within

LEMMA StepWithin == LimitInv /\ [Next]_vars => Within
<1> SUFFICES ASSUME LimitInv, [Next]_vars PROVE Within
  OBVIOUS
<1>1. ASSUME NEW c \in Conns,
             \/ Open(c) \/ LoginRequest(c) \/ RefuseStranger(c) \/ ValidatePassword(c) \/ PasswordWrong(c)
             \/ Auth2fa(c) \/ CheckCode(c)
      PROVE  Within
  BY <1>1, OpenWithin, LoginRequestWithin, RefuseStrangerWithin, ValidatePasswordWithin, PasswordWrongWithin,
     Auth2faWithin, CheckCodeWithin
<1>2. ASSUME NEW c \in Conns, TryGate(c) \/ VerifyOsLogin(c) \/ RecordOsFailure(c) \/ Click(c) \/ Authorize(c)
      PROVE  Within
  BY <1>2, TryGateWithin, VerifyOsLoginWithin, RecordOsFailureWithin, ClickWithin, AuthorizeWithin
<1>3. ASSUME NEW c \in Conns,
             \/ CloseNoRetry(c) \/ ConnectionLost(c) \/ StartForwarding(c) \/ UpdateTemporaryPassword(c)
             \/ ForwardEnds(c) \/ Drop(c) \/ \E p \in Peers : SwitchSidesResponse(c, p)
      PROVE  Within
  BY <1>3, LeavingWithin, SwitchSidesResponseWithin
<1>4. ASSUME \/ Tick \/ UNCHANGED vars
             \/ \E p \in Peers : OfferSwitch(p) \/ OfferExpires(p) \/ SessionRefreshed(p) \/ SessionAges(p)
      PROVE  Within
  BY <1>4, WorldWithin
<1> QED BY <1>1, <1>2, <1>3, <1>4 DEF Next

-----------------------------------------------------------------------------
(* Guesses at the temporary password. *)

Only(c) == \E x : conn' = [conn EXCEPT ![c] = x]

LEMMA LogonOnly ==
  ASSUME NEW c, NEW r, NEW s, NEW f, NEW then
  PROVE  /\ Prepare(c, r, s, f, then) => Only(c)
         /\ Logon(c, r, s, f) => Only(c)
<1>1. ASSUME NEW q, Admit(c, q, s, f) PROVE Only(c)
  BY <1>1 DEF Admit, Only
<1>2. ASSUME NEW q, NEW t, NEW h, Prepare(c, q, t, f, h) PROVE Only(c)
  <2>1. ASSUME NEW u, Admit(c, u, t, f) PROVE Only(c)
    BY <2>1 DEF Admit, Only
  <2>2. \/ \E u : Admit(c, u, t, f)
        \/ \E x : conn' = [conn EXCEPT ![c] = x]
    BY <1>2 DEF Prepare
  <2> QED BY <2>1, <2>2 DEF Only
<1>3. ASSUME Logon(c, r, s, f) PROVE Only(c)
  <2>1. \/ \E x : conn' = [conn EXCEPT ![c] = x]
        \/ \E q, t, h : Prepare(c, q, t, f, h)
    BY <1>3 DEF Logon
  <2> QED BY <1>2, <2>1 DEF Only
<1> QED BY <1>2, <1>3

(* A step that neither guesses nor counts and takes nobody out of Wrong. *)
LEMMA GuessesKept ==
  ASSUME LimitInv, UNCHANGED <<temp, tempFails, guesses>>, Wrong \subseteq Wrong'
  PROVE  Guesses'
<1>1. IsFiniteSet(Wrong) /\ IsFiniteSet(Wrong')
  <2>1. Wrong \subseteq Conns /\ Wrong' \subseteq Conns
    BY DEF Wrong
  <2> QED BY <2>1, ConnsAssumption, FS_Subset
<1>2. Cardinality(Wrong) <= Cardinality(Wrong') /\ Cardinality(Wrong) \in Nat /\ Cardinality(Wrong') \in Nat
  BY <1>1, FS_Subset, FS_CardinalityType
<1>3. Counted \in Nat /\ Counted' = Counted
  BY DEF LimitInv, Guesses, Counted
<1> QED BY <1>2, <1>3 DEF LimitInv, Guesses

LEMMA OnlyKeeps ==
  ASSUME LimitInv, NEW c \in Conns, conn[c].pc # "wrong", Only(c)
  PROVE  Wrong \subseteq Wrong'
<1>1. \A d \in Conns \ {c} : conn'[d] = conn[d]
  BY DEF Only, LimitInv, LoginInv, LoginType
<1> QED BY <1>1 DEF Wrong

LEMMA ConnGuesses ==
  ASSUME LimitInv, NEW c \in Conns,
         \/ Open(c) \/ LoginRequest(c) \/ RefuseStranger(c) \/ Auth2fa(c) \/ CheckCode(c)
         \/ TryGate(c) \/ VerifyOsLogin(c) \/ RecordOsFailure(c) \/ Authorize(c)
         \/ CloseNoRetry(c) \/ ConnectionLost(c) \/ StartForwarding(c) \/ ForwardEnds(c) \/ Drop(c)
         \/ \E p \in Peers : SwitchSidesResponse(c, p)
  PROVE  Guesses'
<1>1. CASE \/ Open(c) \/ RefuseStranger(c) \/ Auth2fa(c) \/ TryGate(c) \/ RecordOsFailure(c)
           \/ CloseNoRetry(c) \/ ConnectionLost(c) \/ StartForwarding(c) \/ ForwardEnds(c) \/ Drop(c)
  <2>1. conn[c].pc # "wrong" /\ UNCHANGED <<temp, tempFails, guesses>>
    BY <1>1 DEF Open, RefuseStranger, Auth2fa, TryGate, RecordOsFailure, CloseNoRetry, ConnectionLost,
                StartForwarding, ForwardEnds, Drop, Is, shared, history
  <2>2. CASE Open(c)
    <3>1. PICK tfa : conn' = [conn EXCEPT ![c].pc = "idle", ![c].need2fa = tfa, ![c].wants = tfa]
      BY <2>2 DEF Open
    <3>2. conn' = [conn EXCEPT ![c] = [conn[c] EXCEPT !.pc = "idle", !.need2fa = tfa, !.wants = tfa]]
      BY <3>1, CurrentConn
    <3> QED BY <2>1, <3>2, OnlyKeeps, GuessesKept DEF Only
  <2>3. CASE \/ RefuseStranger(c) \/ Auth2fa(c) \/ TryGate(c) \/ RecordOsFailure(c)
             \/ CloseNoRetry(c) \/ ConnectionLost(c) \/ StartForwarding(c) \/ ForwardEnds(c) \/ Drop(c)
    <3>1. Only(c)
      BY <2>3, CurrentConn DEF RefuseStranger, Auth2fa, TryGate, RecordOsFailure, CloseNoRetry, ConnectionLost,
                               StartForwarding, ForwardEnds, Drop, Only
    <3> QED BY <2>1, <3>1, OnlyKeeps, GuessesKept
  <2> QED BY <1>1, <2>2, <2>3
<1>2. CASE LoginRequest(c)
  <2>1. conn[c].pc # "wrong" /\ UNCHANGED <<temp, tempFails, guesses>>
    BY <1>2 DEF LoginRequest, Is, history
  <2>2. \/ \E x : conn' = [conn EXCEPT ![c] = x]
        \/ \E r, s, f, then : Prepare(c, r, s, f, then)
        \/ \E r, s, f : Logon(c, r, s, f)
    BY <1>2 DEF LoginRequest
  <2>3. Only(c)
    BY <2>2, LogonOnly DEF Only
  <2> QED BY <2>1, <2>3, OnlyKeeps, GuessesKept
<1>3. CASE \/ CheckCode(c) \/ VerifyOsLogin(c) \/ Authorize(c) \/ \E p \in Peers : SwitchSidesResponse(c, p)
  <2>1. conn[c].pc # "wrong" /\ UNCHANGED <<temp, tempFails, guesses>>
    BY <1>3 DEF CheckCode, VerifyOsLogin, Authorize, SwitchSidesResponse, Is, history
  <2>2. \/ \E x : conn' = [conn EXCEPT ![c] = x]
        \/ \E r, s, f : Admit(c, r, s, f)
        \/ \E r, s, f : Logon(c, r, s, f)
    <3>1. CASE CheckCode(c)
      BY <3>1 DEF CheckCode
    <3>2. CASE VerifyOsLogin(c)
      BY <3>2, CurrentConn DEF VerifyOsLogin
    <3>3. CASE Authorize(c)
      BY <3>3 DEF Authorize
    <3>4. ASSUME NEW p \in Peers, SwitchSidesResponse(c, p)
          PROVE  \/ \E x : conn' = [conn EXCEPT ![c] = x]
                 \/ \E r, s, f : Logon(c, r, s, f)
      <4>1. (conn' = [conn EXCEPT ![c].asked = @ + 1]) => \E x : conn' = [conn EXCEPT ![c] = x]
        OBVIOUS
      <4> QED BY <3>4, <4>1 DEF SwitchSidesResponse
    <3> QED BY <1>3, <3>1, <3>2, <3>3, <3>4
  <2>3. Only(c)
    <3>1. ASSUME NEW r, NEW s, NEW f, Admit(c, r, s, f) PROVE Only(c)
      BY <3>1 DEF Admit, Only
    <3> QED BY <2>2, <3>1, LogonOnly DEF Only
  <2> QED BY <2>1, <2>3, OnlyKeeps, GuessesKept
<1> QED BY <1>1, <1>2, <1>3

LEMMA ClickGuesses == ASSUME LimitInv, NEW c \in Conns, Click(c) PROVE Guesses'
<1>1. conn \in [Conns -> ConnState] /\ conn[c] \in ConnState
  BY CurrentConn
<1> DEFINE r == conn[c]
           x == [r EXCEPT !.clicked = TRUE, !.seen = r.scope, !.proofs = r.proofs \cup {"click"}]
<1>2. conn' = [conn EXCEPT ![c] = x]
  BY <1>1 DEF Click
<1>3. x.pc = r.pc
  <2> HIDE DEF r
  <2> QED BY <1>1 DEF ConnState, r
<1> HIDE DEF x
<1>4. \A d \in Conns : conn'[d].pc = conn[d].pc
  BY <1>1, <1>2, <1>3
<1>5. Wrong \subseteq Wrong' /\ UNCHANGED <<temp, tempFails, guesses>>
  BY <1>4 DEF Wrong, Click, shared, history
<1> QED BY <1>5, GuessesKept

(* The password is guessed at, or is right. *)
LEMMA ValidatePasswordGuesses == ASSUME LimitInv, NEW c \in Conns, ValidatePassword(c) PROVE Guesses'
<1> DEFINE r == conn[c]
<1>1. r \in ConnState /\ r.pc = "password" /\ conn \in [Conns -> ConnState] /\ temp \in Nat /\ MaxConsecutive \in Nat \ {0}
  BY CurrentConn, BoundsAssumption DEF ValidatePassword, Is, LimitInv, LoginInv, LoginType
<1>2. Guesses /\ UNCHANGED temp
  BY DEF LimitInv, ValidatePassword
<1>3. IsFiniteSet(Wrong) /\ IsFiniteSet(Wrong') /\ Cardinality(Wrong) \in Nat /\ Cardinality(Wrong') \in Nat
  <2>1. Wrong \subseteq Conns /\ Wrong' \subseteq Conns
    BY DEF Wrong
  <2> QED BY <2>1, ConnsAssumption, FS_Subset, FS_CardinalityType
<1>4. CASE tempFails' = [password |-> temp, n |-> 0] /\ guesses' = 0
  BY <1>1, <1>2, <1>3, <1>4 DEF Guesses, Counted
<1>5. CASE (\E x, s, f : Logon(c, x, s, f)) /\ UNCHANGED <<tempFails, guesses>>
  <2>1. Wrong \subseteq Wrong'
    BY <1>1, <1>5, LogonOnly, OnlyKeeps
  <2> QED BY <1>2, <1>5, <2>1, GuessesKept
<1>6. CASE conn' = [conn EXCEPT ![c].pc = "wrong"] /\ guesses' = guesses + 1 /\ UNCHANGED tempFails
  <2> DEFINE y == [r EXCEPT !.pc = "wrong"]
  <2>1. y.pc = "wrong"
    <3> HIDE DEF r
    <3> QED BY <1>1 DEF ConnState
  <2>2. conn' = [conn EXCEPT ![c] = y]
    BY <1>1, <1>6
  <2> HIDE DEF y
  <2>3. conn'[c].pc = "wrong" /\ \A d \in Conns \ {c} : conn'[d] = conn[d]
    BY <1>1, <2>1, <2>2
  <2>4. Wrong' = Wrong \cup {c} /\ c \notin Wrong
    BY <1>1, <2>3 DEF Wrong
  <2>5. Cardinality(Wrong') = Cardinality(Wrong) + 1
    BY <1>3, <2>4, FS_AddElement
  <2>6. Counted \in Nat /\ Counted' = Counted
    BY <1>2, <1>6 DEF Guesses, Counted
  <2> QED BY <1>2, <1>3, <1>6, <2>5, <2>6 DEF Guesses
<1> QED BY <1>4, <1>5, <1>6 DEF ValidatePassword

(* The guess is counted against the password that is current by then. *)
LEMMA PasswordWrongGuesses == ASSUME LimitInv, NEW c \in Conns, PasswordWrong(c) PROVE Guesses'
<1> DEFINE r == conn[c]
<1>1. /\ r \in ConnState /\ r.pc = "wrong" /\ conn \in [Conns -> ConnState] /\ temp \in Nat
      /\ MaxConsecutive \in Nat \ {0} /\ conn' = [conn EXCEPT ![c] = Shown(r)]
  BY CurrentConn, BoundsAssumption DEF PasswordWrong, Is, LimitInv, LoginInv, LoginType
<1>2. conn'[c].pc = "idle" /\ \A d \in Conns \ {c} : conn'[d] = conn[d]
  BY <1>1, ShownType
<1>3. Wrong' = Wrong \ {c} /\ c \in Wrong
  BY <1>1, <1>2 DEF Wrong
<1>4. IsFiniteSet(Wrong) /\ IsFiniteSet(Wrong') /\ Cardinality(Wrong) \in Nat /\ Cardinality(Wrong') \in Nat
  <2>1. Wrong \subseteq Conns /\ Wrong' \subseteq Conns
    BY DEF Wrong
  <2> QED BY <2>1, ConnsAssumption, FS_Subset, FS_CardinalityType
<1>5. Cardinality(Wrong') = Cardinality(Wrong) - 1
  BY <1>3, <1>4, FS_RemoveElement
<1>6. Guesses /\ Counted \in Nat
  BY DEF LimitInv, Guesses, Counted
<1>7. \/ temp' = temp + 1 /\ tempFails' = [password |-> temp + 1, n |-> 0] /\ guesses' = 0
      \/ ~(Counted + 1 >= MaxConsecutive) /\ tempFails' = [password |-> temp, n |-> Counted + 1] /\ UNCHANGED <<temp, guesses>>
  BY DEF PasswordWrong, RotationDue, Counted
<1>8. CASE temp' = temp + 1 /\ tempFails' = [password |-> temp + 1, n |-> 0] /\ guesses' = 0
  BY <1>1, <1>4, <1>8 DEF Guesses, Counted
<1>9. CASE /\ ~(Counted + 1 >= MaxConsecutive) /\ tempFails' = [password |-> temp, n |-> Counted + 1]
           /\ UNCHANGED <<temp, guesses>>
  <2>1. tempFails'.password = temp /\ tempFails'.n = Counted + 1 /\ tempFails' \in [password : Nat, n : Nat]
    BY <1>1, <1>6, <1>9
  <2>2. Counted' = Counted + 1
    BY <1>9, <2>1 DEF Counted
  <2>3. guesses \in Nat /\ guesses <= Counted + Cardinality(Wrong) /\ guesses' = guesses
    BY <1>6, <1>9 DEF Guesses
  <2>4. guesses' <= Counted' + Cardinality(Wrong')
    BY <1>4, <1>5, <1>6, <2>2, <2>3
  <2>5. tempFails'.n < MaxConsecutive
    BY <1>1, <1>6, <1>9, <2>1
  <2> QED BY <2>1, <2>3, <2>4, <2>5 DEF Guesses
<1> QED BY <1>7, <1>8, <1>9

LEMMA UpdateTemporaryPasswordGuesses == ASSUME LimitInv, NEW c \in Conns, UpdateTemporaryPassword(c) PROVE Guesses'
<1>1. conn[c].pc # "wrong" /\ Only(c) /\ UNCHANGED tempFails
  <2>1. PICK pc : conn' = [conn EXCEPT ![c].pc = pc]
    BY DEF UpdateTemporaryPassword
  <2>2. conn' = [conn EXCEPT ![c] = [conn[c] EXCEPT !.pc = pc]]
    BY <2>1, CurrentConn
  <2> QED BY <2>2 DEF UpdateTemporaryPassword, Is, Only
<1>2. CASE UNCHANGED <<temp, guesses>>
  BY <1>1, <1>2, OnlyKeeps, GuessesKept
<1>3. CASE temp' = temp + 1 /\ guesses' = 0
  <2>1. Cardinality(Wrong') \in Nat
    <3>1. Wrong' \subseteq Conns
      BY DEF Wrong
    <3> QED BY <3>1, ConnsAssumption, FS_Subset, FS_CardinalityType
  <2>2. Counted' \in Nat /\ tempFails' \in [password : Nat, n : Nat] /\ tempFails'.n < MaxConsecutive
    BY <1>1 DEF Counted, LimitInv, Guesses
  <2> QED BY <1>3, <2>1, <2>2 DEF Guesses
<1> QED BY <1>2, <1>3 DEF UpdateTemporaryPassword

LEMMA StepGuesses == LimitInv /\ [Next]_vars => Guesses'
<1> SUFFICES ASSUME LimitInv, [Next]_vars PROVE Guesses'
  OBVIOUS
<1>1. ASSUME NEW c \in Conns,
             \/ Open(c) \/ LoginRequest(c) \/ RefuseStranger(c) \/ Auth2fa(c) \/ CheckCode(c)
             \/ TryGate(c) \/ VerifyOsLogin(c) \/ RecordOsFailure(c) \/ Authorize(c)
             \/ CloseNoRetry(c) \/ ConnectionLost(c) \/ StartForwarding(c) \/ ForwardEnds(c) \/ Drop(c)
             \/ \E p \in Peers : SwitchSidesResponse(c, p)
      PROVE  Guesses'
  BY <1>1, ConnGuesses
<1>2. ASSUME NEW c \in Conns, ValidatePassword(c) \/ PasswordWrong(c) \/ Click(c) \/ UpdateTemporaryPassword(c)
      PROVE  Guesses'
  BY <1>2, ValidatePasswordGuesses, PasswordWrongGuesses, ClickGuesses, UpdateTemporaryPasswordGuesses
<1>3. ASSUME \/ Tick \/ UNCHANGED vars
             \/ \E p \in Peers : OfferSwitch(p) \/ OfferExpires(p) \/ SessionRefreshed(p) \/ SessionAges(p)
      PROVE  Guesses'
  <2>1. UNCHANGED <<conn, temp, tempFails, guesses>>
    BY <1>3 DEF Tick, OfferSwitch, OfferExpires, SessionRefreshed, SessionAges, vars, shared, history
  <2>2. Wrong \subseteq Wrong'
    BY <2>1 DEF Wrong
  <2> QED BY <2>1, <2>2, GuessesKept
<1> QED BY <1>1, <1>2, <1>3 DEF Next

-----------------------------------------------------------------------------
LEMMA InitLimits == Init => LimitInv
<1> SUFFICES ASSUME Init PROVE LimitInv
  OBVIOUS
<1>1. FailsType(fails)
  BY NoFailureType DEF Init, FailsType
<1>2. \A c \in Conns : conn[c].pc = "new"
  BY DEF Init, NewConn
<1>3. FailuresBounded
  <2> SUFFICES ASSUME NEW i \in Kinds, NEW k \in Buckets
               PROVE  fails[i][k].total + Cardinality({c \in Conns : conn[c].pc \in Uncounted(i) /\ k \in BucketsOf(c)})
                        <= Limit[k] + Cardinality(Conns)
    BY DEF FailuresBounded
  <2> DEFINE pending == {c \in Conns : conn[c].pc \in Uncounted(i) /\ k \in BucketsOf(c)}
  <2>1. fails[i][k].total = 0 /\ Limit[k] \in Nat
    BY NoFailureType, BucketsAssumption DEF Init
  <2>2. pending = {}
    BY <1>2, UncountedStages
  <2>3. Cardinality(pending) = 0 /\ Cardinality(Conns) \in Nat
    BY <2>2, ConnsAssumption, FS_EmptySet, FS_CardinalityType
  <2> HIDE DEF pending
  <2>4. fails[i][k].total + Cardinality(pending) <= Limit[k] + Cardinality(Conns)
    BY <2>1, <2>3
  <2> QED BY <2>4 DEF pending
<1>4. BackoffOK(os) /\ Pending
  BY <1>2, BoundsAssumption DEF Init, BackoffOK, OsState, Pending
<1>5. Guesses
  <2>1. Wrong = {}
    BY <1>2 DEF Wrong
  <2>2. Cardinality(Wrong) = 0
    BY <2>1, FS_EmptySet
  <2> QED BY <2>2, BoundsAssumption DEF Init, Guesses, Counted
<1> QED BY <1>1, <1>3, <1>4, <1>5, InitLogin DEF LimitInv, Limits

(* The limits are kept in every reachable state: what has been counted,    *)
(* what is still to be counted, and how long a backoff lasts.              *)
THEOREM LimitInvariant == Spec => []LimitInv
<1>1. LimitInv /\ [Next]_vars => LimitInv'
  <2>1. LimitInv => LoginInv
    BY DEF LimitInv
  <2>2. Within => Limits'
    BY DEF Within
  <2> QED BY <2>1, <2>2, StepLogin, StepWithin, StepGuesses DEF LimitInv
<1> QED BY <1>1, InitLimits, PTL DEF Spec

(* However many connections attempt at once, no address and no prefix      *)
(* gets further than one attempt per connection beyond its limit: each of  *)
(* them passed check_failure before the others were counted.               *)
THEOREM AttemptsAreLimited == Spec => []FailuresBounded
<1>1. LimitInv => FailuresBounded
  BY DEF LimitInv, Limits
<1> QED BY <1>1, LimitInvariant, PTL

(* A temporary password does not outlive MaxConsecutive wrong guesses in a *)
(* row, but for those that are compared and not yet counted, although each *)
(* is counted against whichever password is current by then.               *)
THEOREM GuessesAreLimited == Spec => []GuessesBounded
<1>1. LimitInv => GuessesBounded
  <2> SUFFICES ASSUME LimitInv PROVE guesses < MaxConsecutive + Cardinality(Wrong)
    BY DEF GuessesBounded, Wrong
  <2>1. Cardinality(Wrong) \in Nat
    <3>1. Wrong \subseteq Conns
      BY DEF Wrong
    <3> QED BY <3>1, ConnsAssumption, FS_Subset, FS_CardinalityType
  <2>2. Counted \in Nat /\ Counted < MaxConsecutive /\ MaxConsecutive \in Nat
    BY BoundsAssumption DEF Counted, LimitInv, Guesses
  <2> QED BY <2>1, <2>2 DEF LimitInv, Guesses
<1> QED BY <1>1, LimitInvariant, PTL

(* The failures of the id whitelist are forgotten only for an admission    *)
(* from that address or once they are old.                                 *)
THEOREM BudgetIsEarned == Spec => WhitelistBudget
<1>1. LimitInv /\ [Next]_vars => Budget
  BY StepWithin DEF Within
<1>2. LimitInv /\ [Next]_vars =>
        [\A k \in Buckets : fails'["id"][k].total < fails["id"][k].total =>
           \/ \E c \in Conns : k \in BucketsOf(c) /\ ~conn[c].authorized /\ conn'[c].authorized
           \/ clock - fails["id"][k].minute >= DecayWindow]_vars
  BY <1>1 DEF Budget
<1> QED BY <1>2, LimitInvariant, PTL DEF Spec, WhitelistBudget

(* No login gets past the policy while a backoff runs, and each attempt at *)
(* the OS that is made then uses up a pass from before it, for every base, *)
(* cap and number of free failures, on a wall clock that is set either     *)
(* way: the idle reset cannot cut a backoff short, since none reaches      *)
(* beyond BackoffMax after the last failure and IdleReset is no shorter.   *)
THEOREM BackoffIsKept == Spec => BackoffHolds
<1>1. LimitInv /\ [Next]_vars => Entering
  BY StepWithin DEF Within
<1>2. ASSUME LimitInv, Entering, os.until > clock
      PROVE  /\ Passed' \subseteq Passed
             /\ \A c \in Conns : ~Is(c, "verify") /\ conn'[c].pc = "verify" => c \in Passed \ Passed'
  <2>1. ~(os.until <= clock)
    BY <1>2 DEF LimitInv, LoginInv, LoginType, Limits, BackoffOK, OsState
  <2> QED BY <1>2, <2>1 DEF Entering, Passed, Is
<1>3. LimitInv /\ [Next]_vars =>
        [os.until > clock =>
           /\ Passed' \subseteq Passed
           /\ \A c \in Conns : ~Is(c, "verify") /\ conn'[c].pc = "verify" => c \in Passed \ Passed']_vars
  BY <1>1, <1>2
<1> QED BY <1>3, LimitInvariant, PTL DEF Spec, BackoffHolds
=============================================================================
