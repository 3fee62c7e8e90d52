-------------------------- MODULE PortForwardLogin --------------------------
(***************************************************************************)
(* The mappings of one port-forward window logging in side by side         *)
(* (connect_and_login, connect_and_login_mux, login_with_hash,             *)
(* hash_arrived and login_from_ui in src/src/port_forward.rs; handle_hash, *)
(* handle_login_from_ui, handle_login_error and send_login in              *)
(* src/src/client.rs; the broadcast in io_loop of                          *)
(* src/src/ui_session_interface.rs).                                       *)
(*                                                                         *)
(* Every mapping connects on its own and answers its own challenge, but    *)
(* the login is built from one LoginConfigHandler, shared by the window,   *)
(* and passwords come from one prompt whose answer is broadcast.  Tasks    *)
(* interleave at awaits only: one action is what runs between two of them. *)
(*                                                                         *)
(* Salted hashes are abstracted to the password they are made from: a      *)
(* login message carries the password and the challenge it answers.  All   *)
(* mappings reach the same peer, so they share its salt.                   *)
(***************************************************************************)
EXTENDS Naturals, Sequences, FiniteSets

CONSTANTS
  Mappings,     \* mappings of the window; each is its own target
  Probing,      \* those whose logins ask for the tunnel
  Passwords,    \* what a user may type
  Right,        \* the one the peer accepts
  NoPassword,   \* the empty password
  Preset,       \* the password handle_hash finds elsewhere, if any
  Insecure,     \* the streams are not end-to-end encrypted
  MaxConns,     \* bound: connections each mapping starts
  MaxTyped      \* bound: answers to the prompt

ASSUME LoginAssumption ==
  /\ Probing \subseteq Mappings /\ Right \in Passwords /\ NoPassword \notin Passwords
  /\ Preset \in Passwords \cup {NoPassword}
  /\ Insecure \in BOOLEAN /\ MaxConns \in Nat /\ MaxTyped \in Nat

VARIABLES
  phase,      \* mapping -> off (accept loop), start, confirm, login (its select),
              \*   turn (waiting for the lock), lookup and send (holding it)
  conns,      \* mapping -> connections started: the number names the challenge
  hash,       \* mapping -> its Hash: none yet, on its way, received
  pending,    \* mapping -> pending_login, NoPassword for none
  job,        \* mapping -> what it does with the turn: a kind and a password
  ui,         \* mapping -> its ui_receiver
  turns,      \* port_forward_login_turn: its holder and then the waiters
  lc,         \* the shared handler: target, multiplex, hash, password
  logins,     \* mapping -> logins of its connection the peer has not answered
  prompt,     \* the password dialog is up
  question,   \* the insecure-connection dialog is up
  typed,      \* answers typed so far
  taken       \* history: mapping -> its login loop has read a typed password

vars == <<phase, conns, hash, pending, job, ui, turns, lc, logins, prompt, question, typed, taken>>

Challenge(m) == <<m, conns[m]>>
Login(p) == [kind |-> "login", password |-> p]
ContinueInsecureConnection == [kind |-> "continue", password |-> NoPassword]
NoJob == [kind |-> "none", password |-> NoPassword]

Init ==
  /\ phase = [m \in Mappings |-> "off"] /\ conns = [m \in Mappings |-> 0]
  /\ hash = [m \in Mappings |-> "none"] /\ pending = [m \in Mappings |-> NoPassword]
  /\ job = [m \in Mappings |-> NoJob] /\ ui = [m \in Mappings |-> <<>>]
  /\ turns = <<>>
  /\ lc = [target |-> {}, multiplex |-> FALSE, hash |-> <<>>, password |-> NoPassword]
  /\ logins = [m \in Mappings |-> <<>>]
  /\ prompt = FALSE /\ question = FALSE /\ typed = 0 /\ taken = [m \in Mappings |-> FALSE]

Goto(m, p) == phase' = [phase EXCEPT ![m] = p]

----------------------------------------------------------------------------
(* The user and the window's io_loop.                                      *)

(* The prompt's answer is broadcast to every mapping. *)
Type(p) ==
  /\ prompt /\ typed < MaxTyped
  /\ prompt' = FALSE /\ typed' = typed + 1
  /\ ui' = [m \in Mappings |-> Append(ui[m], Login(p))]
  /\ UNCHANGED <<phase, conns, hash, pending, job, turns, lc, logins, question, taken>>

(* So is the answer to the question about insecure connections. *)
Continue ==
  /\ question
  /\ question' = FALSE
  /\ ui' = [m \in Mappings |-> Append(ui[m], ContinueInsecureConnection)]
  /\ UNCHANGED <<phase, conns, hash, pending, job, turns, lc, logins, prompt, typed, taken>>

----------------------------------------------------------------------------
(* A connection.                                                           *)

(* A local connection is accepted; Client::start connects to the peer. *)
Start(m) ==
  /\ phase[m] = "off" /\ conns[m] < MaxConns
  /\ conns' = [conns EXCEPT ![m] = @ + 1]
  /\ Goto(m, "start")
  /\ UNCHANGED <<hash, pending, job, ui, turns, lc, logins, prompt, question, typed, taken>>

(* Connected: the peer sends its Hash by itself. *)
Started(m) ==
  /\ phase[m] = "start"
  /\ Goto(m, IF Insecure THEN "confirm" ELSE "login")
  /\ question' = (question \/ Insecure)
  /\ hash' = [hash EXCEPT ![m] = "on its way"]
  /\ UNCHANGED <<conns, pending, job, ui, turns, lc, logins, prompt, typed, taken>>

(* confirm_insecure_connection reads its queue up to an answer and throws  *)
(* everything else away.                                                   *)
Confirm(m) ==
  /\ phase[m] = "confirm" /\ ui[m] # <<>>
  /\ ui' = [ui EXCEPT ![m] = Tail(@)]
  /\ IF Head(ui[m]) = ContinueInsecureConnection THEN Goto(m, "login") ELSE phase' = phase
  /\ UNCHANGED <<conns, hash, pending, job, turns, lc, logins, prompt, question, typed, taken>>

(* The accept loop reads the queue too, and ignores both. *)
AcceptIgnores(m) ==
  /\ phase[m] = "off" /\ ui[m] # <<>>
  /\ ui' = [ui EXCEPT ![m] = Tail(@)]
  /\ UNCHANGED <<phase, conns, hash, pending, job, turns, lc, logins, prompt, question, typed, taken>>

(* The connection ends: accepted (PeerInfo), refused, timed out, reset, or *)
(* its local socket gone.  The login's own awaits are not interrupted.     *)
End(m) ==
  /\ phase[m] \in {"start", "confirm", "login"}
  /\ Goto(m, "off")
  /\ hash' = [hash EXCEPT ![m] = "none"]
  /\ pending' = [pending EXCEPT ![m] = NoPassword]
  /\ logins' = [logins EXCEPT ![m] = <<>>]
  /\ taken' = [taken EXCEPT ![m] = FALSE]
  /\ UNCHANGED <<conns, job, ui, turns, lc, prompt, question, typed>>

----------------------------------------------------------------------------
(* The login loop's select.                                                *)

AwaitTurn(m, kind, p) ==
  /\ turns' = Append(turns, m)
  /\ job' = [job EXCEPT ![m] = [kind |-> kind, password |-> p]]
  /\ Goto(m, "turn")

(* Mutant of HashArrives: a password typed before the Hash is forgotten. *)
HashArrivesForgetful(m) ==
  /\ phase[m] = "login" /\ hash[m] = "on its way"
  /\ hash' = [hash EXCEPT ![m] = "received"]
  /\ pending' = [pending EXCEPT ![m] = NoPassword]
  /\ AwaitTurn(m, "hash", NoPassword)
  /\ UNCHANGED <<conns, ui, lc, logins, prompt, question, typed, taken>>

(* The Hash: a password typed before it is used up now (hash_arrived). *)
HashArrives(m) ==
  /\ phase[m] = "login" /\ hash[m] = "on its way"
  /\ hash' = [hash EXCEPT ![m] = "received"]
  /\ pending' = [pending EXCEPT ![m] = NoPassword]
  /\ IF pending[m] # NoPassword THEN AwaitTurn(m, "ui", pending[m])
                                ELSE AwaitTurn(m, "hash", NoPassword)
  /\ UNCHANGED <<conns, ui, lc, logins, prompt, question, typed, taken>>

(* Data::Login: answered at once, or kept until the Hash is here. *)
LoginTyped(m) ==
  /\ phase[m] = "login" /\ ui[m] # <<>> /\ Head(ui[m]).kind = "login"
  /\ ui' = [ui EXCEPT ![m] = Tail(@)]
  /\ taken' = [taken EXCEPT ![m] = TRUE]
  /\ IF hash[m] = "received"
       THEN AwaitTurn(m, "ui", Head(ui[m]).password) /\ pending' = pending
       ELSE /\ pending' = [pending EXCEPT ![m] = Head(ui[m]).password]
            /\ UNCHANGED <<turns, job, phase>>
  /\ UNCHANGED <<conns, hash, lc, logins, prompt, question, typed>>

LoginIgnores(m) ==
  /\ phase[m] = "login" /\ ui[m] # <<>> /\ Head(ui[m]).kind # "login"
  /\ ui' = [ui EXCEPT ![m] = Tail(@)]
  /\ UNCHANGED <<phase, conns, hash, pending, job, turns, lc, logins, prompt, question, typed, taken>>

(* The peer refuses a password (empty or wrong): the handler's is cleared, *)
(* without the turn, and the user asked again.                             *)
PasswordRefused(m) ==
  /\ phase[m] = "login" /\ logins[m] # <<>>
  /\ Head(logins[m]).password # Right
  /\ logins' = [logins EXCEPT ![m] = Tail(@)]
  /\ lc' = [lc EXCEPT !.password = NoPassword]
  /\ prompt' = TRUE
  /\ UNCHANGED <<phase, conns, hash, pending, job, ui, turns, question, typed, taken>>

----------------------------------------------------------------------------
(* The turn.  tokio's Mutex serves its waiters in order.                   *)

(* Mutant of HasTurn: the handler is filled without waiting for the turn. *)
NoTurnTaken(m) == turns # <<>>

HasTurn(m) == turns # <<>> /\ Head(turns) = m

(* create_login_msg reads the handler. *)
LoginMsg(h, response) ==
  [target |-> h.target, multiplex |-> h.multiplex, password |-> response.password,
   challenge |-> response.challenge]

(* The password the handler holds, or gets from the mapping, is answered   *)
(* with the challenge of the Hash in hand.                                 *)
Filled(m) == [lc EXCEPT !.target = m, !.multiplex = (m \in Probing), !.hash = Challenge(m)]

(* login_with_hash: the handler is filled, then handle_hash pauses where   *)
(* it looks up a switch_uuid.                                              *)
FillForHash(m) ==
  /\ phase[m] = "turn" /\ HasTurn(m) /\ job[m].kind = "hash"
  /\ lc' = Filled(m)
  /\ Goto(m, "lookup")
  /\ UNCHANGED <<conns, hash, pending, job, ui, turns, logins, prompt, question, typed, taken>>

(* handle_hash: the handler's password, else one found elsewhere (preset,  *)
(* peer config, address book, default), else none and a prompt.            *)
LookedUp(m) ==
  LET found == IF lc.password # NoPassword THEN lc.password ELSE Preset IN
  /\ phase[m] = "lookup"
  /\ lc' = [lc EXCEPT !.password = found]
  /\ prompt' = (prompt \/ found = NoPassword)
  /\ logins' = [logins EXCEPT ![m] = Append(@, LoginMsg(lc',
       [password |-> found, challenge |-> Challenge(m)]))]
  /\ Goto(m, "send")
  /\ UNCHANGED <<conns, hash, pending, job, ui, turns, question, typed, taken>>

(* login_from_ui: handle_login_from_ui hashes with the handler's hash. *)
LoginFromUi(m) ==
  /\ phase[m] = "turn" /\ HasTurn(m) /\ job[m].kind = "ui"
  /\ lc' = [Filled(m) EXCEPT !.password = job[m].password]
  /\ logins' = [logins EXCEPT ![m] = Append(@, LoginMsg(lc',
       [password |-> job[m].password, challenge |-> lc'.hash]))]
  /\ Goto(m, "send")
  /\ UNCHANGED <<conns, hash, pending, job, ui, turns, prompt, question, typed, taken>>

(* Mutant of Sent: the turn is not given back. *)
SentKeepsTurn(m) ==
  /\ phase[m] = "send"
  /\ lc' = IF job[m].kind = "hash" THEN [lc EXCEPT !.hash = Challenge(m)] ELSE lc
  /\ job' = [job EXCEPT ![m] = NoJob]
  /\ Goto(m, "login")
  /\ UNCHANGED <<conns, hash, pending, ui, turns, logins, prompt, question, typed, taken>>

(* peer.send returns (its error is only logged); handle_hash stores its    *)
(* Hash once more; the turn passes on.                                     *)
Sent(m) ==
  /\ phase[m] = "send"
  /\ lc' = IF job[m].kind = "hash" THEN [lc EXCEPT !.hash = Challenge(m)] ELSE lc
  /\ turns' = Tail(turns)
  /\ job' = [job EXCEPT ![m] = NoJob]
  /\ Goto(m, "login")
  /\ UNCHANGED <<conns, hash, pending, ui, logins, prompt, question, typed, taken>>

----------------------------------------------------------------------------
TurnStep(m) == FillForHash(m) \/ LookedUp(m) \/ LoginFromUi(m) \/ Sent(m)

Next ==
  \/ Continue \/ \E p \in Passwords : Type(p)
  \/ \E m \in Mappings :
       \/ Start(m) \/ Started(m) \/ Confirm(m) \/ AcceptIgnores(m) \/ End(m)
       \/ HashArrives(m) \/ LoginTyped(m) \/ LoginIgnores(m) \/ PasswordRefused(m) \/ TurnStep(m)

Spec == Init /\ [][Next]_vars

(* The Hash arrives or the connection ends; tasks that can run do, and a   *)
(* send on a connection returns or fails.                                  *)
Fairness ==
  \A m \in Mappings :
    WF_vars(TurnStep(m)) /\ WF_vars(HashArrives(m) \/ (End(m) /\ hash[m] = "on its way"))

FairSpec == Spec /\ Fairness

----------------------------------------------------------------------------
Messages == [target : Mappings, multiplex : BOOLEAN,
             password : Passwords \cup {NoPassword}, challenge : Mappings \X (1..MaxConns)]

TypeOK ==
  /\ phase \in [Mappings -> {"off", "start", "confirm", "login", "turn", "lookup", "send"}]
  /\ conns \in [Mappings -> 0..MaxConns]
  /\ hash \in [Mappings -> {"none", "on its way", "received"}]
  /\ pending \in [Mappings -> Passwords \cup {NoPassword}]
  /\ job \in [Mappings -> [kind : {"none", "hash", "ui"}, password : Passwords \cup {NoPassword}]]
  /\ Len(turns) <= Cardinality(Mappings) /\ \A k \in 1..Len(turns) : turns[k] \in Mappings
  /\ \A m \in Mappings : \A k \in 1..Len(logins[m]) : logins[m][k] \in Messages
  /\ prompt \in BOOLEAN /\ question \in BOOLEAN /\ typed \in 0..MaxTyped /\ taken \in [Mappings -> BOOLEAN]

(* Whatever the other mappings do meanwhile, a login names its own         *)
(* mapping's target, asks for the tunnel exactly if its mapping probes,    *)
(* and answers the challenge of its own connection.                        *)
OwnLogin ==
  \A m \in Mappings : \A k \in 1..Len(logins[m]) :
    LET msg == logins[m][k] IN
      /\ msg.target = m /\ msg.multiplex = (m \in Probing)
      /\ msg.challenge = Challenge(m)

(* "a password typed while the `Hash` was on its way is kept and answers   *)
(* it now, rather than being dropped" (src/src/port_forward.rs:291): once  *)
(* a login loop has read a typed password it never logs in without one.    *)
TypedAnswersHash ==
  \A m \in Mappings : taken[m] /\ phase[m] = "send" =>
    logins[m][Len(logins[m])].password # NoPassword

(* A password a mapping has kept, or waits for its turn to answer with, is *)
(* sent, unless the connection ends first: nobody keeps the turn for ever  *)
(* and nobody is passed over.                                              *)
TypedIsSent ==
  \A m \in Mappings :
    (pending[m] # NoPassword /\ phase[m] = "login") \/ job[m].kind = "ui"
      ~> phase[m] \in {"send", "off"}
=============================================================================
