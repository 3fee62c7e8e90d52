----------------------- MODULE PortForwardLoginProofs -----------------------
(***************************************************************************)
(* Logins of any number of mappings that share one handler.                *)
(*                                                                         *)
(* port_forward_login_turn is what keeps them apart: a mapping is in the   *)
(* queue for the turn at most once, only the first of the queue is past    *)
(* the wait, and nobody else touches the target and the mode in the        *)
(* handler.  Everything else is about one mapping: its logins are those of *)
(* its present connection, and a password its loop has read waits in       *)
(* pending_login until the Hash is there.                                  *)
(***************************************************************************)
EXTENDS PortForwardLogin, SequenceTheorems, TLAPS

Phases == {"off", "start", "confirm", "login", "turn", "lookup", "send"}
Answers == Passwords \cup {NoPassword}
Jobs == [kind : {"none", "hash", "ui"}, password : Answers]
Commands == {Login(p) : p \in Passwords} \cup {ContinueInsecureConnection}
Handlers == [target : Mappings \cup {{}}, multiplex : BOOLEAN,
             hash : (Mappings \X Nat) \cup {<<>>}, password : Answers]
LoginMsgs == [target : Mappings, multiplex : BOOLEAN, password : Answers, challenge : Mappings \X Nat]

Typed ==
  /\ phase \in [Mappings -> Phases] /\ conns \in [Mappings -> Nat]
  /\ hash \in [Mappings -> {"none", "on its way", "received"}]
  /\ pending \in [Mappings -> Answers] /\ job \in [Mappings -> Jobs]
  /\ ui \in [Mappings -> Seq(Commands)] /\ turns \in Seq(Mappings)
  /\ lc \in Handlers /\ logins \in [Mappings -> Seq(LoginMsgs)] /\ taken \in [Mappings -> BOOLEAN]

(* The turn: who is queued for it, once each, and who has it. *)
TurnInv ==
  /\ \A j, k \in 1..Len(turns) : turns[j] = turns[k] => j = k
  /\ \A k \in 1..Len(turns) : phase[turns[k]] \in {"turn", "lookup", "send"}
  /\ \A m \in Mappings : phase[m] \in {"lookup", "send"} => turns # <<>> /\ turns[1] = m

(* Between the two halves of login_with_hash the handler is still m's. *)
HandlerInv ==
  \A m \in Mappings : phase[m] = "lookup" => lc.target = m /\ lc.multiplex = (m \in Probing)

(* What holds of one mapping whatever the others do: a connection that has *)
(* not got to its login has none under way and has read no password; its   *)
(* logins are its own; a password that was read waits in pending_login     *)
(* until the Hash is there; and after that the login that has the turn, or *)
(* waits for it, has a password.                                           *)
FreshOf(m) == phase[m] \in {"off", "start", "confirm"} => logins[m] = <<>> /\ ~taken[m]

OwnOf(m) ==
  \A k \in 1..Len(logins[m]) :
    /\ logins[m][k].target = m /\ logins[m][k].multiplex = (m \in Probing)
    /\ logins[m][k].challenge = <<m, conns[m]>>

KeptOf(m) == taken[m] => hash[m] = "received" \/ pending[m] # NoPassword

JobOf(m) ==
  /\ phase[m] \in {"turn", "lookup", "send"} =>
       \/ job[m].kind = "hash" /\ ~taken[m]
       \/ job[m].kind = "ui" /\ job[m].password \in Passwords
  /\ phase[m] = "lookup" => job[m].kind = "hash"
  /\ phase[m] = "send" /\ job[m].kind = "ui" =>
       logins[m] # <<>> /\ logins[m][Len(logins[m])].password \in Passwords

MapInv(m) == FreshOf(m) /\ OwnOf(m) /\ KeptOf(m) /\ JobOf(m)

IInv == Typed /\ TurnInv /\ HandlerInv /\ \A m \in Mappings : MapInv(m)

(* A step of one mapping leaves what the others have alone. *)
Same(n) ==
  /\ phase'[n] = phase[n] /\ conns'[n] = conns[n] /\ hash'[n] = hash[n] /\ pending'[n] = pending[n]
  /\ job'[n] = job[n] /\ logins'[n] = logins[n] /\ taken'[n] = taken[n]

-----------------------------------------------------------------------------
LEMMA CommandFacts ==
  /\ ContinueInsecureConnection \in Commands
  /\ \A p \in Passwords : Login(p) \in Commands
  /\ \A c \in Commands : c.kind = "login" => c.password \in Passwords
  /\ NoJob \in Jobs /\ NoPassword \in Answers /\ NoPassword \notin Passwords
BY LoginAssumption DEF Commands, Login, ContinueInsecureConnection, NoJob, Jobs, Answers

LEMMA SameKept ==
  ASSUME NEW n \in Mappings, MapInv(n), Same(n)
  PROVE  MapInv(n)'
BY DEF MapInv, FreshOf, OwnOf, KeptOf, JobOf, Same

(* The two properties, from the parts. *)
LEMMA PartsSuffice ==
  ASSUME IInv
  PROVE  OwnLogin /\ TypedAnswersHash
<1>1. OwnLogin
  BY DEF IInv, MapInv, OwnOf, OwnLogin, Challenge
<1>2. TypedAnswersHash
  BY CommandFacts DEF IInv, MapInv, JobOf, TypedAnswersHash
<1> QED BY <1>1, <1>2

LEMMA InitInv == Init => IInv
<1> SUFFICES ASSUME Init PROVE IInv
  OBVIOUS
<1>1. Typed
  BY CommandFacts DEF Init, Typed, Phases, Handlers
<1>2. TurnInv /\ HandlerInv
  BY DEF Init, TurnInv, HandlerInv
<1>3. ASSUME NEW m \in Mappings PROVE MapInv(m)
  BY DEF Init, MapInv, FreshOf, OwnOf, KeptOf, JobOf
<1> QED BY <1>1, <1>2, <1>3 DEF IInv

-----------------------------------------------------------------------------
(* The user only fills the queues. *)
LEMMA UserStep ==
  ASSUME IInv, Continue \/ \E p \in Passwords : Type(p)
  PROVE  IInv'
<1>1. UNCHANGED <<phase, conns, hash, pending, job, turns, lc, logins, taken>>
  BY DEF Continue, Type
<1>2. PICK c \in Commands : ui' = [m \in Mappings |-> Append(ui[m], c)]
  <2>1. CASE Continue
    BY CommandFacts, <2>1 DEF Continue
  <2>2. CASE \E p \in Passwords : Type(p)
    <3>1. PICK p \in Passwords : Type(p)
      BY <2>2
    <3> QED BY CommandFacts, <3>1 DEF Type
  <2> QED BY <2>1, <2>2
<1>3. Typed'
  <2>1. ASSUME NEW m \in Mappings PROVE Append(ui[m], c) \in Seq(Commands)
    <3>1. ui[m] \in Seq(Commands)
      BY DEF IInv, Typed
    <3> QED BY <3>1, <1>2, AppendProperties
  <2> QED BY <1>1, <1>2, <2>1 DEF IInv, Typed
<1>4. TurnInv' /\ HandlerInv'
  BY <1>1 DEF IInv, TurnInv, HandlerInv
<1>5. \A m \in Mappings : MapInv(m)'
  <2>1. \A m \in Mappings : Same(m)
    BY <1>1 DEF Same
  <2> QED BY <2>1, SameKept DEF IInv
<1> QED BY <1>3, <1>4, <1>5 DEF IInv

-----------------------------------------------------------------------------
(* The queue of a mapping loses its first message, or nothing. *)
LEMMA QueueRead ==
  ASSUME Typed, NEW m \in Mappings,
         ui' = ui \/ (ui[m] # <<>> /\ ui' = [ui EXCEPT ![m] = Tail(@)])
  PROVE  ui' \in [Mappings -> Seq(Commands)]
<1>1. ui \in [Mappings -> Seq(Commands)] /\ ui[m] \in Seq(Commands)
  BY DEF Typed
<1>2. ui[m] # <<>> => Tail(ui[m]) \in Seq(Commands)
  BY <1>1
<1> QED BY <1>1, <1>2

(* What a mapping outside the turn does leaves the turn alone. *)
LEMMA TurnUntouched ==
  ASSUME Typed, TurnInv, HandlerInv, NEW m \in Mappings,
         phase[m] \notin {"turn", "lookup", "send"}, phase'[m] \notin {"lookup", "send"},
         \A n \in Mappings \ {m} : phase'[n] = phase[n],
         turns' = turns, lc'.target = lc.target, lc'.multiplex = lc.multiplex
  PROVE  TurnInv' /\ HandlerInv'
<1>1. \A k \in 1..Len(turns) : turns[k] \in Mappings
  <2>1. turns \in Seq(Mappings)
    BY DEF Typed
  <2> QED BY <2>1, ElementOfSeq
<1>2. \A k \in 1..Len(turns) : phase'[turns[k]] = phase[turns[k]]
  BY <1>1 DEF TurnInv
<1>3. TurnInv'
  BY <1>2 DEF TurnInv
<1>4. HandlerInv'
  BY DEF HandlerInv
<1> QED BY <1>3, <1>4

(* A connection without logins that has read no password. *)
LEMMA NothingYet ==
  ASSUME NEW m \in Mappings, logins'[m] = <<>>, ~taken'[m], phase'[m] \notin {"turn", "lookup", "send"}
  PROVE  MapInv(m)'
<1>1. OwnOf(m)'
  BY DEF OwnOf
<1>2. FreshOf(m)' /\ KeptOf(m)' /\ JobOf(m)'
  BY DEF FreshOf, KeptOf, JobOf
<1> QED BY <1>1, <1>2 DEF MapInv

(* A step of mapping m is judged by what it does to m. *)
LEMMA OthersKept ==
  ASSUME IInv, NEW m \in Mappings, \A n \in Mappings \ {m} : Same(n), MapInv(m)'
  PROVE  \A n \in Mappings : MapInv(n)'
BY SameKept DEF IInv

-----------------------------------------------------------------------------
(* A connection starts, is confirmed, ignores what it reads, or ends: none *)
(* of it while the mapping waits for the turn or has it.                   *)
LEMMA ConnectionStep ==
  ASSUME IInv, NEW m \in Mappings,
         Start(m) \/ Started(m) \/ Confirm(m) \/ AcceptIgnores(m) \/ End(m) \/ LoginIgnores(m)
  PROVE  IInv'
<1>0. Typed /\ MapInv(m) /\ TurnInv /\ HandlerInv
  BY DEF IInv
<1>1. /\ UNCHANGED <<job, turns, lc>>
      /\ phase[m] \notin {"turn", "lookup", "send"}
  BY DEF Start, Started, Confirm, AcceptIgnores, End, LoginIgnores
<1>2. ui' \in [Mappings -> Seq(Commands)]
  <2>1. ui' = ui \/ (ui[m] # <<>> /\ ui' = [ui EXCEPT ![m] = Tail(@)])
    BY DEF Start, Started, Confirm, AcceptIgnores, End, LoginIgnores
  <2> QED BY <1>0, <2>1, QueueRead
<1> DEFINE Rest ==
      /\ phase' \in [Mappings -> Phases] /\ conns' \in [Mappings -> Nat]
      /\ hash' \in [Mappings -> {"none", "on its way", "received"}]
      /\ pending' \in [Mappings -> Answers] /\ taken' \in [Mappings -> BOOLEAN]
      /\ logins' \in [Mappings -> Seq(LoginMsgs)]
<1>3. /\ Rest /\ phase'[m] \in {"off", "start", "confirm", "login"}
      /\ \A n \in Mappings \ {m} : Same(n)
      /\ MapInv(m)'
  <2>1. CASE Start(m)
    <3>1. Rest /\ phase'[m] = "start" /\ \A n \in Mappings \ {m} : Same(n)
      <4>1. conns[m] + 1 \in Nat
        <5>1. conns \in [Mappings -> Nat]
          BY <1>0 DEF Typed
        <5> QED BY <5>1
      <4> QED BY <1>0, <2>1, <4>1 DEF Start, Goto, Typed, Phases, Same
    <3>2. /\ phase[m] = "off" /\ logins[m] = <<>> /\ ~taken[m]
          /\ logins' = logins /\ taken' = taken
      BY <1>0, <2>1 DEF Start, MapInv, FreshOf
    <3>3. MapInv(m)'
      BY <3>1, <3>2, NothingYet
    <3> QED BY <3>1, <3>3
  <2>2. CASE Started(m)
    <3>1. Rest /\ phase'[m] \in {"confirm", "login"} /\ \A n \in Mappings \ {m} : Same(n)
      BY <1>0, <2>2, LoginAssumption DEF Started, Goto, Typed, Phases, Same
    <3>2. /\ phase[m] = "start" /\ logins[m] = <<>> /\ ~taken[m]
          /\ logins' = logins /\ taken' = taken
      BY <1>0, <2>2 DEF Started, MapInv, FreshOf
    <3>3. MapInv(m)'
      BY <3>1, <3>2, NothingYet
    <3> QED BY <3>1, <3>3
  <2>3. CASE End(m)
    <3>1. Rest /\ phase'[m] = "off" /\ \A n \in Mappings \ {m} : Same(n)
      <4>1. NoPassword \in Answers /\ <<>> \in Seq(LoginMsgs)
        BY CommandFacts
      <4> QED BY <1>0, <4>1, <2>3 DEF End, Goto, Typed, Phases, Same
    <3>2. logins'[m] = <<>> /\ ~taken'[m]
      BY <1>0, <2>3 DEF End, Typed
    <3>3. MapInv(m)'
      BY <3>1, <3>2, NothingYet
    <3> QED BY <3>1, <3>3
  <2>4. CASE Confirm(m)
    <3>1. /\ UNCHANGED <<conns, hash, pending, job, logins, taken>> /\ phase[m] = "confirm"
          /\ phase' = phase \/ phase' = [phase EXCEPT ![m] = "login"]
      BY <2>4 DEF Confirm, Goto
    <3>2. /\ Rest /\ phase'[m] \in {"confirm", "login"}
          /\ \A n \in Mappings \ {m} : Same(n)
      BY <1>0, <3>1 DEF Typed, Phases, Same
    <3>3. MapInv(m)'
      BY <1>0, <3>1, <3>2 DEF MapInv, FreshOf, OwnOf, KeptOf, JobOf
    <3> QED BY <3>2, <3>3
  <2>5. CASE AcceptIgnores(m) \/ LoginIgnores(m)
    <3>1. UNCHANGED <<phase, conns, hash, pending, job, logins, taken>>
      BY <2>5 DEF AcceptIgnores, LoginIgnores
    <3>2. Rest /\ \A n \in Mappings : Same(n)
      BY <1>0, <3>1 DEF Typed, Same
    <3>3. MapInv(m)'
      BY <1>0, <3>2, SameKept
    <3>4. phase'[m] \in {"off", "start", "confirm", "login"}
      BY <1>0, <1>1, <3>1 DEF Typed, Phases
    <3> QED BY <3>2, <3>3, <3>4
  <2> QED BY <2>1, <2>2, <2>3, <2>4, <2>5
<1>4. Typed'
  BY <1>0, <1>1, <1>2, <1>3 DEF Typed
<1>5. TurnInv' /\ HandlerInv'
  <2>1. /\ phase'[m] \notin {"lookup", "send"} /\ \A n \in Mappings \ {m} : phase'[n] = phase[n]
    BY <1>3 DEF Same
  <2> QED BY <1>0, <1>1, <2>1, TurnUntouched
<1>6. \A n \in Mappings : MapInv(n)'
  BY <1>3, OthersKept
<1> QED BY <1>4, <1>5, <1>6 DEF IInv

(* The peer refuses a password: one login fewer, and the handler forgets   *)
(* the password only.                                                      *)
LEMMA RefusedStep ==
  ASSUME IInv, NEW m \in Mappings, PasswordRefused(m)
  PROVE  IInv'
<1>0. Typed /\ MapInv(m) /\ TurnInv /\ HandlerInv
  BY DEF IInv
<1>1. /\ UNCHANGED <<phase, conns, hash, pending, job, ui, turns, taken>>
      /\ phase[m] = "login" /\ logins[m] # <<>> /\ logins' = [logins EXCEPT ![m] = Tail(@)]
      /\ lc' = [lc EXCEPT !.password = NoPassword]
  BY DEF PasswordRefused
<1>2. logins[m] \in Seq(LoginMsgs) /\ lc \in Handlers
  BY <1>0 DEF Typed
<1>3. /\ Tail(logins[m]) \in Seq(LoginMsgs) /\ Len(Tail(logins[m])) = Len(logins[m]) - 1
      /\ \A k \in 1..Len(Tail(logins[m])) : k + 1 \in 1..Len(logins[m]) /\ Tail(logins[m])[k] = logins[m][k + 1]
  BY <1>1, <1>2
<1>4. lc' \in Handlers /\ lc'.target = lc.target /\ lc'.multiplex = lc.multiplex
  BY <1>1, <1>2, CommandFacts DEF Handlers
<1>5. /\ logins' \in [Mappings -> Seq(LoginMsgs)] /\ logins'[m] = Tail(logins[m])
      /\ \A n \in Mappings \ {m} : logins'[n] = logins[n]
  BY <1>0, <1>1, <1>3 DEF Typed
<1>6. Typed'
  BY <1>0, <1>1, <1>4, <1>5 DEF Typed
<1>7. TurnInv' /\ HandlerInv'
  BY <1>0, <1>1, <1>4, TurnUntouched
<1>8. MapInv(m)'
  <2>1. FreshOf(m)' /\ KeptOf(m)' /\ JobOf(m)'
    BY <1>0, <1>1 DEF MapInv, FreshOf, KeptOf, JobOf
  <2>2. OwnOf(m)'
    BY <1>0, <1>1, <1>3, <1>5 DEF MapInv, OwnOf
  <2> QED BY <2>1, <2>2 DEF MapInv
<1>9. \A n \in Mappings : MapInv(n)'
  BY <1>1, <1>5, <1>8, OthersKept DEF Same
<1> QED BY <1>6, <1>7, <1>9 DEF IInv

-----------------------------------------------------------------------------
(* The login loop gives a login to the turn: it joins the end of the queue *)
(* it was not in.                                                          *)
LEMMA TurnJoined ==
  ASSUME Typed, TurnInv, HandlerInv, NEW m \in Mappings, phase[m] = "login",
         turns' = Append(turns, m), phase' = [phase EXCEPT ![m] = "turn"], lc' = lc
  PROVE  turns' \in Seq(Mappings) /\ TurnInv' /\ HandlerInv'
<1>1. turns \in Seq(Mappings) /\ phase \in [Mappings -> Phases]
  BY DEF Typed
<1>2. /\ turns' \in Seq(Mappings) /\ Len(turns') = Len(turns) + 1 /\ turns'[Len(turns) + 1] = m
      /\ \A k \in 1..Len(turns) : turns'[k] = turns[k] /\ turns[k] \in Mappings
  BY <1>1, AppendProperties, ElementOfSeq
<1>3. /\ phase'[m] = "turn" /\ \A n \in Mappings \ {m} : phase'[n] = phase[n]
  BY <1>1
<1>4. \A k \in 1..Len(turns) : turns[k] # m
  BY DEF TurnInv
<1>5. Len(turns) \in Nat /\ \A k \in 1..Len(turns') : k \in 1..Len(turns) \/ k = Len(turns) + 1
  BY <1>1, <1>2
<1>6. TurnInv'
  <2>1. \A j, k \in 1..Len(turns') : turns'[j] = turns'[k] => j = k
    BY <1>2, <1>4, <1>5 DEF TurnInv
  <2>2. \A k \in 1..Len(turns') : phase'[turns'[k]] \in {"turn", "lookup", "send"}
    BY <1>2, <1>3, <1>4, <1>5 DEF TurnInv
  <2>3. ASSUME NEW n \in Mappings, phase'[n] \in {"lookup", "send"} PROVE turns' # <<>> /\ turns'[1] = n
    <3>1. n # m /\ phase[n] \in {"lookup", "send"}
      BY <1>3, <2>3
    <3>2. turns # <<>> /\ turns[1] = n
      BY <3>1 DEF TurnInv
    <3>3. 1 \in 1..Len(turns)
      BY <1>1, <3>2
    <3> QED BY <1>2, <3>2, <3>3
  <2> QED BY <2>1, <2>2, <2>3 DEF TurnInv
<1>7. HandlerInv'
  BY <1>3 DEF HandlerInv
<1> QED BY <1>2, <1>6, <1>7

LEMMA HashArrivesStep ==
  ASSUME IInv, NEW m \in Mappings, HashArrives(m)
  PROVE  IInv'
<1>0. Typed /\ MapInv(m) /\ TurnInv /\ HandlerInv
  BY DEF IInv
<1> DEFINE j == IF pending[m] # NoPassword THEN [kind |-> "ui", password |-> pending[m]]
                                           ELSE [kind |-> "hash", password |-> NoPassword]
<1>1. /\ turns' = Append(turns, m) /\ job' = [job EXCEPT ![m] = j] /\ j \in Jobs
      /\ phase' = [phase EXCEPT ![m] = "turn"]
      /\ \/ j.kind = "ui" /\ j.password \in Passwords
         \/ j.kind = "hash" /\ pending[m] = NoPassword
  <2>1. pending[m] \in Answers
    BY <1>0 DEF Typed
  <2>2. /\ turns' = Append(turns, m) /\ job' = [job EXCEPT ![m] = j]
        /\ phase' = [phase EXCEPT ![m] = "turn"]
    <3>1. CASE pending[m] # NoPassword
      BY <3>1 DEF HashArrives, AwaitTurn, Goto
    <3>2. CASE pending[m] = NoPassword
      BY <3>2 DEF HashArrives, AwaitTurn, Goto
    <3> QED BY <3>1, <3>2
  <2>3. /\ j \in Jobs
        /\ \/ j.kind = "ui" /\ j.password \in Passwords
           \/ j.kind = "hash" /\ pending[m] = NoPassword
    <3>1. CASE pending[m] # NoPassword
      <4>1. j = [kind |-> "ui", password |-> pending[m]]
        BY <3>1
      <4> QED BY <2>1, <3>1, <4>1 DEF Jobs, Answers
    <3>2. CASE pending[m] = NoPassword
      <4>1. j = [kind |-> "hash", password |-> NoPassword]
        BY <3>2
      <4> QED BY <3>2, <4>1, CommandFacts DEF Jobs
    <3> QED BY <3>1, <3>2
  <2> QED BY <2>2, <2>3
<1> HIDE DEF j
<1>2. /\ UNCHANGED <<conns, ui, lc, logins, taken>>
      /\ phase[m] = "login" /\ hash[m] = "on its way"
      /\ hash' = [hash EXCEPT ![m] = "received"] /\ pending' = [pending EXCEPT ![m] = NoPassword]
  BY DEF HashArrives
<1>3. turns' \in Seq(Mappings) /\ TurnInv' /\ HandlerInv'
  BY <1>0, <1>1, <1>2, TurnJoined
<1>4. Typed'
  BY <1>0, <1>1, <1>2, <1>3, CommandFacts DEF Typed, Phases
<1>5. /\ phase'[m] = "turn" /\ hash'[m] = "received" /\ job'[m] = j
      /\ \A n \in Mappings \ {m} : Same(n)
  BY <1>0, <1>1, <1>2 DEF Typed, Same
<1>6. MapInv(m)'
  <2>1. FreshOf(m)' /\ KeptOf(m)'
    BY <1>5 DEF FreshOf, KeptOf
  <2>2. OwnOf(m)'
    BY <1>0, <1>2 DEF MapInv, OwnOf
  <2>3. JobOf(m)'
    <3>1. pending[m] = NoPassword => ~taken[m]
      BY <1>0, <1>2 DEF MapInv, KeptOf
    <3> QED BY <1>1, <1>2, <1>5, <3>1 DEF JobOf
  <2> QED BY <2>1, <2>2, <2>3 DEF MapInv
<1>7. \A n \in Mappings : MapInv(n)'
  BY <1>5, <1>6, OthersKept
<1> QED BY <1>3, <1>4, <1>7 DEF IInv

(* A password is read: it is answered with, or kept for the Hash. *)
LEMMA LoginTypedStep ==
  ASSUME IInv, NEW m \in Mappings, LoginTyped(m)
  PROVE  IInv'
<1>0. Typed /\ MapInv(m) /\ TurnInv /\ HandlerInv
  BY DEF IInv
<1> DEFINE w == Head(ui[m]).password
<1>1. w \in Passwords
  <2>1. ui[m] \in Seq(Commands) /\ ui[m] # <<>> /\ Head(ui[m]).kind = "login"
    BY <1>0 DEF Typed, LoginTyped
  <2>2. Head(ui[m]) \in Commands
    BY <2>1, HeadTailProperties
  <2> QED BY <2>1, <2>2, CommandFacts
<1> HIDE DEF w
<1>2. /\ UNCHANGED <<conns, hash, lc, logins>> /\ phase[m] = "login"
      /\ ui[m] # <<>> /\ ui' = [ui EXCEPT ![m] = Tail(@)] /\ taken' = [taken EXCEPT ![m] = TRUE]
  BY DEF LoginTyped
<1>3. ui' \in [Mappings -> Seq(Commands)]
  BY <1>0, <1>2, QueueRead
<1>4. CASE hash[m] = "received"
  <2>1. /\ turns' = Append(turns, m) /\ job' = [job EXCEPT ![m] = [kind |-> "ui", password |-> w]]
        /\ phase' = [phase EXCEPT ![m] = "turn"] /\ pending' = pending
    BY <1>4 DEF LoginTyped, AwaitTurn, Goto, w
  <2>2. [kind |-> "ui", password |-> w] \in Jobs
    BY <1>1 DEF Jobs, Answers
  <2>3. turns' \in Seq(Mappings) /\ TurnInv' /\ HandlerInv'
    BY <1>0, <1>2, <2>1, TurnJoined
  <2>4. Typed'
    BY <1>0, <1>2, <1>3, <2>1, <2>2, <2>3 DEF Typed, Phases
  <2>5. /\ phase'[m] = "turn" /\ job'[m] = [kind |-> "ui", password |-> w]
        /\ \A n \in Mappings \ {m} : Same(n)
    BY <1>0, <1>2, <2>1 DEF Typed, Same
  <2>6. MapInv(m)'
    <3>1. OwnOf(m)'
      BY <1>0, <1>2 DEF MapInv, OwnOf
    <3>2. FreshOf(m)' /\ KeptOf(m)' /\ JobOf(m)'
      BY <1>1, <1>2, <1>4, <2>5 DEF FreshOf, KeptOf, JobOf
    <3> QED BY <3>1, <3>2 DEF MapInv
  <2>7. \A n \in Mappings : MapInv(n)'
    BY <2>5, <2>6, OthersKept
  <2> QED BY <2>3, <2>4, <2>7 DEF IInv
<1>5. CASE hash[m] # "received"
  <2>1. UNCHANGED <<turns, job, phase>> /\ pending' = [pending EXCEPT ![m] = w]
    BY <1>5 DEF LoginTyped, w
  <2>2. w \in Answers
    BY <1>1 DEF Answers
  <2>3. TurnInv' /\ HandlerInv'
    BY <1>0, <1>2, <2>1 DEF TurnInv, HandlerInv
  <2>4. Typed'
    BY <1>0, <1>2, <1>3, <2>1, <2>2 DEF Typed
  <2>5. pending'[m] = w /\ \A n \in Mappings \ {m} : Same(n)
    BY <1>0, <1>2, <2>1 DEF Typed, Same
  <2>6. MapInv(m)'
    <3>1. OwnOf(m)'
      BY <1>0, <1>2 DEF MapInv, OwnOf
    <3>2. KeptOf(m)'
      BY <1>1, <2>5, CommandFacts DEF KeptOf
    <3>3. FreshOf(m)' /\ JobOf(m)'
      BY <1>2, <2>1 DEF FreshOf, JobOf
    <3> QED BY <3>1, <3>2, <3>3 DEF MapInv
  <2>7. \A n \in Mappings : MapInv(n)'
    BY <2>5, <2>6, OthersKept
  <2> QED BY <2>3, <2>4, <2>7 DEF IInv
<1> QED BY <1>4, <1>5

-----------------------------------------------------------------------------
(* The holder of the turn fills the handler, and keeps the turn. *)
LEMMA TurnHeld ==
  ASSUME Typed, TurnInv, NEW m \in Mappings, HasTurn(m), NEW p \in {"lookup", "send"},
         phase' = [phase EXCEPT ![m] = p], turns' = turns
  PROVE  TurnInv' /\ \A n \in Mappings \ {m} : phase'[n] \notin {"lookup", "send"}
<1>1. turns \in Seq(Mappings) /\ phase \in [Mappings -> Phases] /\ turns # <<>> /\ turns[1] = m
  <2>1. turns \in Seq(Mappings) /\ phase \in [Mappings -> Phases]
    BY DEF Typed
  <2> QED BY <2>1 DEF HasTurn
<1>2. phase'[m] = p /\ \A n \in Mappings \ {m} : phase'[n] = phase[n]
  BY <1>1
<1>3. \A n \in Mappings \ {m} : phase'[n] \notin {"lookup", "send"}
  BY <1>1, <1>2 DEF TurnInv
<1>4. \A k \in 1..Len(turns) : turns[k] \in Mappings
  BY <1>1, ElementOfSeq
<1>5. TurnInv'
  BY <1>1, <1>2, <1>3, <1>4 DEF TurnInv
<1> QED BY <1>3, <1>5

(* A login is added to a mapping's own. *)
LEMMA LoginAdded ==
  ASSUME Typed, NEW m \in Mappings, OwnOf(m), NEW msg \in LoginMsgs,
         msg.target = m, msg.multiplex = (m \in Probing), msg.challenge = <<m, conns[m]>>,
         logins' = [logins EXCEPT ![m] = Append(@, msg)], conns' = conns
  PROVE  /\ logins' \in [Mappings -> Seq(LoginMsgs)] /\ OwnOf(m)'
         /\ \A n \in Mappings \ {m} : logins'[n] = logins[n]
         /\ logins'[m] # <<>> /\ logins'[m][Len(logins'[m])] = msg
<1>1. logins \in [Mappings -> Seq(LoginMsgs)] /\ logins[m] \in Seq(LoginMsgs)
  BY DEF Typed
<1> DEFINE s == Append(logins[m], msg)
<1>2. /\ s \in Seq(LoginMsgs) /\ Len(s) = Len(logins[m]) + 1 /\ Len(logins[m]) \in Nat
      /\ s[Len(logins[m]) + 1] = msg /\ \A k \in 1..Len(logins[m]) : s[k] = logins[m][k]
  BY <1>1, AppendProperties
<1> HIDE DEF s
<1>3. logins' = [logins EXCEPT ![m] = s]
  BY DEF s
<1>4. /\ logins' \in [Mappings -> Seq(LoginMsgs)] /\ logins'[m] = s
      /\ \A n \in Mappings \ {m} : logins'[n] = logins[n]
  BY <1>1, <1>2, <1>3
<1>5. \A k \in 1..Len(s) : k \in 1..Len(logins[m]) \/ k = Len(logins[m]) + 1
  BY <1>2
<1>6. OwnOf(m)'
  BY <1>2, <1>4, <1>5 DEF OwnOf
<1>7. s # <<>>
  BY <1>2
<1> QED BY <1>2, <1>4, <1>6, <1>7

(* The handler as the holder of the turn fills it. *)
LEMMA HandlerFilled ==
  ASSUME Typed, NEW m \in Mappings
  PROVE  /\ Filled(m) \in Handlers
         /\ Filled(m).target = m /\ Filled(m).multiplex = (m \in Probing)
         /\ Filled(m).hash = <<m, conns[m]>> /\ Filled(m).password = lc.password
         /\ <<m, conns[m]>> \in Mappings \X Nat
<1>1. lc \in Handlers
  BY DEF Typed
<1>2. conns[m] \in Nat
  BY DEF Typed
<1>3. (m \in Probing) \in BOOLEAN
  OBVIOUS
<1> QED BY <1>1, <1>2, <1>3 DEF Filled, Challenge, Handlers

LEMMA FillStep ==
  ASSUME IInv, NEW m \in Mappings, FillForHash(m)
  PROVE  IInv'
<1>0. Typed /\ MapInv(m) /\ TurnInv /\ HandlerInv
  BY DEF IInv
<1>1. /\ UNCHANGED <<conns, hash, pending, job, ui, turns, logins, taken>> /\ phase[m] = "turn"
      /\ HasTurn(m) /\ job[m].kind = "hash"
      /\ phase' = [phase EXCEPT ![m] = "lookup"] /\ lc' = Filled(m)
  BY DEF FillForHash, Goto
<1>2. TurnInv' /\ \A n \in Mappings \ {m} : phase'[n] \notin {"lookup", "send"}
  BY <1>0, <1>1, TurnHeld
<1>3. phase'[m] = "lookup" /\ \A n \in Mappings \ {m} : Same(n)
  BY <1>0, <1>1 DEF Typed, Same
<1>4. Typed'
  BY <1>0, <1>1, HandlerFilled DEF Typed, Phases
<1>5. HandlerInv'
  BY <1>0, <1>1, <1>2, HandlerFilled DEF HandlerInv
<1>6. MapInv(m)'
  <2>1. OwnOf(m)' /\ KeptOf(m)' /\ FreshOf(m)'
    BY <1>0, <1>1, <1>3 DEF MapInv, OwnOf, KeptOf, FreshOf
  <2>2. JobOf(m)'
    BY <1>0, <1>1, <1>3 DEF MapInv, JobOf
  <2> QED BY <2>1, <2>2 DEF MapInv
<1>7. \A n \in Mappings : MapInv(n)'
  BY <1>3, <1>6, OthersKept
<1> QED BY <1>2, <1>4, <1>5, <1>7 DEF IInv

(* handle_hash goes on after its lookup: the handler is still the          *)
(* mapping's, because the turn is.                                         *)
LEMMA LookedUpStep ==
  ASSUME IInv, NEW m \in Mappings, LookedUp(m)
  PROVE  IInv'
<1>0. Typed /\ MapInv(m) /\ TurnInv /\ HandlerInv
  BY DEF IInv
<1> DEFINE found == IF lc.password # NoPassword THEN lc.password ELSE Preset
<1> DEFINE msg == [target |-> m, multiplex |-> (m \in Probing), password |-> found, challenge |-> <<m, conns[m]>>]
<1>1. lc \in Handlers /\ lc.target = m /\ lc.multiplex = (m \in Probing)
  BY <1>0 DEF Typed, HandlerInv, LookedUp
<1>2. found \in Answers
  BY <1>1, LoginAssumption DEF Handlers, Answers
<1> HIDE DEF found
<1>3. /\ UNCHANGED <<conns, hash, pending, job, ui, turns, taken>> /\ phase[m] = "lookup"
      /\ phase' = [phase EXCEPT ![m] = "send"] /\ lc' = [lc EXCEPT !.password = found]
      /\ logins' = [logins EXCEPT ![m] = Append(@, LoginMsg(lc', [password |-> found, challenge |-> <<m, conns[m]>>]))]
  BY DEF LookedUp, Goto, Challenge, found
<1>4. lc' \in Handlers /\ lc'.target = m /\ lc'.multiplex = (m \in Probing)
  BY <1>1, <1>2, <1>3 DEF Handlers
<1>5. logins' = [logins EXCEPT ![m] = Append(@, msg)]
  BY <1>3, <1>4 DEF LoginMsg
<1>6. /\ msg \in LoginMsgs /\ msg.target = m /\ msg.multiplex = (m \in Probing)
      /\ msg.challenge = <<m, conns[m]>>
  BY <1>0, <1>2, HandlerFilled DEF LoginMsgs
<1> HIDE DEF msg
<1>7. /\ logins' \in [Mappings -> Seq(LoginMsgs)] /\ OwnOf(m)' /\ logins'[m] # <<>>
      /\ \A n \in Mappings \ {m} : logins'[n] = logins[n]
  <2>1. OwnOf(m)
    BY <1>0 DEF MapInv
  <2> QED BY <1>0, <1>3, <1>5, <1>6, <2>1, LoginAdded
<1>8. HasTurn(m)
  <2>1. turns # <<>> /\ turns[1] = m
    BY <1>0, <1>3 DEF TurnInv
  <2>2. turns \in Seq(Mappings)
    BY <1>0 DEF Typed
  <2> QED BY <2>1, <2>2 DEF HasTurn
<1>9. TurnInv' /\ \A n \in Mappings \ {m} : phase'[n] \notin {"lookup", "send"}
  BY <1>0, <1>3, <1>8, TurnHeld
<1>10. phase'[m] = "send" /\ \A n \in Mappings \ {m} : Same(n)
  BY <1>0, <1>3, <1>7 DEF Typed, Same
<1>11. Typed'
  BY <1>0, <1>3, <1>4, <1>7 DEF Typed, Phases
<1>12. HandlerInv'
  BY <1>9, <1>10 DEF HandlerInv
<1>13. MapInv(m)'
  <2>1. FreshOf(m)' /\ KeptOf(m)'
    BY <1>0, <1>3, <1>10 DEF MapInv, FreshOf, KeptOf
  <2>2. JobOf(m)'
    BY <1>0, <1>3, <1>10 DEF MapInv, JobOf
  <2> QED BY <1>7, <2>1, <2>2 DEF MapInv
<1>14. \A n \in Mappings : MapInv(n)'
  BY <1>10, <1>13, OthersKept
<1> QED BY <1>9, <1>11, <1>12, <1>14 DEF IInv

(* login_from_ui fills the handler and answers in one go. *)
LEMMA LoginFromUiStep ==
  ASSUME IInv, NEW m \in Mappings, LoginFromUi(m)
  PROVE  IInv'
<1>0. Typed /\ MapInv(m) /\ TurnInv /\ HandlerInv
  BY DEF IInv
<1> DEFINE w == job[m].password
<1> DEFINE msg == [target |-> m, multiplex |-> (m \in Probing), password |-> w, challenge |-> <<m, conns[m]>>]
<1>1. /\ UNCHANGED <<conns, hash, pending, job, ui, turns, taken>> /\ phase[m] = "turn"
      /\ HasTurn(m) /\ job[m].kind = "ui" /\ phase' = [phase EXCEPT ![m] = "send"]
      /\ lc' = [Filled(m) EXCEPT !.password = w]
      /\ logins' = [logins EXCEPT ![m] = Append(@, LoginMsg(lc', [password |-> w, challenge |-> lc'.hash]))]
  BY DEF LoginFromUi, Goto
<1>2. w \in Passwords /\ w \in Answers
  BY <1>0, <1>1 DEF MapInv, JobOf, Answers
<1> HIDE DEF w
<1>3. /\ lc' \in Handlers /\ lc'.target = m /\ lc'.multiplex = (m \in Probing)
      /\ lc'.hash = <<m, conns[m]>>
  BY <1>0, <1>1, <1>2, HandlerFilled DEF Handlers
<1>4. logins' = [logins EXCEPT ![m] = Append(@, msg)]
  BY <1>1, <1>3 DEF LoginMsg
<1>5. /\ msg \in LoginMsgs /\ msg.target = m /\ msg.multiplex = (m \in Probing)
      /\ msg.challenge = <<m, conns[m]>> /\ msg.password = w
  BY <1>0, <1>2, HandlerFilled DEF LoginMsgs
<1> HIDE DEF msg
<1>6. /\ logins' \in [Mappings -> Seq(LoginMsgs)] /\ OwnOf(m)'
      /\ logins'[m] # <<>> /\ logins'[m][Len(logins'[m])] = msg
      /\ \A n \in Mappings \ {m} : logins'[n] = logins[n]
  <2>1. OwnOf(m)
    BY <1>0 DEF MapInv
  <2> QED BY <1>0, <1>1, <1>4, <1>5, <2>1, LoginAdded
<1>7. TurnInv' /\ \A n \in Mappings \ {m} : phase'[n] \notin {"lookup", "send"}
  BY <1>0, <1>1, TurnHeld
<1>8. phase'[m] = "send" /\ \A n \in Mappings \ {m} : Same(n)
  BY <1>0, <1>1, <1>6 DEF Typed, Same
<1>9. Typed'
  BY <1>0, <1>1, <1>3, <1>6 DEF Typed, Phases
<1>10. HandlerInv'
  BY <1>7, <1>8 DEF HandlerInv
<1>11. MapInv(m)'
  <2>1. FreshOf(m)' /\ KeptOf(m)'
    BY <1>0, <1>1, <1>8 DEF MapInv, FreshOf, KeptOf
  <2>2. JobOf(m)'
    BY <1>1, <1>2, <1>5, <1>6, <1>8 DEF JobOf, w
  <2> QED BY <1>6, <2>1, <2>2 DEF MapInv
<1>12. \A n \in Mappings : MapInv(n)'
  BY <1>8, <1>11, OthersKept
<1> QED BY <1>7, <1>9, <1>10, <1>12 DEF IInv

(* The turn passes on. *)
LEMMA SentStep ==
  ASSUME IInv, NEW m \in Mappings, Sent(m)
  PROVE  IInv'
<1>0. Typed /\ MapInv(m) /\ TurnInv /\ HandlerInv
  BY DEF IInv
<1>1. /\ UNCHANGED <<conns, hash, pending, ui, logins, taken>> /\ phase[m] = "send"
      /\ phase' = [phase EXCEPT ![m] = "login"] /\ turns' = Tail(turns)
      /\ job' = [job EXCEPT ![m] = NoJob]
      /\ lc' = lc \/ lc' = [lc EXCEPT !.hash = <<m, conns[m]>>]
  BY DEF Sent, Goto, Challenge
<1>2. /\ turns \in Seq(Mappings) /\ turns # <<>> /\ turns[1] = m
      /\ lc \in Handlers /\ phase \in [Mappings -> Phases]
  BY <1>0, <1>1 DEF Typed, TurnInv
<1>3. /\ turns' \in Seq(Mappings) /\ Len(turns') = Len(turns) - 1
      /\ \A k \in 1..Len(turns') : k + 1 \in 2..Len(turns) /\ turns'[k] = turns[k + 1]
  BY <1>1, <1>2
<1>4. \A k \in 2..Len(turns) : turns[k] \in Mappings \ {m}
  <2>1. \A k \in 1..Len(turns) : turns[k] \in Mappings
    BY <1>2, ElementOfSeq
  <2>2. 1 \in 1..Len(turns)
    BY <1>2
  <2> QED BY <1>0, <1>2, <2>1, <2>2 DEF TurnInv
<1>5. /\ phase'[m] = "login" /\ \A n \in Mappings \ {m} : Same(n)
  BY <1>0, <1>1 DEF Typed, Same
<1>6. \A n \in Mappings : phase'[n] \notin {"lookup", "send"}
  BY <1>0, <1>2, <1>5 DEF TurnInv, Same
<1>7. TurnInv'
  <2>1. \A j, k \in 1..Len(turns') : turns'[j] = turns'[k] => j = k
    BY <1>0, <1>2, <1>3 DEF TurnInv
  <2>2. \A k \in 1..Len(turns') : phase'[turns'[k]] \in {"turn", "lookup", "send"}
    BY <1>0, <1>3, <1>4, <1>5 DEF TurnInv, Same
  <2> QED BY <1>6, <2>1, <2>2 DEF TurnInv
<1>8. HandlerInv'
  BY <1>6 DEF HandlerInv
<1>9. lc' \in Handlers
  <2>1. <<m, conns[m]>> \in Mappings \X Nat
    BY <1>0, HandlerFilled
  <2>2. CASE lc' = lc
    BY <1>2, <2>2
  <2>3. CASE lc' = [lc EXCEPT !.hash = <<m, conns[m]>>]
    BY <1>2, <2>1, <2>3 DEF Handlers
  <2> QED BY <1>1, <2>2, <2>3
<1>10. Typed'
  BY <1>0, <1>1, <1>3, <1>9, CommandFacts DEF Typed, Phases
<1>11. MapInv(m)'
  <2>1. OwnOf(m)' /\ KeptOf(m)'
    BY <1>0, <1>1 DEF MapInv, OwnOf, KeptOf
  <2>2. FreshOf(m)' /\ JobOf(m)'
    BY <1>5 DEF FreshOf, JobOf
  <2> QED BY <2>1, <2>2 DEF MapInv
<1>12. \A n \in Mappings : MapInv(n)'
  BY <1>5, <1>11, OthersKept
<1> QED BY <1>7, <1>8, <1>10, <1>12 DEF IInv

-----------------------------------------------------------------------------
LEMMA StutterStep ==
  ASSUME IInv, UNCHANGED vars
  PROVE  IInv'
<1>1. UNCHANGED <<phase, conns, hash, pending, job, ui, turns, lc, logins, taken>>
  BY DEF vars
<1>2. Typed' /\ TurnInv' /\ HandlerInv'
  BY <1>1 DEF IInv, Typed, TurnInv, HandlerInv
<1>3. \A m \in Mappings : MapInv(m)'
  <2>1. \A m \in Mappings : Same(m)
    BY <1>1 DEF Same
  <2> QED BY <2>1, SameKept DEF IInv
<1> QED BY <1>2, <1>3 DEF IInv

LEMMA StepInv == IInv /\ [Next]_vars => IInv'
<1> SUFFICES ASSUME IInv, [Next]_vars PROVE IInv'
  OBVIOUS
<1>1. CASE Continue \/ \E p \in Passwords : Type(p)
  BY <1>1, UserStep
<1>2. ASSUME NEW m \in Mappings,
             \/ Start(m) \/ Started(m) \/ Confirm(m) \/ AcceptIgnores(m) \/ End(m)
             \/ HashArrives(m) \/ LoginTyped(m) \/ LoginIgnores(m) \/ PasswordRefused(m) \/ TurnStep(m)
      PROVE  IInv'
  <2>1. CASE Start(m) \/ Started(m) \/ Confirm(m) \/ AcceptIgnores(m) \/ End(m) \/ LoginIgnores(m)
    BY <2>1, ConnectionStep
  <2>2. CASE HashArrives(m)
    BY <2>2, HashArrivesStep
  <2>3. CASE LoginTyped(m)
    BY <2>3, LoginTypedStep
  <2>4. CASE PasswordRefused(m)
    BY <2>4, RefusedStep
  <2>5. CASE TurnStep(m)
    BY <2>5, FillStep, LookedUpStep, LoginFromUiStep, SentStep DEF TurnStep
  <2> QED BY <1>2, <2>1, <2>2, <2>3, <2>4, <2>5
<1>3. CASE UNCHANGED vars
  BY <1>3, StutterStep
<1> QED BY <1>1, <1>2, <1>3 DEF Next

THEOREM LoginInvariant == Spec => []IInv
<1> QED BY InitInv, StepInv, PTL DEF Spec

(* Whatever the other mappings of the window do between two awaits of a    *)
(* login, the message it sends names its own target, asks for the tunnel   *)
(* exactly if its mapping probes, and answers the challenge of its present *)
(* connection: for any number of mappings, connections and passwords.      *)
THEOREM LoginsAreOwn == Spec => []OwnLogin
<1>1. IInv => OwnLogin
  BY PartsSuffice
<1> QED BY <1>1, LoginInvariant, PTL

(* Once a login loop has read a typed password it never logs in without    *)
(* one: hash_arrived uses up what was typed before the Hash, and what is   *)
(* typed later answers with the Hash in hand.                              *)
THEOREM TypedIsNotLost == Spec => []TypedAnswersHash
<1>1. IInv => TypedAnswersHash
  BY PartsSuffice
<1> QED BY <1>1, LoginInvariant, PTL
=============================================================================
