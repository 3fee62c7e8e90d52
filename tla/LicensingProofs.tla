-------------------------- MODULE LicensingProofs ---------------------------
(***************************************************************************)
(* Seats, challenges and tokens for any number of licenses, keys and       *)
(* operators' choices.  OneShot rests on a nonce's row being the only one  *)
(* with it and not yet honoured; TokenWithinLicense on a token's license   *)
(* having been issued, so that issuing never shortens a license somebody   *)
(* holds a token of; SeatLimit on the active devices being finitely many.  *)
(***************************************************************************)
EXTENDS Licensing, FiniteSetTheorems, TLAPS

Rows == [seats : Nat, code : Nat, expires_at : Nat, revoked : BOOLEAN]

Typed ==
    /\ clock \in Nat
    /\ licenses \in [Licenses -> Rows]
    /\ devices \in [Licenses -> [KeyIds -> {"none", "active", "revoked"}]]
    /\ \A c \in challenges : c.nonce \in drawn /\ c.key \in KeyIds
    /\ drawn \subseteq Nonces /\ honoured \in [Nonces -> Nat]

\* A nonce has one row at most, and none once it was honoured.
Unspent ==
    /\ \A c, d \in challenges : c.nonce = d.nonce => c = d
    /\ \A c \in challenges : honoured[c.nonce] = 0
    /\ \A n \in Nonces : n \notin drawn => honoured[n] = 0

TokensTyped ==
    \A t \in tokens : t.license \in Licenses /\ Issued(t.license) /\ t.iat \in Nat /\ t.exp \in Nat

Seated == \A l \in Licenses : IsFiniteSet(Active(l))

IInv == Typed /\ Unspent /\ OneShot /\ TokensTyped /\ TokenWithinLicense /\ Seated /\ SeatLimit

-----------------------------------------------------------------------------
LEMMA LesserIsLess ==
    ASSUME NEW a \in Nat, NEW b \in Nat
    PROVE  Lesser(a, b) \in Nat /\ Lesser(a, b) <= a /\ Lesser(a, b) <= b
BY DEF Lesser

LEMMA GreaterIsGreater ==
    ASSUME NEW a \in Nat, NEW b \in Nat
    PROVE  Greater(a, b) \in Nat /\ Greater(a, b) >= a /\ Greater(a, b) >= b
BY DEF Greater

\* The seats taken, when the devices stay as they are and no license shrinks.
LEMMA SeatsKept ==
    ASSUME IInv, UNCHANGED devices,
           \A l \in Licenses : licenses'[l].seats \in Nat /\ licenses'[l].seats >= licenses[l].seats
    PROVE  (Seated /\ SeatLimit)'
<1>1. \A l \in Licenses : Active(l)' = Active(l) BY DEF Active
<1>2. Seated' BY <1>1 DEF IInv, Seated
<1>3. ASSUME NEW l \in Licenses PROVE Cardinality(Active(l)') <= licenses'[l].seats
  <2>1. Cardinality(Active(l)) \in Nat BY FS_CardinalityType DEF IInv, Seated
  <2>2. licenses[l].seats \in Nat BY DEF IInv, Typed, Rows
  <2>3. Cardinality(Active(l)) <= licenses[l].seats BY DEF IInv, SeatLimit
  <2> QED BY <1>1, <2>1, <2>2, <2>3
<1> QED BY <1>2, <1>3 DEF SeatLimit

\* One more device where there is a seat left.
LEMMA SeatTaken ==
    ASSUME IInv, UNCHANGED licenses, NEW l \in Licenses, NEW k \in KeyIds, TakeSeat(l, k)
    PROVE  (Seated /\ SeatLimit)'
<1>1. CASE UNCHANGED devices
  BY <1>1, SeatsKept DEF IInv, Typed, Rows
<1>2. CASE /\ devices[l][k] = "none" /\ Cardinality(Active(l)) < licenses[l].seats
           /\ devices' = [devices EXCEPT ![l][k] = "active"]
  <2>1. Active(l)' = Active(l) \cup {k} BY <1>2 DEF Active, IInv, Typed
  <2>2. \A m \in Licenses \ {l} : Active(m)' = Active(m) BY <1>2 DEF Active, IInv, Typed
  <2>3. k \notin Active(l) BY <1>2 DEF Active
  <2>4. IsFiniteSet(Active(l)) BY DEF IInv, Seated
  <2>5. IsFiniteSet(Active(l)') /\ Cardinality(Active(l)') = Cardinality(Active(l)) + 1
    BY <2>1, <2>3, <2>4, FS_AddElement
  <2>6. Cardinality(Active(l)) \in Nat BY <2>4, FS_CardinalityType
  <2>7. licenses[l].seats \in Nat BY DEF IInv, Typed, Rows
  <2>8. Cardinality(Active(l)') <= licenses'[l].seats BY <1>2, <2>5, <2>6, <2>7
  <2> QED BY <2>2, <2>5, <2>8 DEF IInv, Seated, SeatLimit
<1> QED BY <1>1, <1>2 DEF TakeSeat

\* A device released gives its seat back.
LEMMA SeatReleased ==
    ASSUME IInv, UNCHANGED licenses, NEW l \in Licenses, NEW k \in KeyIds,
           devices' = [devices EXCEPT ![l][k] = "revoked"]
    PROVE  (Seated /\ SeatLimit)'
<1>1. ASSUME NEW m \in Licenses
      PROVE  IsFiniteSet(Active(m)') /\ Cardinality(Active(m)') <= licenses'[m].seats
  <2>1. Active(m)' \subseteq Active(m) BY DEF Active, IInv, Typed
  <2>2. IsFiniteSet(Active(m)) BY DEF IInv, Seated
  <2>3. IsFiniteSet(Active(m)') /\ Cardinality(Active(m)') <= Cardinality(Active(m))
    BY <2>1, <2>2, FS_Subset
  <2>4. Cardinality(Active(m)) \in Nat /\ Cardinality(Active(m)') \in Nat
    BY <2>2, <2>3, FS_CardinalityType
  <2>5. licenses[m].seats \in Nat /\ Cardinality(Active(m)) <= licenses[m].seats
    BY DEF IInv, Typed, Rows, SeatLimit
  <2> QED BY <2>3, <2>4, <2>5
<1> QED BY <1>1 DEF Seated, SeatLimit

\* Spending a challenge.
LEMMA Spent ==
    ASSUME IInv, NEW c \in challenges, NEW op, NEW b, Consume(c, op, b), UNCHANGED drawn
    PROVE  /\ (Unspent /\ OneShot)'
           /\ honoured' \in [Nonces -> Nat]
           /\ \A d \in challenges' : d.nonce \in drawn' /\ d.key \in KeyIds
<1>1. c.nonce \in Nonces /\ honoured[c.nonce] = 0 BY DEF IInv, Typed, Unspent
<1>2. challenges' = challenges \ {c} BY DEF Consume
<1>3. honoured' = [honoured EXCEPT ![c.nonce] = 1]
  BY <1>1 DEF Consume, IInv, Typed
<1>4. honoured' \in [Nonces -> Nat] BY <1>1, <1>3 DEF IInv, Typed
<1>5. OneShot' BY <1>1, <1>3 DEF IInv, Typed, OneShot
<1>6. Unspent'
  <2>1. \A d \in challenges' : d.nonce # c.nonce /\ d.nonce \in Nonces /\ honoured[d.nonce] = 0
    BY <1>2 DEF IInv, Typed, Unspent
  <2>2. \A d \in challenges' : honoured'[d.nonce] = 0 BY <1>3, <2>1 DEF IInv, Typed
  <2>3. \A n \in Nonces : n \notin drawn' => honoured'[n] = 0
    BY <1>3 DEF IInv, Typed, Unspent
  <2> QED BY <1>2, <2>2, <2>3 DEF IInv, Unspent
<1>7. \A d \in challenges' : d.nonce \in drawn' /\ d.key \in KeyIds BY <1>2 DEF IInv, Typed
<1> QED BY <1>4, <1>5, <1>6, <1>7

\* A new token.
LEMMA Minted ==
    ASSUME IInv, NEW l \in Licenses, NEW k \in KeyIds, NEW at \in Nat, Issued(l),
           Mint(l, k, at), UNCHANGED licenses
    PROVE  (TokensTyped /\ TokenWithinLicense)'
<1> DEFINE e == licenses[l].expires_at
           t == Token(l, k, at, Lesser(at + TOKEN_TTL, e))
<1>1. e \in Nat BY DEF IInv, Typed, Rows
<1>2. Lesser(at + TOKEN_TTL, e) \in Nat /\ Lesser(at + TOKEN_TTL, e) <= e
      /\ Lesser(at + TOKEN_TTL, e) <= at + TOKEN_TTL
  <2>1. at + TOKEN_TTL \in Nat BY LicensingAssumption
  <2> QED BY <1>1, <2>1, LesserIsLess
<1>3. t.license = l /\ t.iat = at /\ t.exp = Lesser(at + TOKEN_TTL, e)
  BY DEF Token, Binding
<1>4. tokens' = tokens \cup {t} BY DEF Mint
<1>5. TokensTyped' BY <1>2, <1>3, <1>4 DEF IInv, TokensTyped, Issued
<1>6. TokenWithinLicense' BY <1>2, <1>3, <1>4 DEF IInv, TokenWithinLicense
<1> QED BY <1>5, <1>6

\* The tokens, when none is added and no license ends sooner than before.
LEMMA TokensKept ==
    ASSUME IInv, tokens' = tokens,
           \A l \in Licenses : Issued(l) => /\ Issued(l)'
                                            /\ licenses'[l].expires_at \in Nat
                                            /\ licenses'[l].expires_at >= licenses[l].expires_at
    PROVE  (TokensTyped /\ TokenWithinLicense)'
<1>1. TokensTyped' BY DEF IInv, TokensTyped
<1>2. ASSUME NEW t \in tokens
      PROVE  t.exp <= licenses'[t.license].expires_at /\ t.exp <= t.iat + TOKEN_TTL
  <2>1. t.license \in Licenses /\ Issued(t.license) /\ t.exp \in Nat
    BY DEF IInv, TokensTyped
  <2>2. licenses[t.license].expires_at \in Nat BY <2>1 DEF IInv, Typed, Rows
  <2>3. t.exp <= licenses[t.license].expires_at /\ t.exp <= t.iat + TOKEN_TTL
    BY DEF IInv, TokenWithinLicense
  <2> QED BY <2>1, <2>2, <2>3
<1> QED BY <1>1, <1>2 DEF TokenWithinLicense

-----------------------------------------------------------------------------
\* The operator's commands touch neither challenges nor tokens.
LEMMA ChallengesKept ==
    ASSUME IInv, UNCHANGED <<challenges, drawn, honoured>>
    PROVE  /\ (Unspent /\ OneShot)'
           /\ honoured' \in [Nonces -> Nat] /\ drawn' \subseteq Nonces
           /\ \A d \in challenges' : d.nonce \in drawn' /\ d.key \in KeyIds
BY DEF IInv, Typed, Unspent, OneShot

LEMMA OperatorStep ==
    ASSUME IInv, Operator
    PROVE  IInv'
<1> USE LicensingAssumption
<1> PICK l \in Licenses :
         \/ \E seats \in Seats, days \in Terms : Issue(l, seats, days)
         \/ \E days \in Terms : Extend(l, days)
         \/ Revoke(l) \/ RotateCode(l)
         \/ \E k \in KeyIds : ReleaseDevice(l, k)
  BY DEF Operator
<1>1. licenses[l] \in Rows /\ clock \in Nat BY DEF IInv, Typed
<1>2. ASSUME NEW seats \in Seats, NEW days \in Terms, Issue(l, seats, days) PROVE IInv'
  <2> DEFINE row == [seats |-> seats, code |-> 0, expires_at |-> clock + days, revoked |-> FALSE]
  <2>1. licenses' = [licenses EXCEPT ![l] = row] BY <1>2 DEF Issue
  <2>2. row \in Rows BY <1>1 DEF Rows
  <2>3. licenses' \in [Licenses -> Rows] BY <2>1, <2>2 DEF IInv, Typed
  <2>4. UNCHANGED <<clock, devices, challenges, drawn, honoured, tokens>>
    BY <1>2 DEF Issue, OperatorLeaves
  <2>5. licenses[l].seats = 0 BY <1>1, <1>2 DEF Issue, Issued, Rows
  <2>6. \A m \in Licenses : licenses'[m].seats \in Nat /\ licenses'[m].seats >= licenses[m].seats
    BY <2>1, <2>3, <2>5 DEF IInv, Typed, Rows
  <2>7. (Seated /\ SeatLimit)' BY <2>4, <2>6, SeatsKept
  <2>8. \A m \in Licenses : Issued(m) => /\ Issued(m)' /\ licenses'[m].expires_at \in Nat
                                         /\ licenses'[m].expires_at >= licenses[m].expires_at
    BY <1>2, <2>1 DEF Issue, Issued, IInv, Typed, Rows
  <2>9. (TokensTyped /\ TokenWithinLicense)' BY <2>4, <2>8, TokensKept
  <2> QED BY <2>3, <2>4, <2>7, <2>9, ChallengesKept DEF IInv, Typed
<1>3. ASSUME NEW days \in Terms, Extend(l, days) PROVE IInv'
  <2> DEFINE expiry == Greater(clock, licenses[l].expires_at) + days
  <2>1. licenses' = [licenses EXCEPT ![l].expires_at = expiry] BY <1>3 DEF Extend
  <2>2. expiry \in Nat /\ expiry >= licenses[l].expires_at
    <3>1. licenses[l].expires_at \in Nat BY <1>1 DEF Rows
    <3>2. /\ Greater(clock, licenses[l].expires_at) \in Nat
          /\ Greater(clock, licenses[l].expires_at) >= licenses[l].expires_at
      BY <1>1, <3>1, GreaterIsGreater
    <3>3. days \in Nat BY LicensingAssumption
    <3> QED BY <3>1, <3>2, <3>3
  <2>3. licenses' \in [Licenses -> Rows] BY <2>1, <2>2 DEF IInv, Typed, Rows
  <2>4. UNCHANGED <<clock, devices, challenges, drawn, honoured, tokens>>
    BY <1>3 DEF Extend, OperatorLeaves
  <2>5. \A m \in Licenses : licenses'[m].seats = licenses[m].seats /\ licenses[m].seats \in Nat
    BY <2>1 DEF IInv, Typed, Rows
  <2>6. (Seated /\ SeatLimit)' BY <2>4, <2>5, SeatsKept
  <2>7. \A m \in Licenses : /\ licenses'[m].expires_at \in Nat
                           /\ licenses'[m].expires_at >= licenses[m].expires_at
    BY <2>1, <2>2 DEF IInv, Typed, Rows
  <2>8. (TokensTyped /\ TokenWithinLicense)' BY <2>4, <2>5, <2>7, TokensKept DEF Issued
  <2> QED BY <2>3, <2>4, <2>6, <2>8, ChallengesKept DEF IInv, Typed
<1>4. CASE Revoke(l) \/ RotateCode(l)
  <2>1. licenses' \in [Licenses -> Rows]
    <3>1. licenses[l].code + 1 \in Nat BY <1>1 DEF Rows
    <3>2. CASE licenses' = [licenses EXCEPT ![l].revoked = TRUE]
      BY <1>1, <3>2 DEF IInv, Typed, Rows
    <3>3. CASE licenses' = [licenses EXCEPT ![l].code = @ + 1]
      BY <1>1, <3>1, <3>3 DEF IInv, Typed, Rows
    <3> QED BY <1>4, <3>2, <3>3 DEF Revoke, RotateCode
  <2>2. UNCHANGED <<clock, devices, challenges, drawn, honoured, tokens>>
    BY <1>4 DEF Revoke, RotateCode, OperatorLeaves
  <2>3. \A m \in Licenses : /\ licenses'[m].seats = licenses[m].seats /\ licenses[m].seats \in Nat
                           /\ licenses'[m].expires_at = licenses[m].expires_at
                           /\ licenses[m].expires_at \in Nat
    <3>1. CASE licenses' = [licenses EXCEPT ![l].revoked = TRUE] BY <3>1 DEF IInv, Typed, Rows
    <3>2. CASE licenses' = [licenses EXCEPT ![l].code = @ + 1] BY <3>2 DEF IInv, Typed, Rows
    <3> QED BY <1>4, <3>1, <3>2 DEF Revoke, RotateCode
  <2>4. (Seated /\ SeatLimit)' BY <2>2, <2>3, SeatsKept
  <2>5. (TokensTyped /\ TokenWithinLicense)' BY <2>2, <2>3, TokensKept DEF Issued
  <2> QED BY <2>1, <2>2, <2>4, <2>5, ChallengesKept DEF IInv, Typed
<1>5. ASSUME NEW k \in KeyIds, ReleaseDevice(l, k) PROVE IInv'
  <2>1. /\ UNCHANGED <<clock, licenses, challenges, drawn, honoured, tokens>>
        /\ devices' = [devices EXCEPT ![l][k] = "revoked"]
    BY <1>5 DEF ReleaseDevice, OperatorLeaves
  <2>2. devices' \in [Licenses -> [KeyIds -> {"none", "active", "revoked"}]]
    BY <2>1 DEF IInv, Typed
  <2>3. (Seated /\ SeatLimit)' BY <2>1, SeatReleased
  <2>4. (TokensTyped /\ TokenWithinLicense)' BY <2>1, TokensKept DEF Issued, IInv, Typed, Rows
  <2> QED BY <2>1, <2>2, <2>3, <2>4, ChallengesKept DEF IInv, Typed
<1> QED BY <1>2, <1>3, <1>4, <1>5

LEMMA ChallengeStep ==
    ASSUME IInv, NEW k \in KeyIds, NEW op, NEW b, NEW n \in Nonces, NEW read \in Nat,
           Challenge(k, op, b, n, read)
    PROVE  IInv'
<1> DEFINE row == [nonce |-> n, key |-> k, operation |-> op, binding |-> b,
                   expires_at |-> read + CHALLENGE_TTL]
<1>1. /\ n \notin drawn /\ drawn' = drawn \cup {n}
      /\ challenges' = {c \in challenges : c.expires_at > read} \cup {row}
      /\ UNCHANGED <<clock, licenses, devices, honoured, tokens>>
  BY DEF Challenge
<1>2. row.nonce = n /\ row.key = k OBVIOUS
<1>3. \A c \in challenges' : c = row \/ (c \in challenges /\ c.nonce # n)
  BY <1>1 DEF IInv, Typed
<1>4. Typed' BY <1>1, <1>2, <1>3 DEF IInv, Typed
<1>5. Unspent'
  <2>1. honoured[n] = 0 BY <1>1 DEF IInv, Unspent
  <2> QED BY <1>1, <1>2, <1>3, <2>1 DEF IInv, Unspent
<1>6. OneShot' BY <1>1 DEF IInv, OneShot
<1>7. (Seated /\ SeatLimit)' BY <1>1, SeatsKept DEF IInv, Typed, Rows
<1>8. (TokensTyped /\ TokenWithinLicense)' BY <1>1, TokensKept DEF Issued, IInv, Typed, Rows
<1> QED BY <1>4, <1>5, <1>6, <1>7, <1>8 DEF IInv

LEMMA MintStep ==
    ASSUME IInv, NEW l \in Licenses, NEW c \in challenges, NEW at \in Nat,
           Activate(l, c, at) \/ Refresh(l, c, at)
    PROVE  IInv'
<1>1. c.key \in KeyIds BY DEF IInv, Typed
<1>2. UNCHANGED <<licenses, drawn>> /\ clock' = at /\ Issued(l) /\ Mint(l, c.key, at)
  BY DEF Activate, Refresh, License, Later
<1>3. /\ (Unspent /\ OneShot)' /\ honoured' \in [Nonces -> Nat]
      /\ \A d \in challenges' : d.nonce \in drawn' /\ d.key \in KeyIds
  BY <1>2, Spent DEF Activate, Refresh
<1>4. (TokensTyped /\ TokenWithinLicense)' BY <1>1, <1>2, Minted
<1>5. /\ devices' \in [Licenses -> [KeyIds -> {"none", "active", "revoked"}]]
      /\ (Seated /\ SeatLimit)'
  <2>1. CASE Activate(l, c, at)
    <3>1. TakeSeat(l, c.key) BY <2>1 DEF Activate
    <3>2. devices' \in [Licenses -> [KeyIds -> {"none", "active", "revoked"}]]
      <4>1. CASE UNCHANGED devices BY <4>1 DEF IInv, Typed
      <4>2. CASE devices' = [devices EXCEPT ![l][c.key] = "active"] BY <1>1, <4>2 DEF IInv, Typed
      <4> QED BY <3>1, <4>1, <4>2 DEF TakeSeat
    <3> QED BY <1>1, <1>2, <3>1, <3>2, SeatTaken
  <2>2. CASE Refresh(l, c, at)
    <3>1. UNCHANGED devices BY <2>2 DEF Refresh
    <3> QED BY <1>2, <3>1, SeatsKept DEF IInv, Typed, Rows
  <2> QED BY <2>1, <2>2
<1> QED BY <1>2, <1>3, <1>4, <1>5 DEF IInv, Typed

LEMMA ReadStep ==
    ASSUME IInv, \/ \E t \in tokens : VerifyToken(t)
                 \/ \E t \in verified : Refused(t) \/ \E c \in challenges : Devices(t, c)
    PROVE  IInv'
<1>1. UNCHANGED <<clock, licenses, devices, drawn, tokens>> BY DEF VerifyToken, Refused, Devices
<1>2. /\ (Unspent /\ OneShot)' /\ honoured' \in [Nonces -> Nat]
      /\ \A d \in challenges' : d.nonce \in drawn' /\ d.key \in KeyIds
  <2>1. ASSUME NEW t \in verified, NEW c \in challenges, Devices(t, c)
        PROVE  <1>2
    BY <1>1, <2>1, Spent DEF Devices
  <2>2. CASE UNCHANGED <<challenges, honoured>> BY <1>1, <2>2, ChallengesKept
  <2> QED BY <2>1, <2>2 DEF VerifyToken, Refused
<1>3. (Seated /\ SeatLimit)' BY <1>1, SeatsKept DEF IInv, Typed, Rows
<1>4. (TokensTyped /\ TokenWithinLicense)' BY <1>1, TokensKept DEF Issued, IInv, Typed, Rows
<1> QED BY <1>1, <1>2, <1>3, <1>4 DEF IInv, Typed

LEMMA InitIInv == Init => IInv
<1> SUFFICES ASSUME Init PROVE IInv OBVIOUS
<1>1. Typed BY DEF Init, Typed, Rows
<1>2. Unspent /\ OneShot BY DEF Init, Unspent, OneShot
<1>3. TokensTyped /\ TokenWithinLicense BY DEF Init, TokensTyped, TokenWithinLicense
<1>4. \A l \in Licenses : Active(l) = {} /\ licenses[l].seats = 0 BY DEF Init, Active
<1>5. Seated BY <1>4, FS_EmptySet DEF Seated
<1>6. SeatLimit
  <2>1. Cardinality({}) = 0 BY FS_EmptySet
  <2> QED BY <1>4, <2>1 DEF SeatLimit
<1> QED BY <1>1, <1>2, <1>3, <1>5, <1>6 DEF IInv

LEMMA NextIInv == IInv /\ [Next]_vars => IInv'
<1> SUFFICES ASSUME IInv, [Next]_vars PROVE IInv' OBVIOUS
<1>1. CASE Tick \/ UNCHANGED vars
  <2>1. UNCHANGED <<licenses, devices, challenges, drawn, honoured, tokens>> /\ clock' \in Nat
    BY <1>1 DEF Tick, vars, IInv, Typed
  <2>2. (Seated /\ SeatLimit)' BY <2>1, SeatsKept DEF IInv, Typed, Rows
  <2>3. (TokensTyped /\ TokenWithinLicense)' BY <2>1, TokensKept DEF Issued, IInv, Typed, Rows
  <2> QED BY <2>1, <2>2, <2>3, ChallengesKept DEF IInv, Typed
<1>2. CASE Operator BY <1>2, OperatorStep
<1>3. CASE Client
  <2>1. ASSUME NEW k \in KeyIds, NEW n \in Nonces,
               NEW read \in {t \in 0 .. clock : t + LockWait >= clock}, NEW ask \in Asks(k),
               Challenge(k, ask.op, ask.binding, n, read)
        PROVE  IInv'
    BY <2>1, ChallengeStep
  <2>2. ASSUME NEW l \in Licenses, NEW c \in challenges, NEW at \in 0 .. MaxTime,
               Activate(l, c, at) \/ Refresh(l, c, at)
        PROVE  IInv'
    BY <2>2, MintStep
  <2> QED BY <1>3, <2>1, <2>2, ReadStep DEF Client
<1> QED BY <1>1, <1>2, <1>3 DEF Next

-----------------------------------------------------------------------------
\* The inductive invariant of the licensing service.
THEOREM LicensingInvariant == Spec => []IInv
BY InitIInv, NextIInv, PTL DEF Spec

\* No license ever has more active devices than seats, for any number of
\* licenses, keys and concurrent activations.
THEOREM SeatsNeverOversold == Spec => []SeatLimit
<1>1. IInv => SeatLimit BY DEF IInv
<1> QED BY <1>1, LicensingInvariant, PTL

\* A challenge authorizes one operation at most.
THEOREM NoReplay == Spec => []OneShot
<1>1. IInv => OneShot BY DEF IInv
<1> QED BY <1>1, LicensingInvariant, PTL

\* No token outlives its license or its own term.
THEOREM TokensEndInTime == Spec => []TokenWithinLicense
<1>1. IInv => TokenWithinLicense BY DEF IInv
<1> QED BY <1>1, LicensingInvariant, PTL

-----------------------------------------------------------------------------
\* The action properties.  Only Activate enrols a device, only it and Refresh
\* mint a token, and only Devices serves an inventory.
Minting(l, c, at) == Activate(l, c, at) \/ Refresh(l, c, at)

LEMMA WhoActs ==
    ASSUME IInv, [Next]_vars
    PROVE  \/ \E l \in Licenses, c \in challenges, at \in Nat : Minting(l, c, at)
           \/ \E t \in verified, c \in challenges : Devices(t, c)
           \/ /\ UNCHANGED <<tokens, inventory>>
              /\ \A l \in Licenses, k \in KeyIds : devices'[l][k] = "active" => devices[l][k] = "active"
<1>1. CASE Operator
  <2>1. UNCHANGED <<tokens, inventory>>
    BY <1>1 DEF Operator, Issue, Extend, Revoke, RotateCode, ReleaseDevice, OperatorLeaves
  <2>2. CASE UNCHANGED devices BY <2>1, <2>2
  <2>3. ASSUME NEW m \in Licenses, NEW j \in KeyIds, ReleaseDevice(m, j)
        PROVE  \A l \in Licenses, k \in KeyIds :
                 devices'[l][k] = "active" => devices[l][k] = "active"
    BY <2>3 DEF ReleaseDevice, IInv, Typed
  <2> QED BY <1>1, <2>1, <2>2, <2>3 DEF Operator, Issue, Extend, Revoke, RotateCode
<1>2. CASE Tick \/ UNCHANGED vars BY <1>2 DEF Tick, vars
<1>3. CASE Client
  <2>1. CASE \E l \in Licenses, c \in challenges, at \in 0 .. MaxTime :
               Activate(l, c, at) \/ Refresh(l, c, at)
    BY <2>1, LicensingAssumption DEF Minting
  <2>2. CASE \E t \in verified : Refused(t) \/ \E c \in challenges : Devices(t, c)
    BY <2>2 DEF Refused
  <2>3. CASE \E t \in tokens : VerifyToken(t) BY <2>3 DEF VerifyToken
  <2> QED BY <1>3, <2>1, <2>2, <2>3 DEF Client, Challenge
<1> QED BY <1>1, <1>2, <1>3 DEF Next

\* A device is enrolled only by a challenge that its own key drew for the
\* license's present code.
THEOREM OnlyProvedEnrol == Spec => EnrolmentProved
<1> DEFINE A == \A l \in Licenses, k \in KeyIds :
                  devices[l][k] # "active" /\ devices'[l][k] = "active"
                    => \E c \in challenges \ challenges' :
                         /\ c.key = k /\ c.operation = "activate"
                         /\ c.binding = Code(l, licenses[l].code)
<1>1. ASSUME IInv, [Next]_vars PROVE A
  <2>1. ASSUME NEW l \in Licenses, NEW c \in challenges, NEW at \in Nat, Minting(l, c, at)
        PROVE  A
    <3>1. CASE UNCHANGED devices BY <3>1
    <3>2. CASE Activate(l, c, at) /\ devices' = [devices EXCEPT ![l][c.key] = "active"]
      <4>1. c.key \in KeyIds BY <1>1 DEF IInv, Typed
      <4>2. /\ c \in challenges \ challenges' /\ c.operation = "activate"
            /\ c.binding = Code(l, licenses[l].code)
        BY <3>2 DEF Activate, Consume
      <4>3. \A m \in Licenses, k \in KeyIds :
              devices[m][k] # "active" /\ devices'[m][k] = "active" => m = l /\ k = c.key
        BY <1>1, <3>2, <4>1 DEF IInv, Typed
      <4> QED BY <4>2, <4>3
    <3> QED BY <2>1, <3>1, <3>2 DEF Minting, Activate, Refresh, TakeSeat
  <2>2. ASSUME NEW t \in verified, NEW c \in challenges, Devices(t, c) PROVE A
    BY <2>2 DEF Devices
  <2> QED BY <1>1, <2>1, <2>2, WhoActs
<1> QED BY <1>1, LicensingInvariant, PTL DEF Spec, EnrolmentProved

\* A license that has ended and a device that was released get nothing more.
THEOREM TheRefusedStayRefused == Spec => RefusedGetsNothing
<1> DEFINE Barred(l, k) ==
             licenses[l].revoked \/ licenses[l].expires_at <= clock \/ devices[l][k] = "revoked"
           A == \A l \in Licenses, k \in KeyIds :
                  Barred(l, k)
                    => /\ \A t \in tokens' \ tokens : ~(t.license = l /\ t.key = k)
                       /\ inventory' # inventory => ~(inventory'.license = l /\ inventory'.key = k)
                       /\ devices[l][k] # "active" => devices'[l][k] # "active"
<1>1. ASSUME IInv, [Next]_vars PROVE A
  <2>1. ASSUME NEW m \in Licenses, NEW c \in challenges, NEW at \in Nat, Minting(m, c, at)
        PROVE  A
    <3>1. c.key \in KeyIds BY <1>1 DEF IInv, Typed
    <3>2. License(m) /\ devices[m][c.key] # "revoked"
      BY <2>1 DEF Minting, Activate, Refresh, TakeSeat
    <3>3. ~Barred(m, c.key)
      BY <1>1, <3>2 DEF License, IInv, Typed, Rows
    <3>4. UNCHANGED inventory /\ Mint(m, c.key, at) BY <2>1 DEF Minting, Activate, Refresh
    <3>5. \A t \in tokens' \ tokens : t.license = m /\ t.key = c.key
      BY <3>4 DEF Mint, Token, Binding
    <3>6. \A l \in Licenses, k \in KeyIds :
            devices[l][k] # "active" /\ devices'[l][k] = "active" => License(l) /\ devices[l][k] # "revoked"
      <4>1. CASE UNCHANGED devices BY <4>1
      <4>2. CASE devices' = [devices EXCEPT ![m][c.key] = "active"]
        BY <1>1, <3>1, <3>2, <4>2 DEF IInv, Typed
      <4> QED BY <2>1, <4>1, <4>2 DEF Minting, Activate, Refresh, TakeSeat
    <3>7. \A l \in Licenses, k \in KeyIds :
            License(l) /\ devices[l][k] # "revoked" => ~Barred(l, k)
      BY <1>1 DEF License, IInv, Typed, Rows
    <3> QED BY <3>3, <3>4, <3>5, <3>6, <3>7
  <2>2. ASSUME NEW t \in verified, NEW c \in challenges, Devices(t, c) PROVE A
    <3>1. /\ UNCHANGED <<tokens, devices>> /\ License(t.license)
          /\ devices[t.license][t.key] = "active"
          /\ inventory'.license = t.license /\ inventory'.key = t.key
      BY <2>2 DEF Devices
    <3>2. \A l \in Licenses, k \in KeyIds :
            License(l) /\ devices[l][k] = "active" => ~Barred(l, k)
      BY <1>1 DEF License, IInv, Typed, Rows
    <3> QED BY <3>1, <3>2
  <2>3. CASE /\ UNCHANGED <<tokens, inventory>>
             /\ \A l \in Licenses, k \in KeyIds :
                  devices'[l][k] = "active" => devices[l][k] = "active"
    BY <2>3
  <2> QED BY <1>1, <2>1, <2>2, <2>3, WhoActs
<1> QED BY <1>1, LicensingInvariant, PTL DEF Spec, RefusedGetsNothing

-----------------------------------------------------------------------------
\* The operator's journal.  An event names a license that was issued, and only
\* an issued license has devices: so issuing finds no event that it would
\* contradict.
Known ==
    /\ \A i \in 1 .. Len(journal) : Issued(journal[i].license)
    /\ \A l \in Licenses, k \in KeyIds : devices[l][k] # "none" => Issued(l)

JournalInv == journal \in Seq(Events) /\ Known /\ JournalExplains

\* A license ends when the latest term in the journal says.
TermsTold ==
    \A l \in Licenses :
        /\ \A i \in 1 .. Len(journal) :
             journal[i].license = l => journal[i].expires_at <= licenses[l].expires_at
        /\ Issued(l) => \E i \in 1 .. Len(journal) :
             journal[i].license = l /\ journal[i].expires_at = licenses[l].expires_at

Event(action, l, k, expiry) == [action |-> action, license |-> l, key |-> k, expires_at |-> expiry]

\* What an event added to the journal makes true.
LEMMA EventAdded ==
    ASSUME journal \in Seq(Events), NEW ev \in Events, journal' = Append(journal, ev)
    PROVE  /\ journal' \in Seq(Events)
           /\ Len(journal) \in Nat /\ Len(journal') = Len(journal) + 1
           /\ \A i \in 1 .. Len(journal) : journal'[i] = journal[i]
           /\ journal'[Len(journal) + 1] = ev
           /\ \A a, l, k : Journalled(a, l, k)' <=>
                Journalled(a, l, k) \/ (ev.action = a /\ ev.license = l /\ ev.key = k)
<1>1. /\ journal' \in Seq(Events) /\ Len(journal) \in Nat /\ Len(journal') = Len(journal) + 1
      /\ \A i \in 1 .. Len(journal) : journal'[i] = journal[i]
      /\ journal'[Len(journal) + 1] = ev
  OBVIOUS
<1>2. ASSUME NEW a, NEW l, NEW k
      PROVE  Journalled(a, l, k)' <=>
               Journalled(a, l, k) \/ (ev.action = a /\ ev.license = l /\ ev.key = k)
  <2>1. \A i : i \in 1 .. Len(journal') <=> i \in 1 .. Len(journal) \/ i = Len(journal) + 1 BY <1>1
  <2> QED BY <1>1, <2>1 DEF Journalled
<1> QED BY <1>1, <1>2

LEMMA EventFields ==
    ASSUME NEW s \in Seq(Events)
    PROVE  \A i \in 1 .. Len(s) : s[i].expires_at \in Nat /\ s[i].license \in Licenses
<1>1. \A i \in 1 .. Len(s) : s[i] \in Events OBVIOUS
<1> QED BY <1>1 DEF Events

\* Known, when an event is added about a license that is issued.
LEMMA KnownKept ==
    ASSUME JournalInv, NEW ev \in Events, journal' = Append(journal, ev), Issued(ev.license)',
           \A m \in Licenses : Issued(m) => Issued(m)',
           \A m \in Licenses, k \in KeyIds : devices'[m][k] # "none" => devices[m][k] # "none"
    PROVE  Known'
<1>1. /\ journal \in Seq(Events) /\ Len(journal) \in Nat /\ Len(journal') = Len(journal) + 1
      /\ \A i \in 1 .. Len(journal) : journal'[i] = journal[i]
      /\ journal'[Len(journal) + 1] = ev
  BY EventAdded DEF JournalInv
<1>2. \A i \in 1 .. Len(journal) : journal[i].license \in Licenses BY <1>1, EventFields
<1>3. ASSUME NEW i \in 1 .. Len(journal') PROVE licenses'[journal'[i].license].seats > 0
  <2>1. CASE i = Len(journal) + 1 BY <1>1, <2>1 DEF Issued
  <2>2. CASE i \in 1 .. Len(journal)
    <3>1. Issued(journal[i].license) BY <2>2 DEF JournalInv, Known
    <3>2. licenses'[journal[i].license].seats > 0 BY <1>2, <2>2, <3>1 DEF Issued
    <3> QED BY <1>1, <2>2, <3>2
  <2> QED BY <1>1, <2>1, <2>2
<1>4. \A l \in Licenses, k \in KeyIds : devices'[l][k] # "none" => Issued(l)'
  BY DEF JournalInv, Known
<1> QED BY <1>3, <1>4 DEF Known, Issued

\* The terms in the journal, when an event is added and the license it names
\* ends no sooner than it did and than the event says.
LEMMA TermsKept ==
    ASSUME IInv, IInv', JournalInv, NEW ev \in Events, journal' = Append(journal, ev),
           NEW l \in Licenses, ev.license = l,
           \A m \in Licenses \ {l} : licenses'[m] = licenses[m],
           licenses'[l].expires_at >= ev.expires_at,
           Issued(l) => licenses'[l].expires_at >= licenses[l].expires_at,
           \/ licenses'[l].expires_at = ev.expires_at
           \/ Issued(l) /\ licenses'[l].expires_at = licenses[l].expires_at
    PROVE  TermsTold'
<1>1. /\ journal \in Seq(Events) /\ Len(journal) \in Nat /\ Len(journal') = Len(journal) + 1
      /\ \A i \in 1 .. Len(journal) : journal'[i] = journal[i]
      /\ journal'[Len(journal) + 1] = ev
  BY EventAdded DEF JournalInv
<1>2. \A i \in 1 .. Len(journal) : journal[i].expires_at \in Nat /\ journal[i].license \in Licenses
  BY <1>1, EventFields
<1>3. \A m \in Licenses : licenses[m].expires_at \in Nat /\ licenses'[m].expires_at \in Nat
  BY DEF IInv, Typed, Rows
<1>4. ASSUME NEW m \in Licenses, NEW i \in 1 .. Len(journal'), journal'[i].license = m
      PROVE  journal'[i].expires_at <= licenses'[m].expires_at
  <2>1. CASE i = Len(journal) + 1
    <3>1. ev.expires_at \in Nat BY DEF Events
    <3> QED BY <1>1, <1>3, <1>4, <2>1, <3>1
  <2>2. CASE i \in 1 .. Len(journal)
    <3>1. journal[i].license = m /\ journal'[i] = journal[i] BY <1>1, <1>4, <2>2
    <3>2. Issued(m) BY <2>2, <3>1 DEF JournalInv, Known
    <3>3. journal[i].expires_at <= licenses[m].expires_at
      BY <2>2, <3>1 DEF JournalInv, JournalExplains
    <3>4. licenses[m].expires_at <= licenses'[m].expires_at
      BY <1>3, <3>2
    <3> QED BY <1>2, <1>3, <2>2, <3>1, <3>3, <3>4
  <2> QED BY <1>1, <2>1, <2>2
<1>5. ASSUME NEW m \in Licenses, Issued(m)'
      PROVE  \E i \in 1 .. Len(journal') :
               journal'[i].license = m /\ journal'[i].expires_at = licenses'[m].expires_at
  <2>1. CASE m = l /\ licenses'[l].expires_at = ev.expires_at
    <3>1. Len(journal) + 1 \in 1 .. Len(journal') BY <1>1
    <3> QED BY <1>1, <2>1, <3>1
  <2>2. CASE Issued(m) /\ licenses'[m].expires_at = licenses[m].expires_at
    <3>1. PICK i \in 1 .. Len(journal) :
            journal[i].license = m /\ journal[i].expires_at = licenses[m].expires_at
      BY <2>2 DEF JournalInv, JournalExplains
    <3>2. i \in 1 .. Len(journal') /\ journal'[i] = journal[i] BY <1>1
    <3> QED BY <2>2, <3>1, <3>2
  <2> QED BY <1>5, <2>1, <2>2 DEF Issued
<1> QED BY <1>4, <1>5 DEF TermsTold

\* The five commands.
LEMMA OperatorJournals ==
    ASSUME IInv, IInv', JournalInv, Operator
    PROVE  JournalInv'
<1> USE LicensingAssumption
<1> PICK l \in Licenses :
         \/ \E seats \in Seats, days \in Terms : Issue(l, seats, days)
         \/ \E days \in Terms : Extend(l, days)
         \/ Revoke(l) \/ RotateCode(l)
         \/ \E k \in KeyIds : ReleaseDevice(l, k)
  BY DEF Operator
<1>1. /\ licenses[l] \in Rows /\ clock \in Nat /\ licenses[l].expires_at \in Nat
      /\ journal \in Seq(Events)
  BY DEF IInv, Typed, Rows, JournalInv
<1>2. ASSUME NEW seats \in Seats, NEW days \in Terms, Issue(l, seats, days) PROVE JournalInv'
  <2> DEFINE ev == Event("issue", l, NoKey, clock + days)
  <2>1. /\ ~Issued(l) /\ journal' = Append(journal, ev) /\ UNCHANGED devices
        /\ licenses' = [licenses EXCEPT ![l] =
             [seats |-> seats, code |-> 0, expires_at |-> clock + days, revoked |-> FALSE]]
    BY <1>2 DEF Issue, Audit, Event
  <2>2. /\ ev \in Events /\ ev.license = l /\ ev.expires_at = clock + days /\ ev.action = "issue"
        /\ ev.key = NoKey /\ clock + days \in Nat
    BY <1>1 DEF Event, Events
  <2> HIDE DEF ev
  <2>3. /\ licenses'[l].seats > 0 /\ licenses'[l].expires_at = clock + days /\ licenses'[l].revoked = FALSE
        /\ \A m \in Licenses \ {l} : licenses'[m] = licenses[m]
    BY <2>1 DEF IInv, Typed
  <2>4. \A m \in Licenses : Issued(m)' <=> Issued(m) \/ m = l BY <2>3 DEF Issued
  <2>5. \A i \in 1 .. Len(journal) : journal[i].license # l BY <2>1 DEF JournalInv, Known
  <2>6. \A a, k : ~Journalled(a, l, k) BY <2>5 DEF Journalled
  <2>7. Known'
    BY <2>1, <2>2, <2>4, KnownKept
  <2>8. \A m \in Licenses :
          /\ Issued(m)' <=> Journalled("issue", m, NoKey)'
          /\ licenses'[m].revoked <=> Journalled("revoke", m, NoKey)'
          /\ \A k \in KeyIds : devices'[m][k] = "revoked" <=> Journalled("release-device", m, k)'
    <3>1. \A a, m, k : Journalled(a, m, k)' <=> Journalled(a, m, k) \/ (a = "issue" /\ m = l /\ k = NoKey)
      BY <1>1, <2>1, <2>2, EventAdded
    <3> QED BY <2>1, <2>3, <2>4, <2>6, <3>1 DEF JournalInv, JournalExplains
  <2>9. journal' \in Seq(Events) BY <1>1, <2>1, <2>2, EventAdded
  <2>10. clock + days >= clock + days BY <2>2
  <2>11. TermsTold'
    BY <2>1, <2>2, <2>3, <2>10, TermsKept
  <2> QED BY <2>7, <2>8, <2>9, <2>11 DEF JournalInv, JournalExplains, TermsTold
<1>3. ASSUME NEW action \in {"extend", "revoke", "rotate-code"}, NEW expiry \in Nat,
             journal' = Append(journal, Event(action, l, NoKey, expiry)), UNCHANGED devices,
             Issued(l), \A m \in Licenses \ {l} : licenses'[m] = licenses[m],
             licenses'[l].seats = licenses[l].seats,
             licenses'[l].expires_at >= expiry, licenses'[l].expires_at >= licenses[l].expires_at,
             licenses'[l].expires_at \in {licenses[l].expires_at, expiry},
             licenses'[l].revoked <=> licenses[l].revoked \/ action = "revoke"
      PROVE  JournalInv'
  <2> DEFINE ev == Event(action, l, NoKey, expiry)
  <2>1. /\ ev \in Events /\ ev.license = l /\ ev.expires_at = expiry /\ ev.action = action
        /\ ev.key = NoKey
    BY DEF Event, Events
  <2>2. journal' = Append(journal, ev) BY <1>3
  <2> HIDE DEF ev
  <2>3. \A m \in Licenses : Issued(m)' <=> Issued(m) BY <1>3 DEF Issued
  <2>4. Known' BY <1>3, <2>1, <2>2, <2>3, KnownKept
  <2>5. \A a, m, k : Journalled(a, m, k)' <=> Journalled(a, m, k) \/ (a = action /\ m = l /\ k = NoKey)
    BY <1>1, <2>1, <2>2, EventAdded
  <2>6. \A m \in Licenses :
          /\ Issued(m)' <=> Journalled("issue", m, NoKey)'
          /\ licenses'[m].revoked <=> Journalled("revoke", m, NoKey)'
          /\ \A k \in KeyIds : devices'[m][k] = "revoked" <=> Journalled("release-device", m, k)'
    BY <1>3, <2>3, <2>5 DEF JournalInv, JournalExplains
  <2>7. journal' \in Seq(Events) BY <1>1, <2>1, <2>2, EventAdded
  <2>8. TermsTold'
    BY <1>3, <2>1, <2>2, TermsKept
  <2> QED BY <2>4, <2>6, <2>7, <2>8 DEF JournalInv, JournalExplains, TermsTold
<1>4. ASSUME NEW days \in Terms, Extend(l, days) PROVE JournalInv'
  <2> DEFINE expiry == Greater(clock, licenses[l].expires_at) + days
  <2>1. /\ Issued(l) /\ UNCHANGED devices /\ licenses' = [licenses EXCEPT ![l].expires_at = expiry]
        /\ journal' = Append(journal, Event("extend", l, NoKey, expiry))
    BY <1>4 DEF Extend, Audit, Event
  <2>2. expiry \in Nat /\ expiry >= licenses[l].expires_at
    <3> DEFINE old == licenses[l].expires_at  base == Greater(clock, old)
    <3>1. base \in Nat /\ base >= old /\ old \in Nat /\ days \in Nat
      BY <1>1, GreaterIsGreater
    <3> HIDE DEF old, base
    <3>2. base + days \in Nat /\ base + days >= old
      BY <3>1
    <3> QED BY <3>2 DEF old, base
  <2> HIDE DEF expiry
  <2>3. /\ \A m \in Licenses \ {l} : licenses'[m] = licenses[m]
        /\ licenses'[l].seats = licenses[l].seats /\ licenses'[l].revoked = licenses[l].revoked
        /\ licenses'[l].expires_at = expiry
    BY <2>1 DEF IInv, Typed, Rows
  <2>4. expiry >= expiry BY <2>2
  <2> QED BY <1>3, <2>1, <2>2, <2>3, <2>4
<1>5. CASE Revoke(l)
  <2>1. /\ Issued(l) /\ UNCHANGED devices /\ licenses' = [licenses EXCEPT ![l].revoked = TRUE]
        /\ journal' = Append(journal, Event("revoke", l, NoKey, 0))
    BY <1>5 DEF Revoke, Audit, Event
  <2>2. /\ \A m \in Licenses \ {l} : licenses'[m] = licenses[m]
        /\ licenses'[l].seats = licenses[l].seats /\ licenses'[l].revoked
        /\ licenses'[l].expires_at = licenses[l].expires_at
    BY <2>1 DEF IInv, Typed, Rows
  <2>3. licenses'[l].expires_at >= 0 /\ licenses'[l].expires_at >= licenses[l].expires_at
    BY <1>1, <2>2
  <2> QED BY <1>3, <2>1, <2>2, <2>3
<1>6. CASE RotateCode(l)
  <2>1. /\ Issued(l) /\ UNCHANGED devices /\ licenses' = [licenses EXCEPT ![l].code = @ + 1]
        /\ journal' = Append(journal, Event("rotate-code", l, NoKey, 0))
    BY <1>6 DEF RotateCode, Audit, Event
  <2>2. /\ \A m \in Licenses \ {l} : licenses'[m] = licenses[m]
        /\ licenses'[l].seats = licenses[l].seats /\ licenses'[l].revoked = licenses[l].revoked
        /\ licenses'[l].expires_at = licenses[l].expires_at
    BY <2>1 DEF IInv, Typed, Rows
  <2>3. licenses'[l].expires_at >= 0 /\ licenses'[l].expires_at >= licenses[l].expires_at
    BY <1>1, <2>2
  <2> QED BY <1>3, <2>1, <2>2, <2>3
<1>7. ASSUME NEW k \in KeyIds, ReleaseDevice(l, k) PROVE JournalInv'
  <2> DEFINE ev == Event("release-device", l, k, 0)
  <2>1. /\ devices[l][k] # "none" /\ devices' = [devices EXCEPT ![l][k] = "revoked"]
        /\ journal' = Append(journal, ev) /\ UNCHANGED licenses
    BY <1>7 DEF ReleaseDevice, Audit, Event
  <2>2. /\ ev \in Events /\ ev.license = l /\ ev.expires_at = 0 /\ ev.action = "release-device"
        /\ ev.key = k
    BY DEF Event, Events
  <2> HIDE DEF ev
  <2>3. Issued(l) /\ \A m \in Licenses : Issued(m)' <=> Issued(m)
    BY <2>1 DEF Issued, JournalInv, Known
  <2>4. \A m \in Licenses, j \in KeyIds :
          devices'[m][j] = IF m = l /\ j = k THEN "revoked" ELSE devices[m][j]
    BY <2>1 DEF IInv, Typed
  <2>5. Known' BY <2>1, <2>2, <2>3, <2>4, KnownKept
  <2>6. \A a, m, j : Journalled(a, m, j)' <=> Journalled(a, m, j) \/ (a = "release-device" /\ m = l /\ j = k)
    BY <1>1, <2>1, <2>2, EventAdded
  <2>7. \A m \in Licenses :
          /\ Issued(m)' <=> Journalled("issue", m, NoKey)'
          /\ licenses'[m].revoked <=> Journalled("revoke", m, NoKey)'
          /\ \A j \in KeyIds : devices'[m][j] = "revoked" <=> Journalled("release-device", m, j)'
    BY <2>1, <2>3, <2>4, <2>6 DEF JournalInv, JournalExplains
  <2>8. journal' \in Seq(Events) BY <1>1, <2>1, <2>2, EventAdded
  <2>9. licenses'[l].expires_at >= 0 /\ licenses'[l].expires_at >= licenses[l].expires_at
    BY <1>1, <2>1
  <2>10. TermsTold'
    BY <2>1, <2>2, <2>3, <2>9, TermsKept
  <2> QED BY <2>5, <2>7, <2>8, <2>10 DEF JournalInv, JournalExplains, TermsTold
<1> QED BY <1>2, <1>4, <1>5, <1>6, <1>7

\* Everybody else leaves licenses and journal alone, and enrols only devices
\* of an issued license, never a released one.
LEMMA OthersJournalNothing ==
    ASSUME IInv, JournalInv, Tick \/ Client \/ UNCHANGED vars
    PROVE  JournalInv'
<1>1. UNCHANGED <<licenses, journal>>
  BY DEF Tick, Client, vars, Challenge, Activate, Refresh, VerifyToken, Refused, Devices
<1>2. \A m \in Licenses, j \in KeyIds :
        \/ devices'[m][j] = devices[m][j]
        \/ Issued(m) /\ devices[m][j] # "revoked" /\ devices'[m][j] # "revoked"
  <2>1. CASE UNCHANGED devices BY <2>1
  <2>2. ASSUME NEW l \in Licenses, NEW c \in challenges, NEW at \in 0 .. MaxTime, Activate(l, c, at)
        PROVE  <1>2
    <3>1. c.key \in KeyIds BY DEF IInv, Typed
    <3>2. Issued(l) /\ TakeSeat(l, c.key) BY <2>2 DEF Activate, License
    <3> QED BY <3>1, <3>2 DEF TakeSeat, IInv, Typed
  <2> QED BY <2>1, <2>2 DEF Tick, Client, vars, Challenge, Refresh, VerifyToken, Refused, Devices
<1>3. \A m \in Licenses : Issued(m)' <=> Issued(m) BY <1>1 DEF Issued
<1>4. \A a, m, k : Journalled(a, m, k)' <=> Journalled(a, m, k) BY <1>1 DEF Journalled
<1>5. journal \in Seq(Events) /\ \A i \in 1 .. Len(journal) : journal[i].license \in Licenses
  BY EventFields DEF JournalInv
<1>6. Known' BY <1>1, <1>2, <1>3, <1>5 DEF JournalInv, Known
<1>7. JournalExplains' BY <1>1, <1>2, <1>3, <1>4 DEF JournalInv, JournalExplains
<1> QED BY <1>1, <1>6, <1>7 DEF JournalInv

LEMMA InitJournal == Init => JournalInv
<1> SUFFICES ASSUME Init PROVE JournalInv OBVIOUS
<1>1. journal = <<>> /\ Len(journal) = 0 /\ journal \in Seq(Events) BY DEF Init
<1>2. \A l \in Licenses : ~Issued(l) /\ ~licenses[l].revoked /\ \A k \in KeyIds : devices[l][k] = "none"
  BY DEF Init, Issued
<1>3. \A a, l, k : ~Journalled(a, l, k) BY <1>1 DEF Journalled
<1>4. Known BY <1>1, <1>2 DEF Known
<1>5. JournalExplains BY <1>1, <1>2, <1>3 DEF JournalExplains
<1> QED BY <1>1, <1>4, <1>5 DEF JournalInv

\* operator_events tells what the operator did: for any number of licenses,
\* keys and commands, what is revoked or released, and when a license ends, is
\* what the journal says.
THEOREM JournalIsTrue == Spec => []JournalExplains
<1>1. IInv /\ JournalInv /\ [Next]_vars => (IInv /\ JournalInv)'
  <2> SUFFICES ASSUME IInv, JournalInv, [Next]_vars PROVE IInv' /\ JournalInv' OBVIOUS
  <2>1. IInv' BY NextIInv
  <2>2. CASE Operator BY <2>1, <2>2, OperatorJournals
  <2>3. CASE Tick BY <2>1, <2>3, OthersJournalNothing
  <2>4. CASE Client BY <2>1, <2>4, OthersJournalNothing
  <2>5. CASE UNCHANGED vars BY <2>1, <2>5, OthersJournalNothing
  <2> QED BY <2>1, <2>2, <2>3, <2>4, <2>5 DEF Next
<1>2. JournalInv => JournalExplains BY DEF JournalInv
<1> QED BY <1>1, <1>2, InitIInv, InitJournal, PTL DEF Spec
=============================================================================
