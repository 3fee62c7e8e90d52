----------------------------- MODULE Licensing ------------------------------
(***************************************************************************)
(* The managed-device licensing service: LicenseStore in                   *)
(* services/licensing/service.py, its operator commands and its four       *)
(* public operations.  Every operation is one SQLite transaction that      *)
(* starts with BEGIN IMMEDIATE, so transactions never overlap and one that *)
(* raises Denied leaves no trace: a step here is a transaction that        *)
(* commits.  What lies outside the transactions is modelled as it is: the  *)
(* token of an inventory request is verified before its transaction, and   *)
(* challenge reads the clock before it waits for the lock.                 *)
(*                                                                         *)
(* A code is its license and how often it was rotated before; an           *)
(* activation id is the license and the key, which the devices table holds *)
(* once.  A signature is the key it verifies under, and only the key's     *)
(* holder makes it.  Request rates and HTTP framing are left out.          *)
(***************************************************************************)
EXTENDS Naturals, FiniteSets, Sequences

CONSTANTS
    Licenses, KeyIds,   \* license ids and device keys
    NoKey,              \* the key of a binding that names none
    Nonces,             \* bound: the challenges ever drawn
    Seats,              \* the max_devices an operator chooses from
    Terms,              \* the terms (days) an operator chooses from
    TOKEN_TTL, CHALLENGE_TTL,
    PerKey,             \* open challenges one key may have (10)
    LockWait,           \* the longest a call waits for the database (5 s)
    MaxTime, MaxEvents  \* bounds: the clock and the operator's journal

ASSUME LicensingAssumption ==
    /\ NoKey \notin KeyIds
    /\ Seats \subseteq Nat \ {0} /\ Terms \subseteq Nat \ {0}
    /\ TOKEN_TTL \in Nat /\ CHALLENGE_TTL \in Nat /\ PerKey \in Nat
    /\ LockWait \in Nat /\ MaxTime \in Nat /\ MaxEvents \in Nat

VARIABLES
    clock,
    licenses,       \* license -> its row; seats = 0 until it is issued
    devices,        \* license, key -> "none", "active" or "revoked"
    challenges,     \* the rows of the challenges table
    journal,        \* operator_events
    drawn,          \* nonces drawn so far
    honoured,       \* nonce -> how many operations it authorized
    tokens,         \* tokens minted, for ever in the clients' hands
    verified,       \* tokens of requests between _verify_token and BEGIN
    inventory       \* the last inventory served: to whom, and which keys

vars == <<clock, licenses, devices, challenges, journal, drawn, honoured,
          tokens, verified, inventory>>

Operations == {"activate", "refresh", "devices"}

\* What a challenge may be bound to: a code, an activation id or a token.
Binding(l, k, n, iat, exp) == [license |-> l, key |-> k, code |-> n, iat |-> iat, exp |-> exp]
Code(l, n) == Binding(l, NoKey, n, 0, 0)
ActivationId(l, k) == Binding(l, k, 0, 0, 0)
Token(l, k, iat, exp) == Binding(l, k, 0, iat, exp)

Lesser(a, b) == IF a <= b THEN a ELSE b
Greater(a, b) == IF a >= b THEN a ELSE b

Init ==
    /\ clock = 0
    /\ licenses = [l \in Licenses |-> [seats |-> 0, code |-> 0, expires_at |-> 0, revoked |-> FALSE]]
    /\ devices = [l \in Licenses |-> [k \in KeyIds |-> "none"]]
    /\ challenges = {} /\ journal = <<>>
    /\ drawn = {} /\ honoured = [n \in Nonces |-> 0]
    /\ tokens = {} /\ verified = {}
    /\ inventory = [license |-> NoKey, key |-> NoKey, listed |-> {}]

Issued(l) == licenses[l].seats > 0
Active(l) == {k \in KeyIds : devices[l][k] = "active"}

Tick ==
    /\ clock < MaxTime
    /\ clock' = clock + 1
    /\ UNCHANGED <<licenses, devices, challenges, journal, drawn, honoured, tokens, verified, inventory>>

-----------------------------------------------------------------------------
\* The operator's commands.  Each writes its event in the same transaction.

Audit(action, l, k, expiry) ==
    /\ Len(journal) < MaxEvents
    /\ journal' = Append(journal, [action |-> action, license |-> l, key |-> k, expires_at |-> expiry])

OperatorLeaves == UNCHANGED <<clock, challenges, drawn, honoured, tokens, verified, inventory>>

Issue(l, seats, days) ==
    /\ ~Issued(l)
    /\ licenses' = [licenses EXCEPT ![l] =
         [seats |-> seats, code |-> 0, expires_at |-> clock + days, revoked |-> FALSE]]
    /\ Audit("issue", l, NoKey, clock + days)
    /\ OperatorLeaves /\ UNCHANGED devices

\* Mutant of Extend: the new term starts now, whatever is left of the old.
ExtendFromNow(l, days) ==
    /\ Issued(l) /\ ~licenses[l].revoked
    /\ licenses' = [licenses EXCEPT ![l].expires_at = clock + days]
    /\ Audit("extend", l, NoKey, clock + days)
    /\ OperatorLeaves /\ UNCHANGED devices

Extend(l, days) ==
    LET expiry == Greater(clock, licenses[l].expires_at) + days IN
    /\ Issued(l) /\ ~licenses[l].revoked
    /\ licenses' = [licenses EXCEPT ![l].expires_at = expiry]
    /\ Audit("extend", l, NoKey, expiry)
    /\ OperatorLeaves /\ UNCHANGED devices

Revoke(l) ==
    /\ Issued(l)
    /\ licenses' = [licenses EXCEPT ![l].revoked = TRUE]
    /\ Audit("revoke", l, NoKey, 0)
    /\ OperatorLeaves /\ UNCHANGED devices

RotateCode(l) ==
    /\ Issued(l) /\ ~licenses[l].revoked
    /\ licenses' = [licenses EXCEPT ![l].code = @ + 1]
    /\ Audit("rotate-code", l, NoKey, 0)
    /\ OperatorLeaves /\ UNCHANGED devices

\* Mutant of ReleaseDevice: the row is deleted, and with it the tombstone.
ReleaseDeviceDeletes(l, k) ==
    /\ devices[l][k] # "none"
    /\ devices' = [devices EXCEPT ![l][k] = "none"]
    /\ Audit("release-device", l, k, 0)
    /\ OperatorLeaves /\ UNCHANGED licenses

ReleaseDevice(l, k) ==
    /\ devices[l][k] # "none"
    /\ devices' = [devices EXCEPT ![l][k] = "revoked"]
    /\ Audit("release-device", l, k, 0)
    /\ OperatorLeaves /\ UNCHANGED licenses

-----------------------------------------------------------------------------
\* challenge: `read' is the clock as it was before the call got the lock.
\* The limit of 2000 challenges for all keys is above what Nonces allows.
Challenge(k, op, binding, n, read) ==
    LET open == {c \in challenges : c.expires_at > read} IN
    /\ n \notin drawn
    /\ Cardinality({c \in open : c.key = k}) < PerKey
    /\ challenges' = open \cup {[nonce |-> n, key |-> k, operation |-> op, binding |-> binding,
                                 expires_at |-> read + CHALLENGE_TTL]}
    /\ drawn' = drawn \cup {n}
    /\ UNCHANGED <<clock, licenses, devices, journal, honoured, tokens, verified, inventory>>

\* What a challenge may be asked for: a code ever given out, an activation of
\* the key, any token.
Codes == UNION {{Code(l, n) : n \in 0 .. licenses[l].code} : l \in {m \in Licenses : Issued(m)}}
Asks(k) ==
    [op : {"activate"}, binding : Codes]
    \cup [op : {"refresh"},
          binding : {ActivationId(l, k) : l \in {m \in Licenses : devices[m][k] # "none"}}]
    \cup [op : {"devices"}, binding : tokens]

\* Mutant of Consume: the row stays until it expires.
ConsumeKeepsRow(c, op, binding) ==
    /\ c.expires_at > clock /\ c.operation = op /\ c.binding = binding
    /\ honoured' = [honoured EXCEPT ![c.nonce] = @ + 1]
    /\ UNCHANGED challenges

\* Mutant of Consume: any code will do, not only the one that was signed for.
ConsumeAnyBinding(c, op, binding) ==
    /\ c.expires_at > clock /\ c.operation = op
    /\ challenges' = challenges \ {c}
    /\ honoured' = [honoured EXCEPT ![c.nonce] = @ + 1]

\* _consume, when the rest of the transaction commits.
Consume(c, op, binding) ==
    /\ c.expires_at > clock /\ c.operation = op /\ c.binding = binding
    /\ challenges' = challenges \ {c}
    /\ honoured' = [honoured EXCEPT ![c.nonce] = @ + 1]

\* _license.
License(l) == Issued(l) /\ ~licenses[l].revoked /\ licenses[l].expires_at > clock

\* _mint, which reads the clock once more.
Mint(l, k, at) ==
    tokens' = tokens \cup {Token(l, k, at, Lesser(at + TOKEN_TTL, licenses[l].expires_at))}

\* Time passes within the transaction.
Later(at) == at \in clock .. Lesser(clock + 1, MaxTime) /\ clock' = at

\* Mutant of TakeSeat: the seats are counted without the one to come.
TakeSeatOneMore(l, k) ==
    \/ devices[l][k] = "active" /\ UNCHANGED devices
    \/ /\ devices[l][k] = "none" /\ Cardinality(Active(l)) <= licenses[l].seats
       /\ devices' = [devices EXCEPT ![l][k] = "active"]

\* The device of the license and key, enrolled if it is not: a released key is
\* refused, and so is a new one when the seats are taken.
TakeSeat(l, k) ==
    \/ devices[l][k] = "active" /\ UNCHANGED devices
    \/ /\ devices[l][k] = "none" /\ Cardinality(Active(l)) < licenses[l].seats
       /\ devices' = [devices EXCEPT ![l][k] = "active"]

Activate(l, c, at) ==
    /\ Consume(c, "activate", Code(l, licenses[l].code))
    /\ License(l)
    /\ TakeSeat(l, c.key)
    /\ Later(at) /\ Mint(l, c.key, at)
    /\ UNCHANGED <<licenses, journal, drawn, verified, inventory>>

Refresh(l, c, at) ==
    /\ Consume(c, "refresh", ActivationId(l, c.key))
    /\ devices[l][c.key] = "active"
    /\ License(l)
    /\ Later(at) /\ Mint(l, c.key, at)
    /\ UNCHANGED <<licenses, devices, journal, drawn, verified, inventory>>

\* _verify_token: the token's own times; the request then waits for the lock.
VerifyToken(t) ==
    /\ t.exp > clock /\ t.iat <= clock + 5
    /\ t.exp > t.iat /\ t.exp <= t.iat + TOKEN_TTL
    /\ t \notin verified
    /\ verified' = verified \cup {t}
    /\ UNCHANGED <<clock, licenses, devices, challenges, journal, drawn, honoured, tokens, inventory>>

\* Mutant of Devices: what _verify_token saw is trusted.
DevicesUnchecked(t, c) ==
    /\ Consume(c, "devices", t)
    /\ c.key = t.key
    /\ License(t.license)
    /\ inventory' = [license |-> t.license, key |-> t.key, listed |-> Active(t.license)]
    /\ verified' = verified \ {t}
    /\ UNCHANGED <<clock, licenses, devices, journal, drawn, tokens>>

Devices(t, c) ==
    /\ t.exp > clock
    /\ Consume(c, "devices", t)
    /\ c.key = t.key
    /\ License(t.license)
    /\ devices[t.license][t.key] = "active"
    /\ inventory' = [license |-> t.license, key |-> t.key, listed |-> Active(t.license)]
    /\ verified' = verified \ {t}
    /\ UNCHANGED <<clock, licenses, devices, journal, drawn, tokens>>

\* The transaction of a verified request is refused.
Refused(t) ==
    /\ verified' = verified \ {t}
    /\ UNCHANGED <<clock, licenses, devices, challenges, journal, drawn, honoured, tokens, inventory>>

Operator ==
    \E l \in Licenses :
        \/ \E seats \in Seats, days \in Terms : Issue(l, seats, days)
        \/ \E days \in Terms : Extend(l, days)
        \/ Revoke(l) \/ RotateCode(l)
        \/ \E k \in KeyIds : ReleaseDevice(l, k)

Client ==
    \/ \E k \in KeyIds, n \in Nonces, read \in {t \in 0 .. clock : t + LockWait >= clock} :
         \E ask \in Asks(k) : Challenge(k, ask.op, ask.binding, n, read)
    \/ \E l \in Licenses, c \in challenges, at \in 0 .. MaxTime :
         Activate(l, c, at) \/ Refresh(l, c, at)
    \/ \E t \in tokens : VerifyToken(t)
    \/ \E t \in verified : Refused(t) \/ \E c \in challenges : Devices(t, c)

Next == Tick \/ Operator \/ Client

Spec == Init /\ [][Next]_vars

-----------------------------------------------------------------------------
Bindings == [license : Licenses, key : KeyIds \cup {NoKey}, code : Nat, iat : Nat, exp : Nat]
Events == [action : {"issue", "extend", "revoke", "rotate-code", "release-device"},
           license : Licenses, key : KeyIds \cup {NoKey}, expires_at : Nat]

TypeOK ==
    /\ clock \in Nat
    /\ licenses \in [Licenses -> [seats : Nat, code : Nat, expires_at : Nat, revoked : BOOLEAN]]
    /\ devices \in [Licenses -> [KeyIds -> {"none", "active", "revoked"}]]
    /\ \A c \in challenges :
         c \in [nonce : drawn, key : KeyIds, operation : Operations, binding : Bindings, expires_at : Nat]
    /\ \A k \in KeyIds : Cardinality({c \in challenges : c.key = k}) <= PerKey
    /\ journal \in Seq(Events)
    /\ drawn \subseteq Nonces /\ honoured \in [Nonces -> Nat]
    /\ tokens \subseteq Bindings /\ verified \subseteq tokens
    /\ inventory.listed \subseteq KeyIds

\* SeatLimit: a license never has more active devices than it was sold for,
\* however enrolments, releases and repeated activations interleave.
SeatLimit == \A l \in Licenses : Cardinality(Active(l)) <= licenses[l].seats

\* OneShot: a challenge authorizes one operation at most; a signed request
\* that was answered can be replayed as often as one likes.
OneShot == \A n \in Nonces : honoured[n] <= 1

\* TokenWithinLicense: a token in a client's hands ends no later than its
\* license does, also after the operator has extended it, and no later than
\* TOKEN_TTL after it was minted.
TokenWithinLicense ==
    \A t \in tokens : t.exp <= licenses[t.license].expires_at /\ t.exp <= t.iat + TOKEN_TTL

Journalled(action, l, k) ==
    \E i \in 1 .. Len(journal) :
        journal[i].action = action /\ journal[i].license = l /\ journal[i].key = k

\* JournalExplains: what the operator did to a license can be read from
\* operator_events: it was revoked, and a device was released for good, if and
\* only if an event says so, and it ends when the latest term in it says.
JournalExplains ==
    \A l \in Licenses :
        /\ Issued(l) <=> Journalled("issue", l, NoKey)
        /\ licenses[l].revoked <=> Journalled("revoke", l, NoKey)
        /\ \A k \in KeyIds : devices[l][k] = "revoked" <=> Journalled("release-device", l, k)
        /\ \A i \in 1 .. Len(journal) :
             journal[i].license = l => journal[i].expires_at <= licenses[l].expires_at
        /\ Issued(l) => \E i \in 1 .. Len(journal) :
             journal[i].license = l /\ journal[i].expires_at = licenses[l].expires_at

\* RefusedGetsNothing: a revoked or expired license gets no new token, no
\* inventory and no new device, and a released device no token and no
\* inventory, not even with a token minted or a challenge drawn before.
RefusedGetsNothing ==
    [][ \A l \in Licenses, k \in KeyIds :
          licenses[l].revoked \/ licenses[l].expires_at <= clock \/ devices[l][k] = "revoked"
            => /\ \A t \in tokens' \ tokens : ~(t.license = l /\ t.key = k)
               /\ inventory' # inventory => ~(inventory'.license = l /\ inventory'.key = k)
               /\ devices[l][k] # "active" => devices'[l][k] # "active" ]_vars

\* EnrolmentProved: a device is enrolled only by spending a challenge that its
\* own key drew for the code the license has at that moment, so a code that
\* was rotated between challenge and activation enrols nobody.
EnrolmentProved ==
    [][ \A l \in Licenses, k \in KeyIds :
          devices[l][k] # "active" /\ devices'[l][k] = "active"
            => \E c \in challenges \ challenges' :
                 /\ c.key = k /\ c.operation = "activate"
                 /\ c.binding = Code(l, licenses[l].code) ]_vars
=============================================================================
