-------------------------- MODULE MuxTunnelProofs --------------------------
(***************************************************************************)
(* The maps of channels of a tunnel, the order of its frames, and that it  *)
(* is a reliable ordered pipe: for any number of channels, any limits and  *)
(* any number of chunks.                                                   *)
(*                                                                         *)
(* A map only grows by the one id that OpenInsert or OnOpen adds after     *)
(* counting, and an id of the controller's map belongs to a task until     *)
(* that task removes it.  Frames keep their order through queue, loop and  *)
(* link; a channel's `open` is the first thing either side knows of it,    *)
(* and `close` the last thing its task sends.  Chunks are numbered on, end *)
(* to end, from the last one written to the last one sent, so the tunnel   *)
(* implements Pipe: after chunks that an ending loop or a cancelled half   *)
(* dropped, no end of the peer is seen.                                    *)
(***************************************************************************)
EXTENDS MuxTunnel, FiniteSetTheorems, SequenceTheorems, TLAPS

TaskStages == {"none", "opening", "connecting", "run", "close", "remove", "done"}

MapType == entry \in [Ends -> BOOLEAN] /\ task \in [Ends -> TaskStages]

(* An id in the controller's map has a task that will take it back. *)
Owned == \A i \in Ids : entry[<<"controller", i>>] => task[<<"controller", i>>] \notin {"none", "done"}

Limited == \A s \in Sides : IsFiniteSet(Live(s)) /\ Cardinality(Live(s)) <= MAX_CHANNELS

MapInv == MapType /\ Owned /\ Limited

-----------------------------------------------------------------------------
(* A map that only loses ids, or that gains one when it was not full, is   *)
(* within the limit.                                                       *)
LEMMA FewerAreLimited ==
  ASSUME NEW S, NEW T, IsFiniteSet(S), Cardinality(S) <= MAX_CHANNELS, T \subseteq S
  PROVE  IsFiniteSet(T) /\ Cardinality(T) <= MAX_CHANNELS
<1>1. IsFiniteSet(T) /\ Cardinality(T) <= Cardinality(S)
  BY FS_Subset
<1>2. Cardinality(S) \in Nat /\ Cardinality(T) \in Nat
  BY <1>1, FS_CardinalityType
<1> QED BY <1>1, <1>2, ConstantsAssumption

LEMMA OneMoreIsLimited ==
  ASSUME NEW S, NEW T, NEW x, IsFiniteSet(S), ~(Cardinality(S) >= MAX_CHANNELS), T \subseteq S \cup {x}
  PROVE  IsFiniteSet(T) /\ Cardinality(T) <= MAX_CHANNELS
<1>1. Cardinality(S) \in Nat
  BY FS_CardinalityType
<1>2. IsFiniteSet(S \cup {x}) /\ Cardinality(S \cup {x}) <= Cardinality(S) + 1
  <2> DEFINE n == Cardinality(S)
             m == Cardinality(S \cup {x})
  <2>1. IsFiniteSet(S \cup {x}) /\ m = IF x \in S THEN n ELSE n + 1
    BY FS_AddElement
  <2> HIDE DEF n, m
  <2>2. m <= n + 1
    BY <1>1, <2>1 DEF n
  <2> QED BY <2>1, <2>2 DEF n, m
<1>3. Cardinality(S \cup {x}) \in Nat
  BY <1>2, FS_CardinalityType
<1>4. Cardinality(S \cup {x}) <= MAX_CHANNELS
  BY <1>1, <1>2, <1>3, ConstantsAssumption
<1> QED BY <1>2, <1>4, FewerAreLimited

LEMMA InitMap == Init => MapInv
<1> SUFFICES ASSUME Init PROVE MapInv
  OBVIOUS
<1>1. MapType /\ Owned
  BY DEF Init, MapType, Owned, TaskStages, Ends, Sides
<1>2. \A s \in Sides : Live(s) = {}
  BY DEF Init, Live, Ends
<1>3. Limited
  BY <1>2, FS_EmptySet, ConstantsAssumption DEF Limited
<1> QED BY <1>1, <1>3 DEF MapInv

-----------------------------------------------------------------------------
(* What a step does to the maps when it adds no id: it may drop entries,   *)
(* and leaves every task that keeps its entry alive.                       *)
KeepsOwners ==
  /\ MapType'
  /\ \A e \in Ends : entry'[e] => entry[e]
  /\ \A i \in Ids : entry'[<<"controller", i>>] =>
       \/ task'[<<"controller", i>>] = task[<<"controller", i>>]
       \/ task'[<<"controller", i>>] \notin {"none", "done"}

LEMMA KeepingOwners == MapInv /\ KeepsOwners => MapInv'
<1> SUFFICES ASSUME MapInv, KeepsOwners PROVE MapInv'
  OBVIOUS
<1>1. Owned'
  BY DEF MapInv, Owned, KeepsOwners, Ends, Sides
<1>2. ASSUME NEW s \in Sides PROVE IsFiniteSet(Live(s)') /\ Cardinality(Live(s)') <= MAX_CHANNELS
  <2>1. Live(s)' \subseteq Live(s)
    BY DEF KeepsOwners, Live, Ends
  <2>2. IsFiniteSet(Live(s)) /\ Cardinality(Live(s)) <= MAX_CHANNELS
    BY DEF MapInv, Limited
  <2> QED BY <2>1, <2>2, FewerAreLimited
<1> QED BY <1>1, <1>2 DEF MapInv, Limited, KeepsOwners

(* Delivering a frame only drops entries. *)
LEMMA DeliverMap ==
  ASSUME MapType, NEW s \in Sides, NEW f, Deliver(<<s, f.id>>, f)
  PROVE  entry' \in [Ends -> BOOLEAN] /\ \A e \in Ends : entry'[e] => entry[e]
  BY DEF MapType, Deliver

LEMMA TaskMap ==
  ASSUME MapType, NEW e \in Ends, TaskStep(e) \/ SocketStep(e)
  PROVE  KeepsOwners
<1> USE DEF MapType, KeepsOwners, TaskStages, AfterChannel, taskVars, Ends, Sides, Side
<1>1. CASE UNCHANGED <<entry, task>> BY <1>1
<1>2. CASE Join(e) BY <1>2 DEF Join
<1>3. CASE SendClose(e) BY <1>3 DEF SendClose
<1>4. CASE Remove(e) BY <1>4 DEF Remove
<1> QED BY <1>1, <1>2, <1>3, <1>4
        DEF TaskStep, SocketStep, SendData, CancelOut, TakePending, TakeInbound, InboundGone, CancelIn,
            ReadSocket, ReadEof, WriteSocket, WriteFail

LEMMA ConnectMap ==
  ASSUME MapType, NEW i \in Ids, ConnectStep(i) \/ SendOpen(i)
  PROVE  KeepsOwners
<1> USE DEF MapType, KeepsOwners, TaskStages, taskVars, Ends, Sides
<1>1. CASE ConnectCmd(i) BY <1>1 DEF ConnectCmd
<1>2. CASE ConnectDropped(i) BY <1>2 DEF ConnectDropped
<1>3. CASE ConnectOk(i) BY <1>3 DEF ConnectOk
<1>4. CASE ConnectFail(i) BY <1>4 DEF ConnectFail
<1>5. CASE SendOpen(i) BY <1>5 DEF SendOpen
<1> QED BY <1>1, <1>2, <1>3, <1>4, <1>5 DEF ConnectStep

LEMMA LoopMap ==
  ASSUME MapType, \/ OpenCheck \/ OnFrame \/ Handle \/ SendTimeout
                  \/ \E s \in Sides : LoopStep(s) \/ LoopEnd(s)
  PROVE  KeepsOwners
<1> USE DEF MapType, KeepsOwners, TaskStages, taskVars
<1>1. CASE UNCHANGED <<entry, task>> BY <1>1
<1>2. CASE OnFrame
  <2>1. UNCHANGED task BY <1>2 DEF OnFrame
  <2>2. entry' = entry \/ \E f : Deliver(<<"controller", f.id>>, f) BY <1>2 DEF OnFrame
  <2> QED BY <2>1, <2>2, DeliverMap DEF Sides
<1>3. CASE Handle
  <2>1. UNCHANGED task BY <1>3 DEF Handle
  <2>2. \E f : Deliver(<<"controlled", f.id>>, f) BY <1>3 DEF Handle
  <2> QED BY <2>1, <2>2, DeliverMap DEF Sides
<1>4. ASSUME NEW s \in Sides, LoopEnd(s) PROVE KeepsOwners
  BY <1>4 DEF LoopEnd
<1> QED BY <1>1, <1>2, <1>3, <1>4
        DEF OpenCheck, SendTimeout, LoopStep, SendNext, Unblock, DropQueues, PeerGone, Sides

-----------------------------------------------------------------------------
(* The two steps that add an id count first. *)
LEMMA OpenInsertMap == MapInv /\ OpenInsert => MapInv'
<1> SUFFICES ASSUME MapInv, OpenInsert PROVE MapInv'
  OBVIOUS
<1>1. CASE UNCHANGED <<entry, task>>
  BY <1>1 DEF MapInv, MapType, Owned, Limited, Live
<1>2. CASE ~(Cardinality(Live("controller")) >= MAX_CHANNELS)
  <2>1. entry' = [entry EXCEPT ![<<"controller", nextId>>] = TRUE]
    BY <1>2 DEF OpenInsert
  <2>2. task' = [task EXCEPT ![<<"controller", nextId>>] = "opening"]
    BY <1>2 DEF OpenInsert
  <2>3. MapType' /\ Owned'
    BY <2>1, <2>2 DEF MapInv, MapType, Owned, TaskStages, Ends, Sides
  <2>4. Live("controller")' \subseteq Live("controller") \cup {nextId}
    BY <2>1 DEF Live, MapInv, MapType, Ends, Sides
  <2>5. Live("controlled")' \subseteq Live("controlled")
    BY <2>1 DEF Live, MapInv, MapType, Ends, Sides
  <2>6. Limited'
    BY <1>2, <2>4, <2>5, FewerAreLimited, OneMoreIsLimited DEF MapInv, Limited, Sides
  <2> QED BY <2>3, <2>6 DEF MapInv
<1> QED BY <1>1, <1>2 DEF OpenInsert

LEMMA OnOpenMap ==
  ASSUME MapInv, NEW permitted \in BOOLEAN, OnOpen(permitted)
  PROVE  MapInv'
<1> DEFINE f == Head(link["controller"])
           e == <<"controlled", f.id>>
           kept == [x \in Ends |-> entry[x] /\ (Side(x) = "controlled" => Receiving(x))]
           keptIds == {i \in Ids : kept[<<"controlled", i>>]}
<1>1. kept \in [Ends -> BOOLEAN] /\ \A x \in Ends : kept[x] => entry[x]
  BY DEF MapInv, MapType
<1>2. CASE entry' = kept /\ task' = task
  <2>1. KeepsOwners
    BY <1>1, <1>2 DEF KeepsOwners, MapInv, MapType
  <2> QED BY <2>1, KeepingOwners
<1>3. CASE /\ ~(Cardinality(keptIds) >= MAX_CHANNELS)
           /\ entry' = [kept EXCEPT ![e] = TRUE]
           /\ task' = [task EXCEPT ![e] = IF kept[e] THEN @ ELSE "connecting"]
  <2> HIDE DEF kept
  <2>1. MapType'
    BY <1>1, <1>3 DEF MapInv, MapType, TaskStages
  <2>2. Owned'
    BY <1>1, <1>3 DEF MapInv, MapType, Owned, Ends, Sides
  <2>3. keptIds \subseteq Live("controlled")
    BY <1>1 DEF Live, Ends, Sides
  <2>4. Live("controlled")' \subseteq keptIds \cup {f.id}
    BY <1>1, <1>3 DEF Live, Ends, Sides
  <2>5. Live("controller")' \subseteq Live("controller")
    BY <1>1, <1>3 DEF Live, Ends, Sides
  <2> HIDE DEF keptIds
  <2>6. IsFiniteSet(keptIds)
    BY <2>3, FewerAreLimited DEF MapInv, Limited, Sides
  <2>7. Limited'
    BY <1>3, <2>4, <2>5, <2>6, FewerAreLimited, OneMoreIsLimited DEF MapInv, Limited, Sides
  <2> QED BY <2>1, <2>2, <2>7 DEF MapInv
<1> QED BY <1>2, <1>3 DEF OnOpen

LEMMA StepMap == MapInv /\ [Next]_vars => MapInv'
<1> SUFFICES ASSUME MapInv, [Next]_vars PROVE MapInv'
  OBVIOUS
<1>1. CASE OpenInsert BY <1>1, OpenInsertMap
<1>2. CASE OpenStep BY <1>2, OnOpenMap DEF OpenStep
<1>3. CASE \E i \in Ids : SendOpen(i) \/ ConnectStep(i)
  BY <1>3, ConnectMap, KeepingOwners DEF MapInv
<1>4. CASE \E e \in Ends : TaskStep(e) \/ SocketStep(e)
  BY <1>4, TaskMap, KeepingOwners DEF MapInv
<1>5. CASE \/ OpenCheck \/ OnFrame \/ Handle \/ SendTimeout \/ \E s \in Sides : LoopStep(s) \/ LoopEnd(s)
  BY <1>5, LoopMap, KeepingOwners DEF MapInv
<1>6. CASE UNCHANGED vars
  BY <1>6 DEF vars, MapInv, MapType, Owned, Limited, Live
<1> QED BY <1>1, <1>2, <1>3, <1>4, <1>5, <1>6 DEF Next

(* Every id in the controller's map has a task that will take it back, and *)
(* no side keeps more than MAX_CHANNELS channels.                          *)
THEOREM ChannelsOwned == Spec => []EntriesOwned
<1>1. MapInv => EntriesOwned BY DEF MapInv, Owned, Limited, EntriesOwned
<1> QED BY <1>1, InitMap, StepMap, PTL DEF Spec

-----------------------------------------------------------------------------
(* Sequences: what the loops do to the frames in flight. *)

FrameTypes == {"open", "opened", "data", "close"}
Frames == [type : FrameTypes, id : Ids, n : Nat]

(* A frame that is queued comes last. *)
LEMMA QueuedLast ==
  ASSUME NEW S, NEW a \in Seq(S), NEW b \in Seq(S), NEW c \in Seq(S), NEW x \in S
  PROVE  a \o b \o Append(c, x) = Append(a \o b \o c, x)
<1> DEFINE l == a \o b \o Append(c, x)
           r == Append(a \o b \o c, x)
<1>1. l \in Seq(S) /\ r \in Seq(S) /\ Len(l) = Len(r)
  OBVIOUS
<1>2. ASSUME NEW i \in 1..Len(l) PROVE l[i] = r[i]
  OBVIOUS
<1> HIDE DEF l, r
<1>3. l = r
  BY <1>1, <1>2, SeqEqual
<1> QED BY <1>3 DEF l, r

(* Sending the head of the queue, at once or after a wait, moves it on and *)
(* keeps its place.                                                        *)
LEMMA SentInPlace ==
  ASSUME NEW S, NEW a \in Seq(S), NEW c \in Seq(S), c # <<>>
  PROVE  /\ Append(a, Head(c)) \o <<>> \o Tail(c) = a \o <<>> \o c
         /\ a \o <<Head(c)>> \o Tail(c) = a \o <<>> \o c
<1> DEFINE l == Append(a, Head(c)) \o <<>> \o Tail(c)
           m == a \o <<Head(c)>> \o Tail(c)
           r == a \o <<>> \o c
<1>1. Head(c) \in S /\ Tail(c) \in Seq(S) /\ Len(c) \in Nat \ {0}
  OBVIOUS
<1>2. /\ l \in Seq(S) /\ m \in Seq(S) /\ r \in Seq(S)
      /\ Len(l) = Len(r) /\ Len(m) = Len(r)
  BY <1>1
<1>3. ASSUME NEW i \in 1..Len(r) PROVE l[i] = r[i] /\ m[i] = r[i]
  BY <1>1
<1> HIDE DEF l, m, r
<1>4. l = r /\ m = r
  BY <1>2, <1>3, SeqEqual
<1> QED BY <1>4 DEF l, m, r

LEMMA UnblockedInPlace ==
  ASSUME NEW S, NEW a \in Seq(S), NEW c \in Seq(S), NEW x \in S
  PROVE  Append(a, x) \o <<>> \o c = a \o <<x>> \o c
<1> DEFINE l == Append(a, x) \o <<>> \o c
           r == a \o <<x>> \o c
<1>1. l \in Seq(S) /\ r \in Seq(S) /\ Len(l) = Len(r)
  OBVIOUS
<1>2. ASSUME NEW i \in 1..Len(l) PROVE l[i] = r[i]
  OBVIOUS
<1> HIDE DEF l, r
<1>3. l = r
  BY <1>1, <1>2, SeqEqual
<1> QED BY <1>3 DEF l, r

(* A frame that is read was the first. *)
LEMMA ReadFirst ==
  ASSUME NEW a \in Seq(Frames), NEW b \in Seq(Frames), NEW c \in Seq(Frames), a # <<>>
  PROVE  /\ a \o b \o c # <<>>
         /\ Head(a \o b \o c) = Head(a)
         /\ Tail(a) \o b \o c = Tail(a \o b \o c)
<1> DEFINE all == a \o b \o c
           l == Tail(a) \o b \o c
           r == Tail(all)
<1>1. Tail(a) \in Seq(Frames) /\ Len(a) \in Nat \ {0}
  OBVIOUS
<1>2. all \in Seq(Frames) /\ Len(all) = Len(a) + Len(b) + Len(c) /\ all[1] = a[1]
  BY <1>1
<1>3. all # <<>> /\ Head(all) = Head(a)
  BY <1>1, <1>2
<1>4. l \in Seq(Frames) /\ r \in Seq(Frames) /\ Len(l) = Len(r)
  BY <1>1, <1>2, <1>3
<1>5. ASSUME NEW i \in 1..Len(l) PROVE l[i] = r[i]
  BY <1>1, <1>2, <1>3, <1>4
<1> HIDE DEF all, l, r
<1>6. l = r
  BY <1>4, <1>5, SeqEqual
<1> QED BY <1>3, <1>6 DEF all, l, r

-----------------------------------------------------------------------------
(* The order of the frames of one channel. *)

Carried(fs) == {fs[k] : k \in 1..Len(fs)}

(* FrameOrder for one side. *)
Ordered(fs) ==
  \A j, k \in 1..Len(fs) : j < k /\ fs[j].id = fs[k].id => fs[k].type # "open" /\ fs[j].type # "close"

(* Frames stay in order when one is added that may follow those of its     *)
(* channel.                                                                *)
LEMMA OrderedAppend ==
  ASSUME NEW fs \in Seq(Frames), NEW f \in Frames, Ordered(fs),
         \A g \in Carried(fs) : g.id = f.id => f.type # "open" /\ g.type # "close"
  PROVE  Ordered(Append(fs, f)) /\ Carried(Append(fs, f)) = Carried(fs) \cup {f}
<1> DEFINE gs == Append(fs, f)
<1>1. /\ gs \in Seq(Frames) /\ Len(gs) = Len(fs) + 1 /\ Len(fs) \in Nat
      /\ \A i \in 1..Len(fs) : gs[i] = fs[i]
      /\ gs[Len(fs) + 1] = f
  OBVIOUS
<1> HIDE DEF gs
<1>2. Carried(gs) = Carried(fs) \cup {f}
  BY <1>1 DEF Carried
<1>3. Ordered(gs)
  <2> SUFFICES ASSUME NEW j \in 1..Len(gs), NEW k \in 1..Len(gs), j < k, gs[j].id = gs[k].id
               PROVE  gs[k].type # "open" /\ gs[j].type # "close"
    BY DEF Ordered
  <2>1. CASE k <= Len(fs)
    BY <1>1, <2>1 DEF Ordered
  <2>2. CASE k = Len(fs) + 1
    <3>1. gs[j] = fs[j] /\ fs[j] \in Carried(fs) /\ gs[k] = f
      BY <1>1, <2>2 DEF Carried
    <3> QED BY <3>1
  <2> QED BY <1>1, <2>1, <2>2
<1> QED BY <1>2, <1>3 DEF gs

(* ... and when the first is read. *)
LEMMA OrderedTail ==
  ASSUME NEW fs \in Seq(Frames), fs # <<>>, Ordered(fs)
  PROVE  /\ Ordered(Tail(fs)) /\ Carried(Tail(fs)) \subseteq Carried(fs) /\ Head(fs) \in Carried(fs)
         /\ \A g \in Carried(Tail(fs)) : g.id = Head(fs).id => g.type # "open"
<1> DEFINE gs == Tail(fs)
<1>1. /\ Len(fs) \in Nat \ {0} /\ Len(gs) = Len(fs) - 1 /\ Head(fs) = fs[1]
      /\ \A i \in 1..Len(gs) : gs[i] = fs[i + 1]
  OBVIOUS
<1> HIDE DEF gs
<1>2. \A i \in 1..Len(gs) : i + 1 \in 1..Len(fs)
  BY <1>1
<1>3. Ordered(gs)
  BY <1>1, <1>2 DEF Ordered
<1>4. Carried(gs) \subseteq Carried(fs) /\ Head(fs) \in Carried(fs)
  BY <1>1, <1>2 DEF Carried
<1>5. \A g \in Carried(gs) : g.id = Head(fs).id => g.type # "open"
  <2> SUFFICES ASSUME NEW i \in 1..Len(gs), gs[i].id = fs[1].id PROVE gs[i].type # "open"
    BY <1>1 DEF Carried
  <2>1. i + 1 \in 1..Len(fs) /\ 1 \in 1..Len(fs) /\ 1 < i + 1 /\ gs[i] = fs[i + 1]
    BY <1>1, <1>2
  <2> QED BY <2>1 DEF Ordered
<1> QED BY <1>3, <1>4, <1>5 DEF gs

(* ... and when a loop ends: the frame it was sending goes first, then     *)
(* what was queued.                                                        *)
LEMMA OrderedDrop ==
  ASSUME NEW a \in Seq(Frames), NEW b \in Seq(Frames), NEW c \in Seq(Frames), Ordered(a \o b \o c)
  PROVE  /\ Ordered(a \o <<>> \o c) /\ Carried(a \o <<>> \o c) \subseteq Carried(a \o b \o c)
         /\ Ordered(a \o <<>> \o <<>>) /\ Carried(a \o <<>> \o <<>>) \subseteq Carried(a \o b \o c)
<1> DEFINE all == a \o b \o c
           l == a \o <<>> \o c
           m == a \o <<>> \o <<>>
           at(k) == IF k <= Len(a) THEN k ELSE k + Len(b)
<1>1. /\ Len(a) \in Nat /\ Len(b) \in Nat /\ Len(c) \in Nat
      /\ Len(all) = Len(a) + Len(b) + Len(c) /\ Len(l) = Len(a) + Len(c) /\ Len(m) = Len(a)
  OBVIOUS
<1>2. \A k \in 1..Len(l) : at(k) \in 1..Len(all) /\ l[k] = all[at(k)]
  BY <1>1
<1>3. \A k \in 1..Len(m) : k \in 1..Len(all) /\ m[k] = all[k]
  BY <1>1
<1>4. \A j, k \in 1..Len(l) : j < k => at(j) < at(k)
  BY <1>1
<1> HIDE DEF all, l, m, at
<1>5. Ordered(all)
  BY DEF all
<1>6. Ordered(l) /\ Carried(l) \subseteq Carried(all)
  BY <1>2, <1>4, <1>5 DEF Ordered, Carried
<1>7. Ordered(m) /\ Carried(m) \subseteq Carried(all)
  BY <1>3, <1>5 DEF Ordered, Carried
<1> QED BY <1>6, <1>7 DEF all, l, m

-----------------------------------------------------------------------------
(* The invariant behind FrameOrder. *)

FlightType ==
  /\ loop \in [Sides -> {"running", "sending", "closed", "gone"}]
  /\ sending \in [Sides -> Frames \cup {NoFrame}]
  /\ \A s \in Sides : loop[s] = "sending" => sending[s] \in Frames
  /\ queue \in [Sides -> Seq(Frames)] /\ link \in [Sides -> Seq(Frames)]
  /\ nextId \in Nat /\ sent \in [Ends -> Nat]

(* An id is handed out once. *)
Fresh == \A i \in Ids : i >= nextId => task[<<"controller", i>>] = "none"

Flights == \A s \in Sides : Ordered(InFlight(s))

Unsent(i) == task[<<"controller", i>>] \in {"none", "opening"}

(* Nothing of a channel is sent before its `open`. *)
OpenFirst == \A i \in Ids : Unsent(i) => \A g \in Carried(InFlight("controller")) : g.id # i

(* The controlled side knows nothing of a channel before it reads `open`. *)
OpenUnread ==
  \A i \in Ids :
    Unsent(i) \/ (\E g \in Carried(InFlight("controller")) : g.id = i /\ g.type = "open") =>
      task[<<"controlled", i>>] = "none" /\ \A g \in Carried(InFlight("controlled")) : g.id # i

(* `close` is the last thing a task sends. *)
CloseLast ==
  \A s \in Sides, i \in Ids : task[<<s, i>>] \notin {"remove", "done"} =>
    \A g \in Carried(InFlight(s)) : g.id = i => g.type # "close"

FlightInv == MapType /\ FlightType /\ Fresh /\ Flights /\ OpenFirst /\ OpenUnread /\ CloseLast

LEMMA InitFlight == Init => FlightInv
<1> SUFFICES ASSUME Init PROVE FlightInv
  OBVIOUS
<1>1. MapType
  BY InitMap DEF MapInv
<1>2. FlightType
  BY DEF Init, FlightType, NoFrame
<1>3. ASSUME NEW s \in Sides PROVE Carried(InFlight(s)) = {} /\ Ordered(InFlight(s))
  <2>1. InFlight(s) = <<>>
    BY DEF Init, InFlight
  <2> QED BY <2>1 DEF Carried, Ordered
<1>4. Fresh /\ OpenFirst /\ OpenUnread /\ CloseLast
  BY <1>3 DEF Init, Fresh, OpenFirst, OpenUnread, CloseLast, Ends, Sides
<1> QED BY <1>1, <1>2, <1>3, <1>4 DEF FlightInv, Flights

(* The three places of the frames in flight. *)
LEMMA FlightParts ==
  ASSUME FlightType, NEW s \in Sides
  PROVE  /\ link[s] \in Seq(Frames) /\ queue[s] \in Seq(Frames)
         /\ (IF loop[s] = "sending" THEN <<sending[s]>> ELSE <<>>) \in Seq(Frames)
         /\ InFlight(s) \in Seq(Frames)
<1>1. link[s] \in Seq(Frames) /\ queue[s] \in Seq(Frames)
  BY DEF FlightType
<1>2. (IF loop[s] = "sending" THEN <<sending[s]>> ELSE <<>>) \in Seq(Frames)
  BY DEF FlightType
<1> QED BY <1>1, <1>2 DEF InFlight

LEMMA EnqueueFlight ==
  ASSUME FlightType, NEW s \in Sides, NEW f \in Frames, Enqueue(s, f),
         UNCHANGED <<loop, sending>>, link'[s] = link[s]
  PROVE  /\ InFlight(s)' = Append(InFlight(s), f)
         /\ \A r \in Sides \ {s} : queue'[r] = queue[r] /\ (link'[r] = link[r] => InFlight(r)' = InFlight(r))
         /\ queue' \in [Sides -> Seq(Frames)]
<1>1. queue' = [queue EXCEPT ![s] = Append(queue[s], f)]
  BY DEF Enqueue
<1>2. queue' \in [Sides -> Seq(Frames)]
  BY <1>1 DEF FlightType
<1>3. \A r \in Sides \ {s} : queue'[r] = queue[r] /\ (link'[r] = link[r] => InFlight(r)' = InFlight(r))
  BY <1>1 DEF FlightType, InFlight
<1>4. InFlight(s)' = Append(InFlight(s), f)
  <2> DEFINE b == IF loop[s] = "sending" THEN <<sending[s]>> ELSE <<>>
  <2>1. InFlight(s)' = link[s] \o b \o Append(queue[s], f) /\ InFlight(s) = link[s] \o b \o queue[s]
    BY <1>1 DEF FlightType, InFlight
  <2>2. link[s] \in Seq(Frames) /\ queue[s] \in Seq(Frames) /\ b \in Seq(Frames)
    BY FlightParts
  <2>3. \A x, y, z \in Seq(Frames) : x \o y \o Append(z, f) = Append(x \o y \o z, f)
    BY QueuedLast
  <2> HIDE DEF b
  <2>4. link[s] \o b \o Append(queue[s], f) = Append(link[s] \o b \o queue[s], f)
    BY <2>2, <2>3, Zenon
  <2> QED BY <2>1, <2>4, Zenon
<1> QED BY <1>2, <1>3, <1>4

LEMMA ReadFlight ==
  ASSUME FlightType, NEW s \in Sides, link[s] # <<>>, link' = [link EXCEPT ![s] = Tail(@)],
         loop'[s] = loop[s], sending'[s] = sending[s], queue'[s] = queue[s]
  PROVE  /\ InFlight(s) # <<>> /\ Head(InFlight(s)) = Head(link[s])
         /\ InFlight(s)' = Tail(InFlight(s))
         /\ link' \in [Sides -> Seq(Frames)]
<1>1. link' \in [Sides -> Seq(Frames)] /\ link'[s] = Tail(link[s])
  BY DEF FlightType
<1> DEFINE b == IF loop[s] = "sending" THEN <<sending[s]>> ELSE <<>>
<1>2. InFlight(s)' = Tail(link[s]) \o b \o queue[s] /\ InFlight(s) = link[s] \o b \o queue[s]
  BY <1>1 DEF InFlight
<1>3. link[s] \in Seq(Frames) /\ queue[s] \in Seq(Frames) /\ b \in Seq(Frames)
  BY FlightParts
<1>4. \A x, y, z \in Seq(Frames) : x # <<>> =>
        /\ x \o y \o z # <<>> /\ Head(x \o y \o z) = Head(x)
        /\ Tail(x) \o y \o z = Tail(x \o y \o z)
  <2> SUFFICES ASSUME NEW x \in Seq(Frames), NEW y \in Seq(Frames), NEW z \in Seq(Frames), x # <<>>
               PROVE  /\ x \o y \o z # <<>> /\ Head(x \o y \o z) = Head(x)
                      /\ Tail(x) \o y \o z = Tail(x \o y \o z)
    BY Zenon
  <2> QED BY ReadFirst
<1> HIDE DEF b
<1>5. /\ link[s] \o b \o queue[s] # <<>> /\ Head(link[s] \o b \o queue[s]) = Head(link[s])
      /\ Tail(link[s]) \o b \o queue[s] = Tail(link[s] \o b \o queue[s])
  BY <1>3, <1>4, Zenon
<1> QED BY <1>1, <1>2, <1>5, Zenon

-----------------------------------------------------------------------------
(* A step that leaves the tasks alone and at most loses frames. *)
Thins ==
  /\ FlightType' /\ UNCHANGED <<task, nextId>>
  /\ \A s \in Sides : Ordered(InFlight(s)') /\ Carried(InFlight(s)') \subseteq Carried(InFlight(s))

LEMMA ThinningKeeps == FlightInv /\ MapType' /\ Thins => FlightInv'
<1> SUFFICES ASSUME FlightInv, MapType', Thins PROVE FlightInv'
  OBVIOUS
<1>1. Fresh' /\ Flights'
  BY DEF FlightInv, Thins, Fresh, Flights
<1>2. OpenFirst' /\ CloseLast'
  BY DEF FlightInv, Thins, OpenFirst, Unsent, CloseLast, Sides
<1>3. OpenUnread'
  <2> SUFFICES ASSUME NEW i \in Ids,
                      Unsent(i)' \/ (\E g \in Carried(InFlight("controller")') : g.id = i /\ g.type = "open")
               PROVE  task'[<<"controlled", i>>] = "none" /\ \A g \in Carried(InFlight("controlled")') : g.id # i
    BY DEF OpenUnread
  <2>1. Unsent(i) \/ (\E g \in Carried(InFlight("controller")) : g.id = i /\ g.type = "open")
    BY DEF Thins, Unsent, Sides
  <2>2. task[<<"controlled", i>>] = "none" /\ \A g \in Carried(InFlight("controlled")) : g.id # i
    BY <2>1 DEF FlightInv, OpenUnread
  <2> QED BY <2>2 DEF Thins, Sides
<1> QED BY <1>1, <1>2, <1>3 DEF FlightInv, Thins

(* The loops send in place, or end and lose frames. *)
LEMMA LoopThins ==
  ASSUME FlightType, Flights, NEW s \in Sides, LoopStep(s) \/ LoopEnd(s)
  PROVE  Thins
<1> DEFINE b == IF loop[s] = "sending" THEN <<sending[s]>> ELSE <<>>
<1>1. /\ link[s] \in Seq(Frames) /\ queue[s] \in Seq(Frames) /\ b \in Seq(Frames)
      /\ InFlight(s) \in Seq(Frames) /\ InFlight(s) = link[s] \o b \o queue[s]
  BY FlightParts DEF InFlight
<1>2. /\ UNCHANGED <<task, nextId, sent>>
      /\ \A r \in Sides \ {s} : /\ UNCHANGED <<loop[r], sending[r], queue[r], link[r]>>
  BY DEF FlightType, LoopStep, LoopEnd, SendNext, Unblock, DropQueues, PeerGone, taskVars
<1>3. \A r \in Sides \ {s} : InFlight(r)' = InFlight(r)
  BY <1>2 DEF InFlight
<1>4. SUFFICES FlightType' /\ Ordered(InFlight(s)') /\ Carried(InFlight(s)') \subseteq Carried(InFlight(s))
  BY <1>2, <1>3 DEF Thins, Flights
<1>5. CASE SendNext(s)
  <2> USE DEF FlightType
  <2>1. Head(queue[s]) \in Frames /\ Tail(queue[s]) \in Seq(Frames) /\ loop[s] = "running"
    BY <1>1, <1>5 DEF SendNext
  <2>2. InFlight(s) = link[s] \o <<>> \o queue[s]
    BY <1>1, <2>1
  <2>3. CASE Len(link[s]) < LINK_FRAMES
    <3>1. /\ link' = [link EXCEPT ![s] = Append(@, Head(queue[s]))] /\ UNCHANGED <<loop, sending>>
          /\ queue' = [queue EXCEPT ![s] = Tail(@)]
      BY <1>5, <2>3 DEF SendNext
    <3>2. FlightType'
      BY <1>1, <1>2, <2>1, <3>1
    <3>3. InFlight(s)' = Append(link[s], Head(queue[s])) \o <<>> \o Tail(queue[s])
      BY <2>1, <3>1 DEF InFlight
    <3>4. InFlight(s)' = InFlight(s)
      BY <1>1, <1>5, <2>2, <3>3, SentInPlace DEF SendNext
    <3> QED BY <3>2, <3>4 DEF Flights
  <2>4. CASE ~(Len(link[s]) < LINK_FRAMES)
    <3>1. /\ loop' = [loop EXCEPT ![s] = "sending"] /\ sending' = [sending EXCEPT ![s] = Head(queue[s])]
          /\ link' = link /\ queue' = [queue EXCEPT ![s] = Tail(@)]
      BY <1>5, <2>4 DEF SendNext
    <3>2. FlightType'
      BY <1>1, <1>2, <2>1, <3>1
    <3>3. InFlight(s)' = link[s] \o <<Head(queue[s])>> \o Tail(queue[s])
      BY <2>1, <3>1 DEF InFlight
    <3>4. InFlight(s)' = InFlight(s)
      BY <1>1, <1>5, <2>2, <3>3, SentInPlace DEF SendNext
    <3> QED BY <3>2, <3>4 DEF Flights
  <2> QED BY <2>3, <2>4
<1>6. CASE Unblock(s)
  <2> USE DEF FlightType
  <2>1. /\ loop[s] = "sending" /\ sending[s] \in Frames /\ UNCHANGED queue
        /\ link' = [link EXCEPT ![s] = Append(@, sending[s])] /\ sending' = [sending EXCEPT ![s] = NoFrame]
        /\ loop' = [loop EXCEPT ![s] = "running"]
    BY <1>6 DEF Unblock
  <2>2. FlightType'
    BY <1>1, <1>2, <2>1
  <2>3. InFlight(s)' = Append(link[s], sending[s]) \o <<>> \o queue[s]
    BY <2>1 DEF InFlight
  <2>4. InFlight(s) = link[s] \o <<sending[s]>> \o queue[s]
    BY <2>1 DEF InFlight
  <2>5. InFlight(s)' = InFlight(s)
    BY <1>1, <2>1, <2>3, <2>4, UnblockedInPlace
  <2> QED BY <2>2, <2>5 DEF Flights
<1>7. CASE LoopEnd(s)
  <2> USE DEF FlightType
  <2>1. /\ loop' = [loop EXCEPT ![s] = "closed"] /\ sending' = [sending EXCEPT ![s] = NoFrame]
        /\ UNCHANGED <<queue, link>>
    BY <1>7 DEF LoopEnd
  <2>2. FlightType'
    BY <1>2, <2>1
  <2>3. InFlight(s)' = link[s] \o <<>> \o queue[s]
    BY <2>1 DEF InFlight
  <2> HIDE DEF b
  <2> QED BY <1>1, <2>2, <2>3, OrderedDrop DEF Flights
<1>8. CASE DropQueues(s)
  <2> USE DEF FlightType
  <2>1. /\ loop' = [loop EXCEPT ![s] = "gone"] /\ queue' = [queue EXCEPT ![s] = <<>>]
        /\ UNCHANGED <<sending, link>>
    BY <1>8 DEF DropQueues
  <2>2. FlightType'
    BY <1>2, <2>1
  <2>3. InFlight(s)' = link[s] \o <<>> \o <<>>
    BY <2>1 DEF InFlight
  <2> HIDE DEF b
  <2> QED BY <1>1, <2>2, <2>3, OrderedDrop DEF Flights
<1> QED BY <1>5, <1>6, <1>7, <1>8 DEF LoopStep, PeerGone

(* Reading data or a close. *)
LEMMA ReadThins ==
  ASSUME FlightType, Flights, OnFrame \/ Handle
  PROVE  Thins
<1>1. PICK s \in Sides : /\ link[s] # <<>> /\ link' = [link EXCEPT ![s] = Tail(@)]
                         /\ UNCHANGED <<loop, sending, queue, nextId, task, sent>>
  BY DEF OnFrame, Handle, Sides, taskVars
<1>2. InFlight(s) # <<>> /\ InFlight(s)' = Tail(InFlight(s)) /\ link' \in [Sides -> Seq(Frames)]
  BY <1>1, ReadFlight
<1>3. FlightType'
  BY <1>1, <1>2 DEF FlightType
<1>4. \A r \in Sides \ {s} : InFlight(r)' = InFlight(r)
  BY <1>1 DEF InFlight, FlightType
<1>5. Ordered(InFlight(s)') /\ Carried(InFlight(s)') \subseteq Carried(InFlight(s))
  BY <1>2, FlightParts, OrderedTail DEF Flights
<1> QED BY <1>1, <1>3, <1>4, <1>5 DEF Thins, Flights

(* Steps that touch neither frames nor the stages of tasks. *)
LEMMA IdleThins ==
  ASSUME FlightType, Flights, UNCHANGED <<loop, sending, queue, link, nextId, task, sent>>
  PROVE  Thins
<1>1. \A s \in Sides : InFlight(s)' = InFlight(s)
  BY DEF InFlight
<1> QED BY <1>1 DEF Thins, Flights, FlightType

-----------------------------------------------------------------------------
(* A task moves on without sending. *)
LEMMA MovingKeeps ==
  ASSUME FlightInv, MapType', NEW s \in Sides, NEW i \in Ids, NEW stage \in TaskStages,
         UNCHANGED <<loop, sending, queue, link, nextId, sent>>,
         task[<<s, i>>] # "none", stage \notin {"none", "opening"},
         task[<<s, i>>] \in {"remove", "done"} => stage \in {"remove", "done"},
         task' = [task EXCEPT ![<<s, i>>] = stage]
  PROVE  FlightInv'
<1>1. \A r \in Sides : InFlight(r)' = InFlight(r)
  BY DEF InFlight
<1>2. FlightType' /\ Flights'
  BY <1>1 DEF FlightInv, FlightType, Flights
<1>3. \A e \in Ends : task'[e] = IF e = <<s, i>> THEN stage ELSE task[e]
  BY DEF FlightInv, MapType
<1>4. Fresh' /\ OpenFirst' /\ OpenUnread' /\ CloseLast'
  BY <1>1, <1>3 DEF FlightInv, Fresh, OpenFirst, OpenUnread, CloseLast, Unsent, Ends, Sides
<1> QED BY <1>2, <1>4 DEF FlightInv

(* A task that runs sends a frame other than `open`. *)
LEMMA SendingKeeps ==
  ASSUME FlightInv, MapType', NEW s \in Sides, NEW i \in Ids, NEW f \in Frames, NEW stage \in TaskStages,
         Enqueue(s, f), UNCHANGED <<loop, sending, link, nextId>>, sent' \in [Ends -> Nat],
         f.id = i, f.type # "open",
         task[<<s, i>>] \in {"connecting", "run", "close"}, stage \notin {"none", "opening"},
         f.type = "close" => stage \in {"remove", "done"},
         task' = [task EXCEPT ![<<s, i>>] = stage]
  PROVE  FlightInv'
<1>1. /\ InFlight(s)' = Append(InFlight(s), f) /\ InFlight(s) \in Seq(Frames)
      /\ \A r \in Sides \ {s} : InFlight(r)' = InFlight(r)
      /\ queue' \in [Sides -> Seq(Frames)]
  BY EnqueueFlight, FlightParts DEF FlightInv
<1>2. \A g \in Carried(InFlight(s)) : g.id = i => g.type # "close"
  BY DEF FlightInv, CloseLast
<1>3. Ordered(InFlight(s)') /\ Carried(InFlight(s)') = Carried(InFlight(s)) \cup {f}
  BY <1>1, <1>2, OrderedAppend DEF FlightInv, Flights
<1>4. FlightType' /\ Flights'
  BY <1>1, <1>3 DEF FlightInv, FlightType, Flights
<1>5. \A e \in Ends : task'[e] = IF e = <<s, i>> THEN stage ELSE task[e]
  BY DEF FlightInv, MapType
<1>6. \A r \in Sides : Carried(InFlight(r)') = IF r = s THEN Carried(InFlight(r)) \cup {f} ELSE Carried(InFlight(r))
  BY <1>1, <1>3
<1>7. Fresh' /\ OpenFirst' /\ CloseLast'
  BY <1>5, <1>6 DEF FlightInv, Fresh, OpenFirst, CloseLast, Unsent, Ends, Sides
<1>8. OpenUnread'
  BY <1>5, <1>6 DEF FlightInv, OpenUnread, Unsent, Ends, Sides
<1> QED BY <1>4, <1>7, <1>8 DEF FlightInv

(* `open` is sent by a task that has sent nothing. *)
LEMMA SendOpenFlight ==
  ASSUME FlightInv, MapType', NEW i \in Ids, SendOpen(i)
  PROVE  FlightInv'
<1> DEFINE e == <<"controller", i>>
           f == Frame("open", i, 0)
<1>1. task[e] = "opening" /\ UNCHANGED <<loop, sending, link, nextId, sent>>
  BY DEF SendOpen, loopVars
<1>2. CASE SinkClosed("controller")
  <2>1. task' = [task EXCEPT ![<<"controller", i>>] = "remove"] /\ UNCHANGED queue
    BY <1>2 DEF SendOpen
  <2>2. "controller" \in Sides /\ "remove" \in TaskStages /\ task[<<"controller", i>>] = "opening"
    BY <1>1 DEF Sides, TaskStages
  <2> QED BY <1>1, <2>1, <2>2, MovingKeeps
<1>3. CASE ~SinkClosed("controller")
  <2>1. task' = [task EXCEPT ![e] = "run"] /\ Enqueue("controller", f)
    BY <1>3 DEF SendOpen
  <2>2. f \in Frames /\ f.id = i /\ f.type = "open"
    BY DEF Frame, Frames, FrameTypes
  <2> HIDE DEF f
  <2>3. /\ InFlight("controller")' = Append(InFlight("controller"), f) /\ InFlight("controller") \in Seq(Frames)
        /\ InFlight("controlled")' = InFlight("controlled")
        /\ queue' \in [Sides -> Seq(Frames)]
    BY <1>1, <2>1, <2>2, EnqueueFlight, FlightParts DEF FlightInv, Sides
  <2>4. \A g \in Carried(InFlight("controller")) : g.id # i
    BY <1>1 DEF FlightInv, OpenFirst, Unsent
  <2>5. /\ Ordered(InFlight("controller")')
        /\ Carried(InFlight("controller")') = Carried(InFlight("controller")) \cup {f}
    BY <2>2, <2>3, <2>4, OrderedAppend DEF FlightInv, Flights, Sides
  <2>6. FlightType' /\ Flights'
    BY <1>1, <2>3, <2>5 DEF FlightInv, FlightType, Flights, Sides
  <2>7. \A x \in Ends : task'[x] = IF x = e THEN "run" ELSE task[x]
    BY <2>1 DEF FlightInv, MapType
  <2>8. Fresh' /\ OpenFirst' /\ CloseLast'
    <3>1. Fresh'
      BY <1>1, <2>7 DEF FlightInv, FlightType, Fresh, Ends, Sides
    <3>2. OpenFirst'
      BY <2>2, <2>5, <2>7 DEF FlightInv, OpenFirst, Unsent, Ends, Sides
    <3>3. CloseLast'
      BY <1>1, <2>2, <2>3, <2>5, <2>7 DEF FlightInv, CloseLast, Ends, Sides
    <3> QED BY <3>1, <3>2, <3>3
  <2>9. OpenUnread'
    BY <1>1, <2>2, <2>3, <2>5, <2>7 DEF FlightInv, OpenUnread, Unsent, Ends, Sides
  <2> QED BY <2>6, <2>8, <2>9 DEF FlightInv
<1> QED BY <1>2, <1>3

(* An id is handed out. *)
LEMMA OpenInsertFlight ==
  ASSUME FlightInv, MapType', OpenInsert
  PROVE  FlightInv'
<1>1. UNCHANGED <<loop, sending, queue, link, sent>>
  BY DEF OpenInsert
<1>2. \A r \in Sides : InFlight(r)' = InFlight(r)
  BY <1>1 DEF InFlight
<1>3. CASE UNCHANGED <<nextId, task>>
  BY <1>1, <1>3, IdleThins, ThinningKeeps DEF FlightInv
<1>4. CASE nextId' = nextId + 1 /\ task' = [task EXCEPT ![<<"controller", nextId>>] = "opening"]
  <2>1. FlightType' /\ Flights'
    BY <1>1, <1>2, <1>4 DEF FlightInv, FlightType, Flights
  <2>2. \A x \in Ends : task'[x] = IF x = <<"controller", nextId>> THEN "opening" ELSE task[x]
    BY <1>4 DEF FlightInv, MapType
  <2>3. nextId \in Ids => task[<<"controller", nextId>>] = "none"
    BY DEF FlightInv, FlightType, Fresh
  <2>4. Fresh'
    BY <1>4, <2>2, ConstantsAssumption DEF FlightInv, FlightType, Fresh, Ends, Sides
  <2>5. \A i \in Ids : Unsent(i)' => Unsent(i)
    BY <2>2, <2>3 DEF Unsent, Ends, Sides
  <2>6. \A i \in Ids : task'[<<"controlled", i>>] = task[<<"controlled", i>>]
    BY <2>2 DEF Ends, Sides
  <2>7. OpenFirst' /\ OpenUnread'
    BY <1>2, <2>5, <2>6 DEF FlightInv, OpenFirst, OpenUnread, Sides
  <2>8. CloseLast'
    BY <1>2, <2>2, <2>3 DEF FlightInv, CloseLast, Ends, Sides
  <2> QED BY <2>1, <2>4, <2>7, <2>8 DEF FlightInv
<1> QED BY <1>3, <1>4 DEF OpenInsert

(* The controlled side's task until its target is connected or not. *)
LEMMA ConnectFlight ==
  ASSUME FlightInv, MapType', NEW i \in Ids, ConnectStep(i)
  PROVE  FlightInv'
<1> DEFINE e == <<"controlled", i>>
<1>1. task[<<"controlled", i>>] = "connecting" /\ UNCHANGED <<loop, sending, link, nextId, sent>>
  BY DEF ConnectStep, ConnectCmd, ConnectDropped, ConnectOk, ConnectFail, loopVars
<1>2. "controlled" \in Sides /\ {"run", "done"} \subseteq TaskStages
  BY DEF Sides, TaskStages
<1>3. CASE UNCHANGED <<task, queue>>
  BY <1>1, <1>3, IdleThins, ThinningKeeps DEF FlightInv
<1>4. CASE task' = [task EXCEPT ![<<"controlled", i>>] = "done"] /\ UNCHANGED queue
  BY <1>1, <1>2, <1>4, MovingKeeps
<1>5. ASSUME NEW n \in {0, 1}, NEW stage \in {"run", "done"}, Enqueue("controlled", Frame("opened", i, n)),
             task' = [task EXCEPT ![<<"controlled", i>>] = stage]
      PROVE  FlightInv'
  <2> DEFINE f == Frame("opened", i, n)
  <2>1. f \in Frames /\ f.id = i /\ f.type = "opened"
    BY DEF Frame, Frames, FrameTypes
  <2>2. Enqueue("controlled", f) /\ sent' \in [Ends -> Nat] /\ stage \in TaskStages
    BY <1>1, <1>2, <1>5 DEF FlightInv, FlightType
  <2> HIDE DEF f
  <2> QED BY <1>1, <1>2, <1>5, <2>1, <2>2, SendingKeeps
<1>6. CASE ConnectCmd(i) BY <1>3, <1>4, <1>6 DEF ConnectCmd
<1>7. CASE ConnectDropped(i) BY <1>4, <1>7 DEF ConnectDropped
<1>8. CASE ConnectOk(i) BY <1>4, <1>5, <1>8 DEF ConnectOk
<1>9. CASE ConnectFail(i) BY <1>4, <1>5, <1>9 DEF ConnectFail
<1> QED BY <1>6, <1>7, <1>8, <1>9 DEF ConnectStep

(* The task of a channel that is open. *)
LEMMA TaskFlight ==
  ASSUME FlightInv, MapType', NEW s \in Sides, NEW i \in Ids, TaskStep(<<s, i>>) \/ SocketStep(<<s, i>>)
  PROVE  FlightInv'
<1> DEFINE e == <<s, i>>
<1>1. Side(e) = s /\ Id(e) = i /\ e \in Ends
  BY DEF Side, Id, Ends
<1>2. UNCHANGED <<loop, sending, link, nextId>>
  BY DEF TaskStep, SocketStep, SendData, CancelOut, TakePending, TakeInbound, InboundGone, CancelIn, Join,
         SendClose, Remove, ReadSocket, ReadEof, WriteSocket, WriteFail, loopVars
<1>3. CASE UNCHANGED <<queue, task, sent>>
  BY <1>2, <1>3, IdleThins, ThinningKeeps DEF FlightInv
<1>4. ASSUME NEW stage \in {"close", "remove", "done"}, task[e] \in {"run", "close", "remove"},
             task[e] = "remove" => stage = "done", UNCHANGED <<queue, sent>>, task' = [task EXCEPT ![<<s, i>>] = stage]
      PROVE  FlightInv'
  <2>1. stage \in TaskStages
    BY DEF TaskStages
  <2> QED BY <1>2, <1>4, <2>1, MovingKeeps
<1>5. CASE Join(e)
  <2>1. /\ task[e] = "run" /\ UNCHANGED <<queue, sent>>
        /\ \E stage \in {"close", "remove", "done"} : task' = [task EXCEPT ![<<s, i>>] = stage]
    BY <1>5 DEF Join, AfterChannel
  <2> QED BY <1>4, <2>1
<1>6. CASE Remove(e)
  BY <1>4, <1>6 DEF Remove
<1>7. CASE SendClose(e)
  <2>1. /\ task[e] = "close" /\ UNCHANGED sent
    BY <1>7 DEF SendClose
  <2>2. PICK stage \in {"remove", "done"} : task' = [task EXCEPT ![<<s, i>>] = stage]
    BY <1>7 DEF SendClose, AfterChannel
  <2>3. CASE UNCHANGED queue
    BY <1>4, <2>1, <2>2, <2>3
  <2>4. CASE Enqueue(s, Frame("close", i, 0))
    <3> DEFINE f == Frame("close", i, 0)
    <3>1. f \in Frames /\ f.id = i /\ f.type = "close"
      BY DEF Frame, Frames, FrameTypes
    <3>2. Enqueue(s, f) /\ sent' \in [Ends -> Nat] /\ stage \in TaskStages
      BY <2>1, <2>4 DEF FlightInv, FlightType, TaskStages
    <3> HIDE DEF f
    <3> QED BY <1>2, <2>1, <2>2, <3>1, <3>2, SendingKeeps
  <2> QED BY <1>1, <1>7, <2>3, <2>4 DEF SendClose
<1>8. CASE SendData(e)
  <2>1. task[<<s, i>>] = "run" /\ UNCHANGED task
    BY <1>8 DEF SendData
  <2>2. CASE UNCHANGED <<queue, sent>>
    BY <1>3, <2>1, <2>2
  <2>3. CASE Enqueue(s, Frame("data", i, sent[e] + 1)) /\ sent' = [sent EXCEPT ![e] = @ + 1]
    <3> DEFINE f == Frame("data", i, sent[e] + 1)
    <3>1. f \in Frames /\ f.id = i /\ f.type = "data"
      BY <1>1 DEF Frame, Frames, FrameTypes, FlightInv, FlightType
    <3>2. Enqueue(s, f) /\ sent' \in [Ends -> Nat] /\ "run" \in TaskStages
      BY <1>1, <2>3 DEF FlightInv, FlightType, TaskStages
    <3>3. task' = [task EXCEPT ![<<s, i>>] = "run"]
      BY <1>1, <2>1 DEF FlightInv, MapType
    <3> HIDE DEF f
    <3> QED BY <1>2, <2>1, <3>1, <3>2, <3>3, SendingKeeps
  <2> QED BY <1>1, <1>8, <2>2, <2>3 DEF SendData
<1> QED BY <1>3, <1>5, <1>6, <1>7, <1>8
        DEF TaskStep, SocketStep, CancelOut, TakePending, TakeInbound, InboundGone, CancelIn,
            ReadSocket, ReadEof, WriteSocket, WriteFail

(* `open` is read: the only one of its channel, ahead of everything the    *)
(* controlled side sends for it.                                           *)
LEMMA OnOpenFlight ==
  ASSUME FlightInv, MapType', NEW permitted \in BOOLEAN, OnOpen(permitted)
  PROVE  FlightInv'
<1> DEFINE f == Head(link["controller"])
           i == f.id
           e == <<"controlled", i>>
           up == InFlight("controller")
           down == InFlight("controlled")
           refusal == Frame("opened", i, 0)
<1>1. /\ link["controller"] # <<>> /\ link' = [link EXCEPT !["controller"] = Tail(@)]
      /\ UNCHANGED <<loop, sending, nextId, sent>> /\ f.type = "open"
  BY DEF OnOpen
<1>2. /\ up \in Seq(Frames) /\ down \in Seq(Frames) /\ f \in Frames
      /\ link["controller"] \in Seq(Frames) /\ link'["controlled"] = link["controlled"]
  <2>1. link["controller"] \in Seq(Frames) /\ link'["controlled"] = link["controlled"]
    BY <1>1 DEF FlightInv, FlightType, Sides
  <2>2. f \in Frames
    BY <1>1, <2>1
  <2> QED BY <2>1, <2>2, FlightParts DEF FlightInv, Sides
<1>3. i \in Ids /\ refusal \in Frames /\ refusal.id = i /\ refusal.type = "opened"
  BY <1>2 DEF Frame, Frames, FrameTypes
<1> HIDE DEF f, refusal
<1>4. /\ queue' \in [Sides -> Seq(Frames)] /\ queue'["controller"] = queue["controller"]
      /\ (Enqueue("controlled", refusal) /\ down' = Append(down, refusal)) \/ (UNCHANGED queue /\ down' = down)
  <2>1. CASE Enqueue("controlled", refusal)
    BY <1>1, <1>2, <1>3, <2>1, EnqueueFlight DEF FlightInv, Sides
  <2>2. CASE UNCHANGED queue
    BY <1>1, <1>2, <2>2 DEF FlightInv, FlightType, InFlight, Sides
  <2> QED BY <2>1, <2>2 DEF OnOpen, f, refusal
<1>5. up # <<>> /\ Head(up) = f /\ up' = Tail(up) /\ link' \in [Sides -> Seq(Frames)]
  BY <1>1, <1>4, ReadFlight DEF FlightInv, Sides, f
<1>6. /\ Ordered(up') /\ Carried(up') \subseteq Carried(up) /\ f \in Carried(up)
      /\ \A g \in Carried(up') : g.id = i => g.type # "open"
  BY <1>2, <1>5, OrderedTail DEF FlightInv, Flights, Sides
<1>7. ~Unsent(i) /\ task[e] = "none" /\ \A g \in Carried(down) : g.id # i
  BY <1>1, <1>3, <1>6 DEF FlightInv, OpenFirst, OpenUnread
<1>8. Ordered(down') /\ Carried(down') \subseteq Carried(down) \cup {refusal}
  <2>1. Ordered(down)
    BY DEF FlightInv, Flights, Sides
  <2>2. Ordered(Append(down, refusal)) /\ Carried(Append(down, refusal)) = Carried(down) \cup {refusal}
    BY <1>2, <1>3, <1>7, <2>1, OrderedAppend
  <2> QED BY <1>4, <2>1, <2>2
<1>9. \A x \in Ends : IF x = e THEN task'[x] \in {"none", "connecting"} ELSE task'[x] = task[x]
  <2>1. task' = task \/ \E stage \in {task[e], "connecting"} : task' = [task EXCEPT ![e] = stage]
    BY DEF OnOpen, f
  <2> QED BY <1>7, <2>1 DEF FlightInv, MapType
<1> HIDE DEF i, up, down
<1>10. FlightType' /\ Flights'
  BY <1>1, <1>4, <1>5, <1>6, <1>8 DEF FlightInv, FlightType, Flights, Sides, up, down
<1>11. Fresh' /\ OpenFirst'
  BY <1>1, <1>6, <1>9 DEF FlightInv, Fresh, OpenFirst, Unsent, Ends, Sides, up
<1>12. OpenUnread'
  <2> SUFFICES ASSUME NEW j \in Ids, Unsent(j)' \/ (\E g \in Carried(up') : g.id = j /\ g.type = "open")
               PROVE  task'[<<"controlled", j>>] = "none" /\ \A g \in Carried(down') : g.id # j
    BY DEF OpenUnread, up, down
  <2>1. j # i
    BY <1>6, <1>7, <1>9 DEF Unsent, Ends, Sides
  <2>2. Unsent(j) \/ (\E g \in Carried(up) : g.id = j /\ g.type = "open")
    BY <1>6, <1>9 DEF Unsent, Ends, Sides
  <2>3. task[<<"controlled", j>>] = "none" /\ \A g \in Carried(down) : g.id # j
    BY <2>2 DEF FlightInv, OpenUnread, up, down
  <2> QED BY <1>3, <1>8, <1>9, <2>1, <2>3 DEF Ends, Sides
<1>13. CloseLast'
  BY <1>3, <1>6, <1>7, <1>8, <1>9 DEF FlightInv, CloseLast, Ends, Sides, up, down
<1> QED BY <1>10, <1>11, <1>12, <1>13 DEF FlightInv

LEMMA StepFlight == FlightInv /\ MapType' /\ [Next]_vars => FlightInv'
<1> SUFFICES ASSUME FlightInv, MapType', [Next]_vars PROVE FlightInv'
  OBVIOUS
<1>1. CASE OpenInsert BY <1>1, OpenInsertFlight
<1>2. CASE OpenStep BY <1>2, OnOpenFlight DEF OpenStep
<1>3. CASE \E i \in Ids : SendOpen(i) \/ ConnectStep(i)
  BY <1>3, SendOpenFlight, ConnectFlight
<1>4. CASE \E e \in Ends : TaskStep(e) \/ SocketStep(e)
  <2>1. \E s \in Sides, i \in Ids : TaskStep(<<s, i>>) \/ SocketStep(<<s, i>>)
    BY <1>4 DEF Ends
  <2> QED BY <2>1, TaskFlight
<1>5. CASE OnFrame \/ Handle
  BY <1>5, ReadThins, ThinningKeeps DEF FlightInv
<1>6. CASE SendTimeout \/ \E s \in Sides : LoopStep(s) \/ LoopEnd(s)
  BY <1>6, LoopThins, ThinningKeeps DEF FlightInv, SendTimeout, Sides
<1>7. CASE OpenCheck \/ UNCHANGED vars
  BY <1>7, IdleThins, ThinningKeeps DEF FlightInv, OpenCheck, vars, taskVars
<1> QED BY <1>1, <1>2, <1>3, <1>4, <1>5, <1>6, <1>7 DEF Next

(* The frames of a channel are on their way in the order `open`, data,     *)
(* `close`, with one `open` and one `close` at most: send_ordered keeps    *)
(* the order of a task, and an id is never opened twice.                   *)
THEOREM FramesInOrder == Spec => []FrameOrder
<1>1. FlightInv => FrameOrder BY DEF FlightInv, Flights, Ordered, FrameOrder
<1>2. MapInv /\ FlightInv /\ [Next]_vars => (MapInv /\ FlightInv)'
  BY StepMap, StepFlight DEF MapInv
<1> QED BY <1>1, <1>2, InitMap, InitFlight, PTL DEF Spec

-----------------------------------------------------------------------------
(* The tunnel as a pipe.  What one end still gets is numbered on from what *)
(* it has: set aside and queued (InOrder), then on the way (Numbered); and  *)
(* an end that is seen anywhere is the end of a sender that has finished.  *)

Far(s) == IF s = "controller" THEN "controlled" ELSE "controller"

Alive(s) == loop[s] \in {"running", "sending"}

(* The frames of a side that its peer can still read: once its loop has    *)
(* ended, what was queued is lost.                                         *)
Reaching(s) == IF Alive(s) THEN InFlight(s) ELSE link[s]

(* The frames the reader of side r's frames takes for the end of the       *)
(* channel.                                                                *)
Closing(r, f) ==
  /\ f.type # "data"
  /\ IF r = "controller" THEN f.type # "open" ELSE ~(f.type = "opened" /\ f.n = 1)

(* The chunks of channel i in the frames fs of side r carry on from        *)
(* number R, up to S if none is lost: c counts them.  An end comes after   *)
(* the last.                                                               *)
Counts(c, fs, i, r, R, S, all) ==
  /\ c[0] = R
  /\ \A k \in 1..Len(fs) :
       IF fs[k].id = i /\ fs[k].type = "data"
         THEN c[k] = c[k - 1] + 1 /\ fs[k].n = c[k]
         ELSE c[k] = c[k - 1] /\ (fs[k].id = i /\ Closing(r, fs[k]) => c[k] = S)
  /\ all => c[Len(fs)] = S

Numbered(fs, i, r, R, S, all) == \E c \in [0..Len(fs) -> 0..S] : Counts(c, fs, i, r, R, S, all)

(* `open` of channel i has not been read yet and may still be. *)
NotYet(i) == Unsent(i) \/ \E g \in Carried(InFlight("controller")) : g.id = i /\ g.type = "open"

Cmds == [type : {"data", "close"}, n : Nat]

PipeType ==
  /\ inn \in [Ends -> {"none", "recv", "write"} \cup RelayEnd]
  /\ inbound \in [Ends -> Seq(Cmds)] /\ pending \in [Ends -> Seq(Nat)]
  /\ chunk \in [Ends -> Nat] /\ written \in [Ends -> Seq(Nat)]

(* Chunks an end has written or is writing, and those it has in all. *)
Held(s, i) == IF inn[<<s, i>>] = "write" THEN Len(written[<<s, i>>]) + 1 ELSE Len(written[<<s, i>>])
Total(h, P, B) == h + Len(P) + Len(B)
Got(s, i) == Total(Held(s, i), pending[<<s, i>>], inbound[<<s, i>>])

(* What waits at an end, set aside in P and queued in B, carries on from   *)
(* number h; none of it was not sent, and an end in the queue comes last,  *)
(* after everything, and leaves no entry.                                  *)
InOrder(h, P, B, S, open) ==
  /\ h + Len(P) <= S
  /\ \A k \in 1..Len(P) : P[k] = h + k
  /\ \A k \in 1..Len(B) :
       \/ B[k] = Data(h + Len(P) + k) /\ h + Len(P) + k <= S
       \/ B[k] = CloseCmd /\ k = Len(B) /\ h + Len(P) + k - 1 = S /\ ~open

(* A channel that is not open yet has nothing. *)
CleanOf(s, i) == LET p == <<s, i>> IN
  /\ task[p] \in {"none", "opening", "connecting"} => inn[p] = "none" /\ written[p] = <<>> /\ sent[p] = 0
  /\ task[p] \in {"none", "opening"} => pending[p] = <<>>
  /\ task[p] = "none" => inbound[p] = <<>>

(* What an end holds is numbered on from what it has written. *)
LocalOf(s, i) == LET p == <<s, i>> IN
  Receiving(p) =>
    /\ inn[p] = "write" => chunk[p] = Held(s, i)
    /\ InOrder(Held(s, i), pending[p], inbound[p], sent[<<Far(s), i>>], entry[p])

Expecting(s, i) == (entry[<<s, i>>] /\ Receiving(<<s, i>>)) \/ (s = "controlled" /\ NotYet(i))

CountOf(s, i) ==
  Expecting(s, i) => Numbered(Reaching(Far(s)), i, Far(s), Got(s, i), sent[<<Far(s), i>>], Alive(Far(s)))

(* A task that sends no more. *)
Ended(s, i) == task[<<s, i>>] \in {"remove", "done"} \/ (task[<<s, i>>] = "none" /\ s = "controlled" /\ ~NotYet(i))

Evidence(s, i) ==
  \/ inn[<<s, i>>] = "PeerClosed"
  \/ \E k \in 1..Len(inbound[<<s, i>>]) : inbound[<<s, i>>][k] = CloseCmd
  \/ \E g \in Carried(InFlight(Far(s))) : g.id = i /\ Closing(Far(s), g)

EvidenceOf(s, i) == Evidence(s, i) => Ended(Far(s), i)

FlowOf(s, i) == CleanOf(s, i) /\ LocalOf(s, i) /\ CountOf(s, i) /\ EvidenceOf(s, i)

PipeInv == PipeType /\ \A s \in Sides, i \in Ids : FlowOf(s, i)

-----------------------------------------------------------------------------
(* How the count of the frames on the way changes. *)

(* No frames of the channel: nothing is counted. *)
LEMMA NumberedNone ==
  ASSUME NEW fs \in Seq(Frames), NEW i, NEW r, NEW S \in Nat, NEW all,
         \A g \in Carried(fs) : g.id # i
  PROVE  Numbered(fs, i, r, S, S, all)
<1> DEFINE c == [k \in 0..Len(fs) |-> S]
<1>1. Len(fs) \in Nat /\ \A k \in 1..Len(fs) : fs[k] \in Carried(fs) /\ k \in 0..Len(fs) /\ k - 1 \in 0..Len(fs)
  BY DEF Carried
<1>2. c \in [0..Len(fs) -> 0..S] /\ \A k \in 0..Len(fs) : c[k] = S
  OBVIOUS
<1> HIDE DEF c
<1>3. Counts(c, fs, i, r, S, S, all)
  BY <1>1, <1>2 DEF Counts
<1> QED BY <1>2, <1>3 DEF Numbered

(* The next chunk is sent. *)
LEMMA NumberedChunk ==
  ASSUME NEW fs \in Seq(Frames), NEW f \in Frames, NEW i, NEW r, NEW R \in Nat, NEW S \in Nat,
         Numbered(fs, i, r, R, S, TRUE), f.id = i, f.type = "data", f.n = S + 1,
         \A g \in Carried(fs) : ~(g.id = i /\ Closing(r, g))
  PROVE  Numbered(Append(fs, f), i, r, R, S + 1, TRUE)
<1> DEFINE gs == Append(fs, f)  n == Len(fs)
<1>1. /\ gs \in Seq(Frames) /\ Len(gs) = n + 1 /\ n \in Nat /\ gs[n + 1] = f
      /\ \A k \in 1..n : gs[k] = fs[k] /\ fs[k] \in Carried(fs)
  BY DEF Carried
<1>2. PICK c \in [0..n -> 0..S] : Counts(c, fs, i, r, R, S, TRUE)
  BY DEF Numbered
<1> DEFINE d == [k \in 0..(n + 1) |-> IF k = n + 1 THEN S + 1 ELSE c[k]]
<1> HIDE DEF gs, n
<1>3. /\ \A k \in 0..n : k \in 0..(n + 1) /\ k # n + 1 /\ c[k] \in 0..(S + 1)
      /\ n + 1 \in 0..(n + 1) /\ S + 1 \in 0..(S + 1) /\ \A k \in 0..(n + 1) : k = n + 1 \/ k \in 0..n
  BY <1>1, <1>2
<1>4. d \in [0..(n + 1) -> 0..(S + 1)] /\ d[n + 1] = S + 1 /\ \A k \in 0..n : d[k] = c[k]
  BY <1>3
<1> HIDE DEF d
<1>5. c[n] = S /\ c[0] = R
  BY <1>2 DEF Counts, n
<1>6. ASSUME NEW k \in 1..(n + 1)
      PROVE  IF gs[k].id = i /\ gs[k].type = "data"
               THEN d[k] = d[k - 1] + 1 /\ gs[k].n = d[k]
               ELSE d[k] = d[k - 1] /\ (gs[k].id = i /\ Closing(r, gs[k]) => d[k] = S + 1)
  <2>1. CASE k \in 1..n
    <3>1. gs[k] = fs[k] /\ d[k] = c[k] /\ d[k - 1] = c[k - 1] /\ ~(fs[k].id = i /\ Closing(r, fs[k]))
      BY <1>1, <1>4, <2>1
    <3> QED BY <1>2, <2>1, <3>1 DEF Counts, n
  <2>2. CASE k = n + 1
    <3>1. gs[k] = f /\ d[k] = S + 1 /\ d[k - 1] = S
      BY <1>1, <1>4, <1>5, <2>2
    <3> QED BY <3>1
  <2> QED BY <1>1, <2>1, <2>2
<1>7. Counts(d, gs, i, r, R, S + 1, TRUE)
  BY <1>1, <1>4, <1>5, <1>6 DEF Counts
<1>8. Numbered(gs, i, r, R, S + 1, TRUE)
  BY <1>1, <1>4, <1>7 DEF Numbered
<1> QED BY <1>8 DEF gs

(* Some other frame is sent. *)
LEMMA NumberedOther ==
  ASSUME NEW fs \in Seq(Frames), NEW f \in Frames, NEW i, NEW r, NEW R \in Nat, NEW S \in Nat,
         Numbered(fs, i, r, R, S, TRUE), ~(f.id = i /\ f.type = "data")
  PROVE  Numbered(Append(fs, f), i, r, R, S, TRUE)
<1> DEFINE gs == Append(fs, f)  n == Len(fs)
<1>1. /\ gs \in Seq(Frames) /\ Len(gs) = n + 1 /\ n \in Nat /\ gs[n + 1] = f
      /\ \A k \in 1..n : gs[k] = fs[k]
  OBVIOUS
<1>2. PICK c \in [0..n -> 0..S] : Counts(c, fs, i, r, R, S, TRUE)
  BY DEF Numbered
<1> DEFINE d == [k \in 0..(n + 1) |-> IF k = n + 1 THEN S ELSE c[k]]
<1> HIDE DEF gs, n
<1>3. /\ \A k \in 0..n : k \in 0..(n + 1) /\ k # n + 1 /\ c[k] \in 0..S
      /\ n + 1 \in 0..(n + 1) /\ S \in 0..S /\ \A k \in 0..(n + 1) : k = n + 1 \/ k \in 0..n
  BY <1>1, <1>2
<1>4. d \in [0..(n + 1) -> 0..S] /\ d[n + 1] = S /\ \A k \in 0..n : d[k] = c[k]
  BY <1>3
<1> HIDE DEF d
<1>5. c[n] = S /\ c[0] = R
  BY <1>2 DEF Counts, n
<1>6. ASSUME NEW k \in 1..(n + 1)
      PROVE  IF gs[k].id = i /\ gs[k].type = "data"
               THEN d[k] = d[k - 1] + 1 /\ gs[k].n = d[k]
               ELSE d[k] = d[k - 1] /\ (gs[k].id = i /\ Closing(r, gs[k]) => d[k] = S)
  <2>1. CASE k \in 1..n
    <3>1. gs[k] = fs[k] /\ d[k] = c[k] /\ d[k - 1] = c[k - 1]
      BY <1>1, <1>4, <2>1
    <3> QED BY <1>2, <2>1, <3>1 DEF Counts, n
  <2>2. CASE k = n + 1
    <3>1. gs[k] = f /\ d[k] = S /\ d[k - 1] = S
      BY <1>1, <1>4, <1>5, <2>2
    <3> QED BY <3>1
  <2> QED BY <1>1, <2>1, <2>2
<1>7. Counts(d, gs, i, r, R, S, TRUE)
  BY <1>1, <1>4, <1>5, <1>6 DEF Counts
<1>8. Numbered(gs, i, r, R, S, TRUE)
  BY <1>1, <1>4, <1>7 DEF Numbered
<1> QED BY <1>8 DEF gs

(* A chunk is sent that will not arrive. *)
LEMMA NumberedLost ==
  ASSUME NEW fs \in Seq(Frames), NEW i, NEW r, NEW R \in Nat, NEW S \in Nat,
         Numbered(fs, i, r, R, S, FALSE), \A g \in Carried(fs) : ~(g.id = i /\ Closing(r, g))
  PROVE  Numbered(fs, i, r, R, S + 1, FALSE)
<1>1. PICK c \in [0..Len(fs) -> 0..S] : Counts(c, fs, i, r, R, S, FALSE)
  BY DEF Numbered
<1>2. c \in [0..Len(fs) -> 0..(S + 1)]
  BY <1>1
<1>3. \A k \in 1..Len(fs) : ~(fs[k].id = i /\ Closing(r, fs[k]))
  BY DEF Carried
<1>4. Counts(c, fs, i, r, R, S + 1, FALSE)
  BY <1>1, <1>3 DEF Counts
<1> QED BY <1>2, <1>4 DEF Numbered

(* The first frame is read. *)
LEMMA NumberedTail ==
  ASSUME NEW fs \in Seq(Frames), NEW i, NEW r, NEW R \in Nat, NEW S \in Nat, NEW all \in BOOLEAN,
         Numbered(fs, i, r, R, S, all), fs # <<>>
  PROVE  IF Head(fs).id = i /\ Head(fs).type = "data"
           THEN /\ Head(fs).n = R + 1 /\ R + 1 <= S
                /\ Numbered(Tail(fs), i, r, R + 1, S, all)
           ELSE /\ Head(fs).id = i /\ Closing(r, Head(fs)) => R = S
                /\ Numbered(Tail(fs), i, r, R, S, all)
<1> DEFINE gs == Tail(fs)  n == Len(gs)
<1>1. /\ gs \in Seq(Frames) /\ Len(fs) = n + 1 /\ n \in Nat /\ Head(fs) = fs[1]
      /\ \A k \in 1..n : gs[k] = fs[k + 1]
  OBVIOUS
<1>2. PICK c \in [0..(n + 1) -> 0..S] : Counts(c, fs, i, r, R, S, all)
  BY <1>1 DEF Numbered
<1> DEFINE d == [k \in 0..n |-> c[k + 1]]
<1> HIDE DEF gs
<1>3. n \in Nat /\ Len(gs) = n
  BY <1>1
<1> HIDE DEF n
<1>4. \A k \in 0..n : k + 1 \in 0..(n + 1) /\ k + 1 \in 1..(n + 1)
  BY <1>3
<1>5. d \in [0..n -> 0..S] /\ \A k \in 0..n : d[k] = c[k + 1]
  BY <1>2, <1>4
<1> HIDE DEF d
<1>6. ASSUME NEW k \in 1..n
      PROVE  IF gs[k].id = i /\ gs[k].type = "data"
               THEN d[k] = d[k - 1] + 1 /\ gs[k].n = d[k]
               ELSE d[k] = d[k - 1] /\ (gs[k].id = i /\ Closing(r, gs[k]) => d[k] = S)
  <2>1. gs[k] = fs[k + 1] /\ d[k] = c[k + 1] /\ d[k - 1] = c[k] /\ k + 1 \in 1..Len(fs) /\ (k + 1) - 1 = k
    BY <1>1, <1>3, <1>5
  <2> QED BY <1>2, <2>1 DEF Counts
<1>7. Counts(d, gs, i, r, c[1], S, all)
  BY <1>1, <1>2, <1>3, <1>5, <1>6 DEF Counts
<1>8. Numbered(gs, i, r, c[1], S, all)
  BY <1>3, <1>5, <1>7 DEF Numbered
<1>9. c[0] = R /\ c[1] \in 0..S /\ 1 \in 1..Len(fs)
  BY <1>1, <1>2, <1>3 DEF Counts
<1>10. CASE Head(fs).id = i /\ Head(fs).type = "data"
  <2>1. c[1] = R + 1 /\ Head(fs).n = R + 1
    BY <1>1, <1>2, <1>9, <1>10 DEF Counts
  <2> QED BY <1>8, <1>9, <1>10, <2>1 DEF gs
<1>11. CASE ~(Head(fs).id = i /\ Head(fs).type = "data")
  <2>1. c[1] = R /\ (Head(fs).id = i /\ Closing(r, Head(fs)) => c[1] = S)
    BY <1>1, <1>2, <1>9, <1>11 DEF Counts
  <2>2. Head(fs).id = i /\ Closing(r, Head(fs)) => R = S
    BY <2>1
  <2>3. Numbered(Tail(fs), i, r, R, S, all)
    BY <1>8, <2>1 DEF gs
  <2> QED BY <1>11, <2>2, <2>3
<1> QED BY <1>10, <1>11

(* The loop ends: only the link is left. *)
LEMMA NumberedCut ==
  ASSUME NEW a \in Seq(Frames), NEW b \in Seq(Frames), NEW q \in Seq(Frames),
         NEW i, NEW r, NEW R \in Nat, NEW S \in Nat, Numbered(a \o b \o q, i, r, R, S, TRUE)
  PROVE  Numbered(a, i, r, R, S, FALSE)
<1> DEFINE fs == a \o b \o q
<1>1. /\ fs \in Seq(Frames) /\ Len(a) \in Nat /\ Len(fs) \in Nat /\ Len(a) <= Len(fs)
      /\ \A k \in 1..Len(a) : k \in 1..Len(fs) /\ fs[k] = a[k]
  OBVIOUS
<1>2. PICK c \in [0..Len(fs) -> 0..S] : Counts(c, fs, i, r, R, S, TRUE)
  BY DEF Numbered
<1> HIDE DEF fs
<1> DEFINE d == [k \in 0..Len(a) |-> c[k]]
<1>3. \A k \in 0..Len(a) : k \in 0..Len(fs)
  BY <1>1
<1>4. d \in [0..Len(a) -> 0..S] /\ \A k \in 0..Len(a) : d[k] = c[k]
  BY <1>2, <1>3
<1> HIDE DEF d
<1>5. ASSUME NEW k \in 1..Len(a)
      PROVE  IF a[k].id = i /\ a[k].type = "data"
               THEN d[k] = d[k - 1] + 1 /\ a[k].n = d[k]
               ELSE d[k] = d[k - 1] /\ (a[k].id = i /\ Closing(r, a[k]) => d[k] = S)
  <2>1. fs[k] = a[k] /\ k \in 1..Len(fs)
    BY <1>1
  <2>2. k \in 0..Len(a) /\ k - 1 \in 0..Len(a)
    BY <1>1
  <2>3. d[k] = c[k] /\ d[k - 1] = c[k - 1]
    BY <1>4, <2>2
  <2> QED BY <1>2, <2>1, <2>3 DEF Counts
<1>6. d[0] = R
  BY <1>1, <1>2, <1>4 DEF Counts
<1>7. Counts(d, a, i, r, R, S, FALSE)
  BY <1>5, <1>6 DEF Counts
<1> QED BY <1>4, <1>7 DEF Numbered

-----------------------------------------------------------------------------
(* The rest of a queue. *)
LEMMA RestOf ==
  ASSUME NEW T, NEW b \in Seq(T), b # <<>>
  PROVE  /\ Tail(b) \in Seq(T) /\ Len(b) \in Nat \ {0} /\ Len(Tail(b)) = Len(b) - 1 /\ Head(b) = b[1] /\ Head(b) \in T
         /\ \A k \in 1..Len(Tail(b)) : k + 1 \in 1..Len(b) /\ Tail(b)[k] = b[k + 1]
OBVIOUS

(* A chunk that was set aside is taken up. *)
LEMMA OrderPop ==
  ASSUME NEW h \in Nat, NEW P \in Seq(Nat), NEW B \in Seq(Cmds), NEW S \in Nat, NEW open,
         InOrder(h, P, B, S, open), P # <<>>
  PROVE  /\ Head(P) = h + 1 /\ InOrder(h + 1, Tail(P), B, S, open)
         /\ Total(h + 1, Tail(P), B) = Total(h, P, B)
<1> DEFINE Q == Tail(P)
<1>1. /\ Len(P) \in Nat \ {0} /\ Len(Q) = Len(P) - 1 /\ Head(P) = P[1] /\ Len(B) \in Nat
      /\ \A k \in 1..Len(Q) : k + 1 \in 1..Len(P) /\ Q[k] = P[k + 1]
  <2>1. Len(B) \in Nat
    OBVIOUS
  <2> QED BY <2>1, RestOf
<1> HIDE DEF Q
<1>2. (h + 1) + Len(Q) = h + Len(P)
  BY <1>1
<1>3. Head(P) = h + 1
  BY <1>1 DEF InOrder
<1>4. \A k \in 1..Len(Q) : Q[k] = (h + 1) + k
  BY <1>1 DEF InOrder
<1>5. InOrder(h + 1, Q, B, S, open)
  BY <1>2, <1>4 DEF InOrder
<1>6. Total(h + 1, Q, B) = Total(h, P, B)
  BY <1>2 DEF Total
<1> QED BY <1>3, <1>5, <1>6 DEF Q

(* A chunk is taken from the queue: it is taken up at once if nothing was  *)
(* set aside, or set aside behind the others.                              *)
LEMMA OrderMove ==
  ASSUME NEW h \in Nat, NEW P \in Seq(Nat), NEW B \in Seq(Cmds), NEW S \in Nat, NEW open,
         InOrder(h, P, B, S, open), B # <<>>, Head(B).type = "data"
  PROVE  /\ Head(B).n = h + Len(P) + 1 /\ InOrder(h, Append(P, Head(B).n), Tail(B), S, open)
         /\ Total(h, Append(P, Head(B).n), Tail(B)) = Total(h, P, B)
<1> DEFINE C == Tail(B)  x == Head(B).n  Q == Append(P, x)
<1>1. /\ Len(B) \in Nat \ {0} /\ Len(C) = Len(B) - 1 /\ Head(B) = B[1] /\ Len(P) \in Nat
      /\ \A k \in 1..Len(C) : k + 1 \in 1..Len(B) /\ C[k] = B[k + 1]
  <2>1. Len(P) \in Nat
    OBVIOUS
  <2> QED BY <2>1, RestOf
<1>2. x = h + Len(P) + 1 /\ h + Len(P) + 1 <= S
  <2>1. B[1] # CloseCmd /\ 1 \in 1..Len(B)
    BY <1>1 DEF CloseCmd
  <2>2. B[1] = Data(h + Len(P) + 1) /\ h + Len(P) + 1 <= S
    BY <2>1 DEF InOrder
  <2> QED BY <1>1, <2>2 DEF Data
<1>3. /\ Len(Q) = Len(P) + 1 /\ Q[Len(P) + 1] = x /\ \A k \in 1..Len(P) : Q[k] = P[k]
  BY <1>1, <1>2
<1> HIDE DEF C, x, Q
<1>4. ASSUME NEW k \in 1..Len(Q) PROVE Q[k] = h + k
  <2>1. CASE k \in 1..Len(P)
    <3>1. P[k] = h + k
      BY <2>1 DEF InOrder
    <3> QED BY <1>3, <2>1, <3>1
  <2>2. CASE k = Len(P) + 1
    BY <1>1, <1>2, <1>3, <2>2
  <2>3. k \in 1..Len(P) \/ k = Len(P) + 1
    BY <1>1, <1>3
  <2> QED BY <2>1, <2>2, <2>3
<1>5. h + Len(Q) <= S
  BY <1>1, <1>2, <1>3
<1>6. ASSUME NEW k \in 1..Len(C)
      PROVE  \/ C[k] = Data(h + Len(Q) + k) /\ h + Len(Q) + k <= S
             \/ C[k] = CloseCmd /\ k = Len(C) /\ h + Len(Q) + k - 1 = S /\ ~open
  <2>1. k + 1 \in 1..Len(B) /\ C[k] = B[k + 1] /\ h + Len(P) + (k + 1) = h + Len(Q) + k
    <3>1. k + 1 \in 1..Len(B) /\ C[k] = B[k + 1]
      BY <1>1
    <3>2. k \in Nat /\ Len(P) \in Nat /\ Len(Q) = Len(P) + 1
      BY <1>1, <1>3
    <3>3. h + Len(P) + (k + 1) = h + Len(Q) + k
      BY <3>2
    <3> QED BY <3>1, <3>3
  <2>2. \/ B[k + 1] = Data(h + Len(P) + (k + 1)) /\ h + Len(P) + (k + 1) <= S
        \/ B[k + 1] = CloseCmd /\ k + 1 = Len(B) /\ h + Len(P) + (k + 1) - 1 = S /\ ~open
    BY <2>1 DEF InOrder
  <2>3. k + 1 = Len(B) => k = Len(C)
    BY <1>1
  <2>4. h + Len(P) + (k + 1) - 1 = h + Len(Q) + k - 1
    BY <2>1
  <2>5. CASE B[k + 1] = Data(h + Len(P) + (k + 1)) /\ h + Len(P) + (k + 1) <= S
    BY <2>1, <2>5
  <2>6. CASE B[k + 1] = CloseCmd /\ k + 1 = Len(B) /\ h + Len(P) + (k + 1) - 1 = S /\ ~open
    BY <2>1, <2>3, <2>4, <2>6
  <2> QED BY <2>2, <2>5, <2>6
<1>7. InOrder(h, Q, C, S, open)
  BY <1>4, <1>5, <1>6 DEF InOrder
<1>8. Total(h, Q, C) = Total(h, P, B)
  BY <1>1, <1>3 DEF Total
<1> QED BY <1>2, <1>7, <1>8 DEF C, x, Q

(* With nothing set aside, the first chunk of the queue is the next one.   *)
LEMMA OrderTake ==
  ASSUME NEW h \in Nat, NEW B \in Seq(Cmds), NEW S \in Nat, NEW open,
         InOrder(h, <<>>, B, S, open), B # <<>>, Head(B).type = "data"
  PROVE  /\ Head(B).n = h + 1 /\ InOrder(h + 1, <<>>, Tail(B), S, open)
         /\ Total(h + 1, <<>>, Tail(B)) = Total(h, <<>>, B)
<1> DEFINE x == Head(B).n  Q == Append(<<>>, x)
<1>1. <<>> \in Seq(Nat) /\ Len(<<>>) = 0
  OBVIOUS
<1>2. /\ x = h + Len(<<>>) + 1 /\ InOrder(h, Q, Tail(B), S, open)
      /\ Total(h, Q, Tail(B)) = Total(h, <<>>, B)
  BY <1>1, OrderMove
<1>3. x = h + 1
  BY <1>1, <1>2
<1>4. Q \in Seq(Nat) /\ Q # <<>> /\ Tail(Q) = <<>> /\ Tail(B) \in Seq(Cmds)
  BY <1>3, RestOf
<1> HIDE DEF Q, x
<1>5. InOrder(h + 1, Tail(Q), Tail(B), S, open) /\ Total(h + 1, Tail(Q), Tail(B)) = Total(h, Q, Tail(B))
  BY <1>2, <1>4, OrderPop
<1> QED BY <1>2, <1>3, <1>4, <1>5 DEF x

(* The end is taken from the queue: everything has been written. *)
LEMMA OrderEnd ==
  ASSUME NEW h \in Nat, NEW B \in Seq(Cmds), NEW S \in Nat, NEW open,
         InOrder(h, <<>>, B, S, open), B # <<>>, Head(B).type # "data"
  PROVE  h = S /\ Head(B) = CloseCmd
<1>1. Len(B) \in Nat \ {0} /\ Head(B) = B[1] /\ 1 \in 1..Len(B) /\ Len(<<>>) = 0
  BY RestOf
<1>2. B[1] # Data(h + Len(<<>>) + 1)
  BY <1>1 DEF Data
<1>3. B[1] = CloseCmd /\ h + Len(<<>>) + 1 - 1 = S
  BY <1>1, <1>2 DEF InOrder
<1> QED BY <1>1, <1>3

(* No end waits in the queue. *)
NoEnd(B) == \A k \in 1..Len(B) : B[k] # CloseCmd

(* The next chunk arrives, while there is an entry. *)
LEMMA OrderChunk ==
  ASSUME NEW h \in Nat, NEW P \in Seq(Nat), NEW B \in Seq(Cmds), NEW S \in Nat,
         InOrder(h, P, B, S, TRUE), NEW R \in Nat, R = Total(h, P, B), R + 1 <= S,
         NEW C, C = Append(B, Data(R + 1))
  PROVE  /\ C \in Seq(Cmds) /\ InOrder(h, P, C, S, TRUE) /\ NoEnd(C)
<1> DEFINE d == Data(R + 1)
<1>1. Len(P) \in Nat /\ Len(B) \in Nat
  OBVIOUS
<1>2. d \in Cmds
  BY <1>1 DEF Data, Cmds
<1>3. /\ C \in Seq(Cmds) /\ Len(C) = Len(B) + 1 /\ C[Len(B) + 1] = d
      /\ \A k \in 1..Len(B) : C[k] = B[k]
  BY <1>1, <1>2
<1>4. ASSUME NEW k \in 1..Len(C)
      PROVE  C[k] = Data(h + Len(P) + k) /\ h + Len(P) + k <= S
  <2>1. CASE k \in 1..Len(B)
    BY <1>3, <2>1 DEF InOrder
  <2>2. CASE k = Len(B) + 1
    <3>1. h + Len(P) + k = R + 1
      BY <1>1, <2>2 DEF Total
    <3> QED BY <1>3, <2>2, <3>1
  <2>3. k \in 1..Len(B) \/ k = Len(B) + 1
    BY <1>1, <1>3
  <2> QED BY <2>1, <2>2, <2>3
<1>5. InOrder(h, P, C, S, TRUE)
  BY <1>4 DEF InOrder
<1>6. NoEnd(C)
  <2> SUFFICES ASSUME NEW k \in 1..Len(C) PROVE C[k] # CloseCmd
    BY DEF NoEnd
  <2>1. C[k] = Data(h + Len(P) + k)
    BY <1>4
  <2>2. \A m : Data(m) # CloseCmd
    BY DEF Data, CloseCmd
  <2> QED BY <2>1, <2>2
<1> QED BY <1>3, <1>5, <1>6

(* The end arrives after everything, and the entry goes. *)
LEMMA OrderClose ==
  ASSUME NEW h \in Nat, NEW P \in Seq(Nat), NEW B \in Seq(Cmds), NEW S \in Nat,
         InOrder(h, P, B, S, TRUE), Total(h, P, B) = S
  PROVE  Append(B, CloseCmd) \in Seq(Cmds) /\ InOrder(h, P, Append(B, CloseCmd), S, FALSE)
<1> DEFINE C == Append(B, CloseCmd)
<1>1. Len(P) \in Nat /\ Len(B) \in Nat
  OBVIOUS
<1>2. CloseCmd \in Cmds
  BY DEF CloseCmd, Cmds
<1>3. /\ C \in Seq(Cmds) /\ Len(C) = Len(B) + 1 /\ C[Len(B) + 1] = CloseCmd
      /\ \A k \in 1..Len(B) : C[k] = B[k]
  BY <1>1, <1>2
<1> HIDE DEF C
<1>4. ASSUME NEW k \in 1..Len(C)
      PROVE  \/ C[k] = Data(h + Len(P) + k) /\ h + Len(P) + k <= S
             \/ C[k] = CloseCmd /\ k = Len(C) /\ h + Len(P) + k - 1 = S
  <2>1. CASE k \in 1..Len(B)
    BY <1>3, <2>1 DEF InOrder
  <2>2. CASE k = Len(B) + 1
    <3>1. h + Len(P) + k - 1 = S
      BY <1>1, <2>2 DEF Total
    <3> QED BY <1>3, <2>2, <3>1
  <2> QED BY <1>1, <1>3, <2>1, <2>2
<1>5. InOrder(h, P, C, S, FALSE)
  BY <1>4 DEF InOrder
<1> QED BY <1>3, <1>5 DEF C

(* Another chunk is sent. *)
LEMMA OrderGrow ==
  ASSUME NEW h \in Nat, NEW P \in Seq(Nat), NEW B \in Seq(Cmds), NEW S \in Nat, NEW open,
         InOrder(h, P, B, S, open), \A k \in 1..Len(B) : B[k] # CloseCmd
  PROVE  InOrder(h, P, B, S + 1, open)
<1>1. Len(P) \in Nat /\ Len(B) \in Nat
  OBVIOUS
<1> QED BY <1>1 DEF InOrder

(* The entry goes. *)
LEMMA OrderDrop ==
  ASSUME NEW h, NEW P, NEW B, NEW S, NEW open, NEW new, InOrder(h, P, B, S, open), new => open
  PROVE  InOrder(h, P, B, S, new)
BY DEF InOrder

-----------------------------------------------------------------------------
(* Sides, frames and counts. *)

(* The two sides and their ends. *)
LEMMA FarSide ==
  /\ Far("controller") = "controlled" /\ Far("controlled") = "controller"
  /\ \A s \in Sides : Far(s) \in Sides /\ Far(s) # s /\ Far(Far(s)) = s
  /\ \A s, r \in Sides : r # s => r = Far(s)
  /\ \A s \in Sides, i \in Ids : <<s, i>> \in Ends /\ PeerOf(<<s, i>>) = <<Far(s), i>> /\ Side(<<s, i>>) = s /\ Id(<<s, i>>) = i
BY DEF Far, Sides, Ends, PeerOf, Side, Id

(* The first part of a sequence of frames. *)
LEMMA CarriedPrefix ==
  ASSUME NEW a \in Seq(Frames), NEW b \in Seq(Frames), NEW c \in Seq(Frames)
  PROVE  Carried(a) \subseteq Carried(a \o b \o c)
<1> DEFINE fs == a \o b \o c
<1>1. \A k \in 1..Len(a) : k \in 1..Len(fs) /\ fs[k] = a[k]
  OBVIOUS
<1> HIDE DEF fs
<1>2. Carried(a) \subseteq Carried(fs)
  BY <1>1 DEF Carried
<1> QED BY <1>2 DEF fs

(* What can still be read is part of what is in flight. *)
LEMMA ReachingType ==
  ASSUME FlightType, NEW s \in Sides
  PROVE  Reaching(s) \in Seq(Frames) /\ Alive(s) \in BOOLEAN /\ Carried(Reaching(s)) \subseteq Carried(InFlight(s))
<1> DEFINE b == IF loop[s] = "sending" THEN <<sending[s]>> ELSE <<>>
<1>1. link[s] \in Seq(Frames) /\ queue[s] \in Seq(Frames) /\ b \in Seq(Frames) /\ InFlight(s) \in Seq(Frames)
  BY FlightParts
<1>2. Alive(s) \in BOOLEAN
  BY DEF Alive
<1>3. Carried(link[s]) \subseteq Carried(InFlight(s))
  <2>1. InFlight(s) = link[s] \o b \o queue[s]
    BY DEF InFlight
  <2> HIDE DEF b
  <2> QED BY <1>1, <2>1, CarriedPrefix
<1> QED BY <1>1, <1>2, <1>3 DEF Reaching

(* One more frame. *)
LEMMA CarriedAppend ==
  ASSUME NEW fs \in Seq(Frames), NEW f \in Frames
  PROVE  Carried(Append(fs, f)) = Carried(fs) \cup {f}
<1> DEFINE gs == Append(fs, f)
<1>1. /\ Len(gs) = Len(fs) + 1 /\ Len(fs) \in Nat /\ \A k \in 1..Len(fs) : gs[k] = fs[k]
      /\ gs[Len(fs) + 1] = f
  OBVIOUS
<1> HIDE DEF gs
<1>2. Carried(gs) = Carried(fs) \cup {f}
  BY <1>1 DEF Carried
<1> QED BY <1>2 DEF gs

(* What an end has, as a number. *)
LEMMA CountNat ==
  ASSUME PipeType, NEW s \in Sides, NEW i \in Ids
  PROVE  /\ Held(s, i) \in Nat /\ Got(s, i) \in Nat
         /\ written[<<s, i>>] \in Seq(Nat) /\ pending[<<s, i>>] \in Seq(Nat) /\ inbound[<<s, i>>] \in Seq(Cmds)
<1>1. written[<<s, i>>] \in Seq(Nat) /\ pending[<<s, i>>] \in Seq(Nat) /\ inbound[<<s, i>>] \in Seq(Cmds)
  BY FarSide DEF PipeType
<1>2. Len(written[<<s, i>>]) \in Nat /\ Len(pending[<<s, i>>]) \in Nat /\ Len(inbound[<<s, i>>]) \in Nat
  BY <1>1
<1>3. Held(s, i) \in Nat
  BY <1>2 DEF Held
<1>4. Got(s, i) \in Nat
  BY <1>2, <1>3 DEF Got, Total
<1> QED BY <1>1, <1>3, <1>4

-----------------------------------------------------------------------------
(* What a step leaves the flow of channel i from side r: it sends no chunk *)
(* of it, adds no end, and keeps the count of what can still be read.      *)
Onward(r, i) ==
  /\ sent'[<<r, i>>] = sent[<<r, i>>]
  /\ \A g \in Carried(InFlight(r)') : g.id = i /\ Closing(r, g) => g \in Carried(InFlight(r))
  /\ \A R \in Nat : Numbered(Reaching(r), i, r, R, sent[<<r, i>>], Alive(r)) =>
                    Numbered(Reaching(r)', i, r, R, sent[<<r, i>>], Alive(r)')

(* What a step leaves an end alone. *)
Still(p) ==
  /\ task'[p] = task[p] /\ inn'[p] = inn[p] /\ inbound'[p] = inbound[p] /\ pending'[p] = pending[p]
  /\ chunk'[p] = chunk[p] /\ written'[p] = written[p] /\ sent'[p] = sent[p] /\ entry'[p] = entry[p]

(* The end of the channel has reached this end. *)
EndOf(s, i) == inn[<<s, i>>] = "PeerClosed" \/ \E k \in 1..Len(inbound[<<s, i>>]) : inbound[<<s, i>>][k] = CloseCmd

(* A receiver keeps its flow if it keeps its own part and its peer's is    *)
(* carried on.                                                             *)
LEMMA FlowStep ==
  ASSUME PipeType, NEW s \in Sides, NEW i \in Ids, FlowOf(s, i), Onward(Far(s), i),
         Ended(Far(s), i) => Ended(Far(s), i)',
         CleanOf(s, i)', LocalOf(s, i)',
         Expecting(s, i)' => Expecting(s, i) /\ Got(s, i)' = Got(s, i),
         EndOf(s, i)' => EndOf(s, i)
  PROVE  FlowOf(s, i)'
<1>1. Got(s, i) \in Nat
  BY CountNat
<1>2. CountOf(s, i)'
  BY <1>1 DEF FlowOf, CountOf, Onward
<1>3. EvidenceOf(s, i)'
  BY DEF FlowOf, EvidenceOf, Evidence, EndOf, Onward
<1> QED BY <1>2, <1>3 DEF FlowOf

(* The same, but for an entry that may go. *)
Rests(p) ==
  /\ task'[p] = task[p] /\ inn'[p] = inn[p] /\ inbound'[p] = inbound[p] /\ pending'[p] = pending[p]
  /\ chunk'[p] = chunk[p] /\ written'[p] = written[p] /\ sent'[p] = sent[p]
  /\ entry'[p] => entry[p]

(* A receiver that does nothing, while its peer sends nothing. *)
LEMMA FlowQuiet ==
  ASSUME PipeType, NEW s \in Sides, NEW i \in Ids, FlowOf(s, i), Rests(<<s, i>>), Onward(Far(s), i),
         Ended(Far(s), i) => Ended(Far(s), i)', NotYet(i)' => NotYet(i)
  PROVE  FlowOf(s, i)'
<1> DEFINE p == <<s, i>>
<1>1. CleanOf(s, i)'
  BY DEF FlowOf, CleanOf, Rests
<1>2. Held(s, i)' = Held(s, i) /\ Got(s, i)' = Got(s, i)
  BY DEF Held, Got, Rests
<1>3. Receiving(p)' <=> Receiving(p)
  BY DEF Receiving, Rests
<1>4. LocalOf(s, i)'
  <2>1. SUFFICES ASSUME Receiving(p)
                 PROVE  InOrder(Held(s, i), pending[p], inbound[p], sent[<<Far(s), i>>], entry'[p])
    BY <1>2, <1>3 DEF FlowOf, LocalOf, Rests, Onward
  <2>2. InOrder(Held(s, i), pending[p], inbound[p], sent[<<Far(s), i>>], entry[p])
    BY <2>1 DEF FlowOf, LocalOf
  <2>3. entry'[p] => entry[p]
    BY DEF Rests
  <2> QED BY <2>2, <2>3, OrderDrop
<1>5. Expecting(s, i)' => Expecting(s, i)
  BY <1>3 DEF Expecting, Rests
<1>6. EndOf(s, i)' => EndOf(s, i)
  BY DEF EndOf, Rests
<1> QED BY <1>1, <1>2, <1>4, <1>5, <1>6, FlowStep

-----------------------------------------------------------------------------
(* What loops and queues leave of a flow. *)

(* Nothing moves on that side. *)
LEMMA SameOnward ==
  ASSUME NEW r \in Sides, NEW i \in Ids, sent'[<<r, i>>] = sent[<<r, i>>],
         loop'[r] = loop[r], sending'[r] = sending[r], queue'[r] = queue[r], link'[r] = link[r]
  PROVE  Onward(r, i)
<1>1. InFlight(r)' = InFlight(r)
  BY DEF InFlight
<1>2. Alive(r)' = Alive(r)
  BY DEF Alive
<1>3. Reaching(r)' = Reaching(r)
  BY <1>1, <1>2 DEF Reaching
<1> QED BY <1>1, <1>2, <1>3 DEF Onward

(* How a frame that is queued changes what can be read. *)
LEMMA EnqueueReaching ==
  ASSUME FlightType, NEW r \in Sides, NEW f \in Frames, Enqueue(r, f),
         UNCHANGED <<loop, sending>>, link'[r] = link[r]
  PROVE  /\ Alive(r)' = Alive(r)
         /\ Reaching(r)' = IF Alive(r) THEN Append(Reaching(r), f) ELSE Reaching(r)
         /\ Carried(InFlight(r)') = Carried(InFlight(r)) \cup {f}
<1>1. InFlight(r)' = Append(InFlight(r), f)
  BY EnqueueFlight
<1>2. InFlight(r) \in Seq(Frames)
  BY FlightParts
<1>3. Alive(r)' = Alive(r)
  BY DEF Alive
<1>4. Carried(InFlight(r)') = Carried(InFlight(r)) \cup {f}
  BY <1>1, <1>2, CarriedAppend
<1>5. Reaching(r)' = IF Alive(r) THEN Append(Reaching(r), f) ELSE Reaching(r)
  BY <1>1, <1>3 DEF Reaching
<1> QED BY <1>3, <1>4, <1>5

(* A frame that is neither a chunk nor the end of channel i. *)
LEMMA EnqueueOnward ==
  ASSUME FlightType, NEW r \in Sides, NEW f \in Frames, NEW i \in Ids, Enqueue(r, f),
         UNCHANGED <<loop, sending>>, link'[r] = link[r], sent'[<<r, i>>] = sent[<<r, i>>],
         f.id = i => f.type # "data" /\ ~Closing(r, f)
  PROVE  Onward(r, i)
<1>1. /\ Alive(r)' = Alive(r)
      /\ Reaching(r)' = IF Alive(r) THEN Append(Reaching(r), f) ELSE Reaching(r)
      /\ Carried(InFlight(r)') = Carried(InFlight(r)) \cup {f}
  BY EnqueueReaching
<1>2. Reaching(r) \in Seq(Frames) /\ Alive(r) \in BOOLEAN
  BY ReachingType
<1>3. sent[<<r, i>>] \in Nat
  BY FarSide DEF FlightType
<1>4. ASSUME NEW R \in Nat, Numbered(Reaching(r), i, r, R, sent[<<r, i>>], Alive(r))
      PROVE  Numbered(Reaching(r)', i, r, R, sent[<<r, i>>], Alive(r)')
  <2>1. CASE Alive(r)
    <3>1. Numbered(Reaching(r), i, r, R, sent[<<r, i>>], TRUE)
      BY <1>2, <1>4, <2>1
    <3>2. Numbered(Append(Reaching(r), f), i, r, R, sent[<<r, i>>], TRUE)
      BY <1>2, <1>3, <3>1, NumberedOther
    <3>3. Reaching(r)' = Append(Reaching(r), f) /\ Alive(r)' = TRUE
      BY <1>1, <1>2, <2>1
    <3> QED BY <3>2, <3>3
  <2>2. CASE ~Alive(r)
    <3>1. Reaching(r)' = Reaching(r) /\ Alive(r)' = Alive(r)
      BY <1>1, <2>2
    <3> QED BY <1>4, <3>1
  <2> QED BY <2>1, <2>2
<1>5. \A g \in Carried(InFlight(r)') : g.id = i /\ Closing(r, g) => g \in Carried(InFlight(r))
  BY <1>1
<1> QED BY <1>4, <1>5 DEF Onward

(* The frames a loop sends keep their place; when it ends, those it had    *)
(* not sent are lost.                                                      *)
LEMMA SentOn ==
  ASSUME FlightType, NEW s \in Sides, SendNext(s) \/ Unblock(s)
  PROVE  InFlight(s)' = InFlight(s) /\ Alive(s) /\ Alive(s)'
<1> USE DEF FlightType
<1>0. link[s] \in Seq(Frames) /\ queue[s] \in Seq(Frames)
  OBVIOUS
<1>1. CASE SendNext(s)
  <2>1. loop[s] = "running" /\ queue[s] # <<>>
    BY <1>1 DEF SendNext
  <2>2. InFlight(s) = link[s] \o <<>> \o queue[s]
    BY <2>1 DEF InFlight
  <2>3. CASE Len(link[s]) < LINK_FRAMES
    <3>1. /\ link'[s] = Append(link[s], Head(queue[s])) /\ loop'[s] = "running"
          /\ queue'[s] = Tail(queue[s])
      BY <1>1, <2>1, <2>3 DEF SendNext
    <3>2. InFlight(s)' = Append(link[s], Head(queue[s])) \o <<>> \o Tail(queue[s])
      BY <3>1 DEF InFlight
    <3>3. InFlight(s)' = InFlight(s)
      BY <1>0, <2>1, <2>2, <3>2, SentInPlace
    <3> QED BY <2>1, <3>1, <3>3 DEF Alive
  <2>4. CASE ~(Len(link[s]) < LINK_FRAMES)
    <3>1. /\ link'[s] = link[s] /\ loop'[s] = "sending" /\ sending'[s] = Head(queue[s])
          /\ queue'[s] = Tail(queue[s])
      BY <1>1, <2>1, <2>4 DEF SendNext
    <3>2. InFlight(s)' = link[s] \o <<Head(queue[s])>> \o Tail(queue[s])
      BY <3>1 DEF InFlight
    <3>3. InFlight(s)' = InFlight(s)
      BY <1>0, <2>1, <2>2, <3>2, SentInPlace
    <3> QED BY <2>1, <3>1, <3>3 DEF Alive
  <2> QED BY <2>3, <2>4
<1>2. CASE Unblock(s)
  <2>1. /\ loop[s] = "sending" /\ sending[s] \in Frames /\ queue'[s] = queue[s]
        /\ link'[s] = Append(link[s], sending[s]) /\ loop'[s] = "running"
    BY <1>2 DEF Unblock
  <2>2. InFlight(s)' = Append(link[s], sending[s]) \o <<>> \o queue[s]
    BY <2>1 DEF InFlight
  <2>3. InFlight(s) = link[s] \o <<sending[s]>> \o queue[s]
    BY <2>1 DEF InFlight
  <2>4. InFlight(s)' = InFlight(s)
    BY <1>0, <2>1, <2>2, <2>3, UnblockedInPlace
  <2> QED BY <2>1, <2>4 DEF Alive
<1> QED BY <1>1, <1>2

(* The loop of side r: no flow notices it but by what is lost. *)
LEMMA LoopOnward ==
  ASSUME FlightType, Thins, NEW s \in Sides, NEW i \in Ids, LoopStep(s) \/ LoopEnd(s)
  PROVE  Onward(s, i)
<1>1. /\ sent'[<<s, i>>] = sent[<<s, i>>]
      /\ \A g \in Carried(InFlight(s)') : g.id = i /\ Closing(s, g) => g \in Carried(InFlight(s))
  BY DEF Thins, LoopStep, LoopEnd, SendNext, Unblock, DropQueues, PeerGone, taskVars
<1>2. sent[<<s, i>>] \in Nat
  BY FarSide DEF FlightType
<1>3. SUFFICES ASSUME NEW R \in Nat, Numbered(Reaching(s), i, s, R, sent[<<s, i>>], Alive(s))
               PROVE  Numbered(Reaching(s)', i, s, R, sent[<<s, i>>], Alive(s)')
  BY <1>1 DEF Onward
<1>4. CASE SendNext(s) \/ Unblock(s)
  <2>1. InFlight(s)' = InFlight(s) /\ Alive(s) /\ Alive(s)'
    BY <1>4, SentOn
  <2>2. Reaching(s)' = Reaching(s) /\ Alive(s)' = Alive(s)
    BY <2>1 DEF Reaching, Alive
  <2> QED BY <1>3, <2>2
<1>5. CASE LoopEnd(s)
  <2>1. /\ loop[s] \in {"running", "sending"} /\ loop'[s] = "closed" /\ link'[s] = link[s]
    BY <1>5 DEF LoopEnd, FlightType
  <2> DEFINE b == IF loop[s] = "sending" THEN <<sending[s]>> ELSE <<>>
  <2>2. Reaching(s) = link[s] \o b \o queue[s] /\ Reaching(s)' = link[s] /\ Alive(s) = TRUE /\ Alive(s)' = FALSE
    <3>1. Alive(s) /\ ~Alive(s)' /\ Alive(s) \in BOOLEAN /\ Alive(s)' \in BOOLEAN
      BY <2>1 DEF Alive
    <3>2. Reaching(s) = link[s] \o b \o queue[s]
      BY <3>1 DEF Reaching, InFlight
    <3>3. Reaching(s)' = link[s]
      BY <2>1, <3>1 DEF Reaching
    <3> QED BY <3>1, <3>2, <3>3
  <2>3. link[s] \in Seq(Frames) /\ b \in Seq(Frames) /\ queue[s] \in Seq(Frames)
    BY FlightParts
  <2> HIDE DEF b
  <2>4. Numbered(link[s] \o b \o queue[s], i, s, R, sent[<<s, i>>], TRUE)
    BY <1>3, <2>2
  <2>5. Numbered(link[s], i, s, R, sent[<<s, i>>], FALSE)
    BY <1>2, <2>3, <2>4, NumberedCut
  <2> QED BY <2>2, <2>5
<1>6. CASE DropQueues(s)
  <2>1. loop[s] = "closed" /\ loop'[s] = "gone" /\ link' = link
    BY <1>6 DEF DropQueues, FlightType
  <2>2. Reaching(s)' = Reaching(s) /\ Alive(s)' = Alive(s)
    BY <2>1 DEF Reaching, Alive
  <2> QED BY <1>3, <2>2
<1> QED BY <1>4, <1>5, <1>6 DEF LoopStep, PeerGone

(* The peer of side r reads a frame. *)
LEMMA ReadReaching ==
  ASSUME FlightType, NEW r \in Sides, link[r] # <<>>, link' = [link EXCEPT ![r] = Tail(@)],
         loop'[r] = loop[r], sending'[r] = sending[r], queue'[r] = queue[r]
  PROVE  /\ Reaching(r) # <<>> /\ Head(Reaching(r)) = Head(link[r]) /\ Reaching(r)' = Tail(Reaching(r))
         /\ Alive(r)' = Alive(r)
         /\ InFlight(r)' = Tail(InFlight(r)) /\ InFlight(r) # <<>> /\ Head(InFlight(r)) = Head(link[r])
<1>1. InFlight(r) # <<>> /\ Head(InFlight(r)) = Head(link[r]) /\ InFlight(r)' = Tail(InFlight(r))
  BY ReadFlight
<1>2. link'[r] = Tail(link[r])
  BY DEF FlightType
<1>3. Alive(r)' = Alive(r)
  BY DEF Alive
<1>4. Reaching(r) # <<>> /\ Head(Reaching(r)) = Head(link[r]) /\ Reaching(r)' = Tail(Reaching(r))
  BY <1>1, <1>2, <1>3 DEF Reaching
<1> QED BY <1>1, <1>3, <1>4

(* Tail keeps what is carried. *)
LEMMA CarriedTail ==
  ASSUME NEW fs \in Seq(Frames), fs # <<>>
  PROVE  Carried(Tail(fs)) \subseteq Carried(fs) /\ Head(fs) \in Carried(fs)
<1> DEFINE gs == Tail(fs)
<1>1. /\ Len(fs) \in Nat \ {0} /\ Len(gs) = Len(fs) - 1 /\ Head(fs) = fs[1]
      /\ \A k \in 1..Len(gs) : k + 1 \in 1..Len(fs) /\ gs[k] = fs[k + 1]
  OBVIOUS
<1> HIDE DEF gs
<1>2. Carried(gs) \subseteq Carried(fs) /\ Head(fs) \in Carried(fs)
  BY <1>1 DEF Carried
<1> QED BY <1>2 DEF gs

(* Reading a frame that is no chunk or end of channel i. *)
LEMMA ReadOnward ==
  ASSUME FlightType, NEW r \in Sides, link[r] # <<>>, link' = [link EXCEPT ![r] = Tail(@)],
         loop'[r] = loop[r], sending'[r] = sending[r], queue'[r] = queue[r],
         NEW i \in Ids, sent'[<<r, i>>] = sent[<<r, i>>],
         ~(Head(link[r]).id = i /\ Head(link[r]).type = "data")
  PROVE  Onward(r, i)
<1>1. /\ Reaching(r) # <<>> /\ Head(Reaching(r)) = Head(link[r]) /\ Reaching(r)' = Tail(Reaching(r))
      /\ Alive(r)' = Alive(r)
      /\ InFlight(r)' = Tail(InFlight(r)) /\ InFlight(r) # <<>>
  BY ReadReaching
<1>2. Reaching(r) \in Seq(Frames) /\ Alive(r) \in BOOLEAN /\ InFlight(r) \in Seq(Frames) /\ sent[<<r, i>>] \in Nat
  BY ReachingType, FlightParts, FarSide DEF FlightType
<1>3. Carried(InFlight(r)') \subseteq Carried(InFlight(r))
  BY <1>1, <1>2, CarriedTail
<1>4. ASSUME NEW R \in Nat, Numbered(Reaching(r), i, r, R, sent[<<r, i>>], Alive(r))
      PROVE  Numbered(Reaching(r)', i, r, R, sent[<<r, i>>], Alive(r)')
  <2>1. Numbered(Tail(Reaching(r)), i, r, R, sent[<<r, i>>], Alive(r))
    BY <1>1, <1>2, <1>4, NumberedTail
  <2> QED BY <1>1, <2>1
<1> QED BY <1>3, <1>4 DEF Onward

-----------------------------------------------------------------------------
(* What never comes back, and what a sender does to its peer. *)

(* What never comes back: an `open` that was read or lost, and a task that *)
(* has sent its last frame.                                                *)
Mono(i) == (NotYet(i)' => NotYet(i)) /\ \A r \in Sides : Ended(r, i) => Ended(r, i)'

(* Steps that only move or lose frames. *)
LEMMA ThinsMono ==
  ASSUME Thins, NEW i \in Ids
  PROVE  Mono(i)
<1>1. NotYet(i)' => NotYet(i)
  BY DEF Thins, NotYet, Unsent, Sides
<1>2. \A r \in Sides : Ended(r, i) => Ended(r, i)'
  BY <1>1 DEF Ended, Thins
<1> QED BY <1>1, <1>2 DEF Mono

(* Steps of a task. *)
LEMMA TaskMono ==
  ASSUME FlightInv, NEW s \in Sides, NEW j \in Ids, NEW stage, task' = [task EXCEPT ![<<s, j>>] = stage],
         task[<<s, j>>] # "none", stage \notin {"none", "opening"},
         task[<<s, j>>] \in {"remove", "done"} => stage \in {"remove", "done"},
         UNCHANGED <<loop, sending, link>>,
         \/ UNCHANGED queue
         \/ \E f \in Frames : /\ f.id = j /\ Enqueue(s, f)
                              /\ f.type = "open" => task[<<s, j>>] = "opening",
         NEW i \in Ids
  PROVE  Mono(i)
<1>1. \A e \in Ends : task'[e] = IF e = <<s, j>> THEN stage ELSE task[e]
  BY DEF FlightInv, MapType
<1>2. Unsent(i)' => Unsent(i)
  BY <1>1, FarSide DEF Unsent, Sides
<1>3. ASSUME NEW g \in Carried(InFlight("controller")'), g.id = i, g.type = "open" PROVE NotYet(i)
  <2>1. CASE g \in Carried(InFlight("controller"))
    BY <1>3, <2>1 DEF NotYet
  <2>2. CASE g \notin Carried(InFlight("controller"))
    <3>1. CASE UNCHANGED queue
      <4>1. InFlight("controller")' = InFlight("controller")
        BY <3>1 DEF InFlight
      <4> QED BY <2>2, <4>1
    <3>2. CASE ~UNCHANGED queue
      <4>1. PICK f \in Frames : f.id = j /\ Enqueue(s, f) /\ (f.type = "open" => task[<<s, j>>] = "opening")
        BY <3>2
      <4>2. CASE s = "controller"
        <5>1. Carried(InFlight("controller")') = Carried(InFlight("controller")) \cup {f}
          BY <4>1, <4>2, EnqueueReaching DEF FlightInv
        <5>2. g = f
          BY <2>2, <5>1
        <5> QED BY <1>3, <4>1, <4>2, <5>2 DEF NotYet, Unsent
      <4>3. CASE s # "controller"
        <5>1. InFlight("controller")' = InFlight("controller")
          BY <4>1, <4>3, EnqueueFlight DEF FlightInv, Sides
        <5> QED BY <2>2, <5>1
      <4> QED BY <4>2, <4>3
    <3> QED BY <3>1, <3>2
  <2> QED BY <2>1, <2>2
<1>4. NotYet(i)' => NotYet(i)
  BY <1>2, <1>3 DEF NotYet
<1>5. \A r \in Sides : Ended(r, i) => Ended(r, i)'
  BY <1>1, <1>4, FarSide DEF Ended
<1> QED BY <1>4, <1>5 DEF Mono

-----------------------------------------------------------------------------
(* The peer of a sender. *)

(* It gets nothing. *)
LEMMA SenderQuiet ==
  ASSUME PipeInv, NEW s \in Sides, NEW i \in Ids, Still(<<Far(s), i>>), Onward(s, i), Mono(i)
  PROVE  FlowOf(Far(s), i)'
<1>1. FlowOf(Far(s), i) /\ PipeType /\ Far(s) \in Sides /\ Far(Far(s)) = s
  BY FarSide DEF PipeInv
<1> QED BY <1>1, FlowQuiet DEF Mono, Still, Rests

(* It gets another chunk. *)
LEMMA SenderChunk ==
  ASSUME FlightInv, PipeInv, NEW s \in Sides, NEW i \in Ids, Still(<<Far(s), i>>), Mono(i),
         task[<<s, i>>] = "run", NEW f \in Frames, Enqueue(s, f), UNCHANGED <<loop, sending, link>>,
         f.id = i, f.type = "data", f.n = sent[<<s, i>>] + 1, sent'[<<s, i>>] = sent[<<s, i>>] + 1
  PROVE  FlowOf(Far(s), i)'
<1> DEFINE q == Far(s)  p == <<Far(s), i>>  S == sent[<<s, i>>]
<1>0. FlowOf(q, i) /\ PipeType /\ q \in Sides /\ Far(q) = s /\ FlightType
  BY FarSide DEF PipeInv, FlightInv
<1>1. S \in Nat /\ Got(q, i) \in Nat /\ Held(q, i) \in Nat /\ pending[p] \in Seq(Nat) /\ inbound[p] \in Seq(Cmds)
  BY <1>0, FarSide, CountNat DEF FlightType
<1>2. ~Evidence(q, i)
  BY <1>0 DEF FlowOf, EvidenceOf, Ended
<1>3. /\ Alive(s)' = Alive(s)
      /\ Reaching(s)' = IF Alive(s) THEN Append(Reaching(s), f) ELSE Reaching(s)
      /\ Carried(InFlight(s)') = Carried(InFlight(s)) \cup {f}
  BY <1>0, EnqueueReaching
<1>4. /\ Reaching(s) \in Seq(Frames) /\ Alive(s) \in BOOLEAN
      /\ \A g \in Carried(Reaching(s)) : ~(g.id = i /\ Closing(s, g))
  BY <1>0, <1>2, ReachingType DEF Evidence
<1>5. CleanOf(q, i)'
  BY <1>0 DEF FlowOf, CleanOf, Still
<1>6. Held(q, i)' = Held(q, i) /\ Got(q, i)' = Got(q, i)
  BY DEF Held, Got, Still
<1>7. Receiving(p)' <=> Receiving(p)
  BY DEF Receiving, Still
<1>8. LocalOf(q, i)'
  <2>1. \A k \in 1..Len(inbound[p]) : inbound[p][k] # CloseCmd
    BY <1>2 DEF Evidence
  <2>2. sent'[<<Far(q), i>>] = S + 1 /\ sent[<<Far(q), i>>] = S
    BY <1>0
  <2>3. ASSUME Receiving(p) PROVE InOrder(Held(q, i), pending[p], inbound[p], S + 1, entry[p])
    <3>1. InOrder(Held(q, i), pending[p], inbound[p], S, entry[p])
      BY <1>0, <2>2, <2>3 DEF FlowOf, LocalOf
    <3> QED BY <1>1, <2>1, <3>1, OrderGrow
  <2> QED BY <1>0, <1>6, <1>7, <2>2, <2>3 DEF FlowOf, LocalOf, Still
<1>9. CountOf(q, i)'
  <2>1. Expecting(q, i)' => Expecting(q, i)
    BY <1>7 DEF Expecting, Still, Mono
  <2>2. SUFFICES ASSUME Numbered(Reaching(s), i, s, Got(q, i), S, Alive(s))
                 PROVE  Numbered(Reaching(s)', i, s, Got(q, i), S + 1, Alive(s)')
    BY <1>0, <1>6, <2>1 DEF FlowOf, CountOf
  <2>3. CASE Alive(s)
    <3>1. Alive(s) = TRUE /\ Alive(s)' = TRUE /\ Reaching(s)' = Append(Reaching(s), f)
      BY <1>3, <1>4, <2>3
    <3>2. Numbered(Reaching(s), i, s, Got(q, i), S, TRUE)
      BY <2>2, <3>1
    <3>3. Numbered(Append(Reaching(s), f), i, s, Got(q, i), S + 1, TRUE)
      BY <1>1, <1>4, <3>2, NumberedChunk
    <3> QED BY <3>1, <3>3
  <2>4. CASE ~Alive(s)
    <3>1. Alive(s) = FALSE /\ Alive(s)' = FALSE /\ Reaching(s)' = Reaching(s)
      BY <1>3, <1>4, <2>4
    <3>2. Numbered(Reaching(s), i, s, Got(q, i), S, FALSE)
      BY <2>2, <3>1
    <3>3. Numbered(Reaching(s), i, s, Got(q, i), S + 1, FALSE)
      BY <1>1, <1>4, <3>2, NumberedLost
    <3> QED BY <3>1, <3>3
  <2> QED BY <2>3, <2>4
<1>10. EvidenceOf(q, i)'
  BY <1>0, <1>2, <1>3 DEF EvidenceOf, Evidence, Still, Closing
<1> QED BY <1>5, <1>8, <1>9, <1>10 DEF FlowOf

(* It gets the end. *)
LEMMA SenderEnd ==
  ASSUME FlightInv, PipeInv, NEW s \in Sides, NEW i \in Ids, Still(<<Far(s), i>>), Mono(i), Ended(s, i)',
         NEW f \in Frames, Enqueue(s, f), UNCHANGED <<loop, sending>>, link'[s] = link[s],
         f.id = i, f.type # "data", sent'[<<s, i>>] = sent[<<s, i>>]
  PROVE  FlowOf(Far(s), i)'
<1> DEFINE q == Far(s)  p == <<Far(s), i>>  S == sent[<<s, i>>]
<1>0. FlowOf(q, i) /\ PipeType /\ q \in Sides /\ Far(q) = s /\ FlightType
  BY FarSide DEF PipeInv, FlightInv
<1>1. S \in Nat /\ Got(q, i) \in Nat
  BY <1>0, FarSide, CountNat DEF FlightType
<1>3. /\ Alive(s)' = Alive(s)
      /\ Reaching(s)' = IF Alive(s) THEN Append(Reaching(s), f) ELSE Reaching(s)
  BY <1>0, EnqueueReaching
<1>4. /\ Reaching(s) \in Seq(Frames) /\ Alive(s) \in BOOLEAN
  BY <1>0, ReachingType
<1>5. CleanOf(q, i)'
  BY <1>0 DEF FlowOf, CleanOf, Still
<1>6. Held(q, i)' = Held(q, i) /\ Got(q, i)' = Got(q, i)
  BY DEF Held, Got, Still
<1>7. Receiving(p)' <=> Receiving(p)
  BY DEF Receiving, Still
<1>8. LocalOf(q, i)'
  BY <1>0, <1>6, <1>7 DEF FlowOf, LocalOf, Still
<1>9. CountOf(q, i)'
  <2>1. Expecting(q, i)' => Expecting(q, i)
    BY <1>7 DEF Expecting, Still, Mono
  <2>2. SUFFICES ASSUME Numbered(Reaching(s), i, s, Got(q, i), S, Alive(s))
                 PROVE  Numbered(Reaching(s)', i, s, Got(q, i), S, Alive(s)')
    BY <1>0, <1>6, <2>1 DEF FlowOf, CountOf
  <2>3. CASE Alive(s)
    <3>1. Alive(s) = TRUE /\ Alive(s)' = TRUE /\ Reaching(s)' = Append(Reaching(s), f)
      BY <1>3, <1>4, <2>3
    <3>2. Numbered(Reaching(s), i, s, Got(q, i), S, TRUE)
      BY <2>2, <3>1
    <3>3. Numbered(Append(Reaching(s), f), i, s, Got(q, i), S, TRUE)
      BY <1>1, <1>4, <3>2, NumberedOther
    <3> QED BY <3>1, <3>3
  <2>4. CASE ~Alive(s)
    <3>1. Alive(s)' = Alive(s) /\ Reaching(s)' = Reaching(s)
      BY <1>3, <2>4
    <3> QED BY <2>2, <3>1
  <2> QED BY <2>3, <2>4
<1>10. EvidenceOf(q, i)'
  BY <1>0 DEF EvidenceOf
<1> QED BY <1>5, <1>8, <1>9, <1>10 DEF FlowOf

-----------------------------------------------------------------------------
(* The flows of a step of one task. *)

(* A step of the task of end <<s, i>>: nobody else moves, and it queues at *)
(* most a frame of its own channel.                                        *)
Acts(s, i) ==
  /\ UNCHANGED <<loop, sending, link>>
  /\ \A y \in Ends \ {<<s, i>>} : Still(y)
  /\ UNCHANGED queue \/ \E f \in Frames : f.id = i /\ Enqueue(s, f)
  /\ \A j \in Ids : Mono(j)

(* What such a step has to do to its own end. *)
Receives(s, i) ==
  /\ CleanOf(s, i)' /\ LocalOf(s, i)'
  /\ Expecting(s, i)' => Expecting(s, i) /\ Got(s, i)' = Got(s, i)
  /\ EndOf(s, i)' => EndOf(s, i)

(* One end acts: its own flow and its peer's are all there is to show. *)
LEMMA ActorFlows ==
  ASSUME FlightInv, PipeInv, PipeType', NEW s \in Sides, NEW i \in Ids, Acts(s, i), Receives(s, i), FlowOf(Far(s), i)'
  PROVE  PipeInv'
<1>0. FlightType /\ PipeType
  BY DEF FlightInv, PipeInv
<1>1. Onward(Far(s), i)
  <2>1. Far(s) \in Sides /\ Far(s) # s /\ <<Far(s), i>> \in Ends \ {<<s, i>>}
    BY FarSide
  <2>2. sent'[<<Far(s), i>>] = sent[<<Far(s), i>>]
    BY <2>1 DEF Acts, Still
  <2>3. queue'[Far(s)] = queue[Far(s)]
    BY <1>0, <2>1 DEF Acts, Enqueue, FlightType
  <2> QED BY <2>1, <2>2, <2>3, SameOnward DEF Acts
<1>2. FlowOf(s, i)'
  <2>1. FlowOf(s, i) /\ (Ended(Far(s), i) => Ended(Far(s), i)')
    BY FarSide DEF PipeInv, Acts, Mono
  <2> QED BY <1>0, <1>1, <2>1, FlowStep DEF Receives
<1>3. ASSUME NEW q \in Sides, NEW j \in Ids, j # i PROVE FlowOf(q, j)'
  <2>1. Far(q) \in Sides /\ Still(<<q, j>>) /\ Still(<<Far(q), j>>)
    BY <1>3, FarSide DEF Acts
  <2>2. Onward(Far(q), j)
    <3>1. sent'[<<Far(q), j>>] = sent[<<Far(q), j>>]
      BY <2>1 DEF Still
    <3>2. CASE queue'[Far(q)] = queue[Far(q)]
      BY <2>1, <3>1, <3>2, SameOnward DEF Acts
    <3>3. CASE queue'[Far(q)] # queue[Far(q)]
      <4>1. PICK f \in Frames : f.id = i /\ Enqueue(s, f)
        BY <3>3 DEF Acts
      <4>2. Far(q) = s
        BY <1>0, <2>1, <3>3, <4>1 DEF Enqueue, FlightType
      <4> QED BY <1>0, <1>3, <2>1, <3>1, <4>1, <4>2, EnqueueOnward DEF Acts
    <3> QED BY <3>2, <3>3
  <2>3. /\ FlowOf(q, j) /\ (Ended(Far(q), j) => Ended(Far(q), j)') /\ (NotYet(j)' => NotYet(j))
    BY <2>1 DEF PipeInv, Acts, Mono
  <2>4. Rests(<<q, j>>)
    BY <2>1 DEF Still, Rests
  <2> QED BY <1>0, <2>1, <2>2, <2>3, <2>4, FlowQuiet
<1>4. ASSUME NEW q \in Sides, NEW j \in Ids PROVE FlowOf(q, j)'
  <2>1. CASE j # i BY <1>3, <2>1
  <2>2. CASE j = i /\ q = s BY <1>2, <2>2
  <2>3. CASE j = i /\ q # s
    <3>1. q = Far(s)
      BY <2>3, FarSide
    <3> QED BY <2>3, <3>1
  <2> QED BY <2>1, <2>2, <2>3
<1> QED BY <1>4 DEF PipeInv

-----------------------------------------------------------------------------
(* The end itself. *)

(* It receives no more. *)
LEMMA ReceiverGone ==
  ASSUME FlightInv, PipeInv, NEW s \in Sides, NEW i \in Ids, Mono(i), task[<<s, i>>] # "none", ~Receiving(<<s, i>>)',
         task'[<<s, i>>] \notin {"none", "opening", "connecting"}, EndOf(s, i)' => EndOf(s, i)
  PROVE  Receives(s, i)
<1>1. CleanOf(s, i)' /\ LocalOf(s, i)'
  BY DEF CleanOf, LocalOf
<1>2. ~Expecting(s, i)'
  BY DEF Expecting, Mono, FlightInv, OpenUnread, NotYet
<1> QED BY <1>1, <1>2 DEF Receives

(* It leaves what it holds alone. *)
LEMMA ReceiverIdle ==
  ASSUME FlightInv, PipeInv, NEW s \in Sides, NEW i \in Ids, Mono(i), Still(<<Far(s), i>>),
         inn'[<<s, i>>] = inn[<<s, i>>], inbound'[<<s, i>>] = inbound[<<s, i>>],
         pending'[<<s, i>>] = pending[<<s, i>>], chunk'[<<s, i>>] = chunk[<<s, i>>],
         written'[<<s, i>>] = written[<<s, i>>], entry'[<<s, i>>] => entry[<<s, i>>],
         Receiving(<<s, i>>)' => Receiving(<<s, i>>),
         task'[<<s, i>>] \in {"none", "opening", "connecting"} =>
           task'[<<s, i>>] = task[<<s, i>>] /\ sent'[<<s, i>>] = sent[<<s, i>>]
  PROVE  Receives(s, i)
<1>0. FlowOf(s, i)
  BY DEF PipeInv
<1>1. CleanOf(s, i)'
  BY <1>0 DEF FlowOf, CleanOf
<1>2. Held(s, i)' = Held(s, i) /\ Got(s, i)' = Got(s, i)
  BY DEF Held, Got
<1>3. LocalOf(s, i)'
  <2>1. SUFFICES ASSUME Receiving(<<s, i>>)'
                 PROVE  InOrder(Held(s, i), pending[<<s, i>>], inbound[<<s, i>>], sent[<<Far(s), i>>], entry'[<<s, i>>])
    BY <1>0, <1>2 DEF FlowOf, LocalOf, Still
  <2>2. InOrder(Held(s, i), pending[<<s, i>>], inbound[<<s, i>>], sent[<<Far(s), i>>], entry[<<s, i>>])
    BY <1>0, <2>1 DEF FlowOf, LocalOf
  <2> QED BY <2>2, OrderDrop
<1>4. Expecting(s, i)' => Expecting(s, i)
  BY DEF Expecting, Mono
<1>5. EndOf(s, i)' => EndOf(s, i)
  BY DEF EndOf
<1> QED BY <1>1, <1>2, <1>3, <1>4, <1>5 DEF Receives

(* Its task starts to run. *)
LEMMA ReceiverStarts ==
  ASSUME FlightInv, PipeInv, NEW s \in Sides, NEW i \in Ids, Mono(i), Still(<<Far(s), i>>),
         task[<<s, i>>] \in {"opening", "connecting"}, task'[<<s, i>>] = "run", inn'[<<s, i>>] = "recv",
         inbound'[<<s, i>>] = inbound[<<s, i>>], pending'[<<s, i>>] = pending[<<s, i>>],
         written'[<<s, i>>] = written[<<s, i>>], entry'[<<s, i>>] = entry[<<s, i>>]
  PROVE  Receives(s, i)
<1>0. FlowOf(s, i) /\ inn[<<s, i>>] = "none" /\ Receiving(<<s, i>>)
  BY DEF PipeInv, FlowOf, CleanOf, Receiving
<1>1. CleanOf(s, i)'
  BY DEF CleanOf
<1>2. Held(s, i)' = Held(s, i) /\ Got(s, i)' = Got(s, i)
  BY <1>0 DEF Held, Got
<1>3. LocalOf(s, i)'
  BY <1>0, <1>2 DEF FlowOf, LocalOf, Still
<1>4. Expecting(s, i)' => Expecting(s, i)
  BY <1>0 DEF Expecting, Mono
<1>5. EndOf(s, i)' => EndOf(s, i)
  BY DEF EndOf
<1> QED BY <1>1, <1>2, <1>3, <1>4, <1>5 DEF Receives

(* What waits at an end that receives is in order. *)
LEMMA InOrderNow ==
  ASSUME FlightInv, PipeInv, NEW s \in Sides, NEW i \in Ids, Receiving(<<s, i>>)
  PROVE  /\ Held(s, i) \in Nat /\ sent[<<Far(s), i>>] \in Nat
         /\ pending[<<s, i>>] \in Seq(Nat) /\ inbound[<<s, i>>] \in Seq(Cmds)
         /\ InOrder(Held(s, i), pending[<<s, i>>], inbound[<<s, i>>], sent[<<Far(s), i>>], entry[<<s, i>>])
<1>1. FlowOf(s, i) /\ PipeType /\ Far(s) \in Sides
  BY FarSide DEF PipeInv
<1>2. sent[<<Far(s), i>>] \in Nat
  BY <1>1, FarSide DEF FlightInv, FlightType
<1> QED BY <1>1, <1>2, CountNat DEF FlowOf, LocalOf

(* A task that runs takes up a chunk, sets one aside or writes it. *)
LEMMA ReceiverMoves ==
  ASSUME FlightInv, PipeInv, NEW s \in Sides, NEW i \in Ids, Mono(i), Still(<<Far(s), i>>),
         Receiving(<<s, i>>), task[<<s, i>>] \in {"connecting", "run"}, task'[<<s, i>>] = task[<<s, i>>],
         entry'[<<s, i>>] = entry[<<s, i>>], CleanOf(s, i)',
         inn'[<<s, i>>] = "write" => chunk'[<<s, i>>] = Held(s, i)', inn'[<<s, i>>] # "PeerClosed",
         InOrder(Held(s, i)', pending'[<<s, i>>], inbound'[<<s, i>>], sent[<<Far(s), i>>], entry[<<s, i>>]),
         Total(Held(s, i)', pending'[<<s, i>>], inbound'[<<s, i>>]) = Total(Held(s, i), pending[<<s, i>>], inbound[<<s, i>>]),
         inbound'[<<s, i>>] = inbound[<<s, i>>] \/ (inbound[<<s, i>>] # <<>> /\ inbound'[<<s, i>>] = Tail(inbound[<<s, i>>]))
  PROVE  Receives(s, i)
<1> DEFINE p == <<s, i>>
<1>1. Got(s, i)' = Got(s, i)
  BY DEF Got
<1>2. LocalOf(s, i)'
  BY DEF LocalOf, Still
<1>3. Expecting(s, i)' => Expecting(s, i)
  BY DEF Expecting, Mono
<1>4. EndOf(s, i)' => EndOf(s, i)
  <2>1. inbound[p] \in Seq(Cmds)
    BY InOrderNow
  <2>2. CASE inbound'[p] = inbound[p]
    BY <2>2 DEF EndOf
  <2>3. CASE inbound[p] # <<>> /\ inbound'[p] = Tail(inbound[p])
    <3>1. \A k \in 1..Len(inbound'[p]) : k + 1 \in 1..Len(inbound[p]) /\ inbound'[p][k] = inbound[p][k + 1]
      BY <2>1, <2>3, RestOf
    <3> QED BY <3>1 DEF EndOf
  <2> QED BY <2>2, <2>3
<1> QED BY <1>1, <1>2, <1>3, <1>4 DEF Receives

(* It takes up a chunk that was set aside. *)
LEMMA ReceiverTakesPending ==
  ASSUME FlightInv, PipeInv, NEW s \in Sides, NEW i \in Ids, Mono(i), Still(<<Far(s), i>>),
         task[<<s, i>>] = "run", task'[<<s, i>>] = "run", inn[<<s, i>>] = "recv", inn'[<<s, i>>] = "write",
         pending[<<s, i>>] # <<>>, chunk'[<<s, i>>] = Head(pending[<<s, i>>]),
         pending'[<<s, i>>] = Tail(pending[<<s, i>>]),
         inbound'[<<s, i>>] = inbound[<<s, i>>], written'[<<s, i>>] = written[<<s, i>>], entry'[<<s, i>>] = entry[<<s, i>>]
  PROVE  Receives(s, i)
<1> DEFINE p == <<s, i>>  h == Held(s, i)  S == sent[<<Far(s), i>>]
<1>1. Receiving(p)
  BY DEF Receiving, RelayEnd
<1>2. h \in Nat /\ S \in Nat /\ pending[p] \in Seq(Nat) /\ inbound[p] \in Seq(Cmds) /\ InOrder(h, pending[p], inbound[p], S, entry[p])
  BY <1>1, InOrderNow
<1>3. Held(s, i)' = h + 1
  BY DEF Held
<1> HIDE DEF h, S
<1>4. /\ Head(pending[p]) = h + 1 /\ InOrder(h + 1, Tail(pending[p]), inbound[p], S, entry[p])
      /\ Total(h + 1, Tail(pending[p]), inbound[p]) = Total(h, pending[p], inbound[p])
  BY <1>2, OrderPop
<1>5. CleanOf(s, i)'
  BY DEF CleanOf
<1> QED BY <1>1, <1>3, <1>4, <1>5, ReceiverMoves DEF h, S

(* It takes up a chunk from its queue. *)
LEMMA ReceiverTakesInbound ==
  ASSUME FlightInv, PipeInv, NEW s \in Sides, NEW i \in Ids, Mono(i), Still(<<Far(s), i>>),
         task[<<s, i>>] = "run", task'[<<s, i>>] = "run", inn[<<s, i>>] = "recv", inn'[<<s, i>>] = "write",
         pending[<<s, i>>] = <<>>, pending'[<<s, i>>] = <<>>,
         inbound[<<s, i>>] # <<>>, inbound'[<<s, i>>] = Tail(inbound[<<s, i>>]), Head(inbound[<<s, i>>]).type = "data",
         chunk'[<<s, i>>] = Head(inbound[<<s, i>>]).n,
         written'[<<s, i>>] = written[<<s, i>>], entry'[<<s, i>>] = entry[<<s, i>>]
  PROVE  Receives(s, i)
<1> DEFINE p == <<s, i>>  h == Held(s, i)  S == sent[<<Far(s), i>>]
<1>1. Receiving(p)
  BY DEF Receiving, RelayEnd
<1>2. h \in Nat /\ S \in Nat /\ inbound[p] \in Seq(Cmds) /\ InOrder(h, <<>>, inbound[p], S, entry[p])
  BY <1>1, InOrderNow
<1>3. Held(s, i)' = h + 1
  BY DEF Held
<1> HIDE DEF h, S
<1>4. /\ Head(inbound[p]).n = h + 1 /\ InOrder(h + 1, <<>>, Tail(inbound[p]), S, entry[p])
      /\ Total(h + 1, <<>>, Tail(inbound[p])) = Total(h, <<>>, inbound[p])
  BY <1>2, OrderTake
<1>5. CleanOf(s, i)'
  BY DEF CleanOf
<1> QED BY <1>1, <1>3, <1>4, <1>5, ReceiverMoves DEF h, S

(* While connecting it sets a chunk aside. *)
LEMMA ReceiverSetsAside ==
  ASSUME FlightInv, PipeInv, NEW s \in Sides, NEW i \in Ids, Mono(i), Still(<<Far(s), i>>),
         task[<<s, i>>] = "connecting", task'[<<s, i>>] = "connecting", inn'[<<s, i>>] = inn[<<s, i>>],
         inbound[<<s, i>>] # <<>>, inbound'[<<s, i>>] = Tail(inbound[<<s, i>>]), Head(inbound[<<s, i>>]).type = "data",
         pending'[<<s, i>>] = Append(pending[<<s, i>>], Head(inbound[<<s, i>>]).n),
         sent'[<<s, i>>] = sent[<<s, i>>],
         written'[<<s, i>>] = written[<<s, i>>], entry'[<<s, i>>] = entry[<<s, i>>]
  PROVE  Receives(s, i)
<1> DEFINE p == <<s, i>>  h == Held(s, i)  S == sent[<<Far(s), i>>]
<1>1. Receiving(p) /\ CleanOf(s, i)
  BY DEF Receiving, PipeInv, FlowOf
<1>2. h \in Nat /\ S \in Nat /\ pending[p] \in Seq(Nat) /\ inbound[p] \in Seq(Cmds) /\ InOrder(h, pending[p], inbound[p], S, entry[p])
  BY <1>1, InOrderNow
<1>3. Held(s, i)' = h /\ inn'[p] = "none"
  BY <1>1 DEF Held, CleanOf
<1> HIDE DEF h, S
<1>4. /\ InOrder(h, Append(pending[p], Head(inbound[p]).n), Tail(inbound[p]), S, entry[p])
      /\ Total(h, Append(pending[p], Head(inbound[p]).n), Tail(inbound[p])) = Total(h, pending[p], inbound[p])
  BY <1>2, OrderMove
<1>5. CleanOf(s, i)'
  BY <1>1 DEF CleanOf
<1> QED BY <1>1, <1>3, <1>4, <1>5, ReceiverMoves DEF h, S

(* It writes the chunk it has taken up. *)
LEMMA ReceiverWrites ==
  ASSUME FlightInv, PipeInv, NEW s \in Sides, NEW i \in Ids, Mono(i), Still(<<Far(s), i>>),
         task[<<s, i>>] = "run", task'[<<s, i>>] = "run", inn[<<s, i>>] = "write", inn'[<<s, i>>] = "recv",
         written'[<<s, i>>] = Append(written[<<s, i>>], chunk[<<s, i>>]),
         inbound'[<<s, i>>] = inbound[<<s, i>>], pending'[<<s, i>>] = pending[<<s, i>>], entry'[<<s, i>>] = entry[<<s, i>>]
  PROVE  Receives(s, i)
<1> DEFINE p == <<s, i>>
<1>1. Receiving(p)
  BY DEF Receiving, RelayEnd
<1>2. InOrder(Held(s, i), pending[p], inbound[p], sent[<<Far(s), i>>], entry[p])
  BY <1>1, InOrderNow
<1>3. Held(s, i)' = Held(s, i)
  <2>1. written[p] \in Seq(Nat) /\ chunk[p] \in Nat
    BY FarSide, CountNat DEF PipeInv, PipeType
  <2>2. Len(written'[p]) = Len(written[p]) + 1
    BY <2>1
  <2> QED BY <2>2 DEF Held
<1>4. CleanOf(s, i)'
  BY DEF CleanOf
<1> QED BY <1>1, <1>2, <1>3, <1>4, ReceiverMoves

-----------------------------------------------------------------------------
(* A task's step concerns its own end. *)

(* A task's step concerns its own end. *)
Alone(e) == PipeType' /\ \A y \in Ends \ {e} : Still(y)

(* The half that ends. *)
LEMMA EndsIn ==
  ASSUME FlightInv, PipeInv, NEW e \in Ends, NEW v \in RelayEnd, EndIn(e, v), UNCHANGED <<entry, task, sent, written>>
  PROVE  Alone(e)
BY DEF EndIn, SetIn, Alone, Still, PipeInv, PipeType

(* Local sockets. *)
LEMMA SocketAlone ==
  ASSUME FlightInv, PipeInv, NEW e \in Ends, SocketStep(e)
  PROVE  Alone(e)
<1>0. PipeType /\ MapType /\ FlightType
  BY DEF PipeInv, FlightInv
<1>1. CASE ReadSocket(e) \/ ReadEof(e)
  BY <1>0, <1>1 DEF ReadSocket, ReadEof, Alone, Still, PipeType
<1>2. CASE WriteSocket(e)
  <2>1. written[e] \in Seq(Nat) /\ chunk[e] \in Nat
    BY <1>0 DEF PipeType
  <2>2. Append(written[e], chunk[e]) \in Seq(Nat)
    BY <2>1
  <2>3. written' \in [Ends -> Seq(Nat)] /\ chunk' \in [Ends -> Nat] /\ inn' \in [Ends -> {"none", "recv", "write"} \cup RelayEnd]
    BY <1>0, <1>2, <2>2 DEF WriteSocket, SetIn, PipeType
  <2> QED BY <1>0, <1>2, <2>3 DEF WriteSocket, SetIn, Alone, Still, PipeType
<1>3. CASE WriteFail(e)
  BY <1>3, EndsIn DEF WriteFail, RelayEnd
<1> QED BY <1>1, <1>2, <1>3 DEF SocketStep

(* The task's own steps. *)
LEMMA TaskAlone ==
  ASSUME FlightInv, PipeInv, NEW e \in Ends, TaskStep(e)
  PROVE  Alone(e)
<1>0. PipeType /\ MapType /\ FlightType /\ pending[e] \in Seq(Nat) /\ inbound[e] \in Seq(Cmds)
  BY DEF PipeInv, FlightInv, PipeType
<1>1. CASE SendData(e) \/ CancelOut(e) \/ Join(e) \/ SendClose(e) \/ Remove(e)
  BY <1>0, <1>1 DEF SendData, CancelOut, Join, SendClose, Remove, Alone, Still, PipeType, MapType, FlightType
<1>2. CASE TakePending(e)
  <2>1. Head(pending[e]) \in Nat /\ Tail(pending[e]) \in Seq(Nat)
    BY <1>0, <1>2, RestOf DEF TakePending
  <2> QED BY <1>0, <1>2, <2>1 DEF TakePending, SetIn, Alone, Still, PipeType
<1>3. CASE TakeInbound(e)
  <2>1. Head(inbound[e]) \in Cmds /\ Tail(inbound[e]) \in Seq(Cmds)
    BY <1>0, <1>3, RestOf DEF TakeInbound
  <2>2. CASE Head(inbound[e]).type = "data"
    <3>1. Head(inbound[e]).n \in Nat
      BY <2>1 DEF Cmds
    <3> QED BY <1>0, <1>3, <2>1, <2>2, <3>1 DEF TakeInbound, SetIn, Alone, Still, PipeType
  <2>3. CASE Head(inbound[e]).type # "data"
    BY <1>3, <2>3, EndsIn DEF TakeInbound, RelayEnd
  <2> QED BY <2>2, <2>3
<1>4. CASE InboundGone(e)
  BY <1>4, EndsIn DEF InboundGone, RelayEnd
<1>5. CASE CancelIn(e)
  BY <1>5, EndsIn DEF CancelIn, RelayEnd
<1> QED BY <1>1, <1>2, <1>3, <1>4, <1>5 DEF TaskStep

(* Opening and connecting. *)
LEMMA OpeningAlone ==
  ASSUME FlightInv, PipeInv, NEW i \in Ids
  PROVE  (SendOpen(i) => Alone(<<"controller", i>>)) /\ (ConnectStep(i) => Alone(<<"controlled", i>>))
<1> DEFINE e == <<"controlled", i>>
<1>0. /\ PipeType /\ MapType /\ FlightType /\ <<"controller", i>> \in Ends /\ e \in Ends
      /\ pending[e] \in Seq(Nat) /\ inbound[e] \in Seq(Cmds)
  BY FarSide DEF PipeInv, FlightInv, PipeType, Sides
<1>1. SendOpen(i) => Alone(<<"controller", i>>)
  BY <1>0 DEF SendOpen, Alone, Still, PipeType, MapType, FlightType
<1>2. ConnectDropped(i) \/ ConnectOk(i) \/ ConnectFail(i) => Alone(e)
  BY <1>0 DEF ConnectDropped, ConnectOk, ConnectFail, Alone, Still, PipeType, MapType, FlightType
<1>3. ASSUME ConnectCmd(i) PROVE Alone(e)
  <2>1. Head(inbound[e]) \in Cmds /\ Tail(inbound[e]) \in Seq(Cmds)
    BY <1>0, <1>3, RestOf DEF ConnectCmd
  <2>2. Head(inbound[e]).n \in Nat
    BY <2>1 DEF Cmds
  <2>3. Append(pending[e], Head(inbound[e]).n) \in Seq(Nat)
    BY <1>0, <2>2
  <2>4. pending' \in [Ends -> Seq(Nat)] /\ inbound' \in [Ends -> Seq(Cmds)]
    BY <1>0, <1>3, <2>1, <2>3 DEF ConnectCmd, PipeType
  <2>5. PipeType'
    BY <1>0, <1>3, <2>4 DEF ConnectCmd, PipeType
  <2>6. ASSUME NEW y \in Ends \ {e} PROVE Still(y)
    BY <1>0, <1>3 DEF ConnectCmd, Still, PipeType, MapType
  <2> QED BY <2>5, <2>6 DEF Alone
<1> QED BY <1>1, <1>2, <1>3 DEF ConnectStep

-----------------------------------------------------------------------------
(* The steps of tasks, one by one. *)

(* The stage a task moves to. *)
Moves(e, stage) ==
  /\ task[e] # "none" /\ stage \notin {"none", "opening"}
  /\ task[e] \in {"remove", "done"} => stage \in {"remove", "done"}
  /\ task' = [task EXCEPT ![e] = stage]

(* Such a step, put together. *)
LEMMA ActsAlone ==
  ASSUME FlightInv, NEW s \in Sides, NEW i \in Ids, Alone(<<s, i>>), NEW stage, Moves(<<s, i>>, stage),
         UNCHANGED <<loop, sending, link>>,
         \/ UNCHANGED queue
         \/ \E f \in Frames : /\ f.id = i /\ Enqueue(s, f)
                              /\ f.type = "open" => task[<<s, i>>] = "opening"
  PROVE  Acts(s, i) /\ Mono(i) /\ Still(<<Far(s), i>>) /\ PipeType'
<1>1. \A j \in Ids : Mono(j)
  BY TaskMono DEF Moves
<1>2. <<Far(s), i>> \in Ends \ {<<s, i>>}
  BY FarSide
<1> QED BY <1>1, <1>2 DEF Acts, Alone

(* A task that stays where it is. *)
LEMMA StaysInStage ==
  ASSUME FlightInv, NEW e \in Ends, task[e] \notin {"none", "opening"}, task' = task
  PROVE  Moves(e, task[e])
BY DEF Moves, FlightInv, MapType

(* A step that sends nothing. *)
LEMMA SilentFlows ==
  ASSUME FlightInv, PipeInv, NEW s \in Sides, NEW i \in Ids, Alone(<<s, i>>), NEW stage, Moves(<<s, i>>, stage),
         UNCHANGED <<loop, sending, link, queue>>, sent'[<<s, i>>] = sent[<<s, i>>], Receives(s, i)
  PROVE  PipeInv'
<1>1. Acts(s, i) /\ Mono(i) /\ Still(<<Far(s), i>>) /\ PipeType'
  BY ActsAlone
<1>2. Onward(s, i)
  BY SameOnward
<1>3. FlowOf(Far(s), i)'
  BY <1>1, <1>2, SenderQuiet
<1> QED BY <1>1, <1>3, ActorFlows

(* A step that sends a frame that is no chunk. *)
LEMMA FrameFlows ==
  ASSUME FlightInv, PipeInv, NEW s \in Sides, NEW i \in Ids, Alone(<<s, i>>), NEW stage, Moves(<<s, i>>, stage),
         NEW f \in Frames, Enqueue(s, f), UNCHANGED <<loop, sending, link>>,
         f.id = i, f.type # "data", f.type = "open" => task[<<s, i>>] = "opening", Closing(s, f) => Ended(s, i)',
         sent'[<<s, i>>] = sent[<<s, i>>], Receives(s, i)
  PROVE  PipeInv'
<1>1. Acts(s, i) /\ Mono(i) /\ Still(<<Far(s), i>>) /\ PipeType'
  BY ActsAlone
<1>2. FlowOf(Far(s), i)'
  <2>1. CASE Closing(s, f)
    BY <1>1, <2>1, SenderEnd
  <2>2. CASE ~Closing(s, f)
    <3>1. Onward(s, i)
      BY <2>2, EnqueueOnward DEF FlightInv
    <3> QED BY <1>1, <3>1, SenderQuiet
  <2> QED BY <2>1, <2>2
<1> QED BY <1>1, <1>2, ActorFlows

-----------------------------------------------------------------------------
(* A half that ends. *)
LEMMA EndInFlows ==
  ASSUME FlightInv, PipeInv, NEW s \in Sides, NEW i \in Ids, NEW v \in RelayEnd, EndIn(<<s, i>>, v),
         task[<<s, i>>] = "run", v = "PeerClosed" => EndOf(s, i),
         UNCHANGED <<loopVars, queue, entry, task, out, sent, written>>
  PROVE  PipeInv'
<1> DEFINE e == <<s, i>>
<1>0. e \in Ends /\ Alone(e)
  BY FarSide, EndsIn
<1>1. Moves(e, "run") /\ UNCHANGED <<loop, sending, link, queue>>
  BY <1>0, StaysInStage DEF loopVars
<1>2. inn'[e] = v /\ inbound'[e] = <<>> /\ task'[e] = "run"
  BY <1>0 DEF EndIn, SetIn, PipeInv, PipeType
<1>3. EndOf(s, i)' => EndOf(s, i)
  BY <1>2 DEF EndOf
<1>4. ~Receiving(e)'
  BY <1>2 DEF Receiving
<1>5. Receives(s, i)
  <2>1. Mono(i)
    BY <1>0, <1>1, ActsAlone
  <2> QED BY <1>2, <1>3, <1>4, <2>1, ReceiverGone
<1> QED BY <1>0, <1>1, <1>5, SilentFlows

(* Steps of the local sockets. *)
LEMMA SocketFlows ==
  ASSUME FlightInv, PipeInv, NEW s \in Sides, NEW i \in Ids, SocketStep(<<s, i>>)
  PROVE  PipeInv'
<1> DEFINE e == <<s, i>>
<1>0. e \in Ends /\ Alone(e)
  BY FarSide, SocketAlone
<1>1. task[e] = "run" /\ Moves(e, "run") /\ UNCHANGED <<loop, sending, link, queue, sent, task, entry>>
  BY <1>0, StaysInStage DEF SocketStep, ReadSocket, ReadEof, WriteSocket, WriteFail, loopVars
<1>2. Mono(i) /\ Still(<<Far(s), i>>)
  BY <1>0, <1>1, ActsAlone
<1>3. CASE ReadSocket(e) \/ ReadEof(e)
  <2>1. UNCHANGED <<inn, inbound, pending, chunk, written>>
    BY <1>3 DEF ReadSocket, ReadEof
  <2>2. Receiving(e)' => Receiving(e)
    BY <1>1, <2>1 DEF Receiving
  <2>3. Receives(s, i)
    BY <1>1, <1>2, <2>1, <2>2, ReceiverIdle
  <2> QED BY <1>0, <1>1, <2>3, SilentFlows
<1>4. CASE WriteSocket(e)
  <2>1. /\ inn[e] = "write" /\ inn'[e] = "recv" /\ written'[e] = Append(written[e], chunk[e])
        /\ UNCHANGED <<inbound, pending>>
    BY <1>0, <1>4 DEF WriteSocket, SetIn, PipeInv, PipeType
  <2>2. Receives(s, i)
    BY <1>1, <1>2, <2>1, ReceiverWrites
  <2> QED BY <1>0, <1>1, <2>2, SilentFlows
<1>5. CASE WriteFail(e)
  BY <1>5, EndInFlows DEF WriteFail, RelayEnd
<1> QED BY <1>3, <1>4, <1>5 DEF SocketStep

(* Taking what is queued. *)
LEMMA TakingFlows ==
  ASSUME FlightInv, PipeInv, NEW s \in Sides, NEW i \in Ids, TakePending(<<s, i>>) \/ TakeInbound(<<s, i>>)
  PROVE  PipeInv'
<1> DEFINE e == <<s, i>>
<1>0. e \in Ends /\ Alone(e)
  BY FarSide, TaskAlone DEF TaskStep
<1>1. task[e] = "run" /\ Moves(e, "run") /\ inn[e] = "recv"
      /\ UNCHANGED <<loop, sending, link, queue, sent, task, entry, written>>
  BY <1>0, StaysInStage DEF TakePending, TakeInbound, loopVars
<1>2. Mono(i) /\ Still(<<Far(s), i>>)
  BY <1>0, <1>1, ActsAlone
<1>3. CASE TakePending(e)
  <2>1. /\ inn'[e] = "write" /\ pending[e] # <<>> /\ pending'[e] = Tail(pending[e]) /\ chunk'[e] = Head(pending[e])
        /\ UNCHANGED inbound
    BY <1>0, <1>3 DEF TakePending, SetIn, PipeInv, PipeType
  <2>2. Receives(s, i)
    BY <1>1, <1>2, <2>1, ReceiverTakesPending
  <2> QED BY <1>0, <1>1, <2>2, SilentFlows
<1>4. CASE TakeInbound(e) /\ Head(inbound[e]).type = "data"
  <2>1. /\ inn'[e] = "write" /\ pending[e] = <<>> /\ pending'[e] = <<>> /\ chunk'[e] = Head(inbound[e]).n
        /\ inbound[e] # <<>> /\ inbound'[e] = Tail(inbound[e])
    BY <1>0, <1>4 DEF TakeInbound, SetIn, PipeInv, PipeType
  <2>2. Receives(s, i)
    BY <1>1, <1>2, <1>4, <2>1, ReceiverTakesInbound
  <2> QED BY <1>0, <1>1, <2>2, SilentFlows
<1>5. CASE TakeInbound(e) /\ Head(inbound[e]).type # "data"
  <2>1. inbound[e] # <<>> /\ pending[e] = <<>> /\ EndIn(e, "PeerClosed")
    BY <1>5 DEF TakeInbound
  <2>2. Receiving(e)
    BY <1>1 DEF Receiving, RelayEnd
  <2>3. Head(inbound[e]) = CloseCmd /\ inbound[e] \in Seq(Cmds)
    <3> DEFINE h == Held(s, i)  S == sent[<<Far(s), i>>]
    <3>1. h \in Nat /\ S \in Nat /\ inbound[e] \in Seq(Cmds) /\ InOrder(h, <<>>, inbound[e], S, entry[e])
      BY <2>1, <2>2, InOrderNow
    <3> HIDE DEF h, S
    <3> QED BY <1>5, <2>1, <3>1, OrderEnd
  <2>4. EndOf(s, i)
    <3>1. 1 \in 1..Len(inbound[e]) /\ inbound[e][1] = CloseCmd
      BY <2>1, <2>3
    <3> QED BY <3>1 DEF EndOf
  <2> QED BY <1>1, <1>5, <2>1, <2>4, EndInFlows DEF TakeInbound, RelayEnd
<1> QED BY <1>3, <1>4, <1>5

(* The reading half, and the end of the task. *)
LEMMA SendDataFlows ==
  ASSUME FlightInv, PipeInv, NEW s \in Sides, NEW i \in Ids, SendData(<<s, i>>)
  PROVE  PipeInv'
<1> DEFINE e == <<s, i>>  f == Frame("data", i, sent[e] + 1)
<1>0. e \in Ends /\ Alone(e) /\ Side(e) = s /\ Id(e) = i
  BY FarSide, TaskAlone DEF TaskStep
<1>1. /\ task[e] = "run" /\ Moves(e, "run")
      /\ UNCHANGED <<loop, sending, link, task, entry, inn, inbound, pending, chunk, written>>
  BY <1>0, StaysInStage DEF SendData, loopVars
<1>2. sent[e] \in Nat /\ sent \in [Ends -> Nat]
  BY <1>0 DEF FlightInv, FlightType
<1>3. ASSUME Mono(i), Still(<<Far(s), i>>) PROVE Receives(s, i)
  <2>1. Receiving(e)' => Receiving(e)
    BY <1>1 DEF Receiving
  <2> QED BY <1>1, <1>3, <2>1, ReceiverIdle
<1>4. CASE SinkClosed(s)
  <2>1. UNCHANGED <<queue, sent>>
    BY <1>0, <1>4 DEF SendData
  <2>2. Receives(s, i)
    BY <1>0, <1>1, <1>3, <2>1, ActsAlone
  <2> QED BY <1>0, <1>1, <2>1, <2>2, SilentFlows
<1>5. CASE ~SinkClosed(s)
  <2>1. Enqueue(s, f) /\ sent'[e] = sent[e] + 1
    BY <1>0, <1>2, <1>5 DEF SendData
  <2>2. f \in Frames /\ f.id = i /\ f.type = "data" /\ f.n = sent[e] + 1
    BY <1>2 DEF Frame, Frames, FrameTypes
  <2> HIDE DEF f
  <2>3. Acts(s, i) /\ Mono(i) /\ Still(<<Far(s), i>>) /\ PipeType'
    BY <1>0, <1>1, <2>1, <2>2, ActsAlone
  <2>4. FlowOf(Far(s), i)'
    BY <1>1, <2>1, <2>2, <2>3, SenderChunk
  <2> QED BY <1>3, <2>3, <2>4, ActorFlows
<1> QED BY <1>4, <1>5

(* The other steps of a task: ending, joining, `close`, removing. *)
LEMMA EndingFlows ==
  ASSUME FlightInv, PipeInv, NEW s \in Sides, NEW i \in Ids, Join(<<s, i>>) \/ SendClose(<<s, i>>) \/ Remove(<<s, i>>)
  PROVE  PipeInv'
<1> DEFINE e == <<s, i>>  f == Frame("close", i, 0)
<1>0. e \in Ends /\ Alone(e) /\ Side(e) = s /\ Id(e) = i
  BY FarSide, TaskAlone DEF TaskStep
<1>1. UNCHANGED <<loop, sending, link, inn, inbound, pending, chunk, written, sent>>
  BY DEF Join, SendClose, Remove, loopVars
<1>2. PICK stage \in {"close", "remove", "done"} :
         Moves(e, stage) /\ (task[e] = "close" => stage \in {"remove", "done"}) /\ task[e] \in {"run", "close", "remove"}
  <2>1. CASE Join(e)
    BY <2>1 DEF Join, AfterChannel, Moves
  <2>2. CASE SendClose(e)
    BY <2>2 DEF SendClose, AfterChannel, Moves
  <2>3. CASE Remove(e)
    BY <2>3 DEF Remove, Moves
  <2> QED BY <2>1, <2>2, <2>3
<1>3. task'[e] = stage
  BY <1>0, <1>2 DEF Moves, FlightInv, MapType
<1>4. ~Receiving(e)' /\ (EndOf(s, i)' => EndOf(s, i))
  BY <1>1, <1>3 DEF Receiving, EndOf
<1>5. ASSUME Mono(i) PROVE Receives(s, i)
  BY <1>2, <1>3, <1>4, <1>5, ReceiverGone
<1>6. CASE UNCHANGED queue
  <2>1. Receives(s, i)
    BY <1>0, <1>1, <1>2, <1>5, <1>6, ActsAlone
  <2> QED BY <1>0, <1>1, <1>2, <1>6, <2>1, SilentFlows
<1>7. CASE ~UNCHANGED queue
  <2>1. Enqueue(s, f) /\ task[e] = "close"
    BY <1>0, <1>7 DEF Join, SendClose, Remove
  <2>2. f \in Frames /\ f.id = i /\ f.type = "close"
    BY DEF Frame, Frames, FrameTypes
  <2> HIDE DEF f
  <2>3. Ended(s, i)'
    BY <1>2, <1>3, <2>1 DEF Ended
  <2>4. Receives(s, i)
    BY <1>0, <1>1, <1>2, <1>5, <2>1, <2>2, ActsAlone
  <2> QED BY <1>0, <1>1, <1>2, <2>1, <2>2, <2>3, <2>4, FrameFlows
<1> QED BY <1>6, <1>7

(* All steps of a task. *)
LEMMA TaskFlows ==
  ASSUME FlightInv, PipeInv, NEW s \in Sides, NEW i \in Ids, TaskStep(<<s, i>>)
  PROVE  PipeInv'
<1> DEFINE e == <<s, i>>
<1>0. e \in Ends /\ Alone(e)
  BY FarSide, TaskAlone
<1>1. CASE CancelOut(e)
  <2>1. task[e] = "run" /\ Moves(e, "run")
        /\ UNCHANGED <<loop, sending, link, queue, sent, task, entry, inn, inbound, pending, chunk, written>>
    BY <1>0, <1>1, StaysInStage DEF CancelOut, loopVars
  <2>2. Mono(i) /\ Still(<<Far(s), i>>)
    BY <1>0, <2>1, ActsAlone
  <2>3. Receiving(e)' => Receiving(e)
    BY <2>1 DEF Receiving
  <2>4. Receives(s, i)
    BY <2>1, <2>2, <2>3, ReceiverIdle
  <2> QED BY <1>0, <2>1, <2>4, SilentFlows
<1>2. CASE InboundGone(e)
  BY <1>2, EndInFlows DEF InboundGone, RelayEnd
<1>3. CASE CancelIn(e)
  BY <1>3, EndInFlows DEF CancelIn, RelayEnd
<1> QED BY <1>1, <1>2, <1>3, SendDataFlows, TakingFlows, EndingFlows DEF TaskStep

-----------------------------------------------------------------------------
(* Opening. *)

(* The controller's task sends `open`. *)
LEMMA SendOpenFlows ==
  ASSUME FlightInv, PipeInv, NEW i \in Ids, SendOpen(i)
  PROVE  PipeInv'
<1> DEFINE s == "controller"  e == <<"controller", i>>  f == Frame("open", i, 0)
<1>0. e \in Ends /\ Alone(e) /\ s \in Sides
  BY FarSide, OpeningAlone DEF Sides
<1>1. task[e] = "opening" /\ UNCHANGED <<loop, sending, link, sent, entry, inbound, pending, chunk, written>>
  BY DEF SendOpen, loopVars
<1>2. CASE SinkClosed("controller")
  <2>1. Moves(e, "remove") /\ UNCHANGED <<queue, inn>> /\ task'[e] = "remove"
    BY <1>0, <1>1, <1>2 DEF SendOpen, Moves, FlightInv, MapType
  <2>2. Mono(i)
    BY <1>0, <1>1, <2>1, ActsAlone
  <2>3. ~Receiving(e)' /\ (EndOf(s, i)' => EndOf(s, i))
    BY <1>1, <2>1 DEF Receiving, EndOf
  <2>4. Receives(s, i)
    BY <1>0, <1>1, <2>1, <2>2, <2>3, ReceiverGone
  <2> QED BY <1>0, <1>1, <2>1, <2>4, SilentFlows
<1>3. CASE ~SinkClosed("controller")
  <2>1. Moves(e, "run") /\ Enqueue("controller", f) /\ inn'[e] = "recv" /\ task'[e] = "run"
    BY <1>0, <1>1, <1>3 DEF SendOpen, Moves, FlightInv, MapType, PipeInv, PipeType
  <2>2. f \in Frames /\ f.id = i /\ f.type = "open" /\ ~Closing("controller", f)
    BY DEF Frame, Frames, FrameTypes, Closing
  <2> HIDE DEF f
  <2>3. Mono(i) /\ Still(<<Far(s), i>>)
    BY <1>0, <1>1, <2>1, <2>2, ActsAlone
  <2>4. Receives(s, i)
    BY <1>0, <1>1, <2>1, <2>3, ReceiverStarts
  <2> QED BY <1>0, <1>1, <2>1, <2>2, <2>4, FrameFlows
<1> QED BY <1>2, <1>3

(* The controlled side connects its target. *)
LEMMA ConnectFlows ==
  ASSUME FlightInv, PipeInv, NEW i \in Ids, ConnectStep(i)
  PROVE  PipeInv'
<1> DEFINE s == "controlled"  e == <<"controlled", i>>
<1>0. e \in Ends /\ Alone(e) /\ s \in Sides
  BY FarSide, OpeningAlone DEF Sides
<1>1. task[e] = "connecting" /\ UNCHANGED <<loop, sending, link, sent, entry, chunk, written>>
  BY DEF ConnectStep, ConnectCmd, ConnectDropped, ConnectOk, ConnectFail, loopVars
<1>2. ASSUME task' = [task EXCEPT ![e] = "done"], UNCHANGED inn, EndOf(s, i)' => EndOf(s, i),
             \/ UNCHANGED queue
             \/ Enqueue("controlled", Frame("opened", i, 0))
      PROVE  PipeInv'
  <2> DEFINE f == Frame("opened", i, 0)
  <2>1. Moves(e, "done") /\ task'[e] = "done"
    BY <1>0, <1>1, <1>2 DEF Moves, FlightInv, MapType
  <2>2. f \in Frames /\ f.id = i /\ f.type = "opened"
    BY DEF Frame, Frames, FrameTypes
  <2>3. UNCHANGED queue \/ Enqueue("controlled", f)
    BY <1>2
  <2> HIDE DEF f
  <2>4. Mono(i)
    BY <1>0, <1>1, <2>1, <2>2, <2>3, ActsAlone
  <2>5. ~Receiving(e)' /\ Ended(s, i)'
    BY <2>1 DEF Receiving, Ended
  <2>6. Receives(s, i)
    BY <1>0, <1>1, <1>2, <2>1, <2>4, <2>5, ReceiverGone
  <2>7. CASE UNCHANGED queue
    BY <1>0, <1>1, <2>1, <2>6, <2>7, SilentFlows
  <2>8. CASE Enqueue("controlled", f)
    BY <1>0, <1>1, <2>1, <2>2, <2>5, <2>6, <2>8, FrameFlows
  <2> QED BY <2>3, <2>7, <2>8
<1>3. CASE ConnectCmd(i) /\ Head(inbound[e]).type = "data"
  <2>1. /\ task' = task /\ UNCHANGED <<queue, inn>> /\ inbound[e] # <<>> /\ inbound'[e] = Tail(inbound[e])
        /\ pending'[e] = Append(pending[e], Head(inbound[e]).n)
    BY <1>0, <1>3 DEF ConnectCmd, PipeInv, PipeType
  <2>2. Moves(e, "connecting")
    BY <1>0, <1>1, <2>1, StaysInStage
  <2>3. Mono(i) /\ Still(<<Far(s), i>>)
    BY <1>0, <1>1, <2>1, <2>2, ActsAlone
  <2>4. Receives(s, i)
    BY <1>0, <1>1, <1>3, <2>1, <2>3, ReceiverSetsAside
  <2> QED BY <1>0, <1>1, <2>1, <2>2, <2>4, SilentFlows
<1>4. CASE ConnectCmd(i) /\ Head(inbound[e]).type # "data"
  <2>1. /\ task' = [task EXCEPT ![e] = "done"] /\ UNCHANGED <<queue, inn>> /\ inbound[e] # <<>> /\ inbound'[e] = Tail(inbound[e])
    BY <1>0, <1>4 DEF ConnectCmd, PipeInv, PipeType
  <2>2. inbound[e] \in Seq(Cmds)
    BY <1>0 DEF PipeInv, PipeType
  <2>3. \A k \in 1..Len(inbound'[e]) : k + 1 \in 1..Len(inbound[e]) /\ inbound'[e][k] = inbound[e][k + 1]
    BY <2>1, <2>2, RestOf
  <2>4. EndOf(s, i)' => EndOf(s, i)
    BY <2>1, <2>3 DEF EndOf
  <2> QED BY <1>2, <2>1, <2>4
<1>5. CASE ConnectDropped(i) \/ ConnectFail(i) \/ (ConnectOk(i) /\ SinkClosed("controlled"))
  <2>1. UNCHANGED <<inn, inbound>> /\ task' = [task EXCEPT ![e] = "done"]
        /\ (UNCHANGED queue \/ Enqueue("controlled", Frame("opened", i, 0)))
    BY <1>5 DEF ConnectDropped, ConnectFail, ConnectOk
  <2>2. EndOf(s, i)' => EndOf(s, i)
    BY <2>1 DEF EndOf
  <2> QED BY <1>2, <2>1, <2>2
<1>6. CASE ConnectOk(i) /\ ~SinkClosed("controlled")
  <2> DEFINE f == Frame("opened", i, 1)
  <2>1. /\ Moves(e, "run") /\ Enqueue("controlled", f) /\ inn'[e] = "recv" /\ task'[e] = "run"
        /\ UNCHANGED <<inbound, pending>>
    BY <1>0, <1>1, <1>6 DEF ConnectOk, Moves, FlightInv, MapType, PipeInv, PipeType
  <2>2. f \in Frames /\ f.id = i /\ f.type = "opened" /\ ~Closing("controlled", f)
    BY DEF Frame, Frames, FrameTypes, Closing
  <2> HIDE DEF f
  <2>3. Mono(i) /\ Still(<<Far(s), i>>)
    BY <1>0, <1>1, <2>1, <2>2, ActsAlone
  <2>4. Receives(s, i)
    BY <1>0, <1>1, <2>1, <2>3, ReceiverStarts
  <2> QED BY <1>0, <1>1, <2>1, <2>2, <2>4, FrameFlows
<1> QED BY <1>3, <1>4, <1>5, <1>6 DEF ConnectStep

-----------------------------------------------------------------------------
(* The steps of the loops. *)

(* A loop sends or ends. *)
LEMMA LoopFlows ==
  ASSUME FlightInv, PipeInv, NEW s \in Sides, LoopStep(s) \/ LoopEnd(s)
  PROVE  PipeInv'
<1>0. FlightType /\ PipeType /\ Flights
  BY DEF FlightInv, PipeInv
<1>1. /\ UNCHANGED <<inbound, taskVars>> /\ \A y \in Ends : entry'[y] => entry[y]
      /\ \A r \in Sides \ {s} : loop'[r] = loop[r] /\ sending'[r] = sending[r] /\ queue'[r] = queue[r] /\ link'[r] = link[r]
  BY <1>0 DEF LoopStep, LoopEnd, SendNext, Unblock, DropQueues, PeerGone, FlightType
<1>2. Thins
  BY <1>0, LoopThins
<1>3. PipeType'
  BY <1>0, <1>1 DEF PipeType, taskVars
<1>4. ASSUME NEW q \in Sides, NEW j \in Ids PROVE FlowOf(q, j)'
  <2>1. Far(q) \in Sides /\ <<q, j>> \in Ends
    BY FarSide
  <2>2. Onward(Far(q), j)
    <3>1. CASE Far(q) = s
      BY <1>0, <1>2, <3>1, LoopOnward
    <3>2. CASE Far(q) # s
      BY <1>1, <2>1, <3>2, SameOnward DEF taskVars
    <3> QED BY <3>1, <3>2
  <2>3. Rests(<<q, j>>)
    BY <1>1, <2>1 DEF Rests, taskVars
  <2>4. FlowOf(q, j) /\ Mono(j)
    BY <1>2, ThinsMono DEF PipeInv
  <2> QED BY <1>0, <2>1, <2>2, <2>3, <2>4, FlowQuiet DEF Mono
<1> QED BY <1>3, <1>4 DEF PipeInv

(* Nothing is sent, read or done. *)
LEMMA NothingFlows ==
  ASSUME FlightInv, PipeInv, UNCHANGED <<loop, sending, queue, link, entry, inbound, taskVars>>
  PROVE  PipeInv'
<1>0. PipeType
  BY DEF PipeInv
<1>1. PipeType' /\ \A q \in Sides : InFlight(q)' = InFlight(q)
  BY <1>0 DEF PipeType, taskVars, InFlight
<1>2. ASSUME NEW q \in Sides, NEW j \in Ids PROVE FlowOf(q, j)'
  <2>1. Far(q) \in Sides /\ "controller" \in Sides
    BY FarSide DEF Sides
  <2>2. Onward(Far(q), j)
    BY <2>1, SameOnward DEF taskVars
  <2>3. Rests(<<q, j>>)
    BY DEF Rests, taskVars
  <2>4. NotYet(j)' <=> NotYet(j)
    BY <1>1, <2>1 DEF NotYet, Unsent, taskVars
  <2>5. Ended(Far(q), j)' <=> Ended(Far(q), j)
    BY <2>4 DEF Ended, taskVars
  <2>6. FlowOf(q, j)
    BY DEF PipeInv
  <2> QED BY <1>0, <2>1, <2>2, <2>3, <2>4, <2>5, <2>6, FlowQuiet
<1> QED BY <1>1, <1>2 DEF PipeInv

-----------------------------------------------------------------------------
(* The loop of side s reads a frame of its peer. *)
Reads(s) ==
  /\ link[Far(s)] # <<>> /\ link' = [link EXCEPT ![Far(s)] = Tail(@)]
  /\ UNCHANGED <<loop, sending, queue, taskVars>>

(* Once a frame of a channel other than `open` is read, its `open` has     *)
(* been.                                                                   *)
LEMMA ReadNotYet ==
  ASSUME FlightInv, Reads("controlled"), NEW i \in Ids, Head(link["controller"]).id = i
  PROVE  ~NotYet(i)'
<1> DEFINE up == InFlight("controller")
<1>1. "controller" \in Sides /\ Far("controlled") = "controller" /\ up \in Seq(Frames)
  BY FarSide, FlightParts DEF FlightInv, Sides
<1>2. up # <<>> /\ Head(up) = Head(link["controller"]) /\ up' = Tail(up)
  BY <1>1, ReadFlight DEF Reads, FlightInv
<1>3. Ordered(up)
  BY <1>1 DEF FlightInv, Flights
<1>4. Head(up) \in Carried(up)
  BY <1>1, <1>2, CarriedTail
<1>5. ~Unsent(i)
  BY <1>2, <1>4 DEF FlightInv, OpenFirst
<1>6. ~Unsent(i)'
  BY <1>5 DEF Unsent, Reads, taskVars
<1>7. \A g \in Carried(up') : g.id = i => g.type # "open"
  BY <1>1, <1>2, <1>3, OrderedTail
<1> QED BY <1>6, <1>7 DEF NotYet

(* What it reads is handed to the end it is for. *)
LEMMA DeliveredFlow ==
  ASSUME FlightInv, PipeInv, NEW s \in Sides, Reads(s), NEW i \in Ids, NEW f \in Frames, f = Head(link[Far(s)]), f.id = i,
         f.type = "data" \/ Closing(Far(s), f), Mono(i), s = "controlled" => ~NotYet(i)', Deliver(<<s, i>>, f)
  PROVE  FlowOf(s, i)' /\ inbound'[<<s, i>>] \in Seq(Cmds) /\ (entry'[<<s, i>>] => entry[<<s, i>>])
<1> DEFINE e == <<s, i>>  r == Far(s)  S == sent[<<Far(s), i>>]  h == Held(s, i)  R == Got(s, i)
<1>0. /\ FlightType /\ PipeType /\ r \in Sides /\ r # s /\ e \in Ends /\ FlowOf(s, i) /\ MapType
      /\ S \in Nat /\ h \in Nat /\ R \in Nat /\ inbound[e] \in Seq(Cmds) /\ pending[e] \in Seq(Nat)
      /\ Far(r) = s
  <2>1. FlightType /\ PipeType /\ r \in Sides /\ r # s /\ e \in Ends /\ FlowOf(s, i) /\ MapType /\ Far(r) = s
    BY FarSide DEF FlightInv, PipeInv
  <2>2. S \in Nat
    BY <2>1, FarSide DEF FlightType
  <2> QED BY <2>1, <2>2, CountNat
<1>1. /\ UNCHANGED <<task, inn, pending, chunk, sent, written>>
      /\ Receiving(e)' = Receiving(e) /\ Held(s, i)' = h
  BY DEF Reads, taskVars, Receiving, Held
<1>2. /\ Reaching(r) # <<>> /\ Head(Reaching(r)) = f /\ Reaching(r)' = Tail(Reaching(r)) /\ Alive(r)' = Alive(r)
      /\ InFlight(r)' = Tail(InFlight(r)) /\ InFlight(r) # <<>> /\ Head(InFlight(r)) = f
  BY <1>0, ReadReaching DEF Reads
<1>3. /\ Reaching(r) \in Seq(Frames) /\ Alive(r) \in BOOLEAN /\ f \in Carried(InFlight(r))
      /\ Carried(InFlight(r)') \subseteq Carried(InFlight(r))
  BY <1>0, <1>2, ReachingType, FlightParts, CarriedTail
<1>4. ~entry'[e] => ~Expecting(s, i)'
  BY DEF Expecting
<1>5. entry[e] /\ Receiving(e) => Numbered(Reaching(r), i, r, R, S, Alive(r))
  BY <1>0 DEF FlowOf, CountOf, Expecting
<1>6. Receiving(e) => InOrder(h, pending[e], inbound[e], S, entry[e]) /\ (inn[e] = "write" => chunk[e] = h)
  BY <1>0 DEF FlowOf, LocalOf
<1>7. Ended(r, i) => Ended(r, i)'
  BY <1>0 DEF Mono
<1>8. Evidence(s, i) => Ended(r, i)'
  BY <1>0, <1>7 DEF FlowOf, EvidenceOf
<1>9. R = Total(h, pending[e], inbound[e])
  BY DEF Got
<1> HIDE DEF S, h, R
<1>10. CASE ~entry[e] \/ (f.type = "data" /\ ~Receiving(e))
  <2>1. inbound' = inbound /\ ~entry'[e]
    BY <1>0, <1>10 DEF Deliver, MapType
  <2>2. CleanOf(s, i)'
    BY <1>0, <1>1, <2>1 DEF FlowOf, CleanOf
  <2>3. LocalOf(s, i)'
    <3>1. SUFFICES ASSUME Receiving(e) PROVE InOrder(h, pending[e], inbound[e], S, FALSE)
      BY <1>1, <1>6, <2>1 DEF LocalOf, S, InOrder
    <3> QED BY <1>6, <3>1, OrderDrop
  <2>4. CountOf(s, i)'
    BY <1>4, <2>1 DEF CountOf
  <2>5. EvidenceOf(s, i)'
    BY <1>1, <1>3, <1>8, <2>1 DEF EvidenceOf, Evidence
  <2> QED BY <1>0, <2>1, <2>2, <2>3, <2>4, <2>5 DEF FlowOf
<1>11. CASE entry[e] /\ f.type = "data" /\ Receiving(e)
  <2>1. f.n = R + 1 /\ R + 1 <= S /\ Numbered(Tail(Reaching(r)), i, r, R + 1, S, Alive(r))
    BY <1>0, <1>2, <1>3, <1>5, <1>11, NumberedTail
  <2> DEFINE C == Append(inbound[e], Data(R + 1))
  <2>2. inbound'[e] = C /\ entry' = entry
    BY <1>0, <1>11, <2>1 DEF Deliver, PipeType
  <2>3. InOrder(h, pending[e], inbound[e], S, TRUE)
    BY <1>6, <1>11 DEF InOrder
  <2> C = Append(inbound[e], Data(R + 1))
    OBVIOUS
  <2> HIDE DEF C
  <2>4. C \in Seq(Cmds) /\ InOrder(h, pending[e], C, S, TRUE) /\ NoEnd(C)
    BY <1>0, <1>9, <2>1, <2>3, OrderChunk
  <2>5. CleanOf(s, i)'
    BY <1>0, <1>1, <1>11 DEF FlowOf, CleanOf, Receiving
  <2>6. LocalOf(s, i)'
    <3>1. InOrder(h, pending[e], C, S, entry'[e])
      BY <2>4, OrderDrop
    <3> QED BY <1>1, <1>6, <1>11, <2>2, <3>1 DEF LocalOf, S
  <2>7. Got(s, i)' = R + 1
    <3>1. Len(C) = Len(inbound[e]) + 1 /\ Len(inbound[e]) \in Nat /\ Len(pending[e]) \in Nat
      <4> DEFINE B == inbound[e]  d == Data(R + 1)
      <4>1. B \in Seq(Cmds) /\ d \in Cmds /\ C = Append(B, d)
        BY <1>0 DEF Data, Cmds, C
      <4> HIDE DEF B, d
      <4>2. Len(C) = Len(B) + 1 /\ Len(B) \in Nat
        BY <4>1
      <4> QED BY <1>0, <4>2 DEF B
    <3>2. Total(h, pending[e], C) = R + 1
      <4>1. R = h + Len(pending[e]) + Len(inbound[e]) /\ Total(h, pending[e], C) = h + Len(pending[e]) + Len(C)
        BY <1>9 DEF Total
      <4> DEFINE lp == Len(pending[e])  lb == Len(inbound[e])  lc == Len(C)
      <4>2. h \in Nat /\ lp \in Nat /\ lb \in Nat /\ lc = lb + 1
        BY <1>0, <3>1
      <4> HIDE DEF lp, lb, lc
      <4>3. h + lp + lc = (h + lp + lb) + 1
        BY <4>2
      <4> QED BY <4>1, <4>3 DEF lp, lb, lc
    <3> QED BY <1>1, <2>2, <3>2 DEF Got
  <2>8. CountOf(s, i)'
    BY <1>1, <1>2, <2>1, <2>7 DEF CountOf, S
  <2>9. EvidenceOf(s, i)'
    BY <1>1, <1>3, <1>8, <2>2, <2>4 DEF EvidenceOf, Evidence, NoEnd
  <2> QED BY <2>2, <2>4, <2>5, <2>6, <2>8, <2>9 DEF FlowOf
<1>12. CASE entry[e] /\ f.type # "data"
  <2>1. ~entry'[e] /\ inbound'[e] = IF Receiving(e) THEN Append(inbound[e], CloseCmd) ELSE inbound[e]
    <3>1. /\ entry' = [entry EXCEPT ![e] = FALSE]
          /\ inbound' = IF Receiving(e) THEN [inbound EXCEPT ![e] = Append(@, CloseCmd)] ELSE inbound
      BY <1>12 DEF Deliver
    <3> QED BY <1>0, <3>1 DEF MapType, PipeType
  <2>2. Ended(r, i)'
    BY <1>0, <1>3, <1>8, <1>12 DEF Evidence
  <2>3. ASSUME Receiving(e)
        PROVE  Append(inbound[e], CloseCmd) \in Seq(Cmds) /\ InOrder(h, pending[e], Append(inbound[e], CloseCmd), S, FALSE)
    <3>1. R = S
      BY <1>0, <1>2, <1>3, <1>5, <1>12, <2>3, NumberedTail
    <3>2. InOrder(h, pending[e], inbound[e], S, TRUE)
      BY <1>6, <1>12, <2>3 DEF InOrder
    <3> QED BY <1>0, <1>9, <3>1, <3>2, OrderClose
  <2>4. CleanOf(s, i)'
    BY <1>0, <1>1, <1>12, <2>1 DEF FlowOf, CleanOf, Receiving
  <2>5. LocalOf(s, i)'
    <3>1. SUFFICES ASSUME Receiving(e) PROVE InOrder(h, pending[e], Append(inbound[e], CloseCmd), S, entry'[e])
      BY <1>1, <1>6, <2>1 DEF LocalOf, S
    <3> QED BY <2>1, <2>3, <3>1, OrderDrop
  <2>6. CountOf(s, i)'
    BY <1>4, <2>1 DEF CountOf
  <2>7. EvidenceOf(s, i)'
    BY <2>2 DEF EvidenceOf
  <2> QED BY <1>0, <2>1, <2>3, <2>4, <2>5, <2>6, <2>7 DEF FlowOf
<1> QED BY <1>10, <1>11, <1>12

-----------------------------------------------------------------------------
(* Reading a frame. *)

(* Every end but the one a frame of channel i is for. *)
LEMMA OthersRest ==
  ASSUME FlightInv, PipeInv, NEW s \in Sides, Reads(s), NEW i \in Ids, Head(link[Far(s)]).id = i,
         Thins, NEW q \in Sides, NEW j \in Ids, <<q, j>> # <<s, i>>,
         inbound'[<<q, j>>] = inbound[<<q, j>>], entry'[<<q, j>>] => entry[<<q, j>>]
  PROVE  FlowOf(q, j)'
<1>0. FlightType /\ PipeType /\ Far(q) \in Sides /\ Far(s) \in Sides /\ Far(s) # s
  BY FarSide DEF FlightInv, PipeInv
<1>1. Onward(Far(q), j)
  <2>1. CASE q = s
    BY <1>0, <2>1, ReadOnward DEF Reads, taskVars
  <2>2. CASE q # s
    <3>1. Far(q) = s /\ link'[s] = link[s]
      BY <1>0, <2>2, FarSide DEF Reads, FlightType
    <3> QED BY <3>1, SameOnward DEF Reads, taskVars
  <2> QED BY <2>1, <2>2
<1>2. Rests(<<q, j>>)
  BY DEF Rests, Reads, taskVars
<1>3. FlowOf(q, j) /\ Mono(j)
  BY ThinsMono DEF PipeInv
<1> QED BY <1>0, <1>1, <1>2, <1>3, FlowQuiet DEF Mono

(* A frame other than `open` is read. *)
LEMMA ReadFlows ==
  ASSUME FlightInv, PipeInv, OnFrame \/ Handle
  PROVE  PipeInv'
<1>0. Thins /\ FlightType /\ PipeType /\ MapType
  BY ReadThins DEF FlightInv, PipeInv
<1>1. PICK s \in Sides : Reads(s) /\ ((OnFrame /\ s = "controller") \/ (Handle /\ s = "controlled"))
  <2>1. CASE OnFrame
    BY <2>1, FarSide DEF OnFrame, Reads, Sides
  <2>2. CASE Handle
    BY <2>2, FarSide DEF Handle, Reads, Sides
  <2> QED BY <2>1, <2>2
<1>2. PICK f \in Frames, i \in Ids : f = Head(link[Far(s)]) /\ f.id = i
  <2>1. link[Far(s)] \in Seq(Frames) /\ link[Far(s)] # <<>>
    BY <1>0, <1>1, FarSide DEF FlightType, Reads
  <2>2. Head(link[Far(s)]) \in Frames
    BY <2>1
  <2> QED BY <2>2 DEF Frames
<1> DEFINE e == <<s, i>>
<1>3. e \in Ends /\ Mono(i)
  BY <1>0, <1>2, FarSide, ThinsMono
<1>4. \/ UNCHANGED <<entry, inbound>> /\ s = "controller" /\ f.type = "opened" /\ f.n = 1
      \/ Deliver(e, f) /\ (f.type = "data" \/ Closing(Far(s), f))
  <2>1. CASE OnFrame /\ s = "controller"
    BY <1>2, <2>1, FarSide DEF OnFrame, Closing
  <2>2. CASE Handle /\ s = "controlled"
    BY <1>2, <2>2, FarSide DEF Handle, Closing
  <2> QED BY <1>1, <2>1, <2>2
<1>5. s = "controlled" => ~NotYet(i)'
  BY <1>1, <1>2, ReadNotYet, FarSide
<1>6. ASSUME NEW y \in Ends \ {e} PROVE inbound'[y] = inbound[y] /\ entry'[y] = entry[y]
  BY <1>0, <1>3, <1>4 DEF Deliver, MapType, PipeType
<1>7. FlowOf(s, i)' /\ inbound'[e] \in Seq(Cmds)
  <2>1. CASE Deliver(e, f) /\ (f.type = "data" \/ Closing(Far(s), f))
    BY <1>1, <1>2, <1>3, <1>5, <2>1, DeliveredFlow
  <2>2. CASE UNCHANGED <<entry, inbound>> /\ s = "controller" /\ f.type = "opened" /\ f.n = 1
    <3>1. Far(s) \in Sides /\ FlowOf(s, i) /\ inbound[e] \in Seq(Cmds)
      BY <1>0, <1>2, <1>3, FarSide DEF PipeInv, PipeType
    <3>2. Onward(Far(s), i)
      BY <1>0, <1>1, <1>2, <2>2, <3>1, ReadOnward DEF Reads, taskVars
    <3>3. Rests(e)
      BY <1>1, <2>2 DEF Rests, Reads, taskVars
    <3>4. FlowOf(s, i)'
      BY <1>0, <1>2, <1>3, <3>1, <3>2, <3>3, FlowQuiet DEF Mono
    <3> QED BY <2>2, <3>1, <3>4
  <2> QED BY <1>4, <2>1, <2>2
<1>8. PipeType'
  <2>1. UNCHANGED <<inn, pending, chunk, written>>
    BY <1>1 DEF Reads, taskVars
  <2>2. inbound' \in [Ends -> Seq(Cmds)]
    <3>1. \/ inbound' = inbound \/ \E v : inbound' = [inbound EXCEPT ![e] = v]
      BY <1>4 DEF Deliver
    <3>2. \A y \in Ends : inbound'[y] \in Seq(Cmds)
      BY <1>0, <1>6, <1>7 DEF PipeType
    <3> QED BY <1>0, <3>1, <3>2 DEF PipeType
  <2> QED BY <1>0, <2>1, <2>2 DEF PipeType
<1>9. ASSUME NEW q \in Sides, NEW j \in Ids PROVE FlowOf(q, j)'
  <2>1. CASE <<q, j>> = e
    BY <1>7, <2>1
  <2>2. CASE <<q, j>> # e
    <3>1. inbound'[<<q, j>>] = inbound[<<q, j>>] /\ entry'[<<q, j>>] = entry[<<q, j>>]
      BY <1>6, <2>2, FarSide
    <3> QED BY <1>0, <1>1, <1>2, <2>2, <3>1, OthersRest
  <2> QED BY <2>1, <2>2
<1> QED BY <1>8, <1>9 DEF PipeInv

-----------------------------------------------------------------------------
(* `open` is read: the channel is accepted or refused. *)
LEMMA OnOpenFlows ==
  ASSUME FlightInv, PipeInv, NEW permitted \in BOOLEAN, OnOpen(permitted)
  PROVE  PipeInv'
<1>0. /\ FlightType /\ PipeType /\ MapType /\ "controller" \in Sides /\ "controlled" \in Sides
      /\ Far("controlled") = "controller" /\ Far("controller") = "controlled"
  BY FarSide DEF FlightInv, PipeInv, Sides
<1>1. /\ link["controller"] # <<>> /\ link' = [link EXCEPT !["controller"] = Tail(@)]
      /\ Head(link["controller"]).type = "open"
      /\ UNCHANGED <<loop, sending, inbound, inn, pending, chunk, sent, written>>
  BY DEF OnOpen
<1>2. PICK f \in Frames, i \in Ids : f = Head(link["controller"]) /\ f.id = i /\ f.type = "open"
  <2>1. link["controller"] \in Seq(Frames)
    BY <1>0 DEF FlightType
  <2>2. Head(link["controller"]) \in Frames
    BY <1>1, <2>1
  <2> QED BY <1>1, <2>2 DEF Frames
<1> link'["controlled"] = link["controlled"]
  BY <1>0, <1>1 DEF FlightType
<1> DEFINE e == <<"controlled", i>>  p == <<"controller", i>>
           up == InFlight("controller")  refusal == Frame("opened", i, 0)
<1>3. e \in Ends /\ p \in Ends /\ p # e /\ refusal \in Frames /\ refusal.id = i /\ refusal.type = "opened"
  BY <1>2, FarSide DEF Frame, Frames, FrameTypes, Sides
<1>4. /\ \/ Enqueue("controlled", refusal) /\ task' = task
         \/ /\ UNCHANGED queue /\ entry'[e]
            /\ \E stage \in {task[e], "connecting"} : task' = [task EXCEPT ![e] = stage]
      /\ queue'["controller"] = queue["controller"]
      /\ \A y \in Ends : y = e \/ (entry'[y] => entry[y])
      /\ \A y \in Ends : Side(y) = "controller" => entry'[y] = entry[y]
  <2> DEFINE kept == [x \in Ends |-> entry[x] /\ (Side(x) = "controlled" => Receiving(x))]
  <2>1. \/ Enqueue("controlled", refusal) /\ task' = task /\ entry' = kept
        \/ /\ UNCHANGED queue /\ \E stage \in {task[e], "connecting"} : task' = [task EXCEPT ![e] = stage]
           /\ entry' = [kept EXCEPT ![e] = TRUE]
    BY <1>2 DEF OnOpen
  <2>2. \A y \in Ends : kept[y] = (entry[y] /\ (Side(y) = "controlled" => Receiving(y)))
    OBVIOUS
  <2>3. \A y \in Ends : (kept[y] => entry[y]) /\ (Side(y) = "controller" => kept[y] = entry[y])
    BY <1>0, <2>2 DEF MapType
  <2>4. DOMAIN kept = Ends
    OBVIOUS
  <2>5. Side(e) = "controlled"
    BY DEF Side
  <2> HIDE DEF kept, refusal
  <2>6. queue'["controller"] = queue["controller"]
    BY <1>0, <2>1 DEF Enqueue, FlightType
  <2>7. \A y \in Ends : y = e \/ entry'[y] = kept[y]
    BY <2>1, <2>4
  <2>8. entry' = [kept EXCEPT ![e] = TRUE] => entry'[e]
    BY <1>3, <2>4
  <2> QED BY <2>1, <2>3, <2>5, <2>6, <2>7, <2>8
<1> HIDE DEF refusal
<1>5. up \in Seq(Frames) /\ up # <<>> /\ Head(up) = f /\ up' = Tail(up) /\ Ordered(up)
  BY <1>0, <1>1, <1>2, <1>4, ReadFlight, FlightParts DEF FlightInv, Flights
<1>6. /\ Carried(up') \subseteq Carried(up) /\ f \in Carried(up)
      /\ \A g \in Carried(up') : g.id = i => g.type # "open"
  BY <1>2, <1>5, OrderedTail, CarriedTail
<1>7. ~Unsent(i) /\ NotYet(i) /\ task[e] = "none"
  BY <1>1, <1>2, <1>6 DEF FlightInv, OpenFirst, OpenUnread, NotYet
<1>8. \A y \in Ends : y # e => task'[y] = task[y]
  BY <1>0, <1>4 DEF MapType
<1>9. \A j \in Ids : <<"controller", j>> \in Ends /\ <<"controller", j>> # e
  BY FarSide, <1>0
<1>10. \A j \in Ids : Unsent(j)' = Unsent(j)
  BY <1>8, <1>9 DEF Unsent
<1>11. ~NotYet(i)' /\ \A j \in Ids : NotYet(j)' => NotYet(j)
  BY <1>2, <1>6, <1>7, <1>10 DEF NotYet
<1>12. \A j \in Ids : Mono(j)
  <2> SUFFICES ASSUME NEW j \in Ids, NEW r \in Sides, Ended(r, j) PROVE Ended(r, j)'
    BY <1>11 DEF Mono
  <2>1. <<r, j>> # e
    BY <1>7 DEF Ended
  <2> QED BY <1>8, <1>11, <2>1, FarSide DEF Ended
<1>13. PipeType'
  BY <1>0, <1>1 DEF PipeType
<1>14. \A j \in Ids : Onward("controller", j)
  BY <1>0, <1>1, <1>2, <1>4, ReadOnward
<1>15. ASSUME NEW q \in Sides, NEW j \in Ids, <<q, j>> # e PROVE Rests(<<q, j>>)
  BY <1>1, <1>4, <1>8, <1>15, FarSide DEF Rests
<1>16. ASSUME NEW q \in Sides, NEW j \in Ids, Rests(<<q, j>>), Onward(Far(q), j) PROVE FlowOf(q, j)'
  <2>1. FlowOf(q, j) /\ (Ended(Far(q), j) => Ended(Far(q), j)') /\ (NotYet(j)' => NotYet(j))
    BY <1>12, FarSide DEF PipeInv, Mono
  <2> QED BY <1>0, <1>16, <2>1, FlowQuiet
<1>17. ASSUME NEW j \in Ids PROVE FlowOf("controller", j)'
  <2>1. <<"controller", j>> # e /\ Rests(<<"controller", j>>)
    BY <1>0, <1>9, <1>15
  <2>2. CASE UNCHANGED queue
    <3>1. Onward("controlled", j)
      BY <1>0, <1>1, <1>2, <2>2, SameOnward
    <3> QED BY <1>0, <1>16, <2>1, <3>1
  <2>3. CASE Enqueue("controlled", refusal) /\ task' = task
    <3>1. CASE j # i
      <4>1. Onward("controlled", j)
        BY <1>0, <1>1, <1>2, <1>3, <2>3, <3>1, EnqueueOnward
      <4> QED BY <1>0, <1>16, <2>1, <4>1
    <3>2. CASE j = i
      <4>1. Ended("controlled", i)'
        BY <1>7, <1>11, <2>3 DEF Ended
      <4>2. entry'[p] = entry[p]
        BY <1>3, <1>4 DEF Side
      <4>3. Still(<<Far("controlled"), i>>)
        BY <1>0, <2>1, <3>2, <4>2 DEF Rests, Still
      <4> QED BY <1>0, <1>1, <1>2, <1>3, <1>12, <2>3, <3>2, <4>1, <4>3, SenderEnd
    <3> QED BY <3>1, <3>2
  <2> QED BY <1>4, <2>2, <2>3
<1>18. ASSUME NEW j \in Ids PROVE FlowOf("controlled", j)'
  <2>1. CASE j # i
    <3>1. Rests(<<"controlled", j>>)
      BY <1>0, <1>15, <2>1
    <3> QED BY <1>0, <1>14, <1>16, <3>1
  <2>2. CASE j = i /\ Enqueue("controlled", refusal) /\ task' = task
    <3>1. FlowOf("controlled", i) /\ (Ended("controller", i) => Ended("controller", i)')
      BY <1>0, <1>2, <1>12 DEF PipeInv, Mono
    <3>2. CleanOf("controlled", i) /\ CleanOf("controlled", i)'
      BY <1>1, <2>2, <3>1 DEF FlowOf, CleanOf
    <3>3. ~Receiving(e)'
      BY <1>7, <2>2 DEF Receiving
    <3>4. LocalOf("controlled", i)' /\ ~Expecting("controlled", i)'
      BY <1>11, <3>3 DEF LocalOf, Expecting
    <3>5. EndOf("controlled", i)' => EndOf("controlled", i)
      BY <1>1 DEF EndOf
    <3>6. FlowOf("controlled", i)'
      BY <1>0, <1>2, <1>14, <3>1, <3>2, <3>4, <3>5, FlowStep
    <3> QED BY <2>2, <3>6
  <2>3. CASE j = i /\ entry'[e] /\ \E stage \in {task[e], "connecting"} : task' = [task EXCEPT ![e] = stage]
    <3>1. FlowOf("controlled", i) /\ (Ended("controller", i) => Ended("controller", i)')
      BY <1>0, <1>2, <1>12 DEF PipeInv, Mono
    <3>2. task'[e] \in {"none", "connecting"}
      BY <1>0, <1>3, <1>7, <2>3 DEF MapType
    <3>3. inn[e] = "none" /\ written[e] = <<>> /\ sent[e] = 0 /\ pending[e] = <<>> /\ inbound[e] = <<>>
      BY <1>7, <3>1 DEF FlowOf, CleanOf
    <3>4. CleanOf("controlled", i)'
      BY <1>1, <3>2, <3>3 DEF CleanOf
    <3>5. Held("controlled", i)' = 0 /\ Got("controlled", i)' = Got("controlled", i)
      BY <1>1, <3>3 DEF Held, Got
    <3>6. LocalOf("controlled", i)'
      <4>1. sent'[p] \in Nat /\ Len(<<>>) = 0
        BY <1>0, <1>1, <1>3 DEF FlightType
      <4>2. InOrder(0, <<>>, <<>>, sent'[p], entry'[e])
        BY <4>1 DEF InOrder
      <4> QED BY <1>0, <1>1, <3>3, <3>5, <4>2 DEF LocalOf
    <3>7. Expecting("controlled", i)
      BY <1>7 DEF Expecting
    <3>8. EndOf("controlled", i)' => EndOf("controlled", i)
      BY <1>1 DEF EndOf
    <3>9. FlowOf("controlled", i)'
      BY <1>0, <1>2, <1>14, <3>1, <3>4, <3>5, <3>6, <3>7, <3>8, FlowStep
    <3> QED BY <2>3, <3>9
  <2> QED BY <1>4, <2>1, <2>2, <2>3
<1>19. \A q \in Sides, j \in Ids : FlowOf(q, j)'
  BY <1>17, <1>18 DEF Sides
<1> QED BY <1>13, <1>19 DEF PipeInv

-----------------------------------------------------------------------------
(* The invariant of the pipe is inductive. *)

(* A channel is entered on the controller. *)
LEMMA OpenInsertFlows ==
  ASSUME FlightInv, PipeInv, OpenInsert
  PROVE  PipeInv'
<1>0. /\ FlightType /\ PipeType /\ MapType /\ "controller" \in Sides /\ "controlled" \in Sides
      /\ Far("controlled") = "controller" /\ Far("controller") = "controlled"
  BY FarSide DEF FlightInv, PipeInv, Sides
<1>1. UNCHANGED <<loop, sending, queue, link, inn, inbound, pending, chunk, sent, written>>
  BY DEF OpenInsert
<1>2. CASE UNCHANGED <<entry, task>>
  <2>1. UNCHANGED <<loop, sending, queue, link, entry, inbound, taskVars>>
    BY <1>1, <1>2 DEF OpenInsert, taskVars
  <2> QED BY <2>1, NothingFlows
<1>3. CASE ~UNCHANGED <<entry, task>>
  <2>1. PICK n : /\ n = nextId /\ entry' = [entry EXCEPT ![<<"controller", n>>] = TRUE]
                 /\ task' = [task EXCEPT ![<<"controller", n>>] = "opening"]
    BY <1>3 DEF OpenInsert
  <2> DEFINE e == <<"controller", n>>
  <2>2. \A y \in Ends : y # e => task'[y] = task[y] /\ entry'[y] = entry[y]
    BY <1>0, <2>1 DEF MapType
  <2>3. n \in Ids
    <3>1. SUFFICES ASSUME e \notin Ends PROVE FALSE
      BY DEF Ends
    <3>2. entry' = entry /\ task' = task
      BY <1>0, <2>1, <3>1 DEF MapType
    <3> QED BY <1>3, <3>2
  <2>4. e \in Ends /\ task[e] = "none" /\ task'[e] = "opening" /\ entry'[e]
    <3>1. n >= nextId
      BY <1>0, <2>1 DEF FlightType
    <3>2. e \in Ends /\ task[e] = "none"
      BY <1>0, <2>3, <3>1, FarSide DEF FlightInv, Fresh
    <3> QED BY <1>0, <2>1, <3>2 DEF MapType
  <2>5. \A q \in Sides : InFlight(q)' = InFlight(q)
    BY <1>1 DEF InFlight
  <2>6. \A j \in Ids : Unsent(j)' => Unsent(j)
    BY <1>0, <2>2, <2>4, FarSide DEF Unsent
  <2>7. \A j \in Ids : NotYet(j)' => NotYet(j)
    BY <1>0, <2>5, <2>6 DEF NotYet
  <2>8. \A j \in Ids : Mono(j)
    <3> SUFFICES ASSUME NEW j \in Ids, NEW r \in Sides, Ended(r, j) PROVE Ended(r, j)'
      BY <2>7 DEF Mono
    <3>1. <<r, j>> # e
      BY <1>0, <2>4 DEF Ended
    <3> QED BY <2>2, <2>7, <3>1, FarSide DEF Ended
  <2>9. \A q \in Sides, j \in Ids : Onward(q, j)
    BY <1>1, SameOnward
  <2>10. ASSUME NEW q \in Sides, NEW j \in Ids, <<q, j>> # e PROVE FlowOf(q, j)'
    <3>1. Rests(<<q, j>>)
      BY <1>1, <2>2, <2>10, FarSide DEF Rests
    <3>2. FlowOf(q, j) /\ Far(q) \in Sides /\ Onward(Far(q), j)
      BY <2>9, FarSide DEF PipeInv
    <3> QED BY <1>0, <2>8, <3>1, <3>2, FlowQuiet DEF Mono
  <2>11. FlowOf("controller", n)'
    <3>1. CleanOf("controller", n) /\ CleanOf("controlled", n)
      BY <1>0, <2>3 DEF PipeInv, FlowOf
    <3>2. inn[e] = "none" /\ written[e] = <<>> /\ sent[e] = 0 /\ pending[e] = <<>> /\ inbound[e] = <<>>
      BY <2>4, <3>1 DEF CleanOf
    <3>3. CleanOf("controller", n)'
      BY <1>1, <2>4, <3>2 DEF CleanOf
    <3>4. /\ task[<<"controlled", n>>] = "none" /\ \A g \in Carried(InFlight("controlled")) : g.id # n
      BY <2>3, <2>4 DEF FlightInv, OpenUnread, Unsent
    <3>5. sent[<<"controlled", n>>] = 0
      BY <3>1, <3>4 DEF CleanOf
    <3>6. Held("controller", n)' = 0 /\ Got("controller", n)' = 0
      BY <1>1, <3>2 DEF Held, Got, Total
    <3>7. LocalOf("controller", n)'
      <4>1. Len(<<>>) = 0
        OBVIOUS
      <4>2. InOrder(0, <<>>, <<>>, 0, entry'[e])
        BY <4>1 DEF InOrder
      <4> QED BY <1>0, <1>1, <3>2, <3>5, <3>6, <4>2 DEF LocalOf
    <3>8. CountOf("controller", n)'
      <4>1. Reaching("controlled")' = Reaching("controlled") /\ Alive("controlled")' = Alive("controlled")
        BY <1>0, <1>1, <2>5 DEF Reaching, Alive
      <4>2. Reaching("controlled") \in Seq(Frames) /\ \A g \in Carried(Reaching("controlled")) : g.id # n
        BY <1>0, <3>4, ReachingType
      <4>3. Numbered(Reaching("controlled"), n, "controlled", 0, 0, Alive("controlled"))
        BY <4>2, NumberedNone
      <4> QED BY <1>0, <1>1, <3>5, <3>6, <4>1, <4>3 DEF CountOf
    <3>9. EvidenceOf("controller", n)'
      <4>1. ~Evidence("controller", n)'
        BY <1>0, <1>1, <2>5, <3>2, <3>4 DEF Evidence
      <4> QED BY <4>1 DEF EvidenceOf
    <3> QED BY <3>3, <3>7, <3>8, <3>9 DEF FlowOf
  <2>12. \A q \in Sides, j \in Ids : FlowOf(q, j)'
    BY <2>10, <2>11
  <2>13. PipeType'
    BY <1>0, <1>1 DEF PipeType
  <2> QED BY <2>12, <2>13 DEF PipeInv
<1> QED BY <1>2, <1>3

(* At first nothing has been sent. *)
LEMMA InitPipe == Init => PipeInv
<1> SUFFICES ASSUME Init PROVE PipeInv
  OBVIOUS
<1>1. FlightInv
  BY InitFlight
<1>2. PipeType
  BY DEF Init, PipeType
<1>3. ASSUME NEW s \in Sides, NEW i \in Ids PROVE FlowOf(s, i)
  <2> DEFINE p == <<s, i>>
  <2>1. /\ p \in Ends /\ <<Far(s), i>> \in Ends /\ Far(s) \in Sides
    BY FarSide
  <2>2. /\ task[p] = "none" /\ inn[p] = "none" /\ written[p] = <<>> /\ pending[p] = <<>> /\ inbound[p] = <<>>
        /\ sent[p] = 0 /\ sent[<<Far(s), i>>] = 0
        /\ link[Far(s)] = <<>> /\ queue[Far(s)] = <<>> /\ loop[Far(s)] = "running"
    BY <2>1 DEF Init
  <2>3. InFlight(Far(s)) = <<>> /\ Reaching(Far(s)) = <<>>
    BY <2>2 DEF InFlight, Reaching
  <2>4. Carried(<<>>) = {} /\ Len(<<>>) = 0
    BY DEF Carried
  <2>5. CleanOf(s, i) /\ LocalOf(s, i)
    BY <2>2 DEF CleanOf, LocalOf, Receiving
  <2>6. Got(s, i) = 0
    BY <2>2, <2>4 DEF Got, Held, Total
  <2>7. Numbered(<<>>, i, Far(s), 0, 0, Alive(Far(s)))
    <3>1. <<>> \in Seq(Frames)
      OBVIOUS
    <3> QED BY <2>4, <3>1, NumberedNone
  <2>8. CountOf(s, i) /\ EvidenceOf(s, i)
    BY <2>2, <2>3, <2>4, <2>6, <2>7 DEF CountOf, EvidenceOf, Evidence
  <2> QED BY <2>5, <2>8 DEF FlowOf
<1> QED BY <1>2, <1>3 DEF PipeInv

(* Every step keeps the flows. *)
LEMMA StepPipe == FlightInv /\ PipeInv /\ [Next]_vars => PipeInv'
<1> SUFFICES ASSUME FlightInv, PipeInv, [Next]_vars PROVE PipeInv'
  OBVIOUS
<1>1. CASE OpenCheck \/ UNCHANGED vars
  <2>1. UNCHANGED <<loop, sending, queue, link, entry, inbound, taskVars>>
    BY <1>1 DEF OpenCheck, vars, taskVars
  <2> QED BY <2>1, NothingFlows
<1>2. CASE OpenInsert BY <1>2, OpenInsertFlows
<1>3. CASE OnFrame \/ Handle BY <1>3, ReadFlows
<1>4. CASE SendTimeout
  BY <1>4, LoopFlows DEF SendTimeout, Sides
<1>5. CASE OpenStep
  BY <1>5, OnOpenFlows DEF OpenStep
<1>6. ASSUME NEW i \in Ids, SendOpen(i) \/ ConnectStep(i) PROVE PipeInv'
  BY <1>6, SendOpenFlows, ConnectFlows
<1>7. ASSUME NEW e \in Ends, TaskStep(e) \/ SocketStep(e) PROVE PipeInv'
  <2>1. PICK s \in Sides, i \in Ids : e = <<s, i>>
    BY DEF Ends
  <2> QED BY <1>7, <2>1, TaskFlows, SocketFlows
<1>8. ASSUME NEW s \in Sides, LoopStep(s) \/ LoopEnd(s) PROVE PipeInv'
  BY <1>8, LoopFlows
<1> QED BY <1>1, <1>2, <1>3, <1>4, <1>5, <1>6, <1>7, <1>8 DEF Next

-----------------------------------------------------------------------------
(* Each step is a step of the pipe or leaves it alone. *)

(* The state of the pipe. *)
Delivered == [e \in Ends |-> written[PeerOf(e)]]
Endings == [e \in Ends |-> Ending(inn[PeerOf(e)], task[PeerOf(e)])]

(* A task that is about to send its `close` has relayed. *)
Relayed == \A e \in Ends : task[e] = "close" => inn[e] # "none"

(* Ends come in pairs. *)
LEMMA PeerOfPeer == \A e \in Ends : PeerOf(e) \in Ends /\ PeerOf(PeerOf(e)) = e
BY DEF PeerOf, Ends, Sides, Side, Id

(* What a half and a task say of the flow. *)
LEMMA EndingCases ==
  ASSUME NEW stage
  PROVE  /\ Ending("PeerClosed", stage) = "complete"
         /\ \A half \in {"LocalEof", "Cancelled", "TunnelGone"} : Ending(half, stage) = "broken"
         /\ \A half \in {"recv", "write"} : Ending(half, stage) = "open"
         /\ Ending("none", stage) = IF stage \in {"remove", "done"} THEN "unread" ELSE "open"
BY DEF Ending, RelayEnd

(* A task that sends its `close` last has relayed before: at first, *)
LEMMA InitRelayed == Init => Relayed
<1> SUFFICES ASSUME Init, NEW e \in Ends PROVE task[e] # "close"
  BY DEF Relayed
<1> QED BY DEF Init

(* and after every step. *)
LEMMA StepRelayed == FlightInv /\ PipeInv /\ Relayed /\ [Next]_vars => Relayed'
<1> SUFFICES ASSUME FlightInv, PipeInv, Relayed, [Next]_vars PROVE Relayed'
  OBVIOUS
<1>0. /\ inn \in [Ends -> {"none", "recv", "write"} \cup RelayEnd] /\ task \in [Ends -> TaskStages]
      /\ "none" \notin RelayEnd
  BY DEF PipeInv, PipeType, FlightInv, MapType, RelayEnd
<1>1. ASSUME NEW e \in Ends, NEW stage, task' = [task EXCEPT ![e] = stage],
             stage = "close" => inn'[e] # "none",
             inn' = inn \/ \E half : half # "none" /\ inn' = [inn EXCEPT ![e] = half]
      PROVE  Relayed'
  <2> SUFFICES ASSUME NEW x \in Ends, task'[x] = "close" PROVE inn'[x] # "none"
    BY DEF Relayed
  <2>1. CASE x = e
    BY <1>0, <1>1, <2>1
  <2>2. CASE x # e
    <3>1. task[x] = "close" /\ inn'[x] = inn[x]
      BY <1>0, <1>1, <2>2
    <3> QED BY <3>1 DEF Relayed
  <2> QED BY <2>1, <2>2
<1>2. ASSUME NEW e \in Ends, TaskStep(e) \/ SocketStep(e) PROVE Relayed'
  <2>1. CASE Join(e)
    BY <1>0, <1>1, <2>1 DEF Join, AfterChannel
  <2>2. CASE SendClose(e) \/ Remove(e)
    <3>1. /\ inn' = inn
          /\ \E stage \in {"remove", "done"} : task' = [task EXCEPT ![e] = stage]
      BY <2>2 DEF SendClose, Remove, AfterChannel
    <3> QED BY <1>1, <3>1
  <2>3. CASE (TaskStep(e) /\ ~Join(e) /\ ~SendClose(e) /\ ~Remove(e)) \/ SocketStep(e)
    <3>1. /\ task' = task
          /\ inn' = inn \/ \E half : half # "none" /\ inn' = [inn EXCEPT ![e] = half]
      BY <2>3 DEF TaskStep, SocketStep, SendData, CancelOut, TakePending, TakeInbound, InboundGone, CancelIn,
                  ReadSocket, ReadEof, WriteSocket, WriteFail, EndIn, SetIn
    <3>2. ASSUME NEW x \in Ends, task'[x] = "close" PROVE inn'[x] # "none"
      <4>1. inn[x] # "none"
        BY <3>1, <3>2 DEF Relayed
      <4> QED BY <1>0, <3>1, <4>1
    <3> QED BY <3>2 DEF Relayed
  <2> QED BY <1>2, <2>1, <2>2, <2>3 DEF TaskStep
<1>3. ASSUME NEW i \in Ids, SendOpen(i) \/ ConnectStep(i) PROVE Relayed'
  <2>1. PICK s \in Sides, stage \in TaskStages \ {"close"} :
          /\ task' = [task EXCEPT ![<<s, i>>] = stage]
          /\ inn' = inn \/ inn' = [inn EXCEPT ![<<s, i>>] = "recv"]
    <3>1. CASE SendOpen(i)
      BY <3>1 DEF SendOpen, Sides, TaskStages
    <3>2. CASE ConnectCmd(i)
      <4>1. task[<<"controlled", i>>] = "connecting" /\ inn' = inn
            /\ (task' = task \/ task' = [task EXCEPT ![<<"controlled", i>>] = "done"])
        BY <3>2 DEF ConnectCmd
      <4>2. task' = task => task' = [task EXCEPT ![<<"controlled", i>>] = "connecting"]
        BY <1>0, <4>1
      <4> QED BY <4>1, <4>2 DEF Sides, TaskStages
    <3>3. CASE ConnectDropped(i) \/ ConnectOk(i) \/ ConnectFail(i)
      BY <3>3 DEF ConnectDropped, ConnectOk, ConnectFail, Sides, TaskStages
    <3> QED BY <1>3, <3>1, <3>2, <3>3 DEF ConnectStep
  <2>2. <<s, i>> \in Ends
    BY FarSide
  <2> QED BY <1>1, <2>1, <2>2
<1>4. CASE OpenInsert \/ OpenStep
  <2>1. inn' = inn /\ (task' = task \/ \E x, stage : /\ stage # "close" \/ stage = task[x]
                                                    /\ task' = [task EXCEPT ![x] = stage])
    <3>1. CASE OpenInsert
      BY <3>1 DEF OpenInsert
    <3>2. CASE OpenStep
      <4>1. PICK permitted \in BOOLEAN : OnOpen(permitted)
        BY <3>2 DEF OpenStep
      <4> DEFINE e == <<"controlled", Head(link["controller"]).id>>
      <4>2. inn' = inn /\ (task' = task \/ task' = [task EXCEPT ![e] = task[e]]
                                       \/ task' = [task EXCEPT ![e] = "connecting"])
        BY <4>1 DEF OnOpen
      <4> HIDE DEF e
      <4> QED BY <4>2
    <3> QED BY <1>4, <3>1, <3>2
  <2>2. \A x \in Ends : task'[x] = "close" => task[x] = "close"
    BY <1>0, <2>1
  <2> QED BY <2>1, <2>2 DEF Relayed
<1>5. CASE \/ OpenCheck \/ OnFrame \/ Handle \/ SendTimeout \/ UNCHANGED vars
           \/ \E s \in Sides : LoopStep(s) \/ LoopEnd(s)
  <2>1. UNCHANGED <<task, inn>>
    BY <1>5 DEF OpenCheck, OnFrame, Handle, SendTimeout, LoopStep, LoopEnd,
                SendNext, Unblock, DropQueues, PeerGone, vars, taskVars
  <2> QED BY <2>1 DEF Relayed
<1> QED BY <1>2, <1>3, <1>4, <1>5 DEF Next

(* A step the pipe does not see. *)
LEMMA PipeStutters ==
  ASSUME UNCHANGED <<sent, written>>,
         \A x \in Ends : Ending(inn'[x], task'[x]) = Ending(inn[x], task[x])
  PROVE  UNCHANGED Channel!vars
<1>1. Delivered' = Delivered
  BY DEF Delivered
<1>2. Endings' = Endings
  BY PeerOfPeer DEF Endings
<1> QED BY <1>1, <1>2 DEF Channel!vars, Delivered, Endings

(* The flow into one end ends. *)
LEMMA PipeEnds ==
  ASSUME NEW e \in Ends, NEW how, UNCHANGED <<sent, written>>,
         Ending(inn[e], task[e]) = "open", Ending(inn'[e], task'[e]) = how,
         \A x \in Ends : x # e => inn'[x] = inn[x] /\ task'[x] = task[x]
  PROVE  Channel!End(PeerOf(e), how)
<1> DEFINE d == PeerOf(e)
<1>1. d \in Ends /\ PeerOf(d) = e
  BY PeerOfPeer
<1>2. ASSUME NEW x \in Ends PROVE Endings'[x] = IF x = d THEN how ELSE Endings[x]
  <2>1. PeerOf(x) \in Ends /\ (PeerOf(x) = e <=> x = d)
    BY <1>1, PeerOfPeer
  <2>2. Endings'[x] = Ending(inn'[PeerOf(x)], task'[PeerOf(x)]) /\ Endings[x] = Ending(inn[PeerOf(x)], task[PeerOf(x)])
    BY DEF Endings
  <2> QED BY <2>1, <2>2
<1>3. Endings' = [Endings EXCEPT ![d] = how]
  BY <1>2 DEF Endings
<1>4. Endings[d] = "open" /\ Delivered' = Delivered
  BY <1>1 DEF Endings, Delivered
<1> QED BY <1>3, <1>4 DEF Channel!End, Endings, Delivered

(* A chunk goes in; the peer cannot have taken the end. *)
LEMMA AcceptStep ==
  ASSUME FlightInv, PipeInv, NEW e \in Ends, SendData(e), sent' # sent
  PROVE  Channel!Accept(e)
<1>1. PICK s \in Sides, i \in Ids : e = <<s, i>> /\ PeerOf(e) = <<Far(s), i>>
  BY FarSide DEF Ends
<1>2. inn[PeerOf(e)] # "PeerClosed"
  <2>1. EvidenceOf(Far(s), i) /\ Far(Far(s)) = s
    BY FarSide DEF PipeInv, FlowOf
  <2>2. ~Ended(s, i)
    BY <1>1 DEF SendData, Ended
  <2> QED BY <1>1, <2>1, <2>2 DEF EvidenceOf, Evidence
<1>3. sent' = [sent EXCEPT ![e] = @ + 1] /\ UNCHANGED <<written, inn, task>>
  BY DEF SendData
<1>4. Endings[e] # "complete"
  <2>1. Ending(inn[PeerOf(e)], task[PeerOf(e)]) # "complete"
    BY <1>2 DEF Ending
  <2> QED BY <2>1 DEF Endings
<1>5. Endings' = Endings /\ Delivered' = Delivered
  BY <1>3 DEF Endings, Delivered
<1> QED BY <1>3, <1>4, <1>5 DEF Channel!Accept, Endings, Delivered

(* A chunk comes out: it is the next, and it was sent. *)
LEMMA DeliverStep ==
  ASSUME FlightInv, PipeInv, NEW e \in Ends, WriteSocket(e)
  PROVE  Channel!Deliver(PeerOf(e))
<1> DEFINE d == PeerOf(e)
<1>1. PICK s \in Sides, i \in Ids : e = <<s, i>> /\ d = <<Far(s), i>>
  BY FarSide DEF Ends
<1>2. d \in Ends /\ PeerOf(d) = e
  BY PeerOfPeer
<1>3. /\ task[e] = "run" /\ inn[e] = "write" /\ inn' = [inn EXCEPT ![e] = "recv"]
      /\ written' = [written EXCEPT ![e] = Append(@, chunk[e])] /\ sent' = sent
  BY DEF WriteSocket, SetIn
<1>4. /\ Held(s, i) = Len(written[e]) + 1 /\ chunk[e] = Held(s, i) /\ Receiving(e)
  BY <1>1, <1>3 DEF Held, PipeInv, FlowOf, LocalOf, Receiving, RelayEnd
<1>5. Len(written[e]) \in Nat /\ Len(written[e]) < sent[d]
  <2>1. /\ Held(s, i) \in Nat /\ sent[d] \in Nat /\ pending[e] \in Seq(Nat)
        /\ InOrder(Held(s, i), pending[e], inbound[e], sent[d], entry[e])
    BY <1>1, <1>4, InOrderNow
  <2>2. Held(s, i) + Len(pending[e]) <= sent[d] /\ Len(pending[e]) \in Nat
    BY <2>1 DEF InOrder
  <2>3. Len(written[e]) \in Nat
    <3>1. written[e] \in Seq(Nat)
      BY DEF PipeInv, PipeType
    <3> QED BY <3>1
  <2> DEFINE h == Held(s, i)  w == Len(written[e])  q == Len(pending[e])  S == sent[d]
  <2>4. h = w + 1 /\ h + q <= S /\ h \in Nat /\ w \in Nat /\ q \in Nat /\ S \in Nat
    BY <1>4, <2>1, <2>2, <2>3
  <2> HIDE DEF h, w, q, S
  <2>5. w < S
    BY <2>4
  <2> QED BY <2>3, <2>5 DEF w, S
<1>6. Delivered' = [Delivered EXCEPT ![d] = Append(@, Len(@) + 1)]
  <2>1. Delivered \in [Ends -> Seq(Nat)] /\ Delivered' \in [Ends -> Seq(Nat)]
    <3>1. written \in [Ends -> Seq(Nat)] /\ written' \in [Ends -> Seq(Nat)]
      BY SocketAlone DEF PipeInv, PipeType, Alone, SocketStep
    <3> QED BY <3>1, PeerOfPeer DEF Delivered
  <2>2. ASSUME NEW x \in Ends
        PROVE  Delivered'[x] = IF x = d THEN Append(Delivered[x], Len(Delivered[x]) + 1) ELSE Delivered[x]
    <3>1. Delivered'[x] = written'[PeerOf(x)] /\ Delivered[x] = written[PeerOf(x)]
      BY DEF Delivered
    <3>2. CASE x = d
      <4>1. written'[e] = Append(written[e], chunk[e])
        BY <1>3 DEF PipeInv, PipeType
      <4> QED BY <1>2, <1>4, <3>1, <3>2, <4>1
    <3>3. CASE x # d
      <4>1. PeerOf(x) # e /\ PeerOf(x) \in Ends
        BY <1>2, <3>3, PeerOfPeer
      <4>2. written'[PeerOf(x)] = written[PeerOf(x)]
        BY <1>3, <4>1 DEF PipeInv, PipeType
      <4> QED BY <3>1, <3>3, <4>2
    <3> QED BY <3>2, <3>3
  <2> QED BY <2>1, <2>2
<1>7. Endings' = Endings /\ Endings[d] = "open"
  <2>1. \A x \in Ends : Ending(inn'[x], task'[x]) = Ending(inn[x], task[x])
    <3> SUFFICES ASSUME NEW x \in Ends PROVE Ending(inn'[x], task'[x]) = Ending(inn[x], task[x])
      OBVIOUS
    <3>1. task' = task
      BY DEF WriteSocket
    <3>2. CASE x = e
      <4>1. inn'[x] = "recv" /\ inn[x] = "write"
        BY <1>3, <3>2 DEF PipeInv, PipeType
      <4> QED BY <4>1, EndingCases
    <3>3. CASE x # e
      BY <1>3, <3>1, <3>3 DEF PipeInv, PipeType
    <3> QED BY <3>2, <3>3
  <2>2. Endings' = Endings
    BY <2>1, PeerOfPeer DEF Endings
  <2>3. Endings[d] = Ending("write", task[e])
    BY <1>2, <1>3 DEF Endings
  <2> QED BY <2>2, <2>3, EndingCases
<1>8. Delivered[d] = written[e]
  BY <1>2 DEF Delivered
<1>9. Len(Delivered[d]) < sent[d]
  BY <1>5, <1>8
<1> QED BY <1>3, <1>6, <1>7, <1>9 DEF Channel!Deliver, Delivered, Endings

(* The end is seen: everything sent has been written. *)
LEMMA CompleteStep ==
  ASSUME FlightInv, PipeInv, NEW e \in Ends, TakeInbound(e), Head(inbound[e]).type # "data"
  PROVE  Channel!Complete(PeerOf(e))
<1> DEFINE d == PeerOf(e)
<1>1. PICK s \in Sides, i \in Ids : e = <<s, i>> /\ d = <<Far(s), i>>
  BY FarSide DEF Ends
<1>2. d \in Ends /\ PeerOf(d) = e
  BY PeerOfPeer
<1>3. /\ task[e] = "run" /\ inn[e] = "recv" /\ pending[e] = <<>> /\ inbound[e] # <<>>
      /\ inn' = [inn EXCEPT ![e] = "PeerClosed"] /\ UNCHANGED <<written, sent>>
  BY DEF TakeInbound, EndIn, SetIn
<1>4. Held(s, i) = Len(written[e]) /\ Receiving(e)
  BY <1>1, <1>3 DEF Held, Receiving, RelayEnd
<1>5. Len(written[e]) = sent[d]
  <2> DEFINE h == Held(s, i)  S == sent[d]
  <2>1. h \in Nat /\ S \in Nat /\ inbound[e] \in Seq(Cmds) /\ InOrder(h, <<>>, inbound[e], S, entry[e])
    BY <1>1, <1>3, <1>4, InOrderNow
  <2> HIDE DEF h, S
  <2>2. h = S
    BY <1>3, <2>1, OrderEnd
  <2> QED BY <1>4, <2>2 DEF h, S
<1>6. Channel!End(d, "complete")
  <2>1. /\ inn'[e] = "PeerClosed" /\ task' = task
        /\ \A x \in Ends : x # e => inn'[x] = inn[x]
    BY <1>3 DEF TakeInbound, PipeInv, PipeType
  <2>2. Ending(inn[e], task[e]) = "open" /\ Ending(inn'[e], task'[e]) = "complete"
    BY <1>3, <2>1, EndingCases
  <2> QED BY <1>3, <2>1, <2>2, PipeEnds
<1>7. Delivered[d] = written[e]
  BY <1>2 DEF Delivered
<1>8. Len(Delivered[d]) = sent[d]
  BY <1>5, <1>7
<1> QED BY <1>6, <1>8 DEF Channel!Complete, Delivered

(* A half that ends for another reason breaks the flow. *)
LEMMA BreakStep ==
  ASSUME FlightInv, PipeInv, NEW e \in Ends, InboundGone(e) \/ CancelIn(e) \/ WriteFail(e)
  PROVE  Channel!Break(PeerOf(e))
<1>1. PICK half \in {"LocalEof", "Cancelled", "TunnelGone"} : inn' = [inn EXCEPT ![e] = half]
  BY DEF InboundGone, CancelIn, WriteFail, EndIn, SetIn
<1>2. UNCHANGED <<sent, written, task>> /\ inn[e] \in {"recv", "write"}
  BY DEF InboundGone, CancelIn, WriteFail
<1>3. inn'[e] = half /\ \A x \in Ends : x # e => inn'[x] = inn[x]
  BY <1>1 DEF PipeInv, PipeType
<1>4. Ending(inn[e], task[e]) = "open" /\ Ending(inn'[e], task'[e]) = "broken"
  BY <1>1, <1>2, <1>3, EndingCases
<1>5. Channel!End(PeerOf(e), "broken")
  BY <1>2, <1>3, <1>4, PipeEnds
<1> QED BY <1>5 DEF Channel!Break

(* A task that ends before it relays has written nothing. *)
LEMMA GiveUpStep ==
  ASSUME FlightInv, PipeInv, NEW s \in Sides, NEW i \in Ids, NEW stage \in {"remove", "done"},
         task[<<s, i>>] \in {"opening", "connecting"}, task' = [task EXCEPT ![<<s, i>>] = stage],
         UNCHANGED <<sent, written, inn>>
  PROVE  Channel!GiveUp(PeerOf(<<s, i>>))
<1>1. <<s, i>> \in Ends /\ PeerOf(<<s, i>>) \in Ends /\ PeerOf(PeerOf(<<s, i>>)) = <<s, i>>
  BY FarSide, PeerOfPeer
<1>2. inn[<<s, i>>] = "none" /\ written[<<s, i>>] = <<>>
  BY DEF PipeInv, FlowOf, CleanOf
<1>3. task'[<<s, i>>] = stage /\ \A x \in Ends : x # <<s, i>> => task'[x] = task[x]
  BY <1>1 DEF FlightInv, MapType
<1>4. Ending(inn[<<s, i>>], task[<<s, i>>]) = "open" /\ Ending(inn'[<<s, i>>], task'[<<s, i>>]) = "unread"
  BY <1>2, <1>3, EndingCases
<1>5. Channel!End(PeerOf(<<s, i>>), "unread")
  BY <1>1, <1>3, <1>4, PipeEnds
<1>6. Delivered[PeerOf(<<s, i>>)] = <<>>
  BY <1>1, <1>2 DEF Delivered
<1> QED BY <1>5, <1>6 DEF Channel!GiveUp, Delivered

(* The steps of an end: a chunk goes in or comes out, or the flow into it  *)
(* ends; no other step of a task is one of the pipe.                       *)
LEMMA EndStep ==
  ASSUME FlightInv, PipeInv, Relayed, NEW e \in Ends, TaskStep(e) \/ SocketStep(e)
  PROVE  [Channel!Next]_Channel!vars
<1>0. /\ PeerOf(e) \in Ends /\ inn \in [Ends -> {"none", "recv", "write"} \cup RelayEnd]
      /\ task \in [Ends -> TaskStages]
  BY PeerOfPeer DEF PipeInv, PipeType, FlightInv, MapType
<1>1. CASE SendData(e) /\ sent' # sent
  BY <1>1, AcceptStep DEF Channel!Next
<1>2. CASE WriteSocket(e)
  BY <1>0, <1>2, DeliverStep DEF Channel!Next
<1>3. CASE TakeInbound(e) /\ Head(inbound[e]).type # "data"
  BY <1>0, <1>3, CompleteStep DEF Channel!Next
<1>4. CASE InboundGone(e) \/ CancelIn(e) \/ WriteFail(e)
  BY <1>0, <1>4, BreakStep DEF Channel!Next
<1>5. CASE \/ SendData(e) /\ sent' = sent
           \/ ReadSocket(e) \/ ReadEof(e) \/ CancelOut(e)
  <2>1. UNCHANGED <<sent, written, inn, task>>
    BY <1>5 DEF SendData, ReadSocket, ReadEof, CancelOut
  <2> QED BY <2>1, PipeStutters
<1>6. CASE Join(e) \/ SendClose(e) \/ Remove(e)
  <2>1. /\ UNCHANGED <<sent, written, inn>>
        /\ \E stage : task' = [task EXCEPT ![e] = stage] /\ (task[e] = "remove" => stage = "done")
        /\ inn[e] \in RelayEnd \/ task[e] = "close" \/ task[e] = "remove"
    BY <1>6 DEF Join, SendClose, Remove
  <2>2. ASSUME NEW x \in Ends PROVE Ending(inn[x], task'[x]) = Ending(inn[x], task[x])
    <3>1. CASE x # e
      BY <1>0, <2>1, <3>1
    <3>2. CASE x = e /\ inn[e] # "none"
      BY <3>2 DEF Ending
    <3>3. CASE x = e /\ inn[e] = "none"
      <4>1. task[e] = "remove"
        BY <2>1, <3>3 DEF Relayed, RelayEnd
      <4>2. task'[e] = "done"
        BY <1>0, <2>1, <4>1
      <4> QED BY <3>3, <4>1, <4>2, EndingCases
    <3> QED BY <3>1, <3>2, <3>3
  <2> QED BY <2>1, <2>2, PipeStutters
<1>7. CASE (TakeInbound(e) /\ Head(inbound[e]).type = "data") \/ TakePending(e)
  <2>1. UNCHANGED <<sent, written, task>> /\ inn[e] = "recv" /\ inn' = [inn EXCEPT ![e] = "write"]
    BY <1>7 DEF TakeInbound, TakePending, SetIn
  <2>2. ASSUME NEW x \in Ends PROVE Ending(inn'[x], task[x]) = Ending(inn[x], task[x])
    <3>1. CASE x # e
      BY <1>0, <2>1, <3>1
    <3>2. CASE x = e
      <4>1. inn'[x] = "write" /\ inn[x] = "recv"
        BY <1>0, <2>1, <3>2
      <4> QED BY <4>1, EndingCases
    <3> QED BY <3>1, <3>2
  <2> QED BY <2>1, <2>2, PipeStutters
<1> QED BY <1>1, <1>2, <1>3, <1>4, <1>5, <1>6, <1>7 DEF TaskStep, SocketStep

(* A channel starts to relay, or ends before it does. *)
LEMMA StartStep ==
  ASSUME FlightInv, PipeInv, NEW i \in Ids, SendOpen(i) \/ ConnectStep(i)
  PROVE  [Channel!Next]_Channel!vars
<1>1. PICK s \in Sides : /\ UNCHANGED <<sent, written>> /\ task[<<s, i>>] \in {"opening", "connecting"}
         /\ \/ UNCHANGED <<inn, task>>
            \/ /\ inn' = inn
               /\ \E stage \in {"remove", "done"} : task' = [task EXCEPT ![<<s, i>>] = stage]
            \/ inn' = [inn EXCEPT ![<<s, i>>] = "recv"] /\ task' = [task EXCEPT ![<<s, i>>] = "run"]
  BY DEF SendOpen, ConnectStep, ConnectCmd, ConnectDropped, ConnectOk, ConnectFail, Sides, SetIn
<1>2. <<s, i>> \in Ends /\ PeerOf(<<s, i>>) \in Ends
  BY FarSide, PeerOfPeer
<1>3. CASE UNCHANGED <<inn, task>>
  BY <1>1, <1>3, PipeStutters
<1>4. CASE inn' = inn /\ \E stage \in {"remove", "done"} : task' = [task EXCEPT ![<<s, i>>] = stage]
  <2>1. Channel!GiveUp(PeerOf(<<s, i>>))
    BY <1>1, <1>4, GiveUpStep
  <2> QED BY <1>2, <2>1 DEF Channel!Next
<1>5. CASE inn' = [inn EXCEPT ![<<s, i>>] = "recv"] /\ task' = [task EXCEPT ![<<s, i>>] = "run"]
  <2>1. ASSUME NEW x \in Ends PROVE Ending(inn'[x], task'[x]) = Ending(inn[x], task[x])
    <3>1. CASE x # <<s, i>>
      BY <1>5, <3>1 DEF FlightInv, MapType, PipeInv, PipeType
    <3>2. CASE x = <<s, i>>
      <4>1. inn[x] = "none" /\ inn'[x] = "recv"
        BY <1>1, <1>2, <1>5, <3>2 DEF PipeInv, PipeType, FlowOf, CleanOf
      <4> QED BY <1>1, <3>2, <4>1, EndingCases
    <3> QED BY <3>1, <3>2
  <2> QED BY <1>1, <2>1, PipeStutters
<1> QED BY <1>1, <1>3, <1>4, <1>5

(* The loops and the maps are not part of the pipe, and a channel that is  *)
(* taken on is new to its side.                                            *)
LEMMA OtherStep ==
  ASSUME FlightInv, PipeInv,
         \/ OpenCheck \/ OpenInsert \/ OnFrame \/ Handle \/ SendTimeout \/ OpenStep
         \/ \E s \in Sides : LoopStep(s) \/ LoopEnd(s)
         \/ UNCHANGED vars
  PROVE  UNCHANGED Channel!vars
<1>0. task \in [Ends -> TaskStages]
  BY DEF FlightInv, MapType
<1>1. ASSUME NEW e, task[e] = "none", NEW stage \in {"opening", "connecting"},
             task' = [task EXCEPT ![e] = stage], UNCHANGED <<sent, written, inn>>
      PROVE  UNCHANGED Channel!vars
  <2>1. ASSUME NEW x \in Ends PROVE Ending(inn[x], task'[x]) = Ending(inn[x], task[x])
    <3>1. CASE x # e
      BY <1>0, <1>1, <3>1
    <3>2. CASE x = e
      <4>1. task[x] = "none" /\ task'[x] = stage
        BY <1>0, <1>1, <3>2
      <4>2. \E s \in Sides, i \in Ids : x = <<s, i>>
        BY DEF Ends
      <4>3. inn[x] = "none"
        BY <4>1, <4>2 DEF PipeInv, FlowOf, CleanOf
      <4> QED BY <4>1, <4>3, EndingCases
    <3> QED BY <3>1, <3>2
  <2> QED BY <1>1, <2>1, PipeStutters
<1>2. CASE OpenInsert
  <2>1. CASE task' = task
    BY <1>2, <2>1, PipeStutters DEF OpenInsert
  <2>2. CASE task' # task
    <3>1. UNCHANGED <<sent, written, inn>> /\ task' = [task EXCEPT ![<<"controller", nextId>>] = "opening"]
      BY <1>2, <2>2 DEF OpenInsert
    <3>2. nextId \in Ids
      <4>1. CASE <<"controller", nextId>> \in Ends
        BY <4>1 DEF Ends
      <4>2. CASE <<"controller", nextId>> \notin Ends
        BY <1>0, <2>2, <3>1, <4>2
      <4> QED BY <4>1, <4>2
    <3>3. task[<<"controller", nextId>>] = "none"
      BY <3>2 DEF FlightInv, FlightType, Fresh
    <3> QED BY <1>1, <3>1, <3>3
  <2> QED BY <2>1, <2>2
<1>3. CASE OpenStep
  <2>1. PICK permitted \in BOOLEAN : OnOpen(permitted)
    BY <1>3 DEF OpenStep
  <2>2. UNCHANGED <<sent, written, inn>>
    BY <2>1 DEF OnOpen
  <2>3. CASE task' = task
    BY <2>2, <2>3, PipeStutters
  <2>4. CASE task' # task
    <3>1. PICK f : f = Head(link["controller"])
      OBVIOUS
    <3>2. f \in Frames /\ f \in Carried(InFlight("controller")) /\ f.type = "open"
      <4>1. link["controller"] \in Seq(Frames) /\ link["controller"] # <<>> /\ f.type = "open"
        BY <2>1, <3>1 DEF OnOpen, FlightInv, FlightType, Sides
      <4>2. /\ FlightType /\ "controller" \in Sides /\ UNCHANGED <<loop, sending>>
            /\ link' = [link EXCEPT !["controller"] = Tail(@)]
        BY <2>1 DEF OnOpen, FlightInv, Sides
      <4>3. queue'["controller"] = queue["controller"]
        BY <2>1, <4>2 DEF OnOpen, Enqueue, FlightType
      <4>4. InFlight("controller") # <<>> /\ Head(InFlight("controller")) = f
        BY <3>1, <4>1, <4>2, <4>3, ReadFlight
      <4> QED BY <3>1, <4>1, <4>2, <4>4, FlightParts, CarriedTail
    <3>3. f.id \in Ids /\ task[<<"controlled", f.id>>] = "none"
      BY <3>2 DEF Frames, FlightInv, OpenUnread
    <3>4. \E stage \in {task[<<"controlled", f.id>>], "connecting"} :
            task' = [task EXCEPT ![<<"controlled", f.id>>] = stage]
      BY <2>1, <2>4, <3>1 DEF OnOpen
    <3>5. task' = [task EXCEPT ![<<"controlled", f.id>>] = "connecting"]
      BY <1>0, <2>4, <3>4
    <3> QED BY <1>1, <2>2, <3>3, <3>5
  <2> QED BY <2>3, <2>4
<1>4. CASE \/ OpenCheck \/ OnFrame \/ Handle \/ SendTimeout
           \/ \E s \in Sides : LoopStep(s) \/ LoopEnd(s)
           \/ UNCHANGED vars
  <2>1. UNCHANGED <<sent, written, inn, task>>
    BY <1>4 DEF OpenCheck, OnFrame, Handle, SendTimeout, LoopStep, LoopEnd,
                SendNext, Unblock, DropQueues, PeerGone, vars, taskVars
  <2> QED BY <2>1, PipeStutters
<1> QED BY <1>2, <1>3, <1>4

(* Every step of the tunnel is one of the pipe, or none. *)
LEMMA StepChannel == FlightInv /\ PipeInv /\ Relayed /\ [Next]_vars => [Channel!Next]_Channel!vars
<1> SUFFICES ASSUME FlightInv, PipeInv, Relayed, [Next]_vars PROVE [Channel!Next]_Channel!vars
  OBVIOUS
<1>1. CASE \E e \in Ends : TaskStep(e) \/ SocketStep(e)
  BY <1>1, EndStep
<1>2. CASE \E i \in Ids : SendOpen(i) \/ ConnectStep(i)
  BY <1>2, StartStep
<1>3. CASE /\ ~\E e \in Ends : TaskStep(e) \/ SocketStep(e)
           /\ ~\E i \in Ids : SendOpen(i) \/ ConnectStep(i)
  BY <1>3, OtherStep DEF Next
<1> QED BY <1>1, <1>2, <1>3

(* An unused tunnel is an empty pipe. *)
LEMMA InitChannel == Init => Channel!Init
<1> SUFFICES ASSUME Init PROVE Channel!Init
  OBVIOUS
<1>1. \A e \in Ends : written[PeerOf(e)] = <<>> /\ inn[PeerOf(e)] = "none" /\ task[PeerOf(e)] = "none"
  BY PeerOfPeer DEF Init
<1>2. Ending("none", "none") = "open"
  BY EndingCases
<1> QED BY <1>1, <1>2 DEF Init, Channel!Init

(* A forwarded connection is a reliable ordered pipe in both directions,   *)
(* for any number of channels, any queue and link size and any number of   *)
(* chunks: what a side reads from a socket comes out of its peer's once    *)
(* and in order, the chunks set aside during the connect first; a relay    *)
(* that takes the peer's close has written everything; and a channel that  *)
(* ends while its target is being connected, also by the peer's close, has *)
(* written nothing.                                                        *)
THEOREM TunnelIsPipe == Spec => ImplementsPipe
<1>1. MapInv /\ FlightInv /\ PipeInv /\ Relayed /\ [Next]_vars => (MapInv /\ FlightInv /\ PipeInv /\ Relayed)'
  BY StepMap, StepFlight, StepPipe, StepRelayed DEF MapInv
<1>2. Init => MapInv /\ FlightInv /\ PipeInv /\ Relayed
  BY InitMap, InitFlight, InitPipe, InitRelayed
<1>3. Spec => [](MapInv /\ FlightInv /\ PipeInv /\ Relayed)
  BY <1>1, <1>2, PTL DEF Spec
<1> QED BY <1>3, StepChannel, InitChannel, PTL DEF Spec, ImplementsPipe, Channel!Spec
=============================================================================
