---------------------------- MODULE StreamProofs ----------------------------
(***************************************************************************)
(* A stream carries its messages: the properties of module BiStream, for   *)
(* every payload, every capacity of the channel to the application and     *)
(* whoever closes, in whatever order packets arrive; and those of module   *)
(* Packets, for every chunk and message that the constants allow, from     *)
(* what module CodecProofs says of the codec.                              *)
(***************************************************************************)
EXTENDS Stream, CodecProofs

(***************************************************************************)
(* The inductive invariant, in parts.  What the variables hold:            *)
(***************************************************************************)
Body == Data \cup Commands

LoopPlace == {"none", "top", "recv", "taken", "reset", "start", "returned", "event",
              "deliver", "closing", "ended", "dropped"}

Shapes ==
  /\ opening \in {"idle", "waiting", "open", "failed"}
  /\ pushed \in [Side -> Seq(Body)]
  /\ sent \in [Side -> Seq(Data)] /\ got \in [Side -> Seq(Data)]
  /\ received_msgs \in [Side -> Seq(Data)]
  /\ arrived \in [Side -> SUBSET Nat] /\ read \in [Side -> Nat]
  /\ attached \in [Side -> BOOLEAN]
  /\ loop \in [Side -> LoopPlace]
  /\ play_event \in [Side -> BOOLEAN]
  /\ chan_closed \in [Side -> BOOLEAN] /\ closed \in [Side -> BOOLEAN]
  /\ closing \in [Side -> [Goroutine -> {"no", "channel", "session"}]]
  /\ flows_closed \in [Side -> BOOLEAN]
  /\ panicked \subseteq Side

ChannelBounded == \A s \in Side : Len(received_msgs[s]) <= Capacity

\* A packet carries a message of its flow, or asks to close.
OnWire(n) == [seq : 1 .. n, body : Body] \cup {CloseRequest}

WireShape ==
  /\ DOMAIN wire = Side
  /\ \A s \in Side : wire[s] \in Seq(OnWire(Len(pushed[Other(s)])))

\* What arrives was sent, what is read has arrived.
ReadArrivedAt(s) ==
  /\ arrived[s] \subseteq 1 .. Len(pushed[Other(s)])
  /\ read[s] <= Len(pushed[Other(s)])
  /\ read[s] > 0 => read[s] \in arrived[s]
  /\ loop[s] \in Holding => read[s] > 0
  /\ loop[s] = "deliver" => Param(s) \in Data

ReadArrived == \A s \in Side : ReadArrivedAt(s)

\* The dispatcher of a stream starts with its half of the flow.
LoopAttached ==
  \A s \in Side : (loop[s] # "none" \/ arrived[s] # {}) => attached[s]

\* Only the passive side answers a play, and it does once it is there.
PassiveAnswers ==
  /\ \A n \in 1 .. Len(pushed["passive"]) :
       /\ pushed["passive"][n] \in Data \cup {"reset", "start"}
       /\ pushed["passive"][n] = "start" => attached["passive"]
  /\ loop["active"] \notin {"reset", "start"}

StartArrived ==
  \E n \in arrived["active"] :
    n \in 1 .. Len(pushed["passive"]) /\ pushed["passive"][n] = "start"

StartAwaited ==
  loop["active"] = "event" \/ play_event["active"] \/ opening = "open" => StartArrived

CloseInOrder ==
  \A s \in Side :
    flows_closed[s] \/ (\E g \in Goroutine : closing[s][g] = "session")
      => closed[s] /\ chan_closed[s]

\* What an application sent is the data on its flow.
DataPushed(s) == {n \in 1 .. Len(pushed[s]) : pushed[s][n] \in Data}

SentPushed == \A s \in Side : Lists(sent[s], DataPushed(s), pushed[s])

\* What a stream's dispatcher took for the application is what was sent first.
KeptSent ==
  \A s \in Side :
    /\ Len(Kept(s)) <= Len(sent[Other(s)])
    /\ \A k \in 1 .. Len(Kept(s)) : Kept(s)[k] = sent[Other(s)][k]

IInv ==
  /\ Shapes
  /\ ChannelBounded
  /\ WireShape
  /\ ReadArrived
  /\ LoopAttached
  /\ PassiveAnswers
  /\ StartAwaited
  /\ CloseInOrder
  /\ SentPushed
  /\ OnlyLastDropped
  /\ KeptSent

(***************************************************************************)
(* Lists.  A place beyond the others adds its element at the end.          *)
(***************************************************************************)
LEMMA ListsSame ==
  ASSUME NEW q, NEW D, NEW f, NEW g, Lists(q, D, f), \A n \in D : f[n] = g[n]
  PROVE  Lists(q, D, g)
  BY DEF Lists

LEMMA PlacesFinite ==
  ASSUME NEW b \in Nat, NEW D, D \subseteq 1 .. b
  PROVE  /\ IsFiniteSet(D) /\ Cardinality(D) \in Nat
         /\ \A n \in D : /\ Cardinality({m \in D : m <= n}) \in 1 .. Cardinality(D)
<1>1. IsFiniteSet(1 .. b)
  BY FS_Interval
<1>2. IsFiniteSet(D) /\ Cardinality(D) \in Nat
  BY <1>1, FS_Subset, FS_CardinalityType
<1>3. ASSUME NEW n \in D PROVE Cardinality({m \in D : m <= n}) \in 1 .. Cardinality(D)
  <2> DEFINE E == {m \in D : m <= n}
  <2>1. E \subseteq D /\ E # {}
    OBVIOUS
  <2>2. IsFiniteSet(E) /\ Cardinality(E) \in Nat /\ Cardinality(E) <= Cardinality(D)
    BY <1>2, <2>1, FS_Subset, FS_CardinalityType
  <2>3. Cardinality(E) # 0
    BY <2>1, <2>2, FS_EmptySet
  <2> QED
    BY <1>2, <2>2, <2>3
<1> QED
  BY <1>2, <1>3

LEMMA ListsMore ==
  ASSUME NEW S, NEW q \in Seq(S), NEW x \in S, NEW b \in Nat, NEW D, D \subseteq 1 .. b,
         NEW f, NEW g, Lists(q, D, f), \A n \in D : f[n] = g[n],
         NEW k \in Nat, k > b, g[k] = x
  PROVE  Lists(Append(q, x), D \cup {k}, g)
<1>0. k \notin D /\ \A m \in D \cup {k} : m <= k
  OBVIOUS
<1>1. /\ IsFiniteSet(D) /\ Cardinality(D) \in Nat /\ Len(q) = Cardinality(D)
      /\ \A n \in D : Cardinality({m \in D : m <= n}) \in 1 .. Cardinality(D)
  BY PlacesFinite DEF Lists
<1>2. Cardinality(D \cup {k}) = Cardinality(D) + 1
  BY <1>0, <1>1, FS_AddElement
<1>3. /\ Len(Append(q, x)) = Len(q) + 1
      /\ \A i \in 1 .. Len(q) : Append(q, x)[i] = q[i]
      /\ Append(q, x)[Len(q) + 1] = x
  BY AppendProperties
<1>4. ASSUME NEW n \in D
      PROVE  Append(q, x)[Cardinality({m \in D \cup {k} : m <= n})] = g[n]
  <2>1. {m \in D \cup {k} : m <= n} = {m \in D : m <= n}
    OBVIOUS
  <2> QED
    BY <1>1, <1>3, <2>1 DEF Lists
<1>5. Append(q, x)[Cardinality({m \in D \cup {k} : m <= k})] = g[k]
  <2>1. {m \in D \cup {k} : m <= k} = D \cup {k}
    BY <1>0
  <2> QED
    BY <1>1, <1>2, <1>3, <2>1
<1> QED
  BY <1>1, <1>2, <1>3, <1>4, <1>5 DEF Lists

LEMMA ListsLess ==
  ASSUME NEW S, NEW q \in Seq(S), NEW x \in S, NEW b \in Nat, NEW D, D \subseteq 1 .. b, b \in D,
         NEW f, Lists(Append(q, x), D, f)
  PROVE  Lists(q, D \ {b}, f)
<1>1. /\ IsFiniteSet(D) /\ Cardinality(D) \in Nat /\ Len(Append(q, x)) = Cardinality(D)
  BY PlacesFinite DEF Lists
<1>2. Cardinality(D \ {b}) = Cardinality(D) - 1
  BY <1>1, FS_RemoveElement
<1>3. /\ Len(Append(q, x)) = Len(q) + 1 /\ Len(q) \in Nat
      /\ \A i \in 1 .. Len(q) : Append(q, x)[i] = q[i]
  BY AppendProperties
<1>4. Len(q) = Cardinality(D \ {b})
  BY <1>1, <1>2, <1>3
<1>5. \A n \in D \ {b} : Cardinality({m \in D \ {b} : m <= n}) \in 1 .. Cardinality(D \ {b})
  <2>1. D \ {b} \subseteq 1 .. b
    OBVIOUS
  <2> QED
    BY <2>1, PlacesFinite
<1>6. ASSUME NEW n \in D \ {b} PROVE q[Cardinality({m \in D \ {b} : m <= n})] = f[n]
  <2>1. {m \in D \ {b} : m <= n} = {m \in D : m <= n}
    OBVIOUS
  <2>2. Append(q, x)[Cardinality({m \in D : m <= n})] = f[n]
    BY DEF Lists
  <2> QED
    BY <1>3, <1>4, <1>5, <2>1, <2>2
<1> QED
  BY <1>4, <1>6 DEF Lists

LEMMA ListsNone == ASSUME NEW f PROVE Lists(<<>>, {}, f)
  BY FS_EmptySet DEF Lists

(***************************************************************************)
(* The sides, and the initial state.                                       *)
(***************************************************************************)
LEMMA Sides ==
  /\ "active" \in Side /\ "passive" \in Side
  /\ \A s \in Side : Other(s) \in Side /\ Other(s) # s /\ Other(Other(s)) = s
  /\ Other("active") = "passive" /\ Other("passive") = "active"
  BY DEF Side, Other

LEMMA InitIInv == ASSUME StreamInit PROVE IInv
<1>1. Shapes
  BY DEF StreamInit, Shapes, LoopPlace
<1>2. ChannelBounded /\ WireShape /\ ReadArrived /\ LoopAttached
  BY Sides, StreamAssumption DEF StreamInit, ChannelBounded, WireShape, ReadArrived,
       ReadArrivedAt, LoopAttached,
       Holding
<1>3. PassiveAnswers /\ StartAwaited /\ CloseInOrder
  BY Sides DEF StreamInit, PassiveAnswers, StartAwaited, CloseInOrder
<1>4. \A s \in Side : Kept(s) = <<>> /\ DataTaken(s) = {} /\ DataPushed(s) = {}
  BY Sides DEF StreamInit, Kept, InHand, Holding, DataTaken, DataPushed
<1>5. SentPushed /\ OnlyLastDropped
  <2>1. ASSUME NEW s \in Side PROVE Lists(sent[s], DataPushed(s), pushed[s])
    BY <1>4, ListsNone DEF StreamInit
  <2>2. ASSUME NEW s \in Side PROVE Lists(Kept(s), DataTaken(s) \ LastDropped(s), pushed[Other(s)])
    <3>1. DataTaken(s) \ LastDropped(s) = {}
      BY <1>4
    <3> QED
      BY <1>4, <3>1, ListsNone
  <2>3. \A s \in Side : loop[s] # "dropped"
    BY DEF StreamInit
  <2> QED
    BY <2>1, <2>2, <2>3 DEF SentPushed, OnlyLastDropped
<1>6. KeptSent
  BY <1>4, Sides DEF StreamInit, KeptSent
<1> QED
  BY <1>1, <1>2, <1>3, <1>5, <1>6 DEF IInv

(***************************************************************************)
(* The cases of a step.                                                    *)
(***************************************************************************)
SideStep(s) ==
  \/ Arrive(s) \/ Lose(s)
  \/ Runs(s) /\ (LoopTop(s) \/ LoopTakes(s) \/ LoopReturns(s) \/ LoopReplies(s)
                   \/ LoopActs(s) \/ LoopTellsEvent(s) \/ LoopDelivers(s) \/ LoopEnds(s))
  \/ AppSends(s) \/ AppReceives(s) \/ AppCloses(s)
  \/ \E g \in Goroutine : CloseChannel(s, g) \/ CloseSession(s, g)

Step ==
  \/ Open \/ Opened \/ OpenTimesOut \/ ClientCommand
  \/ \E s \in Side : SideStep(s)
  \/ UNCHANGED streamVars

LEMMA Steps == ASSUME [StreamNext]_streamVars PROVE Step
  BY DEF StreamNext, Loop, Step, SideStep

(***************************************************************************)
(* Pushing a message.                                                      *)
(***************************************************************************)
LEMMA DataBodies ==
  /\ Data \subseteq Body /\ Commands \subseteq Body
  /\ \A x \in Body : x \in Data <=> x \notin Commands
  /\ ClientCommands \subseteq Commands
  /\ \A n \in 1 .. Len(Payload) : Payload[n] \in Data
<1>1. Data \cap Commands = {} /\ ClientCommands \subseteq Commands
  BY StreamAssumption DEF Data, Commands
<1>2. \A n \in 1 .. Len(Payload) : Payload[n] \in Data
  BY StreamAssumption DEF Data
<1> QED
  BY <1>1, <1>2, Zenon DEF Body

LEMMA PushGrows ==
  ASSUME Shapes, NEW s \in Side, NEW x \in Body, Push(s, x)
  PROVE  /\ pushed' \in [Side -> Seq(Body)]
         /\ \A t \in Side : /\ Len(pushed[t]) <= Len(pushed'[t])
                            /\ \A n \in 1 .. Len(pushed[t]) : pushed'[t][n] = pushed[t][n]
         /\ \A t \in Side \ {s} : pushed'[t] = pushed[t]
         /\ flows_closed[s] => pushed' = pushed
         /\ ~ flows_closed[s] => /\ pushed'[s] = Append(pushed[s], x)
                                 /\ Len(pushed'[s]) = Len(pushed[s]) + 1
                                 /\ pushed'[s][Len(pushed[s]) + 1] = x
         /\ \A n \in 1 .. Len(pushed'[s]) : n \notin 1 .. Len(pushed[s]) => pushed'[s][n] = x
<1>0. pushed[s] \in Seq(Body)
  BY DEF Shapes
<1>1. /\ Append(pushed[s], x) \in Seq(Body)
      /\ Len(Append(pushed[s], x)) = Len(pushed[s]) + 1
      /\ \A n \in 1 .. Len(pushed[s]) : Append(pushed[s], x)[n] = pushed[s][n]
      /\ Append(pushed[s], x)[Len(pushed[s]) + 1] = x
  BY <1>0, AppendProperties
<1>2. \A t \in Side : Len(pushed[t]) \in Nat
  BY DEF Shapes
<1>3. CASE flows_closed[s]
  BY <1>2, <1>3 DEF Push, Shapes
<1>4. CASE ~ flows_closed[s]
  <2>1. pushed' = [pushed EXCEPT ![s] = Append(pushed[s], x)]
    BY <1>4 DEF Push
  <2>2. pushed'[s] = Append(pushed[s], x) /\ \A t \in Side \ {s} : pushed'[t] = pushed[t]
    BY <2>1 DEF Shapes
  <2>3. pushed' \in [Side -> Seq(Body)]
    BY <1>1, <2>1 DEF Shapes
  <2>4. /\ Len(pushed'[s]) = Len(pushed[s]) + 1
        /\ \A n \in 1 .. Len(pushed[s]) : pushed'[s][n] = pushed[s][n]
        /\ pushed'[s][Len(pushed[s]) + 1] = x
    BY <1>1, <2>2
  <2>5. ASSUME NEW t \in Side
        PROVE  /\ Len(pushed[t]) <= Len(pushed'[t])
               /\ \A n \in 1 .. Len(pushed[t]) : pushed'[t][n] = pushed[t][n]
    BY <1>2, <2>2, <2>4
  <2>6. ASSUME NEW n \in 1 .. Len(pushed'[s]), n \notin 1 .. Len(pushed[s])
        PROVE  pushed'[s][n] = x
    <3>1. n = Len(pushed[s]) + 1
      BY <1>2, <2>4, <2>6
    <3> QED
      BY <2>4, <3>1
  <2> QED
    BY <1>4, <2>2, <2>3, <2>4, <2>5, <2>6
<1> QED
  BY <1>3, <1>4

LEMMA OnWireGrows == ASSUME NEW n \in Nat, NEW m \in Nat, n <= m PROVE OnWire(n) \subseteq OnWire(m)
  BY DEF OnWire

LEMMA PushWire ==
  ASSUME Shapes, WireShape, NEW s \in Side, NEW x \in Body, Push(s, x)
  PROVE  WireShape'
<1>1. CASE flows_closed[s]
  BY <1>1 DEF Push, WireShape
<1>2. CASE ~ flows_closed[s]
  <2> DEFINE n == Len(pushed[s])
             p == [seq |-> n + 1, body |-> x]
             o == Other(s)
  <2>1. wire' = [wire EXCEPT ![o] = Append(wire[o], p)]
    BY <1>2 DEF Push
  <2>2. n \in Nat /\ Len(pushed'[s]) = n + 1 /\ \A t \in Side \ {s} : pushed'[t] = pushed[t]
    BY <1>2, PushGrows DEF Shapes
  <2>3. p \in OnWire(n + 1) /\ OnWire(n) \subseteq OnWire(n + 1)
    BY <2>2, OnWireGrows DEF OnWire
  <2>4. wire[o] \in Seq(OnWire(n + 1))
    BY <2>3, Sides, SeqMonotonic DEF WireShape
  <2>5. Append(wire[o], p) \in Seq(OnWire(n + 1))
    BY <2>3, <2>4, AppendProperties
  <2>6. wire'[o] \in Seq(OnWire(Len(pushed'[Other(o)])))
    BY <2>1, <2>2, <2>5, Sides DEF WireShape
  <2>7. ASSUME NEW t \in Side \ {o} PROVE wire'[t] \in Seq(OnWire(Len(pushed'[Other(t)])))
    BY <2>1, <2>2, Sides DEF WireShape
  <2> QED
    BY <2>1, <2>6, <2>7, Sides DEF WireShape
<1> QED
  BY <1>1, <1>2

(***************************************************************************)
(* Who pushes what.                                                        *)
(***************************************************************************)
Pushes(s, x) ==
  /\ Push(s, x) /\ x \in Body
  /\ s = "active" => x \notin {"reset", "start"}
  /\ s = "passive" => x \in Data \cup {"reset", "start"} /\ (x = "start" => attached["passive"])
  /\ \/ x \notin Data /\ sent' = sent
     \/ x \in Data /\ ~ flows_closed[s] /\ sent' = [sent EXCEPT ![s] = Append(@, x)]

LEMMA Pushers ==
  ASSUME Shapes, LoopAttached, PassiveAnswers, [StreamNext]_streamVars
  PROVE  \/ pushed' = pushed /\ sent' = sent
         \/ \E s \in Side, x \in Body : Pushes(s, x)
<1>1. ASSUME Open PROVE Pushes("active", "play")
  BY <1>1, DataBodies DEF Open, Pushes, Commands
<1>2. ASSUME ClientCommand PROVE \E x \in Body : Pushes("active", x)
  <2>1. PICK x \in ClientCommands : Push("active", x)
    BY <1>2 DEF ClientCommand
  <2>2. x = "closeStream" /\ x \in Body /\ x \notin Data
    BY DataBodies, StreamAssumption
  <2>3. Pushes("active", x)
    BY <1>2, <2>1, <2>2 DEF ClientCommand, Pushes
  <2> QED
    BY <2>2, <2>3
<1>3. ASSUME NEW s \in Side, LoopReplies(s) PROVE Pushes(s, loop[s])
  <2>1. Push(s, loop[s]) /\ loop[s] \in {"reset", "start"} /\ sent' = sent
    BY <1>3 DEF LoopReplies
  <2>2. loop[s] \in Body /\ loop[s] \notin Data
    BY <2>1, DataBodies DEF Commands
  <2>3. s # "active" /\ attached[s]
    BY <2>1 DEF PassiveAnswers, LoopAttached
  <2> QED
    BY <2>1, <2>2, <2>3 DEF Pushes
<1>4. ASSUME NEW s \in Side, AppSends(s)
      PROVE  (pushed' = pushed /\ sent' = sent) \/ \E x \in Body : Pushes(s, x)
  <2>1. CASE NetStream(s)
    <3> DEFINE x == Payload[Len(sent[s]) + 1]
    <3>1. Push(s, x) /\ sent' = [sent EXCEPT ![s] = Append(@, x)] /\ ~ flows_closed[s]
      BY <1>4, <2>1 DEF AppSends
    <3>2. Len(sent[s]) + 1 \in 1 .. Len(Payload)
      BY <1>4, StreamAssumption DEF AppSends, Shapes
    <3>3. x \in Data
      BY <3>2, DataBodies
    <3>4. x \in Body /\ x \notin {"reset", "start"}
      BY <3>3, DataBodies DEF Commands
    <3>5. Pushes(s, x)
      BY <3>1, <3>3, <3>4 DEF Pushes
    <3> QED
      BY <3>4, <3>5
  <2>2. CASE ~ NetStream(s)
    BY <1>4, <2>2 DEF AppSends
  <2> QED
    BY <2>1, <2>2
<1>5. \/ pushed' = pushed /\ sent' = sent
      \/ Open \/ ClientCommand
      \/ \E s \in Side : LoopReplies(s) \/ AppSends(s)
  <2>1. Step
    BY Steps
  <2> QED
    BY <2>1 DEF Step, SideStep, Opened, OpenTimesOut, Arrive, Lose, LoopTop, LoopTakes,
         LoopReturns, LoopActs,
         LoopTellsEvent, LoopDelivers, LoopEnds, AppReceives, AppCloses, CloseChannel,
         CloseSession, streamVars
<1> QED
  <2>1. "play" \in Body /\ \A s \in Side : loop[s] \in {"reset", "start"} => loop[s] \in Body
    BY DataBodies DEF Commands
  <2>2. ASSUME NEW s \in Side, LoopReplies(s) PROVE loop[s] \in Body
    BY <2>1, <2>2 DEF LoopReplies
  <2> QED
    BY <1>1, <1>2, <1>3, <1>4, <1>5, <2>1, <2>2, Sides

LEMMA PushedGrows ==
  ASSUME Shapes, LoopAttached, PassiveAnswers, [StreamNext]_streamVars
  PROVE  /\ pushed' \in [Side -> Seq(Body)]
         /\ \A t \in Side : /\ Len(pushed[t]) \in Nat /\ Len(pushed'[t]) \in Nat
                            /\ Len(pushed[t]) <= Len(pushed'[t])
                            /\ \A n \in 1 .. Len(pushed[t]) : pushed'[t][n] = pushed[t][n]
<1>1. ASSUME NEW s \in Side, NEW x \in Body, Pushes(s, x)
      PROVE  /\ pushed' \in [Side -> Seq(Body)]
             /\ \A t \in Side : /\ Len(pushed[t]) <= Len(pushed'[t])
                                /\ \A n \in 1 .. Len(pushed[t]) : pushed'[t][n] = pushed[t][n]
  BY <1>1, PushGrows DEF Pushes
<1>2. CASE pushed' = pushed
  BY <1>2 DEF Shapes
<1>3. /\ pushed' \in [Side -> Seq(Body)]
      /\ \A t \in Side : /\ Len(pushed[t]) <= Len(pushed'[t])
                         /\ \A n \in 1 .. Len(pushed[t]) : pushed'[t][n] = pushed[t][n]
  <2>1. pushed \in [Side -> Seq(Body)] /\ \A t \in Side : Len(pushed[t]) <= Len(pushed[t])
    BY DEF Shapes
  <2> QED
    BY <1>1, <2>1, Pushers
<1>4. \A t \in Side : Len(pushed[t]) \in Nat /\ Len(pushed'[t]) \in Nat
  BY <1>3 DEF Shapes
<1> QED
  BY <1>3, <1>4

(***************************************************************************)
(* A packet leaves the wire.                                               *)
(***************************************************************************)
LEMMA TakenShape ==
  ASSUME Shapes, WireShape, UNCHANGED pushed,
         NEW s \in Side, NEW i \in 1 .. Len(wire[s]), wire' = Taken(s, i)
  PROVE  WireShape'
<1> DEFINE W == OnWire(Len(pushed[Other(s)]))
           q == wire[s]
<1>1. q \in Seq(W) /\ Len(q) \in Nat
  BY DEF WireShape
<1>2. SubSeq(q, 1, i - 1) \in Seq(W)
  BY <1>1, SubSeqProperties
<1>3. SubSeq(q, i + 1, Len(q)) \in Seq(W)
  BY <1>1, SubSeqProperties
<1>4. SubSeq(q, 1, i - 1) \o SubSeq(q, i + 1, Len(q)) \in Seq(W)
  BY <1>2, <1>3, ConcatProperties
<1>5. wire' = [wire EXCEPT ![s] = SubSeq(q, 1, i - 1) \o SubSeq(q, i + 1, Len(q))]
  BY DEF Taken
<1>6. wire'[s] \in Seq(W) /\ DOMAIN wire' = Side /\ \A t \in Side \ {s} : wire'[t] = wire[t]
  BY <1>4, <1>5 DEF WireShape
<1> QED
  BY <1>6 DEF WireShape

\* What an arriving packet changes.
LEMMA Arrives ==
  ASSUME Shapes, WireShape, NEW s \in Side, Arrive(s)
  PROVE  /\ WireShape'
         /\ \/ closing' = closing /\ loop' = loop /\ attached' = attached /\ arrived' = arrived
               /\ panicked' = panicked \cup {s}
            \/ /\ closing' = closing \/ (~ closed[s] /\ closing' = [closing EXCEPT ![s]["session"] = "channel"])
               /\ loop' = loop /\ attached' = attached /\ arrived' = arrived
               /\ panicked' = panicked
            \/ \E k \in 1 .. Len(pushed[Other(s)]) :
                 /\ attached' = [attached EXCEPT ![s] = TRUE]
                 /\ arrived' = [arrived EXCEPT ![s] = @ \cup {k}]
                 /\ loop' = IF attached[s] THEN loop ELSE [loop EXCEPT ![s] = "top"]
                 /\ closing' = closing /\ panicked' = panicked
<1>1. PICK i \in 1 .. Len(wire[s]) :
        /\ wire' = Taken(s, i)
        /\ IF wire[s][i] = CloseRequest THEN ArriveCloseRequest(s) ELSE ArriveData(s, wire[s][i])
  BY DEF Arrive
<1>2. WireShape'
  BY <1>1, TakenShape DEF Arrive
<1>3. wire[s][i] \in OnWire(Len(pushed[Other(s)]))
  BY DEF WireShape
<1>4. CASE wire[s][i] = CloseRequest
  BY <1>1, <1>2, <1>4 DEF ArriveCloseRequest, FirstStep, recvFlowVars
<1>5. CASE wire[s][i] # CloseRequest
  <2>1. wire[s][i].seq \in 1 .. Len(pushed[Other(s)])
    BY <1>3, <1>5 DEF OnWire
  <2> QED
    BY <1>1, <1>2, <1>5, <2>1 DEF ArriveData, recvFlowVars
<1> QED
  BY <1>4, <1>5

LEMMA WireStep == ASSUME IInv, [StreamNext]_streamVars PROVE WireShape'
<1> USE DEF IInv
<1>1. ASSUME NEW s \in Side, NEW x \in Body, Push(s, x) PROVE WireShape'
  BY <1>1, PushWire
<1>2. ASSUME NEW s \in Side, Arrive(s) PROVE WireShape'
  BY <1>2, Arrives
<1>3. ASSUME NEW s \in Side, Lose(s) PROVE WireShape'
  BY <1>3, TakenShape DEF Lose
<1>4. ASSUME NEW s \in Side, NEW g \in Goroutine, CloseSession(s, g) PROVE WireShape'
  <2>1. pushed' = pushed
    BY <1>4 DEF CloseSession
  <2>2. CASE wire' = wire
    BY <2>1, <2>2 DEF WireShape
  <2>3. CASE wire' = [wire EXCEPT ![Other(s)] = Append(@, CloseRequest)]
    <3> DEFINE o == Other(s)
    <3>1. CloseRequest \in OnWire(Len(pushed[Other(o)]))
      BY DEF OnWire
    <3>2. Append(wire[o], CloseRequest) \in Seq(OnWire(Len(pushed[Other(o)])))
      BY <3>1, Sides, AppendProperties DEF WireShape
    <3>3. wire' = [wire EXCEPT ![o] = Append(wire[o], CloseRequest)]
      BY <2>3
    <3> QED
      BY <2>1, <3>2, <3>3, Sides DEF WireShape
  <2> QED
    BY <1>4, <2>2, <2>3 DEF CloseSession
<1>5. CASE wire' = wire /\ pushed' = pushed
  BY <1>5 DEF WireShape
<1>6. \/ wire' = wire /\ pushed' = pushed
      \/ \E s \in Side : Arrive(s) \/ Lose(s) \/ \E g \in Goroutine : CloseSession(s, g)
      \/ \E s \in Side, x \in Body : Push(s, x)
  <2>1. Step
    BY Steps
  <2>2. \/ wire' = wire /\ pushed' = pushed
        \/ \E s \in Side : Arrive(s) \/ Lose(s) \/ \E g \in Goroutine : CloseSession(s, g)
        \/ Open \/ ClientCommand \/ \E s \in Side : LoopReplies(s) \/ AppSends(s)
    BY <2>1 DEF Step, SideStep, Opened, OpenTimesOut, LoopTop, LoopTakes, LoopReturns, LoopActs,
         LoopTellsEvent, LoopDelivers, LoopEnds, AppReceives, AppCloses, CloseChannel,
         streamVars
  <2>3. ASSUME Open \/ ClientCommand \/ \E s \in Side : LoopReplies(s) \/ AppSends(s)
        PROVE  (wire' = wire /\ pushed' = pushed) \/ \E s \in Side, x \in Body : Push(s, x)
    <3>1. ASSUME NEW s \in Side, AppSends(s)
          PROVE  (wire' = wire /\ pushed' = pushed) \/ \E x \in Body : Push(s, x)
      <4>1. ASSUME NetStream(s) PROVE \E x \in Body : Push(s, x)
        <5>1. Payload[Len(sent[s]) + 1] \in Body
          <6>1. Len(sent[s]) + 1 \in 1 .. Len(Payload)
            BY <3>1, StreamAssumption DEF AppSends, Shapes
          <6> QED
            BY <6>1, DataBodies
        <5> QED
          BY <3>1, <4>1, <5>1 DEF AppSends
      <4> QED
        BY <3>1, <4>1 DEF AppSends
    <3>2. ASSUME NEW s \in Side, LoopReplies(s) PROVE \E x \in Body : Push(s, x)
      BY <3>2, DataBodies DEF LoopReplies, Commands
    <3>3. ASSUME Open \/ ClientCommand PROVE \E x \in Body : Push("active", x)
      BY <3>3, DataBodies DEF Open, ClientCommand, Commands
    <3> QED
      BY <2>3, <3>1, <3>2, <3>3, Sides
  <2> QED
    BY <2>2, <2>3
<1> QED
  BY <1>1, <1>2, <1>3, <1>4, <1>5, <1>6

(***************************************************************************)
(* What has arrived and what is read.                                      *)
(***************************************************************************)
LEMMA AfterMessage ==
  ASSUME NEW s, NEW x \in Body
  PROVE  /\ After(s, x) \in {"top", "event", "deliver", "closing"}
         /\ After(s, x) = "deliver" <=> x \in Data
         /\ After(s, x) = "event" => x \in {"play", "start"}
  BY DataBodies DEF After, Commands

\* A message is taken: the next that has arrived.
LEMMA Takes ==
  ASSUME Shapes, ReadArrived, NEW s \in Side, LoopTakes(s)
  PROVE  /\ read' = [read EXCEPT ![s] = @ + 1] /\ loop' = [loop EXCEPT ![s] = "taken"]
         /\ read[s] + 1 \in arrived[s]
         /\ read[s] + 1 \in 1 .. Len(pushed[Other(s)])
         /\ pushed[Other(s)][read[s] + 1] \in Body
<1>1. read[s] + 1 \in arrived[s]
  BY DEF LoopTakes
<1>2. read[s] + 1 \in 1 .. Len(pushed[Other(s)])
  BY <1>1 DEF ReadArrived, ReadArrivedAt
<1>3. pushed[Other(s)][read[s] + 1] \in Body
  <2>1. pushed[Other(s)] \in Seq(Body)
    BY Sides DEF Shapes
  <2> QED
    BY <1>2, <2>1
<1> QED
  BY <1>1, <1>2, <1>3 DEF LoopTakes

\* The message in the dispatcher's hand.
LEMMA InHandIs ==
  ASSUME Shapes, ReadArrived, NEW s \in Side, loop[s] \in Holding
  PROVE  /\ read[s] \in 1 .. Len(pushed[Other(s)]) /\ read[s] \in arrived[s]
         /\ Param(s) \in Body
<1>1. read[s] \in 1 .. Len(pushed[Other(s)]) /\ read[s] \in arrived[s]
  BY Sides DEF ReadArrived, ReadArrivedAt, Shapes
<1>2. pushed[Other(s)] \in Seq(Body)
  BY Sides DEF Shapes
<1> QED
  BY <1>1, <1>2 DEF Param

\* It is dropped, or acted upon.
LEMMA Acts ==
  ASSUME Shapes, ReadArrived, NEW s \in Side, LoopActs(s)
  PROVE  /\ loop[s] = "returned" /\ Param(s) \in Body
         /\ \/ s = "passive" /\ closed[s] /\ loop' = [loop EXCEPT ![s] = "dropped"]
            \/ loop' = [loop EXCEPT ![s] = After(s, Param(s))]
         /\ closing' = closing \/ closing' = [closing EXCEPT ![s]["stream"] = "channel"]
<1>1. loop[s] = "returned" /\ Param(s) \in Body
  BY InHandIs DEF LoopActs, Holding
<1> QED
  BY <1>1 DEF LoopActs, FirstStep

LEMMA ReadStep == ASSUME IInv, [StreamNext]_streamVars PROVE ReadArrived'
<1> USE DEF IInv
<1>0. \A t \in Side :
        /\ Len(pushed[Other(t)]) \in Nat /\ Len(pushed'[Other(t)]) \in Nat
        /\ Len(pushed[Other(t)]) <= Len(pushed'[Other(t)])
        /\ \A n \in 1 .. Len(pushed[Other(t)]) : pushed'[Other(t)][n] = pushed[Other(t)][n]
  BY PushedGrows, Sides
<1>1. ASSUME NEW s \in Side, Arrive(s) PROVE ReadArrived'
  <2>1. pushed' = pushed /\ read' = read
    BY <1>1 DEF Arrive
  <2>2. ASSUME NEW t \in Side PROVE arrived'[t] \subseteq 1 .. Len(pushed[Other(t)])
    <3>1. \/ arrived' = arrived
          \/ \E k \in 1 .. Len(pushed[Other(s)]) : arrived' = [arrived EXCEPT ![s] = @ \cup {k}]
      BY <1>1, Arrives
    <3>2. DOMAIN arrived = Side /\ arrived[t] \subseteq 1 .. Len(pushed[Other(t)])
      BY DEF ReadArrived, ReadArrivedAt, Shapes
    <3> QED
      BY <3>1, <3>2
  <2>3. ASSUME NEW t \in Side
        PROVE  /\ loop'[t] \in Holding => loop[t] \in Holding
               /\ loop'[t] = "deliver" => loop[t] = "deliver"
    <3>1. loop' = loop \/ loop' = [loop EXCEPT ![s] = "top"]
      BY <1>1, Arrives
    <3>2. DOMAIN loop = Side /\ "top" \notin Holding
      BY DEF Shapes, Holding
    <3> QED
      BY <3>1, <3>2
  <2>4. ASSUME NEW t \in Side PROVE arrived[t] \subseteq arrived'[t]
    <3>1. \/ arrived' = arrived
          \/ \E k \in 1 .. Len(pushed[Other(s)]) : arrived' = [arrived EXCEPT ![s] = @ \cup {k}]
      BY <1>1, Arrives
    <3>2. DOMAIN arrived = Side
      BY DEF Shapes
    <3> QED
      BY <3>1, <3>2
  <2> QED
    BY <2>1, <2>2, <2>3, <2>4 DEF ReadArrived, ReadArrivedAt, Param
<1>2. ASSUME NEW s \in Side, LoopTakes(s) PROVE ReadArrived'
  <2>1. pushed' = pushed /\ arrived' = arrived
    BY <1>2 DEF LoopTakes, recvFlowVars
  <2>2. ASSUME NEW t \in Side \ {s} PROVE read'[t] = read[t] /\ loop'[t] = loop[t]
    BY <1>2, Takes DEF Shapes
  <2>3. /\ read'[s] = read[s] + 1 /\ read[s] + 1 \in 1 .. Len(pushed[Other(s)])
        /\ read[s] + 1 \in arrived[s] /\ loop'[s] = "taken"
    BY <1>2, Takes DEF Shapes
  <2>4. ASSUME NEW t \in Side PROVE ReadArrivedAt(t)'
    <3>1. CASE t = s
      BY <2>1, <2>3, <3>1 DEF ReadArrived, ReadArrivedAt
    <3>2. CASE t # s
      BY <2>1, <2>2, <3>2 DEF ReadArrived, ReadArrivedAt, Param
    <3> QED
      BY <3>1, <3>2
  <2> QED
    BY <2>4 DEF ReadArrived, ReadArrivedAt
<1>3. ASSUME arrived' = arrived, read' = read,
             \A t \in Side : /\ loop'[t] \in Holding => loop[t] \in Holding
                             /\ loop'[t] = "deliver" => loop[t] \in Holding /\ Param(t) \in Data
      PROVE  ReadArrived'
  <2>1. \A t \in Side : read[t] \in Nat
    BY DEF Shapes
  <2>2. ASSUME NEW t \in Side PROVE ReadArrivedAt(t)'
    <3>1. loop[t] \in Holding => Param(t)' = Param(t)
      BY <1>0, <1>3, InHandIs DEF Param
    <3>2. /\ arrived'[t] \subseteq 1 .. Len(pushed'[Other(t)])
          /\ read'[t] <= Len(pushed'[Other(t)])
      BY <1>0, <1>3, <2>1 DEF ReadArrived, ReadArrivedAt
    <3> QED
      BY <1>3, <3>1, <3>2 DEF ReadArrived, ReadArrivedAt
  <2> QED
    BY <2>2 DEF ReadArrived, ReadArrivedAt
<1>4. ASSUME NEW s \in Side, LoopActs(s) PROVE ReadArrived'
  <2>1. arrived' = arrived /\ read' = read /\ DOMAIN loop = Side
    BY <1>4 DEF LoopActs, recvFlowVars, Shapes
  <2>2. /\ loop[s] = "returned" /\ Param(s) \in Body
        /\ loop' = [loop EXCEPT ![s] = "dropped"] \/ loop' = [loop EXCEPT ![s] = After(s, Param(s))]
    BY <1>4, Acts
  <2>3. loop'[s] = "deliver" => Param(s) \in Data
    BY <2>1, <2>2, AfterMessage
  <2>4. ASSUME NEW t \in Side \ {s} PROVE loop'[t] = loop[t]
    BY <2>1, <2>2
  <2>5. "returned" \in Holding /\ "deliver" \in Holding
    BY DEF Holding
  <2>6. ASSUME NEW t \in Side
        PROVE  /\ loop'[t] \in Holding => loop[t] \in Holding
               /\ loop'[t] = "deliver" => loop[t] \in Holding /\ Param(t) \in Data
    <3>1. CASE t = s
      BY <2>2, <2>3, <2>5, <3>1
    <3>2. CASE t # s
      BY <2>4, <2>5, <3>2 DEF ReadArrived, ReadArrivedAt
    <3> QED
      BY <3>1, <3>2
  <2> QED
    BY <1>3, <2>1, <2>6
<1>5. \/ /\ arrived' = arrived /\ read' = read
         /\ \A t \in Side : /\ loop'[t] \in Holding => loop[t] \in Holding
                            /\ loop'[t] = "deliver" => loop[t] = "deliver"
      \/ \E s \in Side : Arrive(s) \/ LoopTakes(s) \/ LoopActs(s)
  <2>1. Step
    BY Steps
  <2>2. ASSUME NEW s \in Side,
               LoopTop(s) \/ LoopReturns(s) \/ LoopReplies(s) \/ LoopTellsEvent(s)
                 \/ LoopDelivers(s) \/ LoopEnds(s)
        PROVE  /\ arrived' = arrived /\ read' = read
               /\ \A t \in Side : /\ loop'[t] \in Holding => loop[t] \in Holding
                                  /\ loop'[t] = "deliver" => loop[t] = "deliver"
    BY <2>2 DEF LoopTop, LoopReturns, LoopReplies, LoopTellsEvent, LoopDelivers, LoopEnds,
         recvFlowVars, Holding, Shapes
  <2>3. \/ arrived' = arrived /\ read' = read /\ loop' = loop
        \/ \E s \in Side : \/ Arrive(s) \/ LoopTakes(s) \/ LoopActs(s) \/ LoopTop(s) \/ LoopReturns(s)
                           \/ LoopReplies(s) \/ LoopTellsEvent(s) \/ LoopDelivers(s) \/ LoopEnds(s)
    BY <2>1 DEF Step, SideStep, Open, ClientCommand, Opened, OpenTimesOut, Lose, AppSends,
         AppReceives, AppCloses, CloseChannel, CloseSession, streamVars, recvFlowVars, loopVars
  <2> QED
    BY <2>2, <2>3
<1>6. "deliver" \in Holding
  BY DEF Holding
<1> QED
  <2>1. CASE /\ arrived' = arrived /\ read' = read
             /\ \A t \in Side : /\ loop'[t] \in Holding => loop[t] \in Holding
                                /\ loop'[t] = "deliver" => loop[t] = "deliver"
    BY <1>3, <1>6, <2>1 DEF ReadArrived, ReadArrivedAt
  <2> QED
    BY <1>1, <1>2, <1>4, <1>5, <2>1

(***************************************************************************)
(* The dispatchers and their halves of the flows.                          *)
(***************************************************************************)
LEMMA AttachedStep == ASSUME IInv, [StreamNext]_streamVars PROVE LoopAttached'
<1> USE DEF IInv
<1>1. ASSUME NEW s \in Side, Arrive(s) PROVE LoopAttached'
  <2>1. DOMAIN attached = Side /\ DOMAIN arrived = Side /\ DOMAIN loop = Side
    BY DEF Shapes
  <2>2. \/ UNCHANGED <<loop, attached, arrived>>
        \/ \E k \in 1 .. Len(pushed[Other(s)]) :
             /\ attached' = [attached EXCEPT ![s] = TRUE]
             /\ arrived' = [arrived EXCEPT ![s] = @ \cup {k}]
             /\ loop' = IF attached[s] THEN loop ELSE [loop EXCEPT ![s] = "top"]
    BY <1>1, Arrives
  <2> QED
    BY <2>1, <2>2 DEF LoopAttached
<1>2. CASE /\ attached' = attached /\ arrived' = arrived
           /\ \A t \in Side : loop'[t] # "none" => loop[t] # "none"
  BY <1>2 DEF LoopAttached
<1>3. \/ /\ attached' = attached /\ arrived' = arrived
         /\ \A t \in Side : loop'[t] # "none" => loop[t] # "none"
      \/ \E s \in Side : Arrive(s)
  <2>1. Step
    BY Steps
  <2> QED
    BY <2>1 DEF Step, SideStep, Open, ClientCommand, Opened, OpenTimesOut, Lose,
         LoopTop, LoopTakes, LoopReturns, LoopActs, LoopReplies, LoopTellsEvent, LoopDelivers,
         LoopEnds, AppSends,
         AppReceives, AppCloses, CloseChannel, CloseSession, streamVars, recvFlowVars,
         loopVars, Shapes
<1> QED
  BY <1>1, <1>2, <1>3

\* An attached side stays so, and what arrived has arrived.
LEMMA AttachedStays ==
  ASSUME Shapes, WireShape, [StreamNext]_streamVars, NEW t \in Side
  PROVE  (attached[t] => attached'[t]) /\ arrived[t] \subseteq arrived'[t]
<1>1. DOMAIN attached = Side /\ DOMAIN arrived = Side
  BY DEF Shapes
<1>2. ASSUME NEW s \in Side, Arrive(s)
      PROVE  (attached[t] => attached'[t]) /\ arrived[t] \subseteq arrived'[t]
  <2>1. \/ UNCHANGED <<attached, arrived>>
        \/ \E k \in 1 .. Len(pushed[Other(s)]) :
             /\ attached' = [attached EXCEPT ![s] = TRUE]
             /\ arrived' = [arrived EXCEPT ![s] = @ \cup {k}]
    BY <1>2, Arrives
  <2> QED
    BY <1>1, <2>1
<1>3. UNCHANGED <<attached, arrived>> \/ \E s \in Side : Arrive(s)
  <2>1. Step
    BY Steps
  <2> QED
    BY <2>1 DEF Step, SideStep, Open, ClientCommand, Opened, OpenTimesOut, Lose,
         LoopTop, LoopTakes, LoopReturns, LoopActs, LoopReplies, LoopTellsEvent, LoopDelivers,
         LoopEnds, AppSends,
         AppReceives, AppCloses, CloseChannel, CloseSession, streamVars, recvFlowVars
<1> QED
  BY <1>2, <1>3

(***************************************************************************)
(* Only the passive side answers, and only a play.                         *)
(***************************************************************************)
LEMMA AnswersStep == ASSUME IInv, [StreamNext]_streamVars PROVE PassiveAnswers'
<1> USE DEF IInv
<1>0. "passive" \in Side /\ "active" \in Side
  BY Sides
<1>1. \A n \in 1 .. Len(pushed'["passive"]) :
        /\ pushed'["passive"][n] \in Data \cup {"reset", "start"}
        /\ pushed'["passive"][n] = "start" => attached'["passive"]
  <2>1. attached["passive"] => attached'["passive"]
    BY <1>0, AttachedStays
  <2>2. CASE pushed'["passive"] = pushed["passive"]
    BY <2>1, <2>2 DEF PassiveAnswers
  <2>3. ASSUME NEW x \in Body, Pushes("passive", x)
        PROVE  \A n \in 1 .. Len(pushed'["passive"]) :
                 /\ pushed'["passive"][n] \in Data \cup {"reset", "start"}
                 /\ pushed'["passive"][n] = "start" => attached'["passive"]
    <3>1. /\ \A n \in 1 .. Len(pushed["passive"]) : pushed'["passive"][n] = pushed["passive"][n]
          /\ \A n \in 1 .. Len(pushed'["passive"]) :
               n \notin 1 .. Len(pushed["passive"]) => pushed'["passive"][n] = x
      BY <1>0, <2>3, PushGrows DEF Pushes
    <3>2. x \in Data \cup {"reset", "start"} /\ (x = "start" => attached["passive"])
      BY <2>3 DEF Pushes
    <3> QED
      BY <2>1, <3>1, <3>2 DEF PassiveAnswers
  <2>4. pushed'["passive"] = pushed["passive"] \/ \E x \in Body : Pushes("passive", x)
    <3>1. ASSUME NEW s \in Side, NEW x \in Body, Pushes(s, x), s # "passive"
          PROVE  pushed'["passive"] = pushed["passive"]
      BY <1>0, <3>1, PushGrows DEF Pushes
    <3> QED
      BY <3>1, Pushers
  <2> QED
    BY <2>2, <2>3, <2>4
<1>2. loop'["active"] \notin {"reset", "start"}
  <2>0. DOMAIN loop = Side
    BY DEF Shapes
  <2>1. ASSUME LoopReturns("active") PROVE loop'["active"] \in {"dropped", "returned"}
    <3>1. read["active"] \in 1 .. Len(pushed["passive"]) /\ Param("active") = pushed["passive"][read["active"]]
      BY <1>0, <2>1, InHandIs, Sides DEF LoopReturns, Holding, Param
    <3>2. Param("active") # "play"
      BY <3>1, DataBodies DEF PassiveAnswers, Commands
    <3> QED
      BY <2>0, <1>0, <2>1, <3>2 DEF LoopReturns
  <2>2. ASSUME NEW s \in Side, Arrive(s) PROVE loop'["active"] \in {loop["active"], "top"}
    <3>1. loop' = loop \/ loop' = [loop EXCEPT ![s] = "top"]
      BY <2>2, Arrives
    <3> QED
      BY <1>0, <2>0, <3>1
  <2>3. ASSUME NEW s \in Side, LoopActs(s)
        PROVE  loop'["active"] \in {loop["active"], "dropped", "top", "event", "deliver", "closing"}
    <3>1. /\ loop' = [loop EXCEPT ![s] = "dropped"] \/ loop' = [loop EXCEPT ![s] = After(s, Param(s))]
          /\ Param(s) \in Body
      BY <2>3, Acts
    <3> QED
      BY <1>0, <2>0, <3>1, AfterMessage
  <2>4. \/ loop'["active"] \in {loop["active"], "top", "recv", "taken", "returned", "ended"}
        \/ LoopReturns("active") \/ \E s \in Side : Arrive(s) \/ LoopActs(s)
    <3>1. Step
      BY Steps
    <3>2. ASSUME NEW s \in Side,
                 LoopTop(s) \/ LoopTakes(s) \/ (LoopReturns(s) /\ s # "active") \/ LoopReplies(s)
                   \/ LoopTellsEvent(s) \/ LoopDelivers(s) \/ LoopEnds(s)
          PROVE  loop'["active"] \in {loop["active"], "top", "recv", "taken", "returned", "ended"}
      BY <1>0, <2>0, <3>2 DEF PassiveAnswers, LoopTop, LoopTakes, LoopReturns, LoopReplies,
           LoopTellsEvent, LoopDelivers, LoopEnds
    <3>3. \/ loop' = loop
          \/ \E s \in Side : \/ Arrive(s) \/ LoopActs(s) \/ LoopTop(s) \/ LoopTakes(s) \/ LoopReturns(s)
                             \/ LoopReplies(s) \/ LoopTellsEvent(s) \/ LoopDelivers(s) \/ LoopEnds(s)
      BY <3>1 DEF Step, SideStep, Open, ClientCommand, Opened, OpenTimesOut, Lose,
           AppSends, AppReceives, AppCloses, CloseChannel, CloseSession, streamVars, loopVars
    <3> QED
      BY <3>2, <3>3
  <2> QED
    BY <2>1, <2>2, <2>3, <2>4 DEF PassiveAnswers
<1> QED
  BY <1>1, <1>2 DEF PassiveAnswers

(***************************************************************************)
(* The event that active_open waits for comes of a start that arrived.     *)
(***************************************************************************)
LEMMA AwaitedStep == ASSUME IInv, [StreamNext]_streamVars PROVE StartAwaited'
<1> USE DEF IInv
<1>0. "passive" \in Side /\ "active" \in Side /\ Other("active") = "passive"
  BY Sides
<1>1. StartArrived => StartArrived'
  <2>1. SUFFICES ASSUME NEW n \in arrived["active"], n \in 1 .. Len(pushed["passive"]),
                        pushed["passive"][n] = "start"
                 PROVE  StartArrived'
    BY DEF StartArrived
  <2>2. n \in arrived'["active"]
    BY <1>0, AttachedStays
  <2>3. n \in 1 .. Len(pushed'["passive"]) /\ pushed'["passive"][n] = "start"
    BY <1>0, <2>1, PushedGrows
  <2> QED
    BY <2>2, <2>3 DEF StartArrived
<1>2. ASSUME loop'["active"] = "event" \/ play_event'["active"] \/ opening' = "open",
             ~ (loop["active"] = "event" \/ play_event["active"] \/ opening = "open")
      PROVE  StartArrived'
  <2>0. DOMAIN loop = Side /\ DOMAIN play_event = Side
    BY DEF Shapes
  <2>1. ASSUME LoopActs("active"), loop'["active"] = "event" PROVE StartArrived'
    <3> DEFINE x == Param("active")
    <3>1. /\ loop' = [loop EXCEPT !["active"] = After("active", x)] /\ x \in Body
      BY <1>0, <2>0, <2>1, Acts
    <3>2. /\ read["active"] \in arrived["active"] /\ read["active"] \in 1 .. Len(pushed["passive"])
          /\ x = pushed["passive"][read["active"]]
      BY <1>0, <2>1, InHandIs, Sides DEF LoopActs, Holding, Param
    <3>3. After("active", x) = "event"
      BY <2>0, <2>1, <1>0, <3>1
    <3>4. x \in {"play", "start"}
      BY <3>1, <3>3, AfterMessage
    <3>5. x # "play"
      BY <3>2, DataBodies DEF PassiveAnswers, Commands
    <3>6. StartArrived
      BY <3>2, <3>4, <3>5 DEF StartArrived
    <3> QED
      BY <1>1, <3>6
  <2>2. ASSUME NEW s \in Side, Arrive(s) PROVE FALSE
    <3>1. loop' = loop \/ loop' = [loop EXCEPT ![s] = "top"]
      BY <2>2, Arrives
    <3>2. play_event' = play_event /\ opening' = opening
      BY <2>2 DEF Arrive
    <3> QED
      BY <1>0, <1>2, <2>0, <3>1, <3>2
  <2>3. LoopActs("active") \/ \E s \in Side : Arrive(s)
    <3>1. Step
      BY Steps
    <3>2. ASSUME NEW s \in Side,
                 LoopTop(s) \/ LoopTakes(s) \/ LoopReturns(s) \/ LoopReplies(s)
                   \/ (LoopActs(s) /\ s # "active")
                   \/ LoopTellsEvent(s) \/ LoopDelivers(s) \/ LoopEnds(s)
          PROVE  FALSE
      BY <1>0, <1>2, <2>0, <3>2 DEF PassiveAnswers, LoopTop, LoopTakes, LoopReturns, LoopReplies,
           LoopActs, LoopTellsEvent, LoopDelivers, LoopEnds
    <3>3. \/ UNCHANGED <<loop, play_event, opening>>
          \/ Open \/ Opened \/ OpenTimesOut
          \/ \E s \in Side : \/ Arrive(s) \/ LoopActs(s) \/ LoopTop(s) \/ LoopTakes(s) \/ LoopReturns(s)
                             \/ LoopReplies(s) \/ LoopTellsEvent(s) \/ LoopDelivers(s) \/ LoopEnds(s)
      BY <3>1 DEF Step, SideStep, ClientCommand, Lose, AppSends, AppReceives, AppCloses,
           CloseChannel, CloseSession, streamVars, loopVars
    <3>4. ~ (Open \/ Opened \/ OpenTimesOut)
      BY <1>2, <2>0 DEF Open, Opened, OpenTimesOut, loopVars
    <3> QED
      BY <1>2, <3>2, <3>3, <3>4
  <2>4. LoopActs("active") => loop'["active"] = "event"
    BY <1>2 DEF LoopActs
  <2> QED
    BY <2>1, <2>2, <2>3, <2>4
<1> QED
  BY <1>1, <1>2 DEF StartAwaited

(***************************************************************************)
(* Close, in its order.                                                    *)
(***************************************************************************)
LEMMA ArriveCloses ==
  ASSUME Shapes, WireShape, NEW s \in Side, Arrive(s)
  PROVE  closing' = closing \/ closing' = [closing EXCEPT ![s]["session"] = "channel"]
  BY Arrives

LEMMA CloseStep == ASSUME IInv, [StreamNext]_streamVars PROVE CloseInOrder'
<1> USE DEF IInv
<1>0. /\ closing \in [Side -> [Goroutine -> {"no", "channel", "session"}]]
      /\ DOMAIN closed = Side /\ DOMAIN chan_closed = Side /\ DOMAIN flows_closed = Side
  BY DEF Shapes
<1>1. ASSUME NEW s \in Side, NEW g \in Goroutine, CloseChannel(s, g) PROVE CloseInOrder'
  <2>1. CASE chan_closed[s]
    <3>1. /\ closed' = [closed EXCEPT ![s] = TRUE]
          /\ UNCHANGED <<chan_closed, closing, flows_closed>>
      BY <1>1, <2>1 DEF CloseChannel
    <3> QED
      BY <1>0, <3>1 DEF CloseInOrder
  <2>2. CASE ~ chan_closed[s]
    <3>1. /\ closed' = [closed EXCEPT ![s] = TRUE]
          /\ chan_closed' = [chan_closed EXCEPT ![s] = TRUE]
          /\ closing' = [closing EXCEPT ![s][g] = "session"]
          /\ flows_closed' = flows_closed
      BY <1>1, <2>2 DEF CloseChannel
    <3> QED
      BY <1>0, <3>1 DEF CloseInOrder
  <2> QED
    BY <2>1, <2>2
<1>2. ASSUME NEW s \in Side, NEW g \in Goroutine, CloseSession(s, g) PROVE CloseInOrder'
  <2>1. CASE NetStream(s)
    <3>1. /\ closing[s][g] = "session"
          /\ flows_closed' = [flows_closed EXCEPT ![s] = TRUE]
          /\ closing' = [closing EXCEPT ![s][g] = "no"]
          /\ UNCHANGED <<closed, chan_closed>>
      BY <1>2, <2>1 DEF CloseSession
    <3> QED
      BY <1>0, <3>1 DEF CloseInOrder
  <2>2. CASE ~ NetStream(s)
    BY <1>2, <2>2 DEF CloseSession, CloseInOrder
  <2> QED
    BY <2>1, <2>2
<1>3. ASSUME NEW s \in Side, NEW g \in Goroutine, UNCHANGED <<closed, chan_closed, flows_closed>>,
             closing' = [closing EXCEPT ![s][g] = "channel"]
      PROVE  CloseInOrder'
  BY <1>0, <1>3 DEF CloseInOrder
<1>4. CASE UNCHANGED closeVars
  BY <1>4 DEF CloseInOrder, closeVars
<1>5. \/ UNCHANGED closeVars
      \/ \E s \in Side, g \in Goroutine :
           \/ CloseChannel(s, g) \/ CloseSession(s, g)
           \/ /\ UNCHANGED <<closed, chan_closed, flows_closed>>
              /\ closing' = [closing EXCEPT ![s][g] = "channel"]
  <2>1. \A g \in {"app", "session", "stream"} : g \in Goroutine
    BY DEF Goroutine
  <2>2. ASSUME NEW s \in Side, Arrive(s)
        PROVE  /\ UNCHANGED <<closed, chan_closed, flows_closed>>
               /\ closing' = closing \/ closing' = [closing EXCEPT ![s]["session"] = "channel"]
    BY <2>2, ArriveCloses DEF Arrive
  <2>3. ASSUME NEW s \in Side, LoopActs(s)
        PROVE  /\ UNCHANGED <<closed, chan_closed, flows_closed>>
               /\ closing' = closing \/ closing' = [closing EXCEPT ![s]["stream"] = "channel"]
    BY <2>3, Acts DEF LoopActs
  <2>4. ASSUME NEW s \in Side, AppCloses(s)
        PROVE  /\ UNCHANGED <<closed, chan_closed, flows_closed>>
               /\ closing' = [closing EXCEPT ![s]["app"] = "channel"]
    BY <2>4 DEF AppCloses, FirstStep
  <2>5. \/ UNCHANGED closeVars
        \/ \E s \in Side : Arrive(s) \/ LoopActs(s) \/ AppCloses(s)
        \/ \E s \in Side, g \in Goroutine : CloseChannel(s, g) \/ CloseSession(s, g)
    <3>1. Step
      BY Steps
    <3> QED
      BY <3>1 DEF Step, SideStep, Open, ClientCommand, Opened, OpenTimesOut, Lose, LoopTop,
           LoopTakes, LoopReturns, LoopReplies, LoopTellsEvent, LoopDelivers, LoopEnds,
           AppSends, AppReceives, streamVars, closeVars
  <2> QED
    BY <2>1, <2>2, <2>3, <2>4, <2>5 DEF closeVars
<1> QED
  BY <1>1, <1>2, <1>3, <1>4, <1>5

(***************************************************************************)
(* The flow of an application's data.                                      *)
(***************************************************************************)
LEMMA SentStep == ASSUME IInv, [StreamNext]_streamVars PROVE SentPushed'
<1> USE DEF IInv
<1>1. CASE pushed' = pushed /\ sent' = sent
  <2>1. ASSUME NEW t \in Side PROVE Lists(sent'[t], DataPushed(t)', pushed'[t])
    <3>1. DataPushed(t)' = DataPushed(t)
      BY <1>1 DEF DataPushed
    <3> QED
      BY <1>1, <3>1 DEF SentPushed
  <2> QED
    BY <2>1 DEF SentPushed
<1>2. ASSUME NEW s \in Side, NEW x \in Body, Pushes(s, x) PROVE SentPushed'
  <2>1. /\ \A t \in Side \ {s} : pushed'[t] = pushed[t]
        /\ flows_closed[s] => pushed' = pushed
        /\ ~ flows_closed[s] => Len(pushed'[s]) = Len(pushed[s]) + 1 /\ pushed'[s][Len(pushed[s]) + 1] = x
        /\ \A n \in 1 .. Len(pushed[s]) : pushed'[s][n] = pushed[s][n]
    BY <1>2, PushGrows DEF Pushes
  <2>2. \A t \in Side : Len(pushed[t]) \in Nat /\ sent[t] \in Seq(Data)
    BY DEF Shapes
  <2>3. \A t \in Side : DataPushed(t) \subseteq 1 .. Len(pushed[t])
    BY DEF DataPushed
  <2>4. ASSUME NEW t \in Side \ {s} PROVE Lists(sent'[t], DataPushed(t)', pushed'[t])
    <3>1. sent'[t] = sent[t]
      BY <1>2 DEF Pushes, Shapes
    <3> QED
      BY <2>1, <3>1 DEF SentPushed, DataPushed
  <2>5. CASE x \notin Data
    <3>1. sent' = sent /\ DataPushed(s)' = DataPushed(s)
      BY <1>2, <2>1, <2>2, <2>5 DEF Pushes, DataPushed
    <3>2. Lists(sent[s], DataPushed(s), pushed'[s])
      BY <2>1, <2>3, ListsSame DEF SentPushed
    <3> QED
      BY <2>4, <3>1, <3>2 DEF SentPushed
  <2>6. CASE x \in Data
    <3>1. ~ flows_closed[s] /\ sent'[s] = Append(sent[s], x)
      BY <1>2, <2>6 DEF Pushes, Shapes
    <3>2. DataPushed(s)' = DataPushed(s) \cup {Len(pushed[s]) + 1}
      BY <2>1, <2>2, <2>6, <3>1, SMTT(30) DEF DataPushed
    <3>3. Lists(sent[s], DataPushed(s), pushed[s])
      BY DEF SentPushed
    <3>4. \A n \in DataPushed(s) : pushed[s][n] = pushed'[s][n]
      BY <2>1, <2>3
    <3>5. Lists(Append(sent[s], x), DataPushed(s) \cup {Len(pushed[s]) + 1}, pushed'[s])
      <4> DEFINE q == sent[s]
                 D == DataPushed(s)
                 b == Len(pushed[s])
                 f == pushed[s]
                 g == pushed'[s]
      <4>1. /\ q \in Seq(Data) /\ x \in Data /\ b \in Nat /\ D \subseteq 1 .. b
            /\ Lists(q, D, f) /\ (\A n \in D : f[n] = g[n])
            /\ b + 1 \in Nat /\ b + 1 > b /\ g[b + 1] = x
        BY <2>1, <2>2, <2>3, <2>6, <3>1, <3>3, <3>4
      <4> HIDE DEF q, D, b, f, g
      <4>2. Lists(Append(q, x), D \cup {b + 1}, g)
        BY <4>1, ListsMore
      <4> QED
        BY <4>2 DEF q, D, b, g
    <3> QED
      BY <2>4, <3>1, <3>2, <3>5 DEF SentPushed
  <2> QED
    BY <2>5, <2>6
<1> QED
  BY <1>1, <1>2, Pushers

(***************************************************************************)
(* Sequences that a message moves between.                                 *)
(***************************************************************************)
LEMMA ConcatNone == ASSUME NEW S, NEW q \in Seq(S) PROVE q \o <<>> = q
  BY ConcatProperties, SeqEqual

LEMMA ConcatOne == ASSUME NEW S, NEW q \in Seq(S), NEW x \in S PROVE q \o <<x>> = Append(q, x)
<1>1. /\ Append(q, x) \in Seq(S) /\ Len(Append(q, x)) = Len(q) + 1
      /\ \A i \in 1 .. Len(q) : Append(q, x)[i] = q[i]
      /\ Append(q, x)[Len(q) + 1] = x
  BY AppendProperties
<1>2. <<x>> \in Seq(S) /\ Len(<<x>>) = 1 /\ <<x>>[1] = x
  OBVIOUS
<1>3. /\ q \o <<x>> \in Seq(S) /\ Len(q \o <<x>>) = Len(q) + 1
      /\ \A i \in 1 .. Len(q) + 1 :
           (q \o <<x>>)[i] = IF i <= Len(q) THEN q[i] ELSE <<x>>[i - Len(q)]
  BY <1>2, ConcatProperties
<1>4. ASSUME NEW i \in 1 .. Len(q) + 1 PROVE (q \o <<x>>)[i] = Append(q, x)[i]
  BY <1>1, <1>2, <1>3
<1> QED
  BY <1>1, <1>3, <1>4, SeqEqual

LEMMA ConcatAppend ==
  ASSUME NEW S, NEW q \in Seq(S), NEW r \in Seq(S), NEW x \in S
  PROVE  q \o Append(r, x) = Append(q \o r, x)
<1>1. /\ Append(r, x) \in Seq(S) /\ Len(Append(r, x)) = Len(r) + 1
      /\ \A i \in 1 .. Len(r) : Append(r, x)[i] = r[i]
      /\ Append(r, x)[Len(r) + 1] = x
  BY AppendProperties
<1>2. /\ q \o r \in Seq(S) /\ Len(q \o r) = Len(q) + Len(r)
      /\ \A i \in 1 .. Len(q) + Len(r) :
           (q \o r)[i] = IF i <= Len(q) THEN q[i] ELSE r[i - Len(q)]
  BY ConcatProperties
<1>3. /\ q \o Append(r, x) \in Seq(S) /\ Len(q \o Append(r, x)) = Len(q) + Len(r) + 1
      /\ \A i \in 1 .. Len(q) + Len(r) + 1 :
           (q \o Append(r, x))[i] = IF i <= Len(q) THEN q[i] ELSE Append(r, x)[i - Len(q)]
  <2> DEFINE b == Append(r, x)
  <2>1. b \in Seq(S) /\ Len(b) = Len(r) + 1
    BY <1>1
  <2> HIDE DEF b
  <2>2. /\ q \o b \in Seq(S) /\ Len(q \o b) = Len(q) + Len(b)
        /\ \A i \in 1 .. Len(q) + Len(b) :
             (q \o b)[i] = IF i <= Len(q) THEN q[i] ELSE b[i - Len(q)]
    BY <2>1, ConcatProperties
  <2>3. Len(q) + Len(b) = Len(q) + Len(r) + 1
    BY <2>1
  <2> QED
    BY <2>2, <2>3 DEF b
<1>4. /\ Append(q \o r, x) \in Seq(S) /\ Len(Append(q \o r, x)) = Len(q) + Len(r) + 1
      /\ \A i \in 1 .. Len(q) + Len(r) : Append(q \o r, x)[i] = (q \o r)[i]
      /\ Append(q \o r, x)[Len(q) + Len(r) + 1] = x
  BY <1>2, AppendProperties
<1>5. ASSUME NEW i \in 1 .. Len(q) + Len(r) + 1
      PROVE  (q \o Append(r, x))[i] = Append(q \o r, x)[i]
  <2>1. Len(q) \in Nat /\ Len(r) \in Nat
    OBVIOUS
  <2>2. CASE i <= Len(q)
    BY <1>2, <1>3, <1>4, <2>1, <2>2
  <2>3. CASE i > Len(q) /\ i <= Len(q) + Len(r)
    <3>1. i - Len(q) \in 1 .. Len(r)
      BY <2>1, <2>3
    <3> QED
      BY <1>1, <1>2, <1>3, <1>4, <2>1, <2>3, <3>1
  <2>4. CASE i = Len(q) + Len(r) + 1
    <3>1. i - Len(q) = Len(r) + 1 /\ ~ (i <= Len(q))
      BY <2>1, <2>4
    <3> QED
      BY <1>1, <1>3, <1>4, <2>4, <3>1
  <2> QED
    BY <2>1, <2>2, <2>3, <2>4
<1> QED
  BY <1>3, <1>4, <1>5, SeqEqual

LEMMA MoveHead ==
  ASSUME NEW S, NEW q \in Seq(S), NEW r \in Seq(S), r # <<>>
  PROVE  Append(q, Head(r)) \o Tail(r) = q \o r
<1>1. /\ Head(r) \in S /\ Head(r) = r[1] /\ Tail(r) \in Seq(S) /\ Len(Tail(r)) = Len(r) - 1
      /\ \A i \in 1 .. Len(Tail(r)) : Tail(r)[i] = r[i + 1]
  BY HeadTailProperties
<1>2. /\ Append(q, Head(r)) \in Seq(S) /\ Len(Append(q, Head(r))) = Len(q) + 1
      /\ \A i \in 1 .. Len(q) : Append(q, Head(r))[i] = q[i]
      /\ Append(q, Head(r))[Len(q) + 1] = r[1]
  BY <1>1, AppendProperties
<1>3. /\ q \o r \in Seq(S) /\ Len(q \o r) = Len(q) + Len(r)
      /\ \A i \in 1 .. Len(q) + Len(r) :
           (q \o r)[i] = IF i <= Len(q) THEN q[i] ELSE r[i - Len(q)]
  BY ConcatProperties
<1> DEFINE a == Append(q, Head(r))
           b == Tail(r)
<1>4. a \in Seq(S) /\ b \in Seq(S) /\ Len(a) = Len(q) + 1 /\ Len(b) = Len(r) - 1
  BY <1>1, <1>2
<1>5. /\ a \o b \in Seq(S) /\ Len(a \o b) = Len(a) + Len(b)
      /\ \A i \in 1 .. Len(a) + Len(b) :
           (a \o b)[i] = IF i <= Len(a) THEN a[i] ELSE b[i - Len(a)]
  BY <1>4, ConcatProperties
<1>6. ASSUME NEW i \in 1 .. Len(q) + Len(r) PROVE (a \o b)[i] = (q \o r)[i]
  <2>1. Len(q) \in Nat /\ Len(r) \in Nat /\ i \in 1 .. Len(a) + Len(b)
    BY <1>4
  <2>2. CASE i <= Len(q)
    BY <1>2, <1>3, <1>4, <1>5, <2>1, <2>2
  <2>3. CASE i = Len(q) + 1
    <3>1. i <= Len(a) /\ ~ (i <= Len(q)) /\ i - Len(q) = 1
      BY <1>4, <2>1, <2>3
    <3> QED
      BY <1>2, <1>3, <1>5, <2>1, <2>3, <3>1
  <2>4. CASE i > Len(q) + 1
    <3>1. /\ ~ (i <= Len(a)) /\ ~ (i <= Len(q))
          /\ i - Len(a) \in 1 .. Len(b) /\ (i - Len(a)) + 1 = i - Len(q)
      BY <1>4, <2>1, <2>4
    <3> QED
      BY <1>1, <1>3, <1>5, <2>1, <3>1
  <2> QED
    BY <2>1, <2>2, <2>3, <2>4
<1>7. Len(a \o b) = Len(q \o r)
  BY <1>3, <1>4, <1>5
<1> QED
  BY <1>3, <1>5, <1>6, <1>7, SeqEqual

(***************************************************************************)
(* What the dispatcher of a stream has taken for the application.          *)
(***************************************************************************)
LEMMA KeptShape ==
  ASSUME Shapes, ReadArrived, NEW s \in Side
  PROVE  /\ got[s] \o received_msgs[s] \in Seq(Data)
         /\ Kept(s) \in Seq(Data)
         /\ ~ (loop[s] \in Holding /\ Param(s) \in Data) => Kept(s) = got[s] \o received_msgs[s]
         /\ loop[s] \in Holding /\ Param(s) \in Data =>
              Kept(s) = Append(got[s] \o received_msgs[s], Param(s))
<1>1. got[s] \o received_msgs[s] \in Seq(Data)
  BY ConcatProperties DEF Shapes
<1>2. CASE ~ (loop[s] \in Holding /\ Param(s) \in Data)
  BY <1>1, <1>2, ConcatNone DEF Kept, InHand
<1>3. CASE loop[s] \in Holding /\ Param(s) \in Data
  <2>1. Kept(s) = Append(got[s] \o received_msgs[s], Param(s))
    BY <1>1, <1>3, ConcatOne DEF Kept, InHand
  <2>2. Append(got[s] \o received_msgs[s], Param(s)) \in Seq(Data)
    BY <1>1, <1>3, AppendProperties
  <2> QED
    BY <1>1, <1>3, <2>1, <2>2
<1> QED
  BY <1>2, <1>3, <1>1

\* The places of the messages kept.
KeptPlaces(s) == DataTaken(s) \ LastDropped(s)

\* The dispatcher takes a message and has it in its hand, it drops that one, or
\* nothing changes.
TakesData(s) ==
  LET x == pushed[Other(s)][read[s] + 1]
  IN  /\ x \in Data
      /\ read[s] + 1 \in 1 .. Len(pushed[Other(s)])
      /\ Kept(s)' = Append(Kept(s), x)
      /\ LastDropped(s) = {} /\ KeptPlaces(s)' = DataTaken(s) \cup {read[s] + 1}
      /\ pushed' = pushed /\ sent' = sent

DropsData(s) ==
  /\ Param(s) \in Data /\ read[s] \in DataTaken(s)
  /\ Kept(s)' \in Seq(Data) /\ Kept(s) = Append(Kept(s)', Param(s))
  /\ LastDropped(s) = {} /\ KeptPlaces(s)' = DataTaken(s) \ {read[s]}
  /\ pushed' = pushed /\ sent' = sent

KeptChanges(s) ==
  \/ Kept(s)' = Kept(s) /\ KeptPlaces(s)' = KeptPlaces(s)
  \/ TakesData(s)
  \/ DropsData(s)

LEMMA TakenGrows ==
  ASSUME IInv, [StreamNext]_streamVars, NEW s \in Side, read'[s] = read[s]
  PROVE  /\ DataTaken(s)' = DataTaken(s)
         /\ loop[s] \in Holding => Param(s)' = Param(s)
<1>1. \A n \in 1 .. Len(pushed[Other(s)]) : pushed'[Other(s)][n] = pushed[Other(s)][n]
  BY PushedGrows, Sides DEF IInv
<1>2. read[s] <= Len(pushed[Other(s)]) /\ read[s] \in Nat /\ Len(pushed[Other(s)]) \in Nat
  BY Sides DEF IInv, ReadArrived, ReadArrivedAt, Shapes
<1>3. \A n \in 1 .. read[s] : pushed'[Other(s)][n] = pushed[Other(s)][n]
  BY <1>1, <1>2
<1>4. loop[s] \in Holding => read[s] > 0
  BY DEF IInv, ReadArrived, ReadArrivedAt
<1> QED
  BY <1>2, <1>3, <1>4 DEF DataTaken, Param

\* A step that leaves the sequences of s alone.
Still(s) ==
  /\ read'[s] = read[s] /\ got'[s] = got[s] /\ received_msgs'[s] = received_msgs[s]
  /\ loop'[s] \in Holding <=> loop[s] \in Holding
  /\ loop'[s] = "dropped" <=> loop[s] = "dropped"

Drops(s) ==
  /\ loop[s] \in {"taken", "returned"} /\ loop'[s] = "dropped" /\ read' = read
  /\ UNCHANGED <<pushed, sent, got, received_msgs>>

LEMMA TakesKept ==
  ASSUME IInv, [StreamNext]_streamVars, NEW s \in Side, LoopTakes(s)
  PROVE  KeptChanges(s)
<1> USE DEF IInv
<1> DEFINE x == pushed[Other(s)][read[s] + 1]
<1>0. read[s] \in Nat /\ Shapes /\ ReadArrived
  BY DEF Shapes
<1>1. /\ read'[s] = read[s] + 1 /\ loop'[s] = "taken" /\ loop[s] = "recv"
      /\ read[s] + 1 \in 1 .. Len(pushed[Other(s)]) /\ x \in Body
      /\ UNCHANGED <<pushed, sent, got, received_msgs>>
  BY Takes DEF LoopTakes, Shapes
<1>2. /\ "taken" \in Holding /\ "recv" \notin Holding /\ Param(s)' = x
      /\ LastDropped(s) = {} /\ LastDropped(s)' = {}
  BY <1>1 DEF Holding, Param, LastDropped
<1>3. Kept(s) = got[s] \o received_msgs[s] /\ Kept(s) \in Seq(Data)
  BY <1>0, <1>1, <1>2, KeptShape
<1>4. CASE x \in Data
  <2>1. InHand(s)' = <<x>>
    BY <1>1, <1>2, <1>4 DEF InHand
  <2>2. Kept(s)' = Kept(s) \o <<x>>
    BY <1>1, <1>3, <2>1 DEF Kept
  <2>3. Kept(s)' = Append(Kept(s), x)
    BY <1>3, <1>4, <2>2, ConcatOne
  <2>4. DataTaken(s)' = DataTaken(s) \cup {read[s] + 1}
    BY <1>0, <1>1, <1>4 DEF DataTaken
  <2> QED
    BY <1>1, <1>2, <1>4, <2>3, <2>4 DEF KeptChanges, TakesData, KeptPlaces
<1>5. CASE x \notin Data
  <2>1. Kept(s)' = (got[s] \o received_msgs[s]) \o <<>>
    BY <1>1, <1>2, <1>5 DEF Kept, InHand
  <2>2. Kept(s)' = Kept(s)
    BY <1>3, <2>1, ConcatNone
  <2>3. DataTaken(s)' = DataTaken(s)
    BY <1>0, <1>1, <1>5 DEF DataTaken
  <2> QED
    BY <1>2, <2>2, <2>3 DEF KeptChanges, KeptPlaces
<1> QED
  BY <1>4, <1>5

LEMMA DropsKept ==
  ASSUME IInv, [StreamNext]_streamVars, NEW s \in Side, Drops(s)
  PROVE  KeptChanges(s)
<1> USE DEF IInv
<1>0. Shapes /\ ReadArrived
  OBVIOUS
<1>1. /\ loop[s] \in Holding /\ "dropped" \notin Holding
      /\ LastDropped(s) = {} /\ LastDropped(s)' = {read[s]}
  BY DEF Drops, Holding, LastDropped
<1>2. /\ got[s] \o received_msgs[s] \in Seq(Data)
      /\ Param(s) \notin Data => Kept(s) = got[s] \o received_msgs[s]
      /\ Param(s) \in Data => Kept(s) = Append(got[s] \o received_msgs[s], Param(s))
  BY <1>0, <1>1, KeptShape
<1>3. Kept(s)' = got[s] \o received_msgs[s]
  <2>1. Kept(s)' = (got[s] \o received_msgs[s]) \o <<>>
    BY <1>1 DEF Drops, Kept, InHand
  <2> QED
    BY <1>2, <2>1, ConcatNone
<1>4. DataTaken(s)' = DataTaken(s)
  BY TakenGrows DEF Drops
<1>5. read[s] \in DataTaken(s) <=> Param(s) \in Data
  <2>1. read[s] \in 1 .. read[s]
    BY <1>1 DEF ReadArrived, ReadArrivedAt, Shapes
  <2> QED
    BY <2>1 DEF DataTaken, Param
<1>6. CASE Param(s) \in Data
  BY <1>1, <1>2, <1>3, <1>4, <1>5, <1>6 DEF KeptChanges, DropsData, KeptPlaces, Drops
<1>7. CASE Param(s) \notin Data
  <2>1. KeptPlaces(s)' = DataTaken(s) \ {read[s]} /\ KeptPlaces(s) = DataTaken(s)
    BY <1>1, <1>4 DEF KeptPlaces
  <2>2. KeptPlaces(s)' = KeptPlaces(s)
    BY <1>5, <1>7, <2>1
  <2> QED
    BY <1>2, <1>3, <1>7, <2>2 DEF KeptChanges
<1> QED
  BY <1>6, <1>7

LEMMA StillKept ==
  ASSUME IInv, [StreamNext]_streamVars, NEW s \in Side, Still(s)
  PROVE  KeptChanges(s)
<1>1. DataTaken(s)' = DataTaken(s) /\ (loop[s] \in Holding => Param(s)' = Param(s))
  BY TakenGrows DEF Still
<1>2. Kept(s)' = Kept(s)
  BY <1>1 DEF Still, Kept, InHand
<1>3. LastDropped(s)' = LastDropped(s)
  BY DEF Still, LastDropped
<1> QED
  BY <1>1, <1>2, <1>3 DEF KeptChanges, KeptPlaces

LEMMA ActsKept ==
  ASSUME IInv, [StreamNext]_streamVars, NEW s \in Side, LoopActs(s)
  PROVE  KeptChanges(s)
<1> USE DEF IInv
<1>0. Shapes /\ ReadArrived /\ DOMAIN loop = Side
  BY DEF Shapes
<1>1. /\ loop[s] = "returned" /\ Param(s) \in Body
      /\ UNCHANGED <<read, pushed, sent, got, received_msgs>>
  BY <1>0, Acts DEF LoopActs
<1>2. CASE loop'[s] = "dropped"
  BY <1>1, <1>2, DropsKept DEF Drops
<1>3. CASE loop'[s] # "dropped"
  <2>1. loop'[s] = After(s, Param(s))
    BY <1>0, <1>3, Acts
  <2>2. loop'[s] \in {"top", "event", "closing", "deliver"} /\ (loop'[s] = "deliver" <=> Param(s) \in Data)
    BY <1>1, <2>1, AfterMessage
  <2>3. CASE Param(s) \in Data
    BY <1>1, <1>3, <2>2, <2>3, StillKept DEF Still, Holding
  <2>4. CASE Param(s) \notin Data
    <3>1. Param(s)' = Param(s) /\ DataTaken(s)' = DataTaken(s)
      BY <1>1 DEF Param, DataTaken
    <3>2. Kept(s)' = Kept(s)
      BY <1>1, <2>4, <3>1 DEF Kept, InHand
    <3>3. LastDropped(s)' = {} /\ LastDropped(s) = {}
      BY <1>1, <1>3 DEF LastDropped
    <3> QED
      BY <3>1, <3>2, <3>3 DEF KeptChanges, KeptPlaces
  <2> QED
    BY <2>3, <2>4
<1> QED
  BY <1>2, <1>3

LEMMA KeptStep ==
  ASSUME IInv, [StreamNext]_streamVars, NEW s \in Side
  PROVE  KeptChanges(s)
<1> USE DEF IInv
<1>0. /\ Shapes /\ ReadArrived
      /\ DOMAIN loop = Side /\ DOMAIN read = Side /\ read[s] \in Nat
      /\ got[s] \in Seq(Data) /\ received_msgs[s] \in Seq(Data)
      /\ DOMAIN got = Side /\ DOMAIN received_msgs = Side
  BY DEF Shapes
<1>1. ASSUME LoopReturns(s) PROVE KeptChanges(s)
  <2>1. CASE loop'[s] = "dropped"
    BY <1>1, <2>1, DropsKept DEF LoopReturns, Drops
  <2>2. CASE loop'[s] # "dropped"
    BY <1>0, <1>1, <2>2, StillKept DEF LoopReturns, Still, Holding
  <2> QED
    BY <2>1, <2>2
<1>2. ASSUME LoopDelivers(s), ~ chan_closed[s] PROVE KeptChanges(s)
  <2>1. /\ loop[s] = "deliver" /\ loop'[s] = "top" /\ read' = read
        /\ got' = got /\ received_msgs'[s] = Append(received_msgs[s], Param(s))
    BY <1>0, <1>2 DEF LoopDelivers
  <2>2. Param(s) \in Data /\ Kept(s) = Append(got[s] \o received_msgs[s], Param(s)) /\ Kept(s) \in Seq(Data)
    BY <1>0, <2>1, KeptShape DEF Holding, ReadArrived, ReadArrivedAt
  <2>3. Kept(s)' = (got[s] \o Append(received_msgs[s], Param(s))) \o <<>>
    BY <2>1 DEF Kept, InHand, Holding
  <2>4. got[s] \o Append(received_msgs[s], Param(s)) = Kept(s)
    BY <1>0, <2>2, ConcatAppend
  <2>5. Kept(s)' = Kept(s)
    BY <2>2, <2>3, <2>4, ConcatNone
  <2>6. DataTaken(s)' = DataTaken(s) /\ LastDropped(s) = {} /\ LastDropped(s)' = {}
    BY <2>1, TakenGrows DEF LastDropped
  <2> QED
    BY <2>5, <2>6 DEF KeptChanges, KeptPlaces
<1>3. ASSUME AppReceives(s) PROVE KeptChanges(s)
  <2>1. /\ received_msgs[s] # <<>> /\ got'[s] = Append(got[s], Head(received_msgs[s]))
        /\ received_msgs'[s] = Tail(received_msgs[s])
        /\ UNCHANGED <<loop, read, pushed>>
    BY <1>0, <1>3 DEF AppReceives, loopVars
  <2>2. Append(got[s], Head(received_msgs[s])) \o Tail(received_msgs[s]) = got[s] \o received_msgs[s]
    BY <1>0, <2>1, MoveHead
  <2>3. InHand(s)' = InHand(s) /\ KeptPlaces(s)' = KeptPlaces(s)
    BY <2>1 DEF InHand, Param, DataTaken, LastDropped, KeptPlaces
  <2>4. Kept(s)' = Kept(s)
    BY <2>1, <2>2, <2>3 DEF Kept
  <2> QED
    BY <2>3, <2>4 DEF KeptChanges
<1>4. \/ Still(s)
      \/ LoopTakes(s) \/ LoopReturns(s) \/ LoopActs(s)
      \/ (LoopDelivers(s) /\ ~ chan_closed[s]) \/ AppReceives(s)
  <2>1. ASSUME NEW t \in Side, Arrive(t) PROVE Still(s)
    <3>1. loop' = loop \/ (~ attached[t] /\ loop' = [loop EXCEPT ![t] = "top"])
      BY <2>1, Arrives
    <3>2. ~ attached[t] => loop[t] = "none"
      BY DEF LoopAttached
    <3>3. read' = read /\ got' = got /\ received_msgs' = received_msgs
      BY <2>1 DEF Arrive
    <3> QED
      BY <1>0, <3>1, <3>2, <3>3 DEF Still, Holding
  <2>2. ASSUME NEW t \in Side, t # s,
               LoopTakes(t) \/ LoopReturns(t) \/ LoopActs(t) \/ (LoopDelivers(t) /\ ~ chan_closed[t])
                 \/ AppReceives(t)
        PROVE  Still(s)
    BY <1>0, <2>2 DEF LoopTakes, LoopReturns, LoopActs, LoopDelivers, AppReceives, loopVars, Still
  <2>3. ASSUME NEW t \in Side, LoopTop(t) \/ LoopReplies(t) \/ LoopTellsEvent(t) \/ LoopEnds(t)
        PROVE  Still(s)
    BY <1>0, <2>3 DEF LoopTop, LoopReplies, LoopTellsEvent, LoopEnds, Still, Holding
  <2>4. \/ UNCHANGED <<read, got, received_msgs, loop>>
        \/ \E t \in Side : \/ Arrive(t) \/ LoopTakes(t) \/ LoopReturns(t) \/ LoopActs(t)
                           \/ (LoopDelivers(t) /\ ~ chan_closed[t])
                           \/ AppReceives(t) \/ LoopTop(t)
                           \/ LoopReplies(t) \/ LoopTellsEvent(t) \/ LoopEnds(t)
    <3>1. Step
      BY Steps
    <3> QED
      BY <3>1 DEF Step, SideStep, Open, ClientCommand, Opened, OpenTimesOut, Lose,
           LoopDelivers, AppSends, AppCloses, CloseChannel, CloseSession, streamVars, loopVars
  <2>5. UNCHANGED <<read, got, received_msgs, loop>> => Still(s)
    BY DEF Still
  <2> QED
    BY <2>1, <2>2, <2>3, <2>4, <2>5
<1> HIDE DEF IInv
<1> QED
  BY <1>1, <1>2, <1>3, <1>4, TakesKept, ActsKept, StillKept

\* Only close() makes the dispatcher drop one.
LEMMA ClosedDrops ==
  ASSUME IInv, [StreamNext]_streamVars, NEW s \in Side, loop'[s] = "dropped"
  PROVE  closed'[s]
<1> USE DEF IInv
<1>0. DOMAIN loop = Side /\ DOMAIN closed = Side /\ (loop[s] = "dropped" => closed[s])
  BY DEF Shapes, OnlyLastDropped
<1>1. closed[s] => closed'[s]
  <2>1. closed' = closed \/ \E t \in Side : closed' = [closed EXCEPT ![t] = TRUE]
    <3>1. Step
      BY Steps
    <3> QED
      BY <3>1 DEF Step, SideStep, Open, ClientCommand, Opened, OpenTimesOut, Arrive, Lose, LoopTop,
           LoopTakes, LoopReturns, LoopReplies, LoopActs, LoopTellsEvent, LoopDelivers, LoopEnds,
           AppSends, AppReceives, AppCloses, CloseChannel, CloseSession, streamVars, closeVars
  <2> QED
    BY <1>0, <2>1
<1>2. loop[s] = "dropped" \/ LoopReturns(s) \/ LoopActs(s)
  <2>1. ASSUME NEW t \in Side, Arrive(t) PROVE loop'[s] \in {loop[s], "top"}
    <3>1. loop' = loop \/ loop' = [loop EXCEPT ![t] = "top"]
      BY <2>1, Arrives
    <3> QED
      BY <1>0, <3>1
  <2>2. ASSUME NEW t \in Side,
               LoopTop(t) \/ LoopTakes(t) \/ LoopReplies(t) \/ LoopTellsEvent(t) \/ LoopDelivers(t)
                 \/ LoopEnds(t) \/ (t # s /\ (LoopReturns(t) \/ LoopActs(t)))
        PROVE  loop'[s] = loop[s] \/ loop'[s] # "dropped"
    BY <1>0, <2>2 DEF LoopTop, LoopTakes, LoopReplies, LoopTellsEvent, LoopDelivers, LoopEnds,
         LoopReturns, LoopActs
  <2>3. \/ loop' = loop
        \/ \E t \in Side : \/ Arrive(t) \/ LoopActs(t) \/ LoopTop(t) \/ LoopTakes(t) \/ LoopReturns(t)
                           \/ LoopReplies(t) \/ LoopTellsEvent(t) \/ LoopDelivers(t) \/ LoopEnds(t)
    <3>1. Step
      BY Steps
    <3> QED
      BY <3>1 DEF Step, SideStep, Open, ClientCommand, Opened, OpenTimesOut, Lose,
           AppSends, AppReceives, AppCloses, CloseChannel, CloseSession, streamVars, loopVars
  <2> QED
    BY <2>1, <2>2, <2>3
<1>3. ASSUME LoopReturns(s) PROVE closed[s]
  <2>1. flows_closed[s]
    BY <1>0, <1>3 DEF LoopReturns
  <2> QED
    BY <2>1 DEF CloseInOrder
<1>4. ASSUME LoopActs(s) PROVE closed[s]
  <2>1. \/ s = "passive" /\ closed[s] /\ loop' = [loop EXCEPT ![s] = "dropped"]
        \/ loop' = [loop EXCEPT ![s] = After(s, Param(s))]
    BY <1>4, Acts
  <2>2. After(s, Param(s)) # "dropped"
    BY <1>4, Acts, AfterMessage
  <2> QED
    BY <1>0, <2>1, <2>2
<1> QED
  BY <1>0, <1>1, <1>2, <1>3, <1>4

LEMMA DroppedStep == ASSUME IInv, [StreamNext]_streamVars PROVE OnlyLastDropped'
<1> USE DEF IInv
<1>1. ASSUME NEW s \in Side PROVE Lists(Kept(s)', KeptPlaces(s)', pushed'[Other(s)])
  <2> DEFINE q == Kept(s)
             D == KeptPlaces(s)
             b == read[s]
             f == pushed[Other(s)]
             g == pushed'[Other(s)]
  <2>1. /\ q \in Seq(Data) /\ b \in Nat /\ b <= Len(pushed[Other(s)]) /\ D \subseteq 1 .. b
        /\ LastDropped(s) = {} => D = DataTaken(s)
    BY KeptShape DEF KeptPlaces, DataTaken, ReadArrived, ReadArrivedAt, Shapes
  <2>2. Lists(q, D, f)
    BY DEF OnlyLastDropped, KeptPlaces
  <2>3. \A n \in D : f[n] = g[n]
    <3>1. \A n \in 1 .. Len(pushed[Other(s)]) : f[n] = g[n]
      BY PushedGrows, Sides
    <3> QED
      BY <2>1, <3>1
  <2>4. CASE Kept(s)' = Kept(s) /\ KeptPlaces(s)' = KeptPlaces(s)
    <3> HIDE DEF f, g
    <3>1. Lists(q, D, g)
      BY <2>2, <2>3, ListsSame
    <3> QED
      BY <2>4, <3>1 DEF g
  <2>5. CASE TakesData(s)
    <3> DEFINE x == f[b + 1]
    <3>1. /\ x \in Data /\ Kept(s)' = Append(q, x) /\ KeptPlaces(s)' = D \cup {b + 1}
          /\ b + 1 \in Nat /\ b + 1 > b /\ g[b + 1] = x
      BY <2>1, <2>5 DEF TakesData
    <3> HIDE DEF q, D, b, f, g, x
    <3>2. Lists(Append(q, x), D \cup {b + 1}, g)
      BY <2>1, <2>2, <2>3, <3>1, ListsMore
    <3> QED
      BY <3>1, <3>2 DEF g
  <2>6. CASE DropsData(s)
    <3> DEFINE x == Param(s)
               r == Kept(s)'
    <3>1. /\ x \in Data /\ r \in Seq(Data) /\ q = Append(r, x) /\ KeptPlaces(s)' = D \ {b}
          /\ b \in D /\ g = f
      BY <2>1, <2>6 DEF DropsData
    <3> HIDE DEF q, D, b, f, g, x, r
    <3>2. Lists(Append(r, x), D, f)
      BY <2>2, <3>1
    <3>3. Lists(r, D \ {b}, f)
      BY <2>1, <3>1, <3>2, ListsLess
    <3> QED
      BY <3>1, <3>3 DEF g, r
  <2> QED
    BY <2>4, <2>5, <2>6, KeptStep DEF KeptChanges
<1> QED
  BY <1>1, ClosedDrops DEF OnlyLastDropped, KeptPlaces

(***************************************************************************)
(* An application's messages only get more.                                *)
(***************************************************************************)
LEMMA SentGrows ==
  ASSUME IInv, [StreamNext]_streamVars, NEW t \in Side
  PROVE  /\ sent' \in [Side -> Seq(Data)]
         /\ Len(sent[t]) \in Nat /\ Len(sent[t]) <= Len(sent'[t])
         /\ \A n \in 1 .. Len(sent[t]) : sent'[t][n] = sent[t][n]
<1> USE DEF IInv
<1>1. sent \in [Side -> Seq(Data)] /\ sent[t] \in Seq(Data) /\ Len(sent[t]) \in Nat
  BY DEF Shapes
<1>2. ASSUME NEW s \in Side, NEW x \in Data, sent' = [sent EXCEPT ![s] = Append(@, x)]
      PROVE  /\ sent' \in [Side -> Seq(Data)]
             /\ Len(sent[t]) <= Len(sent'[t])
             /\ \A n \in 1 .. Len(sent[t]) : sent'[t][n] = sent[t][n]
  <2>1. /\ Append(sent[s], x) \in Seq(Data) /\ Len(Append(sent[s], x)) = Len(sent[s]) + 1
        /\ \A n \in 1 .. Len(sent[s]) : Append(sent[s], x)[n] = sent[s][n]
    BY <1>1, AppendProperties
  <2>2. sent' = [sent EXCEPT ![s] = Append(sent[s], x)]
    BY <1>2
  <2>3. sent' \in [Side -> Seq(Data)]
    BY <1>1, <2>1, <2>2
  <2>4. CASE t = s
    BY <1>1, <2>1, <2>2, <2>3, <2>4
  <2>5. CASE t # s
    BY <1>1, <2>2, <2>3, <2>5
  <2> QED
    BY <2>3, <2>4, <2>5
<1>3. sent' = sent \/ \E s \in Side, x \in Data : sent' = [sent EXCEPT ![s] = Append(@, x)]
  BY Pushers DEF Pushes
<1> QED
  BY <1>1, <1>2, <1>3

LEMMA KeptSentStep == ASSUME IInv, [StreamNext]_streamVars PROVE KeptSent'
<1> USE DEF IInv
<1>1. ASSUME NEW s \in Side
      PROVE  /\ Len(Kept(s)') <= Len(sent'[Other(s)])
             /\ \A k \in 1 .. Len(Kept(s)') : Kept(s)'[k] = sent'[Other(s)][k]
  <2> DEFINE o == Other(s)
  <2>1. /\ Kept(s) \in Seq(Data) /\ Len(Kept(s)) \in Nat
        /\ Len(Kept(s)) <= Len(sent[o])
        /\ \A k \in 1 .. Len(Kept(s)) : Kept(s)[k] = sent[o][k]
    <3>1. Kept(s) \in Seq(Data)
      BY KeptShape
    <3> QED
      BY <3>1 DEF KeptSent
  <2>2. /\ Len(sent[o]) \in Nat /\ Len(sent'[o]) \in Nat /\ Len(sent[o]) <= Len(sent'[o])
        /\ \A n \in 1 .. Len(sent[o]) : sent'[o][n] = sent[o][n]
    <3>1. sent' \in [Side -> Seq(Data)] /\ o \in Side
      BY SentGrows, Sides
    <3> QED
      BY <3>1, SentGrows
  <2>3. CASE Kept(s)' = Kept(s)
    BY <2>1, <2>2, <2>3
  <2>4. CASE TakesData(s)
    <3> DEFINE b == read[s]
               x == pushed[o][b + 1]
               D == DataTaken(s)
               E == DataPushed(o)
    <3>1. /\ x \in Data /\ Kept(s)' = Append(Kept(s), x) /\ LastDropped(s) = {}
          /\ b + 1 \in 1 .. Len(pushed[o]) /\ sent' = sent
      BY <2>4 DEF TakesData
    <3>2. b \in Nat /\ D \subseteq 1 .. b /\ Len(pushed[o]) \in Nat /\ E \subseteq 1 .. Len(pushed[o])
      BY Sides, SMTT(30) DEF Shapes, DataTaken, DataPushed
    <3>3. {m \in E : m <= b + 1} = D \cup {b + 1}
      <4>1. ASSUME NEW m, m \in E, m <= b + 1 PROVE m \in D \cup {b + 1}
        BY <3>2, <4>1 DEF DataTaken, DataPushed
      <4>2. ASSUME NEW m, m \in D \cup {b + 1} PROVE m \in E /\ m <= b + 1
        BY <3>1, <3>2, <4>2 DEF DataTaken, DataPushed
      <4> QED
        BY <4>1, <4>2
    <3>4. /\ IsFiniteSet(D) /\ Cardinality(D) \in Nat /\ Cardinality(D) = Len(Kept(s))
      <4>1. Lists(Kept(s), D, pushed[o])
        <5>1. DataTaken(s) \ LastDropped(s) = D
          BY <3>1
        <5> QED
          BY <5>1 DEF OnlyLastDropped
      <4> QED
        BY <3>2, <4>1, PlacesFinite DEF Lists
    <3>5. Cardinality(D \cup {b + 1}) = Len(Kept(s)) + 1
      <4>1. b + 1 \notin D
        BY <3>2
      <4> QED
        BY <3>4, <4>1, FS_AddElement
    <3>6. b + 1 \in E
      BY <3>1 DEF DataPushed
    <3>7. sent[o][Len(Kept(s)) + 1] = x
      BY <3>3, <3>5, <3>6, Sides DEF SentPushed, Lists
    <3>8. Len(Kept(s)) + 1 <= Len(sent[o])
      <4>1. Cardinality({m \in E : m <= b + 1}) \in 1 .. Cardinality(E)
        BY <3>2, <3>6, PlacesFinite
      <4>2. Len(sent[o]) = Cardinality(E)
        BY Sides DEF SentPushed, Lists
      <4>3. Cardinality({m \in E : m <= b + 1}) = Len(Kept(s)) + 1
        BY <3>3, <3>5
      <4>4. Len(Kept(s)) + 1 \in 1 .. Len(sent[o])
        BY <4>1, <4>2, <4>3
      <4> QED
        BY <2>1, <2>2, <4>4
    <3>9. /\ Len(Kept(s)') = Len(Kept(s)) + 1
          /\ \A k \in 1 .. Len(Kept(s)) : Kept(s)'[k] = Kept(s)[k]
          /\ Kept(s)'[Len(Kept(s)) + 1] = x
      BY <2>1, <3>1, AppendProperties
    <3> HIDE DEF x
    <3>10. ASSUME NEW k \in 1 .. Len(Kept(s)) + 1 PROVE Kept(s)'[k] = sent[o][k]
      <4>1. CASE k = Len(Kept(s)) + 1
        BY <3>7, <3>9, <4>1
      <4>2. CASE k # Len(Kept(s)) + 1
        BY <2>1, <3>9, <4>2
      <4> QED
        BY <4>1, <4>2
    <3> QED
      BY <3>1, <3>8, <3>9, <3>10
  <2>5. CASE DropsData(s)
    <3> DEFINE r == Kept(s)'
               x == Param(s)
    <3>1. r \in Seq(Data) /\ x \in Data /\ Kept(s) = Append(r, x) /\ sent' = sent
      BY <2>5 DEF DropsData
    <3> HIDE DEF r, x
    <3>2. /\ Len(Append(r, x)) = Len(r) + 1 /\ Len(r) \in Nat
          /\ \A k \in 1 .. Len(r) : Append(r, x)[k] = r[k]
      BY <3>1, AppendProperties
    <3>3. Len(r) <= Len(sent[o]) /\ \A k \in 1 .. Len(r) : r[k] = sent[o][k]
      BY <2>1, <2>2, <3>1, <3>2
    <3> QED
      BY <3>1, <3>3 DEF r
  <2> QED
    BY <2>3, <2>4, <2>5, KeptStep DEF KeptChanges
<1> QED
  BY <1>1 DEF KeptSent

(***************************************************************************)
(* Types, and the bound of the channel to the application.                 *)
(***************************************************************************)
LEMMA ChannelStep ==
  ASSUME IInv, [StreamNext]_streamVars
  PROVE  /\ received_msgs' \in [Side -> Seq(Data)] /\ got' \in [Side -> Seq(Data)]
         /\ ChannelBounded'
<1> USE DEF IInv
<1>0. /\ received_msgs \in [Side -> Seq(Data)] /\ got \in [Side -> Seq(Data)]
      /\ ChannelBounded /\ Capacity \in Nat
  BY StreamAssumption DEF Shapes
<1>1. ASSUME NEW s \in Side, LoopDelivers(s), ~ chan_closed[s]
      PROVE  /\ received_msgs' \in [Side -> Seq(Data)] /\ got' \in [Side -> Seq(Data)]
             /\ ChannelBounded'
  <2>1. Param(s) \in Data
    BY <1>1 DEF LoopDelivers, ReadArrived, ReadArrivedAt
  <2>2. /\ Append(received_msgs[s], Param(s)) \in Seq(Data)
        /\ Len(Append(received_msgs[s], Param(s))) = Len(received_msgs[s]) + 1
        /\ Len(received_msgs[s]) \in Nat
    BY <1>0, <2>1, AppendProperties
  <2>3. /\ received_msgs' = [received_msgs EXCEPT ![s] = Append(received_msgs[s], Param(s))]
        /\ got' = got /\ Len(received_msgs[s]) < Capacity
    BY <1>1 DEF LoopDelivers, HasRoom
  <2> HIDE DEF IInv
  <2> QED
    BY <1>0, <2>2, <2>3 DEF ChannelBounded
<1>2. ASSUME NEW s \in Side, AppReceives(s)
      PROVE  /\ received_msgs' \in [Side -> Seq(Data)] /\ got' \in [Side -> Seq(Data)]
             /\ ChannelBounded'
  <2>1. /\ received_msgs[s] # <<>>
        /\ received_msgs' = [received_msgs EXCEPT ![s] = Tail(received_msgs[s])]
        /\ got' = [got EXCEPT ![s] = Append(got[s], Head(received_msgs[s]))]
    BY <1>2 DEF AppReceives
  <2>2. /\ Head(received_msgs[s]) \in Data /\ Tail(received_msgs[s]) \in Seq(Data)
        /\ Len(Tail(received_msgs[s])) = Len(received_msgs[s]) - 1
        /\ Len(received_msgs[s]) \in Nat
    BY <1>0, <2>1, HeadTailProperties
  <2>3. Append(got[s], Head(received_msgs[s])) \in Seq(Data)
    BY <1>0, <2>2, AppendProperties
  <2> HIDE DEF IInv
  <2> QED
    BY <1>0, <2>1, <2>2, <2>3 DEF ChannelBounded
<1>3. \/ received_msgs' = received_msgs /\ got' = got
      \/ \E s \in Side : (LoopDelivers(s) /\ ~ chan_closed[s]) \/ AppReceives(s)
  <2>1. Step
    BY Steps
  <2> QED
    BY <2>1 DEF Step, SideStep, Open, ClientCommand, Opened, OpenTimesOut, Arrive, Lose,
         LoopTop, LoopTakes, LoopReturns, LoopActs, LoopReplies, LoopTellsEvent, LoopDelivers,
         LoopEnds, AppSends,
         AppCloses, CloseChannel, CloseSession, streamVars
<1> QED
  BY <1>0, <1>1, <1>2, <1>3 DEF ChannelBounded

LEMMA ClosingShape ==
  ASSUME closing \in [Side -> [Goroutine -> {"no", "channel", "session"}]],
         NEW s \in Side, NEW g \in Goroutine, NEW a \in {"no", "channel", "session"}
  PROVE  [closing EXCEPT ![s][g] = a] \in [Side -> [Goroutine -> {"no", "channel", "session"}]]
  OBVIOUS

LEMMA FlagsStep ==
  ASSUME IInv, [StreamNext]_streamVars
  PROVE  /\ opening' \in {"idle", "waiting", "open", "failed"}
         /\ arrived' \in [Side -> SUBSET Nat] /\ read' \in [Side -> Nat]
         /\ attached' \in [Side -> BOOLEAN]
         /\ loop' \in [Side -> LoopPlace]
         /\ play_event' \in [Side -> BOOLEAN]
         /\ chan_closed' \in [Side -> BOOLEAN] /\ closed' \in [Side -> BOOLEAN]
         /\ closing' \in [Side -> [Goroutine -> {"no", "channel", "session"}]]
         /\ flows_closed' \in [Side -> BOOLEAN]
         /\ panicked' \subseteq Side
<1> USE DEF IInv
<1> DEFINE Flags == /\ opening \in {"idle", "waiting", "open", "failed"}
                    /\ arrived \in [Side -> SUBSET Nat] /\ read \in [Side -> Nat]
                    /\ attached \in [Side -> BOOLEAN]
                    /\ loop \in [Side -> LoopPlace]
                    /\ play_event \in [Side -> BOOLEAN]
                    /\ chan_closed \in [Side -> BOOLEAN] /\ closed \in [Side -> BOOLEAN]
                    /\ closing \in [Side -> [Goroutine -> {"no", "channel", "session"}]]
                    /\ flows_closed \in [Side -> BOOLEAN]
                    /\ panicked \subseteq Side
<1>0. Flags /\ {"app", "session", "stream"} \subseteq Goroutine
  BY DEF Shapes, Goroutine
<1>1. ASSUME NEW s \in Side, Arrive(s) PROVE Flags'
  <2>1. UNCHANGED <<opening, read, play_event, chan_closed, closed, flows_closed>>
    BY <1>1 DEF Arrive
  <2>2. /\ arrived' = arrived \/ \E k \in Nat : arrived' = [arrived EXCEPT ![s] = @ \cup {k}]
        /\ attached' = attached \/ attached' = [attached EXCEPT ![s] = TRUE]
        /\ loop' = loop \/ loop' = [loop EXCEPT ![s] = "top"]
        /\ panicked' = panicked \/ panicked' = panicked \cup {s}
        /\ closing' = closing \/ closing' = [closing EXCEPT ![s]["session"] = "channel"]
    BY <1>1, Arrives
  <2> HIDE DEF IInv
  <2>3. closing' \in [Side -> [Goroutine -> {"no", "channel", "session"}]]
    <3>1. [closing EXCEPT ![s]["session"] = "channel"] \in [Side -> [Goroutine -> {"no", "channel", "session"}]]
      BY <1>0, ClosingShape
    <3> QED
      BY <1>0, <2>2, <3>1
  <2>4. arrived' \in [Side -> SUBSET Nat] /\ attached' \in [Side -> BOOLEAN]
    <3>1. ASSUME NEW k \in Nat, arrived' = [arrived EXCEPT ![s] = @ \cup {k}]
          PROVE  arrived' \in [Side -> SUBSET Nat]
      <4>1. arrived[s] \cup {k} \in SUBSET Nat
        BY <1>0
      <4>2. arrived' = [arrived EXCEPT ![s] = arrived[s] \cup {k}]
        BY <3>1
      <4> QED
        BY <1>0, <4>1, <4>2
    <3> QED
      BY <1>0, <2>2, <3>1
  <2>5. loop' \in [Side -> LoopPlace]
    BY <1>0, <2>2 DEF LoopPlace
  <2> QED
    BY <1>0, <2>1, <2>2, <2>3, <2>4, <2>5
<1>2. ASSUME NEW s \in Side, LoopTakes(s) \/ LoopActs(s) PROVE Flags'
  <2>1. UNCHANGED <<opening, arrived, attached, play_event, chan_closed, closed, flows_closed, panicked>>
    BY <1>2 DEF LoopTakes, LoopActs, recvFlowVars, closeVars
  <2>2. /\ read' = read \/ read' = [read EXCEPT ![s] = read[s] + 1]
        /\ \E a \in LoopPlace : loop' = [loop EXCEPT ![s] = a]
        /\ closing' = closing \/ closing' = [closing EXCEPT ![s]["stream"] = "channel"]
    <3>1. ASSUME LoopTakes(s) PROVE read' = [read EXCEPT ![s] = read[s] + 1] /\ closing' = closing
                                    /\ loop' = [loop EXCEPT ![s] = "taken"]
      BY <3>1 DEF LoopTakes, closeVars
    <3>2. ASSUME LoopActs(s)
          PROVE  /\ read' = read
                 /\ closing' = closing \/ closing' = [closing EXCEPT ![s]["stream"] = "channel"]
                 /\ \E a \in LoopPlace : loop' = [loop EXCEPT ![s] = a]
      <4>1. /\ Param(s) \in Body
            /\ loop' = [loop EXCEPT ![s] = "dropped"] \/ loop' = [loop EXCEPT ![s] = After(s, Param(s))]
            /\ closing' = closing \/ closing' = [closing EXCEPT ![s]["stream"] = "channel"]
        BY <3>2, Acts
      <4>2. After(s, Param(s)) \in LoopPlace /\ "dropped" \in LoopPlace
        BY <4>1, AfterMessage DEF LoopPlace
      <4>3. read' = read
        BY <3>2 DEF LoopActs
      <4> QED
        BY <4>1, <4>2, <4>3
    <3>3. "taken" \in LoopPlace
      BY DEF LoopPlace
    <3> QED
      BY <1>2, <3>1, <3>2, <3>3
  <2> HIDE DEF IInv
  <2>3. closing' \in [Side -> [Goroutine -> {"no", "channel", "session"}]]
    <3>1. [closing EXCEPT ![s]["stream"] = "channel"] \in [Side -> [Goroutine -> {"no", "channel", "session"}]]
      BY <1>0, ClosingShape
    <3> QED
      BY <1>0, <2>2, <3>1
  <2>4. read' \in [Side -> Nat]
    BY <1>0, <2>2
  <2>5. loop' \in [Side -> LoopPlace]
    BY <1>0, <2>2
  <2> QED
    BY <1>0, <2>1, <2>3, <2>4, <2>5
<1>3. ASSUME NEW s \in Side,
             LoopTop(s) \/ LoopReturns(s) \/ LoopReplies(s) \/ LoopTellsEvent(s) \/ LoopDelivers(s)
               \/ LoopEnds(s)
      PROVE  Flags'
  <2>1. /\ UNCHANGED <<opening, arrived, attached, read, chan_closed, closed, closing, flows_closed>>
        /\ loop' = loop \/ \E a \in LoopPlace : loop' = [loop EXCEPT ![s] = a]
        /\ play_event' = play_event \/ play_event' = [play_event EXCEPT ![s] = TRUE]
        /\ panicked' = panicked \/ panicked' = panicked \cup {s}
    BY <1>3 DEF LoopTop, LoopReturns, LoopReplies, LoopTellsEvent, LoopDelivers, LoopEnds,
         LoopPlace, recvFlowVars, closeVars
  <2> HIDE DEF IInv
  <2> QED
    BY <1>0, <2>1
<1>4. ASSUME NEW s \in Side, NEW g \in Goroutine, CloseChannel(s, g) \/ CloseSession(s, g) PROVE Flags'
  <2>1. /\ UNCHANGED <<opening, arrived, attached, read, loop, play_event>>
        /\ chan_closed' = chan_closed \/ chan_closed' = [chan_closed EXCEPT ![s] = TRUE]
        /\ closed' = closed \/ closed' = [closed EXCEPT ![s] = TRUE]
        /\ flows_closed' = flows_closed \/ flows_closed' = [flows_closed EXCEPT ![s] = TRUE]
        /\ closing' = closing \/ \E a \in {"no", "session"} : closing' = [closing EXCEPT ![s][g] = a]
        /\ panicked' = panicked \/ panicked' = panicked \cup {s}
    BY <1>4 DEF CloseChannel, CloseSession, recvFlowVars, loopVars
  <2> HIDE DEF IInv
  <2>2. closing' \in [Side -> [Goroutine -> {"no", "channel", "session"}]]
    <3>1. ASSUME NEW a \in {"no", "session"}, closing' = [closing EXCEPT ![s][g] = a]
          PROVE  closing' \in [Side -> [Goroutine -> {"no", "channel", "session"}]]
      <4>1. [closing EXCEPT ![s][g] = a] \in [Side -> [Goroutine -> {"no", "channel", "session"}]]
        BY <1>0, ClosingShape
      <4> QED
        BY <3>1, <4>1
    <3>2. CASE closing' = closing
      BY <1>0, <3>2
    <3> QED
      BY <2>1, <3>1, <3>2
  <2>3. chan_closed' \in [Side -> BOOLEAN] /\ closed' \in [Side -> BOOLEAN]
    BY <1>0, <2>1
  <2>4. flows_closed' \in [Side -> BOOLEAN]
    BY <1>0, <2>1
  <2> QED
    BY <1>0, <2>1, <2>2, <2>3, <2>4
<1>5. ASSUME Open \/ Opened \/ OpenTimesOut \/ ClientCommand
      PROVE  Flags'
  <2>1. /\ UNCHANGED <<arrived, attached, read, loop, chan_closed, closed, closing, flows_closed, panicked>>
        /\ opening' \in {opening, "waiting", "open", "failed"}
        /\ play_event' = play_event \/ play_event' = [play_event EXCEPT !["active"] = FALSE]
    BY <1>5 DEF Open, Opened, OpenTimesOut, ClientCommand, recvFlowVars, loopVars, closeVars
  <2> HIDE DEF IInv
  <2> QED
    BY <1>0, <2>1, Sides
<1>6. ASSUME NEW s \in Side, Lose(s) \/ AppSends(s) \/ AppReceives(s) \/ AppCloses(s)
      PROVE  Flags'
  <2>1. /\ UNCHANGED <<opening, arrived, attached, read, loop, play_event, chan_closed, closed, flows_closed>>
        /\ closing' = closing \/ closing' = [closing EXCEPT ![s]["app"] = "channel"]
        /\ panicked' = panicked \/ panicked' = panicked \cup {s}
    BY <1>6 DEF Lose, AppSends, AppReceives, AppCloses, FirstStep, recvFlowVars, loopVars, closeVars
  <2> HIDE DEF IInv
  <2>2. closing' \in [Side -> [Goroutine -> {"no", "channel", "session"}]]
    <3>1. [closing EXCEPT ![s]["app"] = "channel"] \in [Side -> [Goroutine -> {"no", "channel", "session"}]]
      BY <1>0, ClosingShape
    <3> QED
      BY <1>0, <2>1, <3>1
  <2> QED
    BY <1>0, <2>1, <2>2
<1>7. CASE UNCHANGED streamVars
  BY <1>0, <1>7 DEF streamVars
<1>8. Step
  BY Steps
<1> HIDE DEF IInv
<1> QED
  BY <1>1, <1>2, <1>3, <1>4, <1>5, <1>6, <1>7, <1>8 DEF Step, SideStep

(***************************************************************************)
(* The invariant holds.                                                    *)
(***************************************************************************)
LEMMA StepIInv == ASSUME IInv, [StreamNext]_streamVars PROVE IInv'
<1>1. pushed' \in [Side -> Seq(Body)] /\ sent' \in [Side -> Seq(Data)]
  BY PushedGrows, SentGrows, Sides DEF IInv
<1>2. Shapes' /\ ChannelBounded'
  BY <1>1, ChannelStep, FlagsStep DEF Shapes
<1>3. WireShape' /\ ReadArrived' /\ LoopAttached' /\ PassiveAnswers' /\ StartAwaited'
  BY WireStep, ReadStep, AttachedStep, AnswersStep, AwaitedStep
<1>4. CloseInOrder' /\ SentPushed' /\ OnlyLastDropped' /\ KeptSent'
  BY CloseStep, SentStep, DroppedStep, KeptSentStep
<1> QED
  BY <1>2, <1>3, <1>4 DEF IInv

LEMMA Invariant == StreamSpec => []IInv
<1>1. StreamInit => IInv
  BY InitIInv
<1>2. IInv /\ [StreamNext]_streamVars => IInv'
  BY StepIInv
<1> QED
  BY <1>1, <1>2, PTL DEF StreamSpec

LEMMA IInvTypes == ASSUME IInv PROVE StreamTypeOK
<1> USE DEF IInv
<1>1. ASSUME NEW s \in Side
      PROVE  /\ pushed[s] \in Seq(Data \cup Commands)
             /\ wire[s] \in Seq([seq : Nat, body : Data \cup Commands \cup {"closeRequest"}])
             /\ arrived[s] \subseteq 1 .. Len(pushed[Other(s)])
             /\ read[s] \in 0 .. Len(pushed[Other(s)])
             /\ received_msgs[s] \in Seq(Data) /\ Len(received_msgs[s]) <= Capacity
             /\ sent[s] \in Seq(Data) /\ got[s] \in Seq(Data)
  <2>1. Len(pushed[Other(s)]) \in Nat
    BY Sides DEF Shapes
  <2>2. OnWire(Len(pushed[Other(s)])) \subseteq [seq : Nat, body : Data \cup Commands \cup {"closeRequest"}]
    BY <2>1 DEF OnWire, CloseRequest, Body
  <2>3. wire[s] \in Seq([seq : Nat, body : Data \cup Commands \cup {"closeRequest"}])
    BY <2>2, SeqMonotonic, ZenonT(60) DEF WireShape
  <2>4. read[s] \in 0 .. Len(pushed[Other(s)])
    BY <2>1 DEF ReadArrived, ReadArrivedAt, Shapes
  <2> QED
    BY <2>3, <2>4 DEF ReadArrived, ReadArrivedAt, ChannelBounded, Shapes, Body
<1> QED
  BY <1>1 DEF Shapes, LoopPlace, StreamTypeOK

LEMMA IInvImplies == ASSUME IInv PROVE OpenIsMutual /\ ClosedIsShut /\ OnlyLastDropped
<1> USE DEF IInv
<1>1. ASSUME opening = "open"
      PROVE  /\ attached["active"] /\ attached["passive"]
             /\ \E n \in arrived["active"] : pushed["passive"][n] = "start"
  <2>1. PICK n \in arrived["active"] :
          n \in 1 .. Len(pushed["passive"]) /\ pushed["passive"][n] = "start"
    BY <1>1 DEF StartAwaited, StartArrived
  <2>2. attached["active"]
    BY <2>1, Sides DEF LoopAttached
  <2>3. attached["passive"]
    BY <2>1 DEF PassiveAnswers
  <2> QED
    BY <2>1, <2>2, <2>3
<1>2. ClosedIsShut
  BY DEF CloseInOrder, ClosedIsShut
<1> QED
  BY <1>1, <1>2 DEF OpenIsMutual

(***************************************************************************)
(* The refinement: what a step does to the channel from s to the other.    *)
(***************************************************************************)
LEMMA StopsStep ==
  ASSUME IInv, [StreamNext]_streamVars, NEW s \in Side
  PROVE  \/ Stopped(s)' = Stopped(s)
         \/ /\ \E end \in {"send", "recv"} : Stopped(s)' = Stopped(s) \cup {end}
            /\ sent' = sent /\ got' = got
<1> USE DEF IInv
<1>0. DOMAIN flows_closed = Side /\ s # Other(s)
  BY Sides DEF Shapes
<1>1. CASE UNCHANGED <<flows_closed, panicked>>
  BY <1>1 DEF Stopped
<1>2. ASSUME NEW t \in Side, panicked' = panicked \cup {t}, UNCHANGED <<flows_closed, sent, got>>
      PROVE  \/ Stopped(s)' = Stopped(s)
             \/ /\ \E end \in {"send", "recv"} : Stopped(s)' = Stopped(s) \cup {end}
                /\ sent' = sent /\ got' = got
  <2>1. CASE t = s
    <3>1. Stopped(s)' = Stopped(s) \cup {"send"}
      BY <1>0, <1>2, <2>1 DEF Stopped
    <3> QED
      BY <1>2, <3>1
  <2>2. CASE t # s
    <3>1. t = Other(s)
      BY <2>2 DEF Side, Other
    <3>2. Stopped(s)' = Stopped(s) \cup {"recv"}
      BY <1>0, <1>2, <3>1 DEF Stopped
    <3> QED
      BY <1>2, <3>2
  <2> QED
    BY <2>1, <2>2
<1>3. ASSUME NEW t \in Side, flows_closed' = [flows_closed EXCEPT ![t] = TRUE],
             UNCHANGED <<panicked, sent, got>>
      PROVE  \/ Stopped(s)' = Stopped(s)
             \/ /\ \E end \in {"send", "recv"} : Stopped(s)' = Stopped(s) \cup {end}
                /\ sent' = sent /\ got' = got
  <2>1. CASE t = s
    <3>1. Stopped(s)' = Stopped(s) \cup {"send"}
      BY <1>0, <1>3, <2>1 DEF Stopped
    <3> QED
      BY <1>3, <3>1
  <2>2. CASE t # s
    BY <1>0, <1>3, <2>2 DEF Stopped
  <2> QED
    BY <2>1, <2>2
<1>4. \/ UNCHANGED <<flows_closed, panicked>>
      \/ \E t \in Side : panicked' = panicked \cup {t} /\ UNCHANGED <<flows_closed, sent, got>>
      \/ \E t \in Side : /\ flows_closed' = [flows_closed EXCEPT ![t] = TRUE]
                         /\ UNCHANGED <<panicked, sent, got>>
  <2>1. ASSUME NEW t \in Side, Arrive(t)
        PROVE  /\ UNCHANGED <<flows_closed, sent, got>>
               /\ panicked' = panicked \/ panicked' = panicked \cup {t}
    <3>1. panicked' = panicked \/ panicked' = panicked \cup {t}
      BY <2>1, Arrives
    <3> QED
      BY <2>1, <3>1 DEF Arrive
  <2>2. ASSUME NEW t \in Side, LoopDelivers(t) \/ \E g \in Goroutine : CloseChannel(t, g)
        PROVE  /\ UNCHANGED <<flows_closed, sent, got>>
               /\ panicked' = panicked \/ panicked' = panicked \cup {t}
    BY <2>2 DEF LoopDelivers, CloseChannel, closeVars
  <2>3. ASSUME NEW t \in Side, NEW g \in Goroutine, CloseSession(t, g)
        PROVE  /\ sent' = sent /\ got' = got
               /\ \/ panicked' = panicked \cup {t} /\ flows_closed' = flows_closed
                  \/ flows_closed' = [flows_closed EXCEPT ![t] = TRUE] /\ panicked' = panicked
    BY <2>3 DEF CloseSession
  <2>4. ASSUME NEW t \in Side, AppSends(t)
        PROVE  \/ UNCHANGED <<flows_closed, panicked>>
               \/ panicked' = panicked \cup {t} /\ UNCHANGED <<flows_closed, sent, got>>
    BY <2>4 DEF AppSends, closeVars
  <2>5. \/ UNCHANGED <<flows_closed, panicked>>
        \/ \E t \in Side : \/ Arrive(t) \/ LoopDelivers(t) \/ AppSends(t)
                           \/ \E g \in Goroutine : CloseChannel(t, g) \/ CloseSession(t, g)
    <3>1. Step
      BY Steps
    <3> QED
      BY <3>1 DEF Step, SideStep, Open, ClientCommand, Opened, OpenTimesOut, Lose,
           LoopTop, LoopTakes, LoopReturns, LoopActs, LoopReplies, LoopTellsEvent, LoopEnds,
           AppReceives, AppCloses,
           streamVars, closeVars
  <2> QED
    BY <2>1, <2>2, <2>3, <2>4, <2>5
<1> QED
  BY <1>1, <1>2, <1>3, <1>4

LEMMA AcceptStep ==
  ASSUME IInv, [StreamNext]_streamVars, NEW s \in Side, sent'[s] # sent[s]
  PROVE  /\ "send" \notin Stopped(s)
         /\ \E x \in Data : sent'[s] = Append(sent[s], x)
         /\ got' = got /\ Stopped(s)' = Stopped(s)
<1> USE DEF IInv
<1>0. DOMAIN sent = Side
  BY DEF Shapes
<1>1. AppSends(s) /\ NetStream(s)
  <2>1. Step
    BY Steps
  <2>2. PICK t \in Side : AppSends(t) /\ NetStream(t)
    BY <2>1, SMTT(30) DEF Step, SideStep, Open, ClientCommand, Opened, OpenTimesOut, Arrive, Lose,
         LoopTop, LoopTakes, LoopReturns, LoopActs, LoopReplies, LoopTellsEvent, LoopDelivers,
         LoopEnds, AppSends,
         AppReceives, AppCloses, CloseChannel, CloseSession, streamVars
  <2>3. sent' = [sent EXCEPT ![t] = Append(@, Payload[Len(sent[t]) + 1])]
    BY <2>2 DEF AppSends
  <2>4. t = s
    BY <1>0, <2>3
  <2> QED
    BY <2>2, <2>4
<1>2. /\ sent'[s] = Append(sent[s], Payload[Len(sent[s]) + 1])
      /\ ~ flows_closed[s] /\ s \notin panicked
      /\ UNCHANGED <<flows_closed, panicked, got>>
  BY <1>0, <1>1 DEF AppSends, Runs, closeVars
<1>3. Payload[Len(sent[s]) + 1] \in Data
  <2>1. Len(sent[s]) + 1 \in 1 .. Len(Payload)
    BY <1>1, StreamAssumption DEF AppSends, Shapes
  <2> QED
    BY <2>1, DataBodies
<1> QED
  BY <1>2, <1>3 DEF Stopped

LEMMA DeliverStep ==
  ASSUME IInv, [StreamNext]_streamVars, NEW s \in Side, got'[Other(s)] # got[Other(s)]
  PROVE  /\ "recv" \notin Stopped(s)
         /\ Len(got[Other(s)]) < Len(sent[s])
         /\ got'[Other(s)] = Append(got[Other(s)], sent[s][Len(got[Other(s)]) + 1])
         /\ sent' = sent /\ Stopped(s)' = Stopped(s)
<1> USE DEF IInv
<1> DEFINE o == Other(s)
<1>0. DOMAIN got = Side /\ o \in Side /\ Other(o) = s /\ got[o] \in Seq(Data) /\ received_msgs[o] \in Seq(Data)
  BY Sides DEF Shapes
<1>1. AppReceives(o)
  <2>1. Step
    BY Steps
  <2>2. PICK t \in Side : AppReceives(t)
    BY <2>1 DEF Step, SideStep, Open, ClientCommand, Opened, OpenTimesOut, Arrive, Lose,
         LoopTop, LoopTakes, LoopReturns, LoopActs, LoopReplies, LoopTellsEvent, LoopDelivers,
         LoopEnds, AppSends,
         AppCloses, CloseChannel, CloseSession, streamVars
  <2>3. got' = [got EXCEPT ![t] = Append(@, Head(received_msgs[t]))]
    BY <2>2 DEF AppReceives
  <2>4. t = o
    BY <1>0, <2>3
  <2> QED
    BY <2>2, <2>4
<1>2. /\ got'[o] = Append(got[o], Head(received_msgs[o])) /\ received_msgs[o] # <<>>
      /\ o \notin panicked /\ UNCHANGED <<flows_closed, panicked, sent>>
  BY <1>0, <1>1 DEF AppReceives, Runs, closeVars
<1> DEFINE q == got[o]
           r == received_msgs[o]
           k == Kept(o)
<1>3. /\ q \in Seq(Data) /\ r \in Seq(Data) /\ Len(q) \in Nat /\ Len(r) \in Nat /\ Len(r) > 0
      /\ Head(r) = r[1]
  BY <1>0, <1>2, HeadTailProperties
<1>4. /\ q \o r \in Seq(Data) /\ Len(q \o r) = Len(q) + Len(r) /\ (q \o r)[Len(q) + 1] = r[1]
  <2> HIDE DEF q, r
  <2>1. \A i \in 1 .. Len(q) + Len(r) : (q \o r)[i] = IF i <= Len(q) THEN q[i] ELSE r[i - Len(q)]
    BY <1>3, ConcatProperties
  <2>2. Len(q) + 1 \in 1 .. Len(q) + Len(r) /\ ~ (Len(q) + 1 <= Len(q)) /\ (Len(q) + 1) - Len(q) = 1
    BY <1>3
  <2>3. (q \o r)[Len(q) + 1] = r[1]
    BY <2>1, <2>2
  <2> QED
    BY <1>3, <2>3, ConcatProperties
<1>5. k = q \o r \/ \E x \in Data : k = Append(q \o r, x)
  BY <1>0, KeptShape
<1>6. Len(q) + 1 \in 1 .. Len(k) /\ k[Len(q) + 1] = r[1]
  <2> HIDE DEF q, r, k
  <2>1. CASE k = q \o r
    BY <1>3, <1>4, <2>1
  <2>2. ASSUME NEW x \in Data, k = Append(q \o r, x) PROVE Len(q) + 1 \in 1 .. Len(k) /\ k[Len(q) + 1] = r[1]
    <3>1. /\ Len(Append(q \o r, x)) = Len(q) + Len(r) + 1
          /\ \A i \in 1 .. Len(q) + Len(r) : Append(q \o r, x)[i] = (q \o r)[i]
      BY <1>4, AppendProperties
    <3>2. Len(q) + 1 \in 1 .. Len(q) + Len(r) /\ Len(q) + 1 \in 1 .. Len(q) + Len(r) + 1
      BY <1>3
    <3> QED
      BY <1>4, <2>2, <3>1, <3>2
  <2> QED
    BY <1>5, <2>1, <2>2
<1>7. k[Len(q) + 1] = sent[s][Len(q) + 1] /\ Len(k) <= Len(sent[s])
  BY <1>0, <1>6 DEF KeptSent
<1>8. Len(q) < Len(sent[s])
  <2>1. Len(sent[s]) \in Nat /\ Len(k) \in Nat
    <3>1. k \in Seq(Data) /\ sent[s] \in Seq(Data)
      BY <1>0, KeptShape DEF Shapes
    <3> QED
      BY <3>1
  <2> HIDE DEF q, k
  <2> QED
    BY <1>3, <1>6, <1>7, <2>1
<1>9. "recv" \notin Stopped(s) /\ Stopped(s)' = Stopped(s)
  BY <1>2 DEF Stopped
<1> QED
  BY <1>2, <1>3, <1>6, <1>7, <1>8, <1>9

-----------------------------------------------------------------------------
(***************************************************************************)
(* Types, and the bound of the channel to the application.                 *)
(***************************************************************************)
THEOREM StreamTypes == StreamSpec => []StreamTypeOK
<1>1. IInv => StreamTypeOK
  BY IInvTypes
<1> QED
  BY <1>1, Invariant, PTL

(***************************************************************************)
(* A stream whose active_open succeeded is there on both sides.            *)
(***************************************************************************)
THEOREM OpenedOnBothSides == StreamSpec => []OpenIsMutual
<1>1. IInv => OpenIsMutual
  BY IInvImplies
<1> QED
  BY <1>1, Invariant, PTL

(***************************************************************************)
(* close() shuts the application's channel before it closes the flows.     *)
(***************************************************************************)
THEOREM ShutBeforeClosed == StreamSpec => []ClosedIsShut
<1>1. IInv => ClosedIsShut
  BY IInvImplies
<1> QED
  BY <1>1, Invariant, PTL

(***************************************************************************)
(* Of the messages it took the dispatcher of a stream loses at most the    *)
(* last, and that only if close() came between its take and its test.      *)
(***************************************************************************)
THEOREM CloseDropsOneAtMost == StreamSpec => []OnlyLastDropped
<1>1. IInv => OnlyLastDropped
  BY IInvImplies
<1> QED
  BY <1>1, Invariant, PTL

(***************************************************************************)
(* Each direction of a stream implements MessageChannel, whatever arrives  *)
(* first and whoever closes or panics.                                     *)
(***************************************************************************)
THEOREM StreamCarriesMessages == StreamSpec => CarriesMessages
<1>1. StreamInit => Forth!Init /\ Back!Init
  BY Sides DEF StreamInit, Forth!Init, Back!Init, Stopped
<1>2. IInv /\ [StreamNext]_streamVars => [Forth!Next]_Forth!vars
  <2> SUFFICES ASSUME IInv, [StreamNext]_streamVars PROVE [Forth!Next]_Forth!vars
    OBVIOUS
  <2> DEFINE s == "active"
  <2>1. s \in Side /\ Other(s) = "passive"
    BY Sides
  <2>2. CASE sent'[s] # sent[s]
    BY <2>1, <2>2, AcceptStep DEF Forth!Next, Forth!Accept
  <2>3. CASE got'["passive"] # got["passive"]
    BY <2>1, <2>3, DeliverStep DEF Forth!Next, Forth!Deliver
  <2>4. CASE sent'[s] = sent[s] /\ got'["passive"] = got["passive"]
    BY <2>1, <2>4, StopsStep DEF Forth!Next, Forth!Stop, Forth!vars
  <2> QED
    BY <2>2, <2>3, <2>4
<1>3. IInv /\ [StreamNext]_streamVars => [Back!Next]_Back!vars
  <2> SUFFICES ASSUME IInv, [StreamNext]_streamVars PROVE [Back!Next]_Back!vars
    OBVIOUS
  <2> DEFINE s == "passive"
  <2>1. s \in Side /\ Other(s) = "active"
    BY Sides
  <2>2. CASE sent'[s] # sent[s]
    BY <2>1, <2>2, AcceptStep DEF Back!Next, Back!Accept
  <2>3. CASE got'["active"] # got["active"]
    BY <2>1, <2>3, DeliverStep DEF Back!Next, Back!Deliver
  <2>4. CASE sent'[s] = sent[s] /\ got'["active"] = got["active"]
    BY <2>1, <2>4, StopsStep DEF Back!Next, Back!Stop, Back!vars
  <2> QED
    BY <2>2, <2>3, <2>4
<1> QED
  BY <1>1, <1>2, <1>3, Invariant, PTL DEF StreamSpec, CarriesMessages, Forth!Spec, Back!Spec

-----------------------------------------------------------------------------
(***************************************************************************)
(* Chunks that are sent in one packet: the first tells its place, and      *)
(* those that continue its flow do not.                                    *)
(***************************************************************************)
Sendable(c) ==
  /\ DOMAIN c = 1 .. Len(c) /\ Len(c) \in {1, 2, 3}
  /\ GetsThere(c[1])
  /\ Len(c) # 1 => /\ c[1] \in SentUserData /\ c[2] \in SentUserData
                   /\ Place(c[2]) = NextPlace(Place(c[1]))
  /\ Len(c) = 3 => c[3] \in SentUserData /\ Place(c[3]) = NextPlace(Place(c[2]))

\* A frame, for the chunk of the type.
TypedFrame(t, d) == Frame(ChunkTypes[t], d)

LEMMA TypedFrameIs ==
  \A t, d : t \in DOMAIN ChunkTypes =>
     /\ TypeNamed(TypedFrame(t, d).type) = t /\ TypedFrame(t, d).data = d
     /\ \A last : /\ PlaceBehind(TypedFrame(t, d), last) = PlaceAfter(t, last, d)
                  /\ ReadFrame(last, TypedFrame(t, d)) = ReadAs(t, last, d)
<1>1. ASSUME NEW t \in DOMAIN ChunkTypes, NEW d
      PROVE  TypeNamed(TypedFrame(t, d).type) = t /\ TypedFrame(t, d).data = d
  BY ChunkTypesIn DEF TypedFrame, Frame
<1> QED
  BY <1>1 DEF PlaceBehind, ReadFrame

LEMMA ReadAll ==
  ASSUME NEW s, NEW n \in {1, 2, 3}, Len(s) = n, DOMAIN s = 1 .. n, NEW b, Frames[b] = s, NEW c,
         DOMAIN c = 1 .. n, \A i \in 1 .. n : ReadFrame(Places(s)[i], s[i]) = Rounded(c[i])
  PROVE  ReadChunks(b) = [i \in DOMAIN c |-> Rounded(c[i])]
<1>1. ReadChunks(b) = [i \in 1 .. n |-> ReadFrame(Places(s)[i], s[i])]
  BY ReadChunksIs
<1> QED
  BY <1>1

\* The first chunk, and one after it.
LEMMA FirstRead ==
  ASSUME NEW m, GetsThere(m), NEW f, f = TypedFrame(m.type, DataOf(m))
  PROVE  /\ ReadFrame(PlaceBehind(f, NoPlace), f) = Rounded(m)
         /\ m \in SentUserData => PlaceBehind(f, NoPlace) = Place(m)
<1>1. m.type \in DOMAIN ChunkTypes
  BY DEF GetsThere
<1>2. /\ PlaceBehind(f, NoPlace) = PlaceAfter(m.type, NoPlace, DataOf(m))
      /\ ReadFrame(PlaceBehind(f, NoPlace), f) = ReadAs(m.type, PlaceBehind(f, NoPlace), DataOf(m))
  BY <1>1, TypedFrameIs
<1>3. ASSUME m \in SentUserData
      PROVE  PlaceAfter(m.type, NoPlace, DataOf(m)) = Place(m)
  <2>1. m.type = "userdata"
    BY <1>3, UserDataIs
  <2>2. DataOf(m) = EncodeUserData(m)
    BY <2>1 DEF DataOf, StartupTypes, EncodeSessionChunk
  <2>3. DecodePlace(From(EncodeUserData(m), 2)).value = Place(m)
    BY <1>3, UserDataBack
  <2> QED
    BY <2>1, <2>2, <2>3 DEF PlaceAfter
<1> QED
  BY <1>2, <1>3 DEF GetsThere

LEMMA NextRead ==
  ASSUME NEW m \in SentUserData, NEW f, f = TypedFrame("nextuserdata", EncodeNextUserData(m)),
         NEW last, Place(m) = NextPlace(last)
  PROVE  ReadFrame(PlaceBehind(f, last), f) = Rounded(m) /\ PlaceBehind(f, last) = Place(m)
<1> DEFINE d == EncodeNextUserData(m)
           t == "nextuserdata"
<1>1. t \in DOMAIN ChunkTypes
  BY DEF ChunkTypes
<1>2. /\ PlaceBehind(f, last) = PlaceAfter(t, last, d)
      /\ ReadFrame(PlaceBehind(f, last), f) = ReadAs(t, PlaceBehind(f, last), d)
  <2> HIDE DEF t, d
  <2>1. f = TypedFrame(t, d)
    BY DEF t, d
  <2> QED
    BY <1>1, <2>1, TypedFrameIs
<1>3. DecodeNextUserData(Place(m), d) = m
  BY NextUserDataBack
<1>4. Rounded(m) = m
  <2>1. m.type = "userdata"
    BY UserDataIs
  <2> QED
    BY <2>1 DEF Rounded
<1> HIDE DEF d
<1>5. PlaceAfter(t, last, d) = Place(m)
  BY DEF PlaceAfter
<1>6. ReadAs(t, Place(m), d) = m
  BY <1>3 DEF ReadAs, StartupTypes, DecodeSessionChunk
<1> QED
  BY <1>2, <1>4, <1>5, <1>6

LEMMA PackChunkIs ==
  ASSUME Sendable(chunks)
  PROVE  /\ IsFramed(PackChunk(1), ChunkTypes[chunks[1].type], DataOf(chunks[1]))
         /\ \A i : (i \in 2 .. 3 /\ chunks[i] \in SentUserData) =>
              IsFramed(PackChunk(i), ChunkTypes["nextuserdata"], EncodeNextUserData(chunks[i]))
<1>1. IsFramed(PackChunk(1), ChunkTypes[chunks[1].type], DataOf(chunks[1]))
  <2> DEFINE m == chunks[1]
  <2>1. m.type \in DOMAIN ChunkTypes /\ DataOf(m) \in Buffer /\ Size(DataOf(m)) \in Short
    BY DEF Sendable, GetsThere
  <2>2. PackChunk(1) = AddChunk(m.type, DataOf(m))
    BY DEF PackChunk, DataOf
  <2> HIDE DEF m
  <2>3. AddChunk(m.type, DataOf(m)) = Framed(ChunkTypes[m.type], DataOf(m))
    BY <2>1, AddChunkIs
  <2>4. ChunkTypes[m.type] \in Byte
    BY <2>1, ChunkTypesIn
  <2> QED
    BY <2>1, <2>2, <2>3, <2>4 DEF IsFramed, m
<1>2. ASSUME NEW i \in 2 .. 3, chunks[i] \in SentUserData
      PROVE  IsFramed(PackChunk(i), ChunkTypes["nextuserdata"], EncodeNextUserData(chunks[i]))
  <2> DEFINE m == chunks[i]
             t == "nextuserdata"
             d == EncodeNextUserData(m)
  <2>1. m.type = "userdata" /\ i > 1
    BY <1>2, UserDataIs
  <2>2. d \in Buffer /\ Size(d) \in Short
    BY <1>2, NextUserDataBack
  <2>3. PackChunk(i) = AddChunk(t, d)
    BY <2>1 DEF PackChunk, StartupTypes
  <2>4. t \in DOMAIN ChunkTypes
    BY DEF ChunkTypes
  <2> HIDE DEF m, t, d
  <2>5. AddChunk(t, d) = Framed(ChunkTypes[t], d) /\ ChunkTypes[t] \in Byte
    BY <2>2, <2>4, AddChunkIs, ChunkTypesIn
  <2>6. IsFramed(PackChunk(i), ChunkTypes[t], d)
    BY <2>2, <2>3, <2>5 DEF IsFramed
  <2> QED
    BY <2>6 DEF m, t, d
<1> QED
  BY <1>1, <1>2

PacketBody == FlattenSeq([i \in DOMAIN chunks |-> PackChunk(i)])

-----------------------------------------------------------------------------
(***************************************************************************)
(* The packet's chunks are read back, in their places.                     *)
(***************************************************************************)
Carried == [i \in DOMAIN chunks |-> Rounded(chunks[i])]
First1 == TypedFrame(chunks[1].type, DataOf(chunks[1]))
NextOne(i) == TypedFrame("nextuserdata", EncodeNextUserData(chunks[i]))

LEMMA BodyIs ==
  ASSUME Sendable(chunks)
  PROVE  /\ PacketBody \in Buffer
         /\ Len(chunks) = 1 => PacketBody = PackChunk(1)
         /\ Len(chunks) = 2 => PacketBody = Join(PackChunk(1), PackChunk(2))
         /\ Len(chunks) = 3 => PacketBody = Join(PackChunk(1), Join(PackChunk(2), PackChunk(3)))
<1> DEFINE n == Len(chunks)
           s == [i \in DOMAIN chunks |-> PackChunk(i)]
<1>1. n \in {1, 2, 3} /\ DOMAIN chunks = 1 .. n
  BY DEF Sendable
<1>2. PackChunk(1) \in Buffer
  BY PackChunkIs, IsFramedIn
<1>3. ASSUME NEW i \in 2 .. 3, chunks[i] \in SentUserData
      PROVE  PackChunk(i) \in Buffer
  BY <1>3, PackChunkIs, IsFramedIn
<1>4. n # 1 => PackChunk(2) \in Buffer
  BY <1>3 DEF Sendable
<1>5. n = 3 => PackChunk(3) \in Buffer
  BY <1>3 DEF Sendable
<1> DEFINE P(i) == PackChunk(i)
<1>6. s = [i \in 1 .. n |-> P(i)]
  BY <1>1
<1>7. \A i \in 1 .. n : P(i) \in Buffer
  <2> HIDE DEF n
  <2>1. \A i \in 1 .. n : i = 1 \/ (i = 2 /\ n # 1) \/ (i = 3 /\ n = 3)
    BY <1>1
  <2> QED
    BY <1>2, <1>4, <1>5, <2>1
<1> HIDE DEF P, n
<1>8. s \in [1 .. n -> Buffer] /\ s[1] = P(1) /\ (n # 1 => s[2] = P(2)) /\ (n = 3 => s[3] = P(3))
  BY <1>1, <1>6, <1>7
<1>9. PacketBody = FlattenSeq(s)
  BY DEF PacketBody
<1> HIDE DEF s
<1>10. s \in Buffers /\ Len(s) = n
  BY <1>1, <1>8, AsBuffers
<1>11. CASE n = 1
  <2>1. Flat1(s)
    BY <1>10, <1>11, FlatFew
  <2> QED
    BY <1>8, <1>9, <1>11, <2>1 DEF Flat1, P, n
<1>12. CASE n = 2
  <2>1. Flat2(s)
    BY <1>10, <1>12, FlatFew
  <2>2. PacketBody = Join(P(1), P(2)) /\ P(1) \in Buffer /\ P(2) \in Buffer
    BY <1>8, <1>9, <1>12, <2>1 DEF Flat2
  <2> QED
    BY <1>12, <2>2, JoinIn DEF P, n
<1>13. CASE n = 3
  <2>1. Flat3(s)
    BY <1>10, <1>13, FlatFew
  <2>2. PacketBody = Join(P(1), Join(P(2), P(3))) /\ P(1) \in Buffer /\ P(2) \in Buffer /\ P(3) \in Buffer
    BY <1>8, <1>9, <1>13, <2>1 DEF Flat3
  <2> QED
    BY <1>13, <2>2, JoinIn DEF P, n
<1> QED
  BY <1>1, <1>11, <1>12, <1>13

LEMMA BodyFrames ==
  ASSUME Sendable(chunks), NEW k \in 0 .. 15
  PROVE  /\ Len(chunks) = 1 => Frames[Join(PacketBody, SomeBytes(k))] = <<First1>>
         /\ Len(chunks) = 2 => Frames[Join(PacketBody, SomeBytes(k))] = <<First1, NextOne(2)>>
         /\ Len(chunks) = 3 => Frames[Join(PacketBody, SomeBytes(k))] = <<First1, NextOne(2), NextOne(3)>>
<1> DEFINE t1 == ChunkTypes[chunks[1].type]
           d1 == DataOf(chunks[1])
           t  == ChunkTypes["nextuserdata"]
           D(i) == EncodeNextUserData(chunks[i])
           C(i) == PackChunk(i)
           B == PacketBody
<1>1. IsFramed(C(1), t1, d1)
  BY PackChunkIs
<1>2. ASSUME NEW i \in 2 .. 3, chunks[i] \in SentUserData
      PROVE  IsFramed(C(i), t, D(i))
  BY <1>2, PackChunkIs
<1>3. Len(chunks) # 1 => IsFramed(C(2), t, D(2))
  BY <1>2 DEF Sendable
<1>4. Len(chunks) = 3 => IsFramed(C(3), t, D(3))
  BY <1>2 DEF Sendable
<1>5. Len(chunks) \in {1, 2, 3}
  BY DEF Sendable
<1>6. First1 = Frame(t1, d1) /\ NextOne(2) = Frame(t, D(2)) /\ NextOne(3) = Frame(t, D(3))
  BY DEF First1, NextOne, TypedFrame
<1>7. /\ Len(chunks) = 1 => B = C(1)
      /\ Len(chunks) = 2 => B = Join(C(1), C(2))
      /\ Len(chunks) = 3 => B = Join(C(1), Join(C(2), C(3)))
  BY BodyIs
<1> HIDE DEF t1, d1, t, D, C, B
<1>8. CASE Len(chunks) = 1
  <2>1. Frames[Join(Framed(t1, d1), SomeBytes(k))] = <<Frame(t1, d1)>>
    BY <1>1, FramesOne DEF IsFramed
  <2>2. B = Framed(t1, d1)
    BY <1>1, <1>7, <1>8 DEF IsFramed
  <2> QED
    BY <1>6, <1>8, <2>1, <2>2 DEF B
<1>9. CASE Len(chunks) = 2
  <2>1. Frames[Join(Join(C(1), C(2)), SomeBytes(k))] = <<Frame(t1, d1), Frame(t, D(2))>>
    BY <1>1, <1>3, <1>9, FramesTwo
  <2> QED
    BY <1>6, <1>7, <1>9, <2>1 DEF B
<1>10. CASE Len(chunks) = 3
  <2>1. Frames[Join(Join(C(1), Join(C(2), C(3))), SomeBytes(k))]
          = <<Frame(t1, d1), Frame(t, D(2)), Frame(t, D(3))>>
    BY <1>1, <1>3, <1>4, <1>10, FramesThree
  <2> QED
    BY <1>6, <1>7, <1>10, <2>1 DEF B
<1> QED
  BY <1>5, <1>8, <1>9, <1>10

LEMMA BodyBack ==
  ASSUME Sendable(chunks), NEW k \in 0 .. 15
  PROVE  ReadChunks(Join(PacketBody, SomeBytes(k))) = Carried
<1> DEFINE n == Len(chunks)
           b == Join(PacketBody, SomeBytes(k))
           s == Frames[b]
           f1 == First1
           F(i) == NextOne(i)
           Q(i) == Places(s)[i]
           R(i) == ReadFrame(Q(i), s[i]) = Rounded(chunks[i])
<1>1. n \in {1, 2, 3} /\ DOMAIN chunks = 1 .. n
  BY DEF Sendable
<1>2. /\ n = 1 => s = <<f1>>
      /\ n = 2 => s = <<f1, F(2)>>
      /\ n = 3 => s = <<f1, F(2), F(3)>>
  BY BodyFrames
<1> HIDE DEF n, b, s, f1, F
<1>3. /\ Len(s) = n /\ DOMAIN s = 1 .. n /\ s[1] = f1
      /\ (n # 1 => s[2] = F(2)) /\ (n = 3 => s[3] = F(3))
  BY <1>1, <1>2
<1>4. /\ Q(1) = PlaceBehind(f1, NoPlace)
      /\ n # 1 => Q(2) = PlaceBehind(F(2), Q(1))
      /\ n = 3 => Q(3) = PlaceBehind(F(3), Q(2))
  <2>1. /\ Places(s)[1] = PlaceBehind(s[1], NoPlace)
        /\ n >= 2 => Places(s)[2] = PlaceBehind(s[2], Places(s)[1])
        /\ n >= 3 => Places(s)[3] = PlaceBehind(s[3], Places(s)[2])
    BY <1>1, <1>3, PlacesAre
  <2> QED
    BY <1>1, <1>3, <2>1
<1>5. R(1) /\ (n # 1 => Q(1) = Place(chunks[1]))
  <2> DEFINE m == chunks[1]
  <2>1. GetsThere(m) /\ f1 = TypedFrame(m.type, DataOf(m)) /\ (n # 1 => m \in SentUserData)
    BY DEF f1, First1, Sendable, n
  <2> HIDE DEF m, R, Q
  <2>2. /\ ReadFrame(PlaceBehind(f1, NoPlace), f1) = Rounded(m)
        /\ m \in SentUserData => PlaceBehind(f1, NoPlace) = Place(m)
    BY <2>1, FirstRead
  <2> QED
    BY <1>3, <1>4, <2>1, <2>2 DEF R, m
<1>6. ASSUME n # 1
      PROVE  R(2) /\ Q(2) = Place(chunks[2])
  <2> DEFINE m == chunks[2]
             f == F(2)
             last == Q(1)
  <2>1. /\ m \in SentUserData /\ f = TypedFrame("nextuserdata", EncodeNextUserData(m))
        /\ Place(m) = NextPlace(Place(chunks[1]))
    BY <1>6 DEF F, NextOne, Sendable, n
  <2>2. last = Place(chunks[1]) /\ Q(2) = PlaceBehind(f, last) /\ s[2] = f
    BY <1>3, <1>4, <1>5, <1>6
  <2> HIDE DEF m, R, Q, f, last
  <2>3. ReadFrame(PlaceBehind(f, last), f) = Rounded(m) /\ PlaceBehind(f, last) = Place(m)
    BY <2>1, <2>2, NextRead
  <2> QED
    BY <2>2, <2>3 DEF R, m
<1>7. ASSUME n = 3
      PROVE  R(3)
  <2> DEFINE m == chunks[3]
             f == F(3)
             last == Q(2)
  <2>1. /\ m \in SentUserData /\ f = TypedFrame("nextuserdata", EncodeNextUserData(m))
        /\ Place(m) = NextPlace(Place(chunks[2]))
    BY <1>7 DEF F, NextOne, Sendable, n
  <2>2. last = Place(chunks[2]) /\ Q(3) = PlaceBehind(f, last) /\ s[3] = f
    BY <1>3, <1>4, <1>6, <1>7
  <2> HIDE DEF m, R, Q, f, last
  <2>3. ReadFrame(PlaceBehind(f, last), f) = Rounded(m) /\ PlaceBehind(f, last) = Place(m)
    BY <2>1, <2>2, NextRead
  <2> QED
    BY <2>2, <2>3 DEF R, m
<1>8. \A i \in 1 .. n : R(i)
  <2>1. \A i \in 1 .. n : i = 1 \/ (i = 2 /\ n # 1) \/ (i = 3 /\ n = 3)
    BY <1>1
  <2> HIDE DEF R, Q
  <2> QED
    BY <1>5, <1>6, <1>7, <2>1
<1>9. ReadChunks(b) = [i \in DOMAIN chunks |-> Rounded(chunks[i])]
  <2> DEFINE r == s
             c == chunks
  <2>1. Frames[b] = r /\ Len(r) = n /\ DOMAIN r = 1 .. n /\ DOMAIN c = 1 .. n
    BY <1>1, <1>3 DEF s
  <2>2. \A i \in 1 .. n : ReadFrame(Places(r)[i], r[i]) = Rounded(c[i])
    BY <1>8
  <2> HIDE DEF r, c
  <2>3. ReadChunks(b) = [i \in DOMAIN r |-> ReadFrame(Places(r)[i], r[i])]
    <3>1. ReadChunks(b) = [i \in DOMAIN Frames[b] |-> ReadFrame(Places(Frames[b])[i], Frames[b][i])]
      BY ReadChunksIs
    <3> QED
      BY <2>1, <3>1
  <2> DEFINE G(i) == ReadFrame(Places(r)[i], r[i])
             H(i) == Rounded(c[i])
  <2>4. ReadChunks(b) = [i \in 1 .. n |-> G(i)] /\ \A i \in 1 .. n : G(i) = H(i)
    BY <2>1, <2>2, <2>3
  <2> HIDE DEF G, H
  <2>5. ReadChunks(b) = [i \in 1 .. n |-> H(i)]
    BY <2>4
  <2>6. ReadChunks(b) = [i \in DOMAIN c |-> Rounded(c[i])]
    BY <2>1, <2>5 DEF H
  <2> QED
    BY <2>6 DEF c
<1> QED
  BY <1>9 DEF b, Carried

-----------------------------------------------------------------------------
(***************************************************************************)
(* Each of the initial states sends such chunks.                           *)
(***************************************************************************)
Moved(m, f, q, o) == [m EXCEPT !.flowid = f, !.seq = q, !.offset = o]

MovedTo(m, f, q, o, x) ==
  /\ x \in SentUserData /\ Place(x) = [flowid |-> f, seq |-> q, offset |-> o]
  /\ (f = m.flowid /\ q = m.seq /\ o = m.offset => x = m)

LEMMA MovedIs ==
  ASSUME NEW m \in SentUserData, NEW f \in Number, NEW q \in Number, NEW o \in Number
  PROVE  MovedTo(m, f, q, o, Moved(m, f, q, o))
<1>1. /\ m.type = "userdata" /\ m.frag \in 0 .. 3 /\ m.abandon \in BOOLEAN /\ m.final \in BOOLEAN
      /\ m.options \in Buffer /\ m.data \in Buffer
      /\ Size(m.data) <= 2000 /\ (m.options = Nil \/ OptionsEnd(m.options))
      /\ m = [type |-> "userdata", frag |-> m.frag, abandon |-> m.abandon, final |-> m.final,
              flowid |-> m.flowid, seq |-> m.seq, offset |-> m.offset,
              options |-> m.options, data |-> m.data]
  BY UserDataIs
<1> DEFINE x == [type |-> "userdata", frag |-> m.frag, abandon |-> m.abandon, final |-> m.final,
                 flowid |-> f, seq |-> q, offset |-> o, options |-> m.options, data |-> m.data]
<1>2. x \in UserDataFields
  BY <1>1 DEF UserDataFields
<1>3. Moved(m, f, q, o) = x
  <2>1. m \in UserDataFields
    BY DEF SentUserData
  <2>2. /\ x.type = m.type /\ x.frag = m.frag /\ x.abandon = m.abandon /\ x.final = m.final
        /\ x.options = m.options /\ x.data = m.data /\ x.flowid = f /\ x.seq = q /\ x.offset = o
    BY <1>1
  <2> HIDE DEF x
  <2> QED
    BY <1>2, <2>1, <2>2 DEF UserDataFields, Moved
<1>4. x \in SentUserData
  BY <1>1, <1>2 DEF SentUserData
<1>5. Place(x) = [flowid |-> f, seq |-> q, offset |-> o]
  BY DEF Place
<1>6. f = m.flowid /\ q = m.seq /\ o = m.offset => x = m
  BY <1>1
<1> HIDE DEF x
<1> QED
  BY <1>3, <1>4, <1>5, <1>6 DEF MovedTo

LEMMA NextPlaceIs ==
  \A g, a, b : (g \in Number /\ a \in Nat /\ b \in Nat) =>
    NextPlace([flowid |-> g, seq |-> a, offset |-> b]) = [flowid |-> g, seq |-> a + 1, offset |-> b + 1]
<1>1. ASSUME NEW g \in Number, NEW a \in Nat, NEW b \in Nat
      PROVE  NextPlace([flowid |-> g, seq |-> a, offset |-> b]) = [flowid |-> g, seq |-> a + 1, offset |-> b + 1]
  <2> DEFINE p == [flowid |-> g, seq |-> a, offset |-> b]
             r == [flowid |-> g, seq |-> a + 1, offset |-> b + 1]
             S == [flowid : Number, seq : Nat, offset : Nat]
  <2>1. p \in S /\ r \in S /\ r.flowid = p.flowid /\ r.seq = p.seq + 1 /\ r.offset = p.offset + 1
    OBVIOUS
  <2> HIDE DEF p, r
  <2>2. NextPlace(p) = r
    BY <2>1 DEF NextPlace
  <2> QED
    BY <2>2 DEF p, r
<1> QED
  BY <1>1

LEMMA OneSendable ==
  \A m : GetsThere(m) => Sendable(<<m>>)
BY DEF Sendable

PlacedTwo(m, n) == Placed(<<m, n>>)
PlacedThree(m, n) == Placed(<<m, n, n>>)

LEMMA PlacedIs ==
  ASSUME NEW m, NEW n, m.seq \in Nat, m.offset \in Nat
  PROVE  /\ PlacedTwo(m, n)
              = <<Moved(m, m.flowid, m.seq, m.offset), Moved(n, m.flowid, m.seq + 1, m.offset + 1)>>
         /\ PlacedThree(m, n)
              = <<Moved(m, m.flowid, m.seq, m.offset), Moved(n, m.flowid, m.seq + 1, m.offset + 1),
                  Moved(n, m.flowid, m.seq + 2, m.offset + 2)>>
<1> DEFINE At(x, i) == Moved(x, m.flowid, m.seq + i - 1, m.offset + i - 1)
<1>1. PlacedTwo(m, n) = [i \in 1 .. 2 |-> At(<<m, n>>[i], i)]
  BY DEF PlacedTwo, Placed, Moved
<1>2. PlacedThree(m, n) = [i \in 1 .. 3 |-> At(<<m, n, n>>[i], i)]
  BY DEF PlacedThree, Placed, Moved
<1>3. At(m, 1) = Moved(m, m.flowid, m.seq, m.offset)
  <2>1. m.seq + 1 - 1 = m.seq /\ m.offset + 1 - 1 = m.offset
    OBVIOUS
  <2> QED
    BY <2>1
<1>4. At(n, 2) = Moved(n, m.flowid, m.seq + 1, m.offset + 1)
  <2>1. m.seq + 2 - 1 = m.seq + 1 /\ m.offset + 2 - 1 = m.offset + 1
    OBVIOUS
  <2> QED
    BY <2>1
<1>5. At(n, 3) = Moved(n, m.flowid, m.seq + 2, m.offset + 2)
  <2>1. m.seq + 3 - 1 = m.seq + 2 /\ m.offset + 3 - 1 = m.offset + 2
    OBVIOUS
  <2> QED
    BY <2>1
<1> HIDE DEF At
<1>6. [i \in 1 .. 2 |-> At(<<m, n>>[i], i)] = <<At(m, 1), At(n, 2)>>
  OBVIOUS
<1>7. [i \in 1 .. 3 |-> At(<<m, n, n>>[i], i)] = <<At(m, 1), At(n, 2), At(n, 3)>>
  OBVIOUS
<1> QED
  BY <1>1, <1>2, <1>3, <1>4, <1>5, <1>6, <1>7

LEMMA PlacedSendable ==
  ASSUME NEW m \in SentUserData, NEW n \in SentUserData, m.seq \in {1, 127}, m.offset = 0
  PROVE  Sendable(PlacedTwo(m, n)) /\ Sendable(PlacedThree(m, n))
<1> DEFINE f == m.flowid
           q == m.seq
           o == m.offset
           x == Moved(n, f, q + 1, o + 1)
           y == Moved(n, f, q + 2, o + 2)
<1>1. f \in Number /\ q \in Number /\ o \in Number
  BY UserDataIs
<1>2. q \in Nat /\ q <= 127 /\ o = 0 /\ o \in Nat
  OBVIOUS
<1>3. q + 1 \in Number /\ q + 2 \in Number /\ o + 1 \in Number /\ o + 2 \in Number
  <2> HIDE DEF q, o
  <2>1. q + 1 \in Short /\ q + 2 \in Short /\ o + 1 \in Short /\ o + 2 \in Short
    BY <1>2 DEF Short
  <2> QED
    BY <2>1, SmallNumber
<1>4. Moved(m, f, q, o) = m
  <2> HIDE DEF f, q, o
  <2>1. MovedTo(m, f, q, o, Moved(m, f, q, o))
    BY <1>1, MovedIs
  <2> QED
    BY <2>1 DEF MovedTo, f, q, o
<1>5. PlacedTwo(m, n) = <<m, x>> /\ PlacedThree(m, n) = <<m, x, y>>
  BY <1>2, <1>4, PlacedIs
<1>6. Place(m) = [flowid |-> f, seq |-> q, offset |-> o]
  BY DEF Place
<1> DEFINE q1 == q + 1
           q2 == q + 2
           o1 == o + 1
           o2 == o + 2
<1>7. q1 + 1 = q2 /\ o1 + 1 = o2 /\ q1 = q + 1 /\ o1 = o + 1 /\ q1 \in Nat /\ o1 \in Nat
  BY <1>2
<1>8. x = Moved(n, f, q1, o1) /\ y = Moved(n, f, q2, o2)
  OBVIOUS
<1> HIDE DEF f, q, o, x, y, q1, q2, o1, o2
<1>a. q1 \in Number /\ q2 \in Number /\ o1 \in Number /\ o2 \in Number
  BY <1>3 DEF q1, o1, q2, o2
<1>b. MovedTo(n, f, q1, o1, Moved(n, f, q1, o1)) /\ MovedTo(n, f, q2, o2, Moved(n, f, q2, o2))
  BY <1>1, <1>a, MovedIs
<1>9. x \in SentUserData /\ Place(x) = [flowid |-> f, seq |-> q1, offset |-> o1]
  BY <1>8, <1>b DEF MovedTo
<1>10. y \in SentUserData /\ Place(y) = [flowid |-> f, seq |-> q2, offset |-> o2]
  BY <1>8, <1>b DEF MovedTo
<1>c. \A g, a, b : (g \in Number /\ a \in Nat /\ b \in Nat) =>
        NextPlace([flowid |-> g, seq |-> a, offset |-> b]) = [flowid |-> g, seq |-> a + 1, offset |-> b + 1]
  BY NextPlaceIs
<1>11. Place(x) = NextPlace(Place(m))
  <2>1. NextPlace(Place(m)) = [flowid |-> f, seq |-> q + 1, offset |-> o + 1]
    BY <1>1, <1>2, <1>6, <1>c
  <2> QED
    BY <1>7, <1>9, <2>1
<1>12. Place(y) = NextPlace(Place(x))
  <2>1. NextPlace(Place(x)) = [flowid |-> f, seq |-> q1 + 1, offset |-> o1 + 1]
    BY <1>1, <1>7, <1>9, <1>c
  <2> QED
    BY <1>7, <1>10, <2>1
<1>13. GetsThere(m)
  BY UserDataArrives
<1>14. Sendable(<<m, x>>) /\ Sendable(<<m, x, y>>)
  BY <1>9, <1>10, <1>11, <1>12, <1>13 DEF Sendable
<1> QED
  BY <1>5, <1>14

LEMMA ContinuedSendable ==
  \A c : c \in Continued => Sendable(c) /\ DOMAIN c = 1 .. Len(c)
<1> DEFINE M == UserData({0, 1}, Numbers, {1, 127}, {0}, Sizes)
           N == UserData({2}, {2}, {2}, {2}, {SomeBytes(3)})
<1>1. ASSUME NEW m \in M
      PROVE  m \in SentUserData /\ m.seq \in {1, 127} /\ m.offset = 0
  <2> DEFINE F == {0, 1}
             S == {1, 127}
             O == {0}
             D == Sizes
  <2>1. F \in SUBSET (0 .. 3) /\ Numbers \in SUBSET Number /\ S \in SUBSET Number /\ O \in SUBSET Number
    BY NumbersIn
  <2>2. AllShort(D)
    BY DataSent
  <2>3. m \in UserData(F, Numbers, S, O, D)
    OBVIOUS
  <2>4. O = {0} /\ S = {1, 127}
    OBVIOUS
  <2> HIDE DEF F, S, O, D, M
  <2>5. m \in SentUserData /\ m.seq \in S /\ m.offset \in O
    BY <2>1, <2>2, <2>3, UserDataIn
  <2> QED
    BY <2>4, <2>5
<1>2. ASSUME NEW n \in N
      PROVE  n \in SentUserData
  <2> DEFINE F == {2}
             O == {2}
             D == {SomeBytes(3)}
  <2>1. F \in SUBSET (0 .. 3) /\ O \in SUBSET Number
    BY NumbersIn
  <2>2. AllShort(D)
    BY DataSent
  <2>3. n \in UserData(F, O, O, O, D)
    OBVIOUS
  <2> HIDE DEF F, O, D, N
  <2> QED
    BY <2>1, <2>2, <2>3, UserDataIn
<1>3. Continued = UNION {{PlacedTwo(m, n), PlacedThree(m, n)} : m \in M, n \in N}
  BY DEF Continued, PlacedTwo, PlacedThree
<1> HIDE DEF M, N
<1>4. ASSUME NEW c \in Continued
      PROVE  \E m \in M, n \in N : c = PlacedTwo(m, n) \/ c = PlacedThree(m, n)
  BY <1>3, <1>4
<1>5. ASSUME NEW c \in Continued
      PROVE  Sendable(c)
  <2>1. PICK m \in M, n \in N : c = PlacedTwo(m, n) \/ c = PlacedThree(m, n)
    BY <1>4
  <2>2. Sendable(PlacedTwo(m, n)) /\ Sendable(PlacedThree(m, n))
    BY <1>1, <1>2, PlacedSendable
  <2> QED
    BY <2>1, <2>2
<1> QED
  BY <1>5 DEF Sendable

Single(M) == {<<m>> : m \in M}

LEMMA SingleSendable ==
  ASSUME NEW M, \A m : m \in M => GetsThere(m), NEW c \in Single(M)
  PROVE  Sendable(c)
<1>1. PICK m \in M : c = <<m>>
  BY DEF Single
<1> QED
  BY <1>1, OneSendable

Stamps == {0, 1, 255, 256, 65535}
Headers ==
  [ts : Stamps, echo : Stamps, mode : {1, 2, 3}, critical : BOOLEAN, reverse : BOOLEAN]

LEMMA HeadersIn ==
  \A m, s, b, h : (s \subseteq Stamps /\ b \subseteq BOOLEAN /\ h \in HeaderFor(m, s, b)) =>
     h \in Headers
<1>1. \A m : Mode(m) \subseteq {1, 2, 3}
  BY DEF Mode
<1> HIDE DEF Stamps
<1> QED
  BY <1>1 DEF HeaderFor, Headers

LEMMA InitSendable ==
  PacketInit => /\ Sendable(chunks) /\ header \in Headers /\ dkey \in {"none", "session"}
                /\ packet = Nothing /\ received = Nothing
<1> DEFINE M1 == OneChunk \cup Keyings
           K3 == [type : {"rikeying"}, sid : {1}, nonce : {SomeBytes(8)}]
           P3 == [type : {"ping", "pingreply"}, body : Sizes]
           M3 == K3 \cup P3
           H1 == HeaderFor(chunks[1], {256}, {FALSE})
           H2 == HeaderFor(chunks[1], {0, 255}, {FALSE})
           H3 == HeaderFor(chunks[1], {0, 1, 255, 256, 65535}, BOOLEAN)
<1>1. /\ \A h : h \in H1 => h \in Headers
      /\ \A h : h \in H2 => h \in Headers
      /\ \A h : h \in H3 => h \in Headers
  <2> DEFINE s1 == {256}
             s2 == {0, 255}
             s3 == {0, 1, 255, 256, 65535}
             b1 == {FALSE}
             b3 == BOOLEAN
             m == chunks[1]
  <2>1. /\ s1 \subseteq Stamps /\ s2 \subseteq Stamps /\ s3 \subseteq Stamps
        /\ b1 \subseteq BOOLEAN /\ b3 \subseteq BOOLEAN
    BY DEF Stamps
  <2>2. H1 = HeaderFor(m, s1, b1) /\ H2 = HeaderFor(m, s2, b1) /\ H3 = HeaderFor(m, s3, b3)
    OBVIOUS
  <2> HIDE DEF s1, s2, s3, b1, b3, m, H1, H2, H3
  <2> QED
    BY Zenon, <2>1, <2>2, HeadersIn
<1>2. \A m : m \in M1 => GetsThere(m)
  BY OneChunkArrives, KeyingArrives
<1>3. \A m : m \in Hellos => GetsThere(m)
  BY HelloArrives
<1>4. \A m : m \in M3 => GetsThere(m)
  <2>1. \A m : m \in K3 => GetsThere(m)
    BY KeyingArrives
  <2>2. \A m : m \in P3 => GetsThere(m)
    <3>1. ASSUME NEW m \in P3
          PROVE  GetsThere(m)
      <4>1. Tells(m) /\ m.type \in {"ping", "pingreply"}
        BY PingArrives
      <4> QED
        BY <4>1, SessionArrives DEF OtherTypes
    <3> QED
      BY <3>1
  <2> HIDE DEF K3, P3
  <2> QED
    BY <2>1, <2>2
<1>5. ASSUME PacketInit
      PROVE  /\ \/ chunks \in Single(M1) /\ header \in H1 /\ dkey \in {"none", "session"}
                \/ chunks \in Single(Hellos) \cup Continued /\ header \in H2 /\ dkey \in {"none", "session"}
                \/ chunks \in Single(M3) /\ header \in H3 /\ dkey \in {"none", "session"}
             /\ packet = Nothing /\ received = Nothing
  BY <1>5 DEF PacketInit, Single
<1> HIDE DEF M1, M3, H1, H2, H3
<1>6. \A c : c \in Single(M1) => Sendable(c)
  BY <1>2, SingleSendable
<1>7. \A c : c \in Single(Hellos) => Sendable(c)
  BY <1>3, SingleSendable
<1>8. \A c : c \in Single(M3) => Sendable(c)
  BY <1>4, SingleSendable
<1> QED
  BY <1>1, <1>5, <1>6, <1>7, <1>8, ContinuedSendable

-----------------------------------------------------------------------------
(***************************************************************************)
(* The header of a packet.                                                 *)
(***************************************************************************)
HeadFlags(c, r, s, e, mode) == Bit(c, 128) + Bit(r, 64) + Bit(s, 8) + Bit(e, 4) + mode

HeadTells(x, c, r, s, e, mode) ==
  /\ x \in Byte /\ x % 4 = mode /\ (x >= 128) = c /\ ((x \div 64) % 2 = 1) = r
  /\ (x \div 8) % 2 = Bit(s, 1) /\ (x \div 4) % 2 = Bit(e, 1)

LEMMA HeadSays ==
  \A c, r, s, e \in BOOLEAN, mode \in {1, 2, 3} :
    HeadTells(HeadFlags(c, r, s, e, mode), c, r, s, e, mode)
<1> DEFINE P(c, r, s, e, mode) == HeadTells(HeadFlags(c, r, s, e, mode), c, r, s, e, mode)
<1>1. ASSUME NEW m \in {1, 2, 3}, NEW a \in {0, 4}, NEW b \in {0, 8}, NEW d \in {0, 64}, NEW f \in {0, 128}
      PROVE  LET x == f + d + b + a + m
             IN  /\ x \in Nat /\ x < 256 /\ x % 4 = m /\ (x >= 128) = (f = 128) /\ ((x \div 64) % 2 = 1) = (d = 64)
                 /\ (x \div 8) % 2 = (IF b = 8 THEN 1 ELSE 0) /\ (x \div 4) % 2 = (IF a = 4 THEN 1 ELSE 0)
  <2> DEFINE x == f + d + b + a + m
  <2>1. CASE f = 0
    <3>1. CASE d = 0
      BY <2>1, <3>1
    <3>2. CASE d = 64
      BY <2>1, <3>2
    <3> QED
      BY <3>1, <3>2
  <2>2. CASE f = 128
    <3>1. CASE d = 0
      BY <2>2, <3>1
    <3>2. CASE d = 64
      BY <2>2, <3>2
    <3> QED
      BY <3>1, <3>2
  <2> QED
    BY <2>1, <2>2
<1>2. ASSUME NEW c \in BOOLEAN, NEW r \in BOOLEAN, NEW s \in BOOLEAN, NEW e \in BOOLEAN, NEW m \in {1, 2, 3}
      PROVE  P(c, r, s, e, m)
  <2> DEFINE f == Bit(c, 128)
             d == Bit(r, 64)
             b == Bit(s, 8)
             a == Bit(e, 4)
             x == f + d + b + a + m
  <2>1. /\ f \in {0, 128} /\ d \in {0, 64} /\ b \in {0, 8} /\ a \in {0, 4}
        /\ (f = 128) = c /\ (d = 64) = r /\ Bit(s, 1) = (IF b = 8 THEN 1 ELSE 0)
        /\ Bit(e, 1) = (IF a = 4 THEN 1 ELSE 0)
    BY DEF Bit
  <2>2. HeadFlags(c, r, s, e, m) = x
    BY DEF HeadFlags
  <2> HIDE DEF f, d, b, a
  <2>3. /\ x \in Nat /\ x < 256 /\ x % 4 = m /\ (x >= 128) = (f = 128) /\ ((x \div 64) % 2 = 1) = (d = 64)
        /\ (x \div 8) % 2 = (IF b = 8 THEN 1 ELSE 0) /\ (x \div 4) % 2 = (IF a = 4 THEN 1 ELSE 0)
    BY <1>1, <2>1
  <2> HIDE DEF x
  <2>4. x \in Byte
    BY <2>3, ByteIs
  <2>5. HeadTells(x, c, r, s, e, m)
    BY <2>1, <2>3, <2>4 DEF HeadTells
  <2> QED
    BY <2>2, <2>5
<1> QED
  BY <1>2

LEMMA ThirdOf ==
  \A w, x, b : (w \in Buffer /\ Size(w) = 2 /\ x \in Byte /\ b \in Buffer) =>
    /\ Join(w, Join(One(x), b))[3] = x /\ Join(w, Join(One(x), b)) = Join(Join(w, One(x)), b)
    /\ Join(w, One(x)) \in Buffer /\ Size(Join(w, One(x))) = 3
<1>1. ASSUME NEW w \in Buffer, Size(w) = 2, NEW x \in Byte, NEW b \in Buffer
      PROVE  /\ Join(w, Join(One(x), b))[3] = x /\ Join(w, Join(One(x), b)) = Join(Join(w, One(x)), b)
             /\ Join(w, One(x)) \in Buffer /\ Size(Join(w, One(x))) = 3
  <2>1. One(x) \in Buffer /\ Size(One(x)) = 1
    BY OneIn
  <2>2. Join(w, One(x)) \in Buffer /\ Size(Join(w, One(x))) = 3
    BY <1>1, <2>1, JoinIn, JoinSize
  <2>3. Join(w, Join(One(x), b)) = Join(Join(w, One(x)), b)
    BY <2>1, JoinAssoc
  <2>4. Join(w, Join(One(x), b))[3] = x
    <3> DEFINE r == Join(One(x), b)
    <3>1. r \in Buffer /\ r[1] = x /\ Size(r) = 1 + Size(b)
      BY <2>1, OneAt, JoinIn, JoinSize
    <3>2. Size(b) \in Nat
      BY SizeNat
    <3> HIDE DEF r
    <3>3. w \in Seq(Byte) /\ r \in Seq(Byte) /\ Len(w) = 2 /\ Len(r) >= 1 /\ Len(r) \in Nat
      BY <1>1, <3>1, <3>2 DEF Size, Buffer
    <3>a. (w \o r)[Len(w) + 1] = r[1]
      <4>1. 1 \in 1 .. Len(r)
        BY <3>3
      <4>2. w \in Buffer /\ r \in Buffer
        BY <1>1, <3>1
      <4> QED
        BY <4>1, <4>2, Cat
    <3>4. (w \o r)[3] = r[1]
      <4>1. Len(w) + 1 = 3
        BY <3>3
      <4> QED
        BY Zenon, <3>a, <4>1
    <3> QED
      BY <3>1, <3>4 DEF Join, r
  <2> QED
    BY <2>2, <2>3, <2>4
<1> QED
  BY <1>1

Stamp(t) == IF t > 0 THEN Word(t) ELSE Nil
Width(t) == Bit(t > 0, 1)

LEMMA StampIs ==
  \A t : t \in Stamps =>
    /\ t \in Nat /\ Stamp(t) \in Buffer /\ Size(Stamp(t)) = 2 * Width(t) /\ Width(t) \in {0, 1}
    /\ Width(t) = 1 => \A b \in Buffer : FromWord(Join(Stamp(t), b)) = t
    /\ Width(t) # 1 => t = 0 /\ Width(t) = 0
<1>1. ASSUME NEW t \in Stamps
      PROVE  t \in Nat /\ t \in Short
  BY DEF Stamps, Short
<1>2. ASSUME NEW t \in Short, t \in Nat
      PROVE  /\ Stamp(t) \in Buffer /\ Size(Stamp(t)) = 2 * Width(t) /\ Width(t) \in {0, 1}
             /\ Width(t) = 1 => \A b \in Buffer : FromWord(Join(Stamp(t), b)) = t
             /\ Width(t) # 1 => t = 0 /\ Width(t) = 0
  <2>1. CASE t > 0
    <3>1. Stamp(t) = Word(t) /\ Width(t) = 1
      BY <2>1 DEF Stamp, Width, Bit
    <3>2. Word(t) \in Buffer /\ Size(Word(t)) = 2
      BY WordFacts
    <3>3. \A b \in Buffer : FromWord(Join(Word(t), b)) = t
      BY FromWordJoin
    <3> QED
      BY <3>1, <3>2, <3>3
  <2>2. CASE ~ (t > 0)
    <3>1. Stamp(t) = Nil /\ Width(t) = 0
      BY <2>2 DEF Stamp, Width, Bit
    <3>2. t = 0
      BY <1>2, <2>2
    <3> QED
      BY <3>1, <3>2, NilFacts
  <2> QED
    BY <2>1, <2>2
<1> QED
  BY <1>1, <1>2

HeadByte(h) == HeadFlags(h.critical, h.reverse, h.ts > 0, h.echo > 0, h.mode)

LEMMA HeadersAre ==
  \A h : h \in Headers =>
    /\ h.ts \in Stamps /\ h.echo \in Stamps
    /\ HeadTells(HeadByte(h), h.critical, h.reverse, h.ts > 0, h.echo > 0, h.mode)
    /\ h = [ts |-> h.ts, echo |-> h.echo, mode |-> h.mode, critical |-> h.critical, reverse |-> h.reverse]
<1>1. ASSUME NEW h \in Headers
      PROVE  /\ h.ts \in Stamps /\ h.echo \in Stamps /\ h.mode \in {1, 2, 3}
             /\ h.critical \in BOOLEAN /\ h.reverse \in BOOLEAN
             /\ h = [ts |-> h.ts, echo |-> h.echo, mode |-> h.mode, critical |-> h.critical, reverse |-> h.reverse]
  <2> HIDE DEF Stamps
  <2> QED
    BY DEF Headers
<1>2. ASSUME NEW h \in Headers
      PROVE  HeadTells(HeadByte(h), h.critical, h.reverse, h.ts > 0, h.echo > 0, h.mode)
  <2> DEFINE c == h.critical
             r == h.reverse
             s == h.ts > 0
             e == h.echo > 0
             m == h.mode
  <2>1. c \in BOOLEAN /\ r \in BOOLEAN /\ s \in BOOLEAN /\ e \in BOOLEAN /\ m \in {1, 2, 3}
    BY <1>1
  <2> HIDE DEF c, r, s, e, m
  <2>2. HeadTells(HeadFlags(c, r, s, e, m), c, r, s, e, m)
    BY <2>1, HeadSays
  <2> QED
    BY <2>2 DEF HeadByte, c, r, s, e, m
<1> QED
  BY <1>1, <1>2

LEMMA HeaderBytesIs ==
  \A h : h \in Headers =>
    /\ HeaderBytes(h) = Join(Join(One(HeadByte(h)), Stamp(h.ts)), Stamp(h.echo))
    /\ HeaderBytes(h) \in Buffer /\ HeadByte(h) \in Byte
<1>1. ASSUME NEW h \in Headers
      PROVE  HeaderBytes(h) = Join(Join(One(HeadByte(h)), Stamp(h.ts)), Stamp(h.echo))
  BY Zenon DEF HeaderBytes, Join, One, HeadByte, HeadFlags, Stamp, Nil
<1>2. ASSUME NEW h \in Headers
      PROVE  /\ Join(Join(One(HeadByte(h)), Stamp(h.ts)), Stamp(h.echo)) \in Buffer
             /\ HeadByte(h) \in Byte
  <2>1. HeadByte(h) \in Byte
    BY HeadersAre DEF HeadTells
  <2>2. One(HeadByte(h)) \in Buffer /\ Stamp(h.ts) \in Buffer /\ Stamp(h.echo) \in Buffer
    BY <2>1, OneIn, HeadersAre, StampIs
  <2> QED
    BY <2>1, <2>2, JoinIn
<1> QED
  BY <1>1, <1>2

LEMMA UnpackIs ==
  ASSUME NEW h \in Headers, NEW w \in Buffer, Size(w) = 2, NEW b \in Buffer
  PROVE  Unpack(Join(w, Join(HeaderBytes(h), b))) = [header |-> h, chunks |-> ReadChunks(b)]
<1> DEFINE x == HeadByte(h)
           T == Stamp(h.ts)
           E == Stamp(h.echo)
           p == Join(T, Join(E, b))
           buf == Join(w, Join(HeaderBytes(h), b))
           i == Width(h.ts)
           j == Width(h.echo)
           a == Join(w, One(x))
<1>1. HeadTells(x, h.critical, h.reverse, h.ts > 0, h.echo > 0, h.mode)
  BY HeadersAre
<1>2. /\ T \in Buffer /\ Size(T) = 2 * i /\ i \in {0, 1} /\ E \in Buffer /\ Size(E) = 2 * j /\ j \in {0, 1}
      /\ i = 1 => FromWord(Join(T, Join(E, b))) = h.ts
      /\ i # 1 => h.ts = 0
      /\ j = 1 => FromWord(Join(E, b)) = h.echo
      /\ j # 1 => h.echo = 0
  <2>1. h.ts \in Stamps /\ h.echo \in Stamps
    BY HeadersAre
  <2>2. T \in Buffer /\ E \in Buffer
    BY <2>1, StampIs
  <2>3. Join(E, b) \in Buffer
    BY <2>2, JoinIn
  <2> HIDE DEF p
  <2> QED
    BY <2>1, <2>2, <2>3, StampIs
<1>3. x \in Byte /\ One(x) \in Buffer
  BY <1>1, OneIn DEF HeadTells
<1>4. HeaderBytes(h) = Join(Join(One(x), T), E)
  BY HeaderBytesIs
<1> HIDE DEF x, T, E, i, j
<1>5. Join(HeaderBytes(h), b) = Join(One(x), p) /\ p \in Buffer /\ Join(E, b) \in Buffer
  <2>1. Join(Join(Join(One(x), T), E), b) = Join(One(x), Join(T, Join(E, b))) /\ Join(T, Join(E, b)) \in Buffer
    BY <1>2, <1>3, Chain4
  <2> QED
    BY <1>2, <1>4, <2>1, JoinIn
<1>6. /\ buf[3] = x /\ buf = Join(a, p) /\ a \in Buffer /\ Size(a) = 3
  BY <1>3, <1>5, ThirdOf
<1>7. Join(a, T) \in Buffer /\ Size(Join(a, T)) = 3 + 2 * i
  <2> HIDE DEF a
  <2> QED
    BY <1>2, <1>6, JoinIn, JoinSize
<1> DEFINE a1 == Join(a, T)
           a2 == Join(a1, E)
<1>8. buf = Join(a1, Join(E, b)) /\ buf = Join(a2, b) /\ a2 \in Buffer /\ Size(a2) = 3 + 2 * i + 2 * j
  <2> HIDE DEF a, a1
  <2>1. a1 \in Buffer /\ Size(a1) = 3 + 2 * i
    BY <1>7 DEF a1
  <2>2. buf = Join(a1, Join(E, b))
    BY <1>2, <1>5, <1>6, JoinAssoc DEF a1
  <2>3. Join(a1, Join(E, b)) = Join(Join(a1, E), b)
    BY <1>2, <2>1, JoinAssoc
  <2>4. Join(a1, E) \in Buffer /\ Size(Join(a1, E)) = Size(a1) + Size(E)
    BY <1>2, <2>1, JoinIn, JoinSize
  <2> HIDE DEF buf
  <2> QED
    BY <1>2, <2>1, <2>2, <2>3, <2>4
<1> HIDE DEF buf, p, a, a1, a2
<1>9. /\ From(buf, 4) = p
      /\ From(buf, 4 + 2 * i) = Join(E, b)
      /\ From(buf, 4 + 2 * (i + j)) = b
  <2>1. \A n : n = Size(a) + 1 => From(buf, n) = p
    BY <1>5, <1>6, FromJoin
  <2>2. \A n : n = Size(a1) + 1 => From(buf, n) = Join(E, b)
    <3> DEFINE q == Join(E, b)
    <3>1. a1 \in Buffer /\ q \in Buffer /\ buf = Join(a1, q)
      BY <1>5, <1>7, <1>8 DEF a1
    <3> HIDE DEF q
    <3>2. \A n : n = Size(a1) + 1 => From(buf, n) = q
      BY <3>1, FromJoin
    <3> QED
      BY <3>2 DEF q
  <2>3. \A n : n = Size(a2) + 1 => From(buf, n) = b
    BY <1>8, FromJoin
  <2>4. 4 = Size(a) + 1
    BY <1>6
  <2>5. 4 + 2 * i = Size(a1) + 1
    BY <1>2, <1>7 DEF a1
  <2>6. 4 + 2 * (i + j) = Size(a2) + 1
    BY <1>2, <1>8
  <2> QED
    BY <2>1, <2>2, <2>3, <2>4, <2>5, <2>6
<1>10. /\ (x \div 8) % 2 = i /\ (x \div 4) % 2 = j /\ x % 4 = h.mode
       /\ (x >= 128) = h.critical /\ ((x \div 64) % 2 = 1) = h.reverse
  BY <1>1 DEF HeadTells, i, j, Width
<1>11. /\ (IF i = 1 THEN FromWord(From(buf, 4)) ELSE 0) = h.ts
       /\ (IF j = 1 THEN FromWord(From(buf, 4 + 2 * i)) ELSE 0) = h.echo
  BY <1>2, <1>9 DEF p
<1> DEFINE A == FromWord(From(buf, 4))
           B == FromWord(From(buf, 4 + 2 * i))
           C == ReadChunks(From(buf, 4 + 2 * (i + j)))
<1>12. Unpack(buf) = [header |-> [ts |-> IF i = 1 THEN A ELSE 0, echo |-> IF j = 1 THEN B ELSE 0,
                                  mode |-> h.mode, critical |-> h.critical, reverse |-> h.reverse],
                      chunks |-> C]
  BY <1>6, <1>10, Zenon DEF Unpack
<1>13. C = ReadChunks(b)
  BY <1>9
<1>14. h = [ts |-> h.ts, echo |-> h.echo, mode |-> h.mode, critical |-> h.critical, reverse |-> h.reverse]
  BY HeadersAre
<1> HIDE DEF A, B, C
<1>15. Unpack(buf) = [header |-> h, chunks |-> ReadChunks(b)]
  BY <1>11, <1>12, <1>13, <1>14 DEF A, B
<1> QED
  BY <1>15 DEF buf

-----------------------------------------------------------------------------
(***************************************************************************)
(* What is packed is unpacked.                                             *)
(***************************************************************************)
LEMMA PackIs ==
  ASSUME Sendable(chunks), header \in Headers
  PROVE  /\ Pack.key = KeyFor(chunks[1])
         /\ Pack.bytes \in Buffer /\ Size(Pack.bytes) % 16 = 0
         /\ FromWord(Pack.bytes) = CheckSum(From(Pack.bytes, 3))
         /\ Unpack(Pack.bytes) = [header |-> header, chunks |-> Carried]
<1> DEFINE h == HeaderBytes(header)
           b == PacketBody
           body == Join(h, b)
           len == 2 + Size(body)
           pad == Padding(len)
           padded == Join(body, pad)
           sum == CheckSum(padded)
           w == Word(sum)
<1>1. Pack = [key |-> KeyFor(chunks[1]), bytes |-> Join(w, padded)]
  BY Zenon DEF Pack, Join, Size, PacketBody
<1>2. h \in Buffer /\ b \in Buffer
  BY HeaderBytesIs, BodyIs
<1> HIDE DEF h, b
<1>3. body \in Buffer /\ Size(body) \in Nat
  BY <1>2, JoinIn, SizeNat
<1> HIDE DEF body
<1>4. len \in Nat \ {0}
  BY <1>3
<1> HIDE DEF len
<1>5. pad \in Buffer /\ (len + Size(pad)) % 16 = 0 /\ \E k \in 0 .. 15 : pad = SomeBytes(k)
  BY <1>4, PaddingFills
<1> HIDE DEF pad
<1>6. padded \in Buffer /\ Size(padded) = Size(body) + Size(pad)
  BY <1>3, <1>5, JoinIn, JoinSize
<1>7. padded = Join(h, Join(b, pad)) /\ Join(b, pad) \in Buffer
  BY <1>2, <1>5, Chain3 DEF body
<1> HIDE DEF padded
<1>8. sum \in Short
  BY <1>6, CheckSumShort
<1> HIDE DEF sum
<1>9. w \in Buffer /\ Size(w) = 2 /\ FromWord(Join(w, padded)) = sum
  BY <1>6, <1>8, WordFacts, FromWordJoin
<1> HIDE DEF w
<1> DEFINE buf == Join(w, padded)
<1>10. buf \in Buffer /\ Size(buf) = 2 + Size(padded)
  BY <1>6, <1>9, JoinIn, JoinSize
<1>11. Size(buf) % 16 = 0
  <2>1. Size(buf) = len + Size(pad)
    <3>1. Size(pad) \in Nat
      BY <1>5, SizeNat
    <3> HIDE DEF buf
    <3> QED
      BY <1>3, <1>6, <1>10, <3>1 DEF len
  <2> HIDE DEF buf
  <2> QED
    BY <1>5, <2>1
<1>12. From(buf, 3) = padded
  <2>1. \A n : n = Size(w) + 1 => From(buf, n) = padded
    BY <1>6, <1>9, FromJoin
  <2>2. 3 = Size(w) + 1
    BY <1>9
  <2> HIDE DEF buf
  <2> QED
    BY <2>1, <2>2
<1>13. FromWord(buf) = CheckSum(From(buf, 3))
  BY <1>9, <1>12 DEF sum
<1>14. Unpack(buf) = [header |-> header, chunks |-> Carried]
  <2> DEFINE r == Join(b, pad)
  <2>1. r \in Buffer /\ buf = Join(w, Join(HeaderBytes(header), r))
    BY <1>7 DEF h
  <2>2. ReadChunks(r) = Carried
    <3>1. PICK k \in 0 .. 15 : pad = SomeBytes(k)
      BY <1>5
    <3>2. ReadChunks(Join(PacketBody, SomeBytes(k))) = Carried
      BY BodyBack
    <3> QED
      BY <3>1, <3>2 DEF b
  <2> HIDE DEF r, buf
  <2>3. Unpack(Join(w, Join(HeaderBytes(header), r))) = [header |-> header, chunks |-> ReadChunks(r)]
    BY <1>9, <2>1, UnpackIs
  <2> QED
    BY <2>1, <2>2, <2>3
<1> HIDE DEF buf
<1>15. Pack.key = KeyFor(chunks[1]) /\ Pack.bytes = buf
  BY <1>1 DEF buf
<1> QED
  BY <1>10, <1>11, <1>13, <1>14, <1>15

-----------------------------------------------------------------------------
(***************************************************************************)
(* The inductive invariant of the packets: the packet is what the chunks   *)
(* and the header were packed to, and what is received is what the reader  *)
(* makes of it.                                                            *)
(***************************************************************************)
What(p) == IF Readable(p) THEN Unpack(p.bytes) ELSE Dropped

PacketInv ==
  /\ Sendable(chunks) /\ header \in Headers /\ dkey \in {"none", "session"}
  /\ packet \in {Nothing, Pack}
  /\ received # Nothing => packet = Pack /\ received = What(Pack)

LEMMA PacketUnmoved ==
  ASSUME UNCHANGED <<chunks, header, dkey>>
  PROVE  Pack' = Pack /\ What(Pack)' = What(Pack) /\ (Sendable(chunks)' = Sendable(chunks))
<1>1. Pack' = Pack
  BY DEF Pack, PackChunk
<1>2. ReaderKey' = ReaderKey
  BY DEF ReaderKey
<1>3. Sendable(chunks)' = Sendable(chunks)
  OBVIOUS
<1>4. What(Pack)' = What(Pack)
  <2> HIDE DEF Pack, ReaderKey
  <2> QED
    BY <1>1, <1>2, Zenon DEF What, Readable
<1> QED
  BY <1>1, <1>3, <1>4

LEMMA PackIsNot == Pack # Nothing
<1>1. Pack.key = KeyFor(chunks[1])
  BY DEF Pack
<1>2. KeyFor(chunks[1]) # "none"
  BY DEF KeyFor
<1>3. Nothing.key = "none"
  BY DEF Nothing
<1> QED
  BY <1>1, <1>2, <1>3

LEMMA PacketInvKept ==
  ASSUME PacketInv, [PacketNext]_packetVars
  PROVE  PacketInv'
<1>1. UNCHANGED <<chunks, header, dkey>>
  BY DEF PacketNext, Send, Receive, packetVars
<1>2. /\ Sendable(chunks)' /\ header' \in Headers /\ dkey' \in {"none", "session"}
      /\ Pack' = Pack /\ What(Pack)' = What(Pack)
  BY <1>1, PacketUnmoved DEF PacketInv
<1>3. CASE Send
  <2>1. packet' = Pack /\ received' = received /\ packet = Nothing
    BY <1>3 DEF Send
  <2>2. received = Nothing
    BY <2>1, PackIsNot DEF PacketInv
  <2> QED
    BY <1>2, <2>1, <2>2 DEF PacketInv, Nothing
<1>4. CASE Receive
  <2>1. packet' = packet /\ packet # Nothing /\ received' = What(packet)
    BY <1>4 DEF Receive, What
  <2>2. packet = Pack
    BY <2>1 DEF PacketInv
  <2> QED
    BY <1>2, <2>1, <2>2 DEF PacketInv
<1>5. CASE UNCHANGED packetVars
  <2>1. packet' = packet /\ received' = received
    BY <1>5 DEF packetVars
  <2> QED
    BY <1>2, <2>1 DEF PacketInv, Nothing
<1> QED
  BY <1>3, <1>4, <1>5 DEF PacketNext

LEMMA PacketInvInit == PacketInit => PacketInv
BY InitSendable DEF PacketInv

LEMMA PacketInvTypes == PacketInv => PacketTypeOK
<1>1. ASSUME PacketInv
      PROVE  PacketTypeOK
  <2>1. packet = Nothing \/ packet = Pack
    BY <1>1 DEF PacketInv
  <2>2. /\ \A i \in DOMAIN Pack.bytes : Pack.bytes[i] \in Byte
        /\ Len(Pack.bytes) % 16 = 0
    <3> DEFINE b == Pack.bytes
    <3>1. b \in Buffer /\ Size(b) % 16 = 0
      BY <1>1, PackIs DEF PacketInv
    <3> HIDE DEF b
    <3>2. \A i \in DOMAIN b : b[i] \in Byte
      BY <3>1 DEF Buffer
    <3> QED
      BY <3>1, <3>2 DEF b, Size
  <2>3. /\ \A i \in DOMAIN Nothing.bytes : Nothing.bytes[i] \in Byte
        /\ Len(Nothing.bytes) % 16 = 0
    BY DEF Nothing
  <2> QED
    BY <1>1, <2>1, <2>2, <2>3 DEF PacketInv, PacketTypeOK
<1> QED
  BY <1>1

LEMMA PacketInvHolds == Spec => []PacketInv
<1>1. Init => PacketInv
  BY PacketInvInit DEF Init
<1>2. PacketInv /\ [Next]_vars => PacketInv'
  <2>1. [Next]_vars => [PacketNext]_packetVars
    BY DEF Next, vars
  <2> QED
    BY <2>1, PacketInvKept
<1> QED
  BY <1>1, <1>2, PTL DEF Spec

LEMMA SpecIsStream == Spec => StreamSpec
<1>1. Init => StreamInit
  BY DEF Init
<1>2. [Next]_vars => [StreamNext]_streamVars
  BY DEF Next, vars
<1> QED
  BY <1>1, <1>2, PTL DEF Spec, StreamSpec

(***************************************************************************)
(* Types of a stream and of its packets: a packet is bytes, a whole number *)
(* of blocks, whatever chunks are in it.                                   *)
(***************************************************************************)
THEOREM PacketTypes == Spec => []TypeOK
<1>1. PacketInv /\ StreamTypeOK => TypeOK
  BY PacketInvTypes DEF TypeOK
<1> QED
  BY <1>1, PacketInvHolds, SpecIsStream, StreamTypes, PTL

-----------------------------------------------------------------------------
(***************************************************************************)
(* What is received is what was sent, or nothing when the reader has       *)
(* another key.                                                            *)
(***************************************************************************)
LEMMA RoundedIs ==
  \A m : m.type \notin {"rangeack", "bitmapack"} => Rounded(m) = m
BY DEF Rounded

LEMMA KeysFound ==
  \A m : FindsKeys(m, Rounded(m))
<1>1. ASSUME NEW m, NEW k \in DhKeys
      PROVE  /\ m.type = "iikeying" /\ m.cert = InitiatorCert(k) => KeyInCert(Rounded(m).cert) = k
             /\ m.type \in {"iikeying", "rikeying"} /\ m.nonce = Nonce(k) => KeyInNonce(Rounded(m).nonce) = k
             /\ m.type = "rhello" => \A p \in PseudoIds :
                  /\ m.cert = FlashCert(p, k) => KeyInRHello(Rounded(m).cert) = k
                  /\ m.cert = Certificate(p) => KeyInRHello(Rounded(m).cert) = <<>>
  <2>1. ASSUME m.type = "iikeying", m.cert = InitiatorCert(k)
        PROVE  KeyInCert(Rounded(m).cert) = k
    <3>1. Rounded(m) = m
      BY <2>1, RoundedIs
    <3> QED
      BY <2>1, <3>1, CertKey
  <2>2. ASSUME m.type \in {"iikeying", "rikeying"}, m.nonce = Nonce(k)
        PROVE  KeyInNonce(Rounded(m).nonce) = k
    <3>1. Rounded(m) = m
      BY <2>2, RoundedIs
    <3> QED
      BY <2>2, <3>1, NonceKey
  <2>3. ASSUME m.type = "rhello", NEW p \in PseudoIds
        PROVE  /\ m.cert = FlashCert(p, k) => KeyInRHello(Rounded(m).cert) = k
               /\ m.cert = Certificate(p) => KeyInRHello(Rounded(m).cert) = <<>>
    <3>1. Rounded(m) = m
      BY <2>3, RoundedIs
    <3>2. KeyInRHello(FlashCert(p, k)) = k /\ KeyInRHello(Certificate(p)) = <<>>
      BY RHelloKeys
    <3> QED
      BY <3>1, <3>2
  <2> QED
    BY <2>1, <2>2, <2>3
<1> QED
  BY <1>1 DEF FindsKeys

LEMMA CarriedFirst ==
  ASSUME Sendable(chunks)
  PROVE  Carried[1] = Rounded(chunks[1])
<1>1. 1 \in DOMAIN chunks
  BY DEF Sendable
<1> QED
  BY <1>1 DEF Carried

LEMMA WhatIs ==
  ASSUME PacketInv
  PROVE  What(Pack) = IF Pack.key = ReaderKey THEN [header |-> header, chunks |-> Carried] ELSE Dropped
<1>1. Readable(Pack) <=> Pack.key = ReaderKey
  BY PackIs DEF PacketInv, Readable
<1>2. Unpack(Pack.bytes) = [header |-> header, chunks |-> Carried]
  BY PackIs DEF PacketInv
<1> QED
  BY <1>1, <1>2 DEF What

LEMMA PacketInvReceived == PacketInv => ReceivedIsSent
<1>1. ASSUME PacketInv, received # Nothing
      PROVE  IF packet.key = ReaderKey
             THEN /\ received = [header |-> header, chunks |-> [i \in DOMAIN chunks |-> Rounded(chunks[i])]]
                  /\ FindsKeys(chunks[1], received.chunks[1])
                  /\ \A rel \in RelFlows :
                       chunks[1].type = "userdata" /\ chunks[1].options = FlowOptions(Signature, rel) =>
                         ReadVluOption(received.chunks[1].options, 10, NoFlow) = rel
             ELSE received = Dropped
  <2>1. packet = Pack /\ received = What(Pack) /\ Sendable(chunks)
    BY <1>1 DEF PacketInv
  <2>2. CASE packet.key # ReaderKey
    <3>1. received = Dropped
      BY <1>1, <2>1, <2>2, WhatIs
    <3> QED
      BY <2>2, <3>1
  <2>3. CASE packet.key = ReaderKey
    <3> DEFINE m == chunks[1]
               r == received.chunks[1]
    <3>1. received = [header |-> header, chunks |-> Carried]
      BY <1>1, <2>1, <2>3, WhatIs
    <3>2. r = Rounded(m)
      BY <2>1, <3>1, CarriedFirst
    <3> HIDE DEF m, r
    <3>3. FindsKeys(m, r)
      BY <3>2, KeysFound
    <3>4. ASSUME NEW rel \in RelFlows, m.type = "userdata", m.options = FlowOptions(Signature, rel)
          PROVE  ReadVluOption(r.options, 10, NoFlow) = rel
      <4>1. r = m
        BY <3>2, <3>4, RoundedIs
      <4>2. ReadVluOption(FlowOptions(Signature, rel), 10, NoFlow) = rel
        BY AnswersFound
      <4> QED
        BY <3>4, <4>1, <4>2
    <3>5. received = [header |-> header, chunks |-> [i \in DOMAIN chunks |-> Rounded(chunks[i])]]
      BY <3>1 DEF Carried
    <3>6. \A rel \in RelFlows :
            m.type = "userdata" /\ m.options = FlowOptions(Signature, rel) =>
              ReadVluOption(r.options, 10, NoFlow) = rel
      BY <3>4
    <3> QED
      BY <2>3, <3>3, <3>5, <3>6, Zenon DEF m, r
  <2> QED
    BY <2>2, <2>3
<1> QED
  BY <1>1 DEF ReceivedIsSent

(***************************************************************************)
(* Whoever has the key of a packet gets the chunks that were put into it,  *)
(* in their places, and the header (packet.pack and decode_packet); who    *)
(* has another drops it.                                                   *)
(***************************************************************************)
THEOREM PacketsArrive == Spec => []ReceivedIsSent
BY PacketInvHolds, PacketInvReceived, PTL

LEMMA PacketInvReadsBack ==
  ASSUME \A len \in Lengths : HeldByU29(2 * len + 1), PacketInv
  PROVE  ReadsBack
<1> SUFFICES ASSUME received \notin {Nothing, Dropped}, chunks[1].type = "userdata"
             PROVE  LET data == received.chunks[1].data
                    IN  /\ \A len \in Lengths : chunks[1].data = ByteArray(len) => ArrayLength(data) = len
                        /\ \A form \in {15, 17, 20}, v \in Values :
                             chunks[1].data = EncodeMsg(form, Play, v) =>
                               DecodeMsg(data) = [cmd |-> Play, param |-> v]
  BY DEF ReadsBack
<1>1. received = What(Pack) /\ received # Dropped
  BY DEF PacketInv
<1>2. received = [header |-> header, chunks |-> Carried]
  BY <1>1, WhatIs
<1>3. received.chunks[1] = Rounded(chunks[1])
  <2>1. Sendable(chunks)
    BY DEF PacketInv
  <2>2. received.chunks = Carried
    BY <1>2
  <2> QED
    BY <2>1, <2>2, CarriedFirst
<1>4. Rounded(chunks[1]) = chunks[1]
  BY RoundedIs
<1>5. received.chunks[1].data = chunks[1].data
  BY <1>3, <1>4
<1> QED
  BY <1>5, LengthBack, MsgReadsBack

(***************************************************************************)
(* A message is read back from the chunk that carried it (encode_msg and   *)
(* decode_msg), and so is the length of a byte array, unless the first of  *)
(* the four bytes that write_amf3_u29 needs for it has no bits: that byte  *)
(* is not written, and the property fails for such lengths.                *)
(***************************************************************************)
THEOREM MessagesReadBack ==
  ASSUME \A len \in Lengths : HeldByU29(2 * len + 1)
  PROVE  Spec => []ReadsBack
<1>1. PacketInv => ReadsBack
  BY PacketInvReadsBack
<1>2. Spec => []PacketInv
  BY PacketInvHolds
<1> QED
  BY <1>1, <1>2, PTL
=============================================================================
