------------------------------ MODULE BiStream ------------------------------
(***************************************************************************)
(* A bi_stream over its net_stream and session: bi_stream.go, netstream.go *)
(* and the handlers of session.go they rest on.  The active side plays a   *)
(* stream, the passive side answers play.start, and both then send data    *)
(* over the flow each has to the other.                                    *)
(*                                                                         *)
(* A flow delivers each message sent, once (module Flow), but its chunks   *)
(* arrive in any order, and it is the first to arrive that makes the other *)
(* side create its half of the flow.  Each side runs three goroutines: its *)
(* application, the dispatcher of its session, and that of the stream.     *)
(***************************************************************************)
EXTENDS Integers, Sequences, FiniteSets

CONSTANTS
  Payload,         \* what an application sends, one after the other
  Capacity,        \* the size of received_msgs
  Disorder,        \* TRUE when the network may reorder packets
  Greets,          \* TRUE when the passive application may speak first
  Closers,         \* the sides whose applications may close
  ClientCommands   \* what else the active side sends: closeStream when it is
                   \* a Flash client

Side == {"active", "passive"}
Other(s) == IF s = "active" THEN "passive" ELSE "active"

Data == {Payload[n] : n \in DOMAIN Payload}

Commands == {"play", "reset", "start", "closeStream"}

ASSUME StreamAssumption ==
  /\ Capacity \in Nat \ {0}
  /\ Payload \in Seq(Data) /\ Data \cap Commands = {}
  /\ Disorder \in BOOLEAN /\ Greets \in BOOLEAN
  /\ Closers \subseteq Side
  /\ ClientCommands \subseteq {"closeStream"}

VARIABLES
  opening,         \* where the active side's active_open() is
  attached,        \* attached[s]: s has its half of the other's flow; the
                   \* passive side's net_stream exists from then on
  pushed,          \* pushed[s]: the messages s put on its flow
  wire,            \* wire[s]: the packets sent to s, in order
  arrived,         \* arrived[s]: the numbers of the messages that reached s
  read,            \* read[s]: how many of them the stream's dispatcher took
  loop,            \* loop[s]: where the dispatcher is
  play_event,      \* play_event[s]: an event is in the channel
  received_msgs,   \* received_msgs[s]: the channel to the application
  chan_closed,     \* chan_closed[s]: it is closed
  closed,          \* closed[s]: the bi_stream's flag
  closing,         \* closing[s]: goroutine -> where it is in close()
  flows_closed,    \* flows_closed[s]: session.close() closed the flows
  panicked,        \* the sides whose process has panicked
  sent,            \* history, sent[s]: the data its application sent
  got              \* history, got[s]: the data its application received

streamVars == <<opening, attached, pushed, wire, arrived, read, loop, play_event,
          received_msgs, chan_closed, closed, closing, flows_closed, panicked,
          sent, got>>
recvFlowVars == <<attached, arrived>>
loopVars == <<read, loop, play_event>>
closeVars == <<chan_closed, closed, closing, flows_closed>>

Goroutine == {"app", "session", "stream"}

StreamInit ==
  /\ opening = "idle"
  /\ attached = [s \in Side |-> FALSE]
  /\ pushed = [s \in Side |-> <<>>]
  /\ wire = [s \in Side |-> <<>>]
  /\ arrived = [s \in Side |-> {}]
  /\ read = [s \in Side |-> 0]
  /\ loop = [s \in Side |-> "none"]
  /\ play_event = [s \in Side |-> FALSE]
  /\ received_msgs = [s \in Side |-> <<>>]
  /\ chan_closed = [s \in Side |-> FALSE]
  /\ closed = [s \in Side |-> FALSE]
  /\ closing = [s \in Side |-> [g \in Goroutine |-> "no"]]
  /\ flows_closed = [s \in Side |-> FALSE]
  /\ panicked = {}
  /\ sent = [s \in Side |-> <<>>]
  /\ got = [s \in Side |-> <<>>]

Runs(s) == s \notin panicked

\* Where close() goes once it found the stream open.  Mutant: straight to the
\* session.
FirstStepSession == "session"

FirstStep == "channel"

(***************************************************************************)
(* net_stream.send.  A closed flow refuses the message.                    *)
(***************************************************************************)
CloseRequest == [seq |-> 0, body |-> "closeRequest"]

Push(s, body) ==
  IF flows_closed[s] THEN UNCHANGED <<pushed, wire>>
  ELSE /\ pushed' = [pushed EXCEPT ![s] = Append(@, body)]
       /\ wire' = [wire EXCEPT ![Other(s)] =
                     Append(@, [seq |-> Len(pushed[s]) + 1, body |-> body])]

(***************************************************************************)
(* active_open: play, then wait for the event of play.start, three seconds *)
(* at most.                                                                *)
(***************************************************************************)
Open ==
  /\ opening = "idle"
  /\ opening' = "waiting"
  /\ Push("active", "play")
  /\ UNCHANGED <<recvFlowVars, loopVars, received_msgs, closeVars, panicked,
                 sent, got>>

Opened ==
  /\ opening = "waiting" /\ Runs("active")
  /\ play_event["active"]
  /\ opening' = "open"
  /\ play_event' = [play_event EXCEPT !["active"] = FALSE]
  /\ UNCHANGED <<recvFlowVars, pushed, wire, read, loop, received_msgs,
                 closeVars, panicked, sent, got>>

OpenTimesOut ==
  /\ opening = "waiting" /\ Runs("active")
  /\ opening' = "failed"
  /\ UNCHANGED <<recvFlowVars, pushed, wire, loopVars, received_msgs,
                 closeVars, panicked, sent, got>>

(***************************************************************************)
(* The dispatcher of a session takes a packet.  The first chunk of an      *)
(* unknown flow goes to create_recv_flow: the passive side takes any for   *)
(* its stream; the active side looks for the number of its own flow, an    *)
(* option only the chunk of sequence number 1 carries.                     *)
(***************************************************************************)
Taken(s, i) == [wire EXCEPT ![s] = SubSeq(@, 1, i - 1) \o SubSeq(@, i + 1, Len(@))]

Accepts(s, p) == s = "passive" \/ p.seq = 1

ArriveData(s, p) ==
  /\ IF attached[s] \/ Accepts(s, p)
     THEN /\ attached' = [attached EXCEPT ![s] = TRUE]
          /\ arrived' = [arrived EXCEPT ![s] = @ \cup {p.seq}]
          /\ loop' = IF attached[s] THEN loop ELSE [loop EXCEPT ![s] = "top"]
          /\ UNCHANGED panicked
     ELSE /\ panicked' = panicked \cup {s}      \* "unknown flow."
          /\ UNCHANGED <<recvFlowVars, loop>>
  /\ UNCHANGED closing

ArriveCloseRequest(s) ==
  /\ closing' = IF s = "passive" /\ ~ closed[s]
                THEN [closing EXCEPT ![s]["session"] = FirstStep] ELSE closing
  /\ UNCHANGED <<recvFlowVars, loop, panicked>>

Arrive(s) ==
  /\ Runs(s)
  /\ closing[s]["session"] = "no"
  /\ \E i \in IF Disorder THEN 1 .. Len(wire[s]) ELSE 1 .. 1 \cap 1 .. Len(wire[s]) :
       /\ wire' = Taken(s, i)
       /\ LET p == wire[s][i]
          IN  IF p = CloseRequest THEN ArriveCloseRequest(s) ELSE ArriveData(s, p)
  /\ UNCHANGED <<opening, pushed, read, play_event, received_msgs, chan_closed,
                 closed, flows_closed, sent, got>>

\* Closed flows retransmit no more, and a close request is sent once.
Lose(s) ==
  /\ \E i \in 1 .. Len(wire[s]) :
       /\ wire[s][i] = CloseRequest \/ flows_closed[Other(s)]
       /\ wire' = Taken(s, i)
  /\ UNCHANGED <<opening, recvFlowVars, pushed, loopVars, received_msgs,
                 closeVars, panicked, sent, got>>

(***************************************************************************)
(* The dispatcher of a stream, active_open_dispatch and                    *)
(* passive_open_dispatch, inside net_stream.recv() and recv_flow.recv().   *)
(* Whether the stream is closed is tested before a message is taken and    *)
(* again when it has been: recv_flow.recv() tests the flow's flag, and the *)
(* passive dispatcher its own.  A message taken in between is "dropped".   *)
(* Neither dispatcher looks again before it writes to the channel.         *)
(***************************************************************************)
LoopTop(s) ==
  /\ loop[s] = "top"
  /\ loop' = [loop EXCEPT ![s] =
                IF flows_closed[s] \/ (s = "passive" /\ closed[s]) THEN "ended" ELSE "recv"]
  /\ UNCHANGED <<opening, recvFlowVars, pushed, wire, read, play_event,
                 received_msgs, closeVars, panicked, sent, got>>

\* read_message() under the lock, whatever has happened since the test.
LoopTakes(s) ==
  /\ loop[s] = "recv"
  /\ read[s] + 1 \in arrived[s]
  /\ read' = [read EXCEPT ![s] = @ + 1]
  /\ loop' = [loop EXCEPT ![s] = "taken"]
  /\ UNCHANGED <<opening, recvFlowVars, pushed, wire, play_event, received_msgs,
                 closeVars, panicked, sent, got>>

\* What param holds.  Mutant: the data of the message before, if it had any.
ParamStale(s) ==
  LET n == read[s]
  IN  IF n > 1 /\ pushed[Other(s)][n - 1] \in Data THEN pushed[Other(s)][n - 1]
      ELSE pushed[Other(s)][n]

Param(s) == pushed[Other(s)][read[s]]

\* The end of recv_flow.recv(), then that of net_stream.recv(), which answers a
\* play before it returns it.
LoopReturns(s) ==
  /\ loop[s] = "taken"
  /\ loop' = [loop EXCEPT ![s] = IF flows_closed[s] THEN "dropped"
                                 ELSE IF Param(s) = "play" THEN "reset" ELSE "returned"]
  /\ UNCHANGED <<opening, recvFlowVars, pushed, wire, read, play_event,
                 received_msgs, closeVars, panicked, sent, got>>

\* recv_play answers with two messages.
LoopReplies(s) ==
  /\ loop[s] \in {"reset", "start"}
  /\ Push(s, loop[s])
  /\ loop' = [loop EXCEPT ![s] = IF @ = "reset" THEN "start" ELSE "returned"]
  /\ UNCHANGED <<opening, recvFlowVars, read, play_event, received_msgs,
                 closeVars, panicked, sent, got>>

\* What the dispatcher does next, by the message it took.  Mutants: any status
\* is the one waited for; a message is dropped when the channel is full.
AfterStatus(s, msg) ==
  CASE msg \in {"play", "start", "reset"} -> "event"
    [] msg = "closeStream"                -> "closing"
    [] OTHER                              -> "deliver"

AfterDropping(s, msg) ==
  CASE msg \in {"play", "start"} -> "event"
    [] msg = "closeStream"       -> "closing"
    [] msg = "reset"             -> "top"
    [] OTHER -> IF Len(received_msgs[s]) < Capacity THEN "deliver" ELSE "top"

After(s, msg) ==
  CASE msg \in {"play", "start"} -> "event"
    [] msg = "closeStream"       -> "closing"
    [] msg = "reset"             -> "top"
    [] OTHER                     -> "deliver"

LoopActs(s) ==
  /\ loop[s] = "returned"
  /\ LET next == IF s = "passive" /\ closed[s] THEN "dropped" ELSE After(s, Param(s))
     IN  /\ loop' = [loop EXCEPT ![s] = next]
         /\ closing' = IF next = "closing"
                       THEN [closing EXCEPT ![s]["stream"] = FirstStep] ELSE closing
  /\ UNCHANGED <<opening, recvFlowVars, pushed, wire, read, play_event,
                 received_msgs, chan_closed, closed, flows_closed, panicked,
                 sent, got>>

\* The channel has room for one event, and the passive side's has no reader.
LoopTellsEvent(s) ==
  /\ loop[s] = "event" /\ ~ play_event[s]
  /\ play_event' = [play_event EXCEPT ![s] = TRUE]
  /\ loop' = [loop EXCEPT ![s] = "top"]
  /\ UNCHANGED <<opening, recvFlowVars, pushed, wire, read, received_msgs,
                 closeVars, panicked, sent, got>>

\* Mutant: one message more.
HasRoomOneMore(s) == Len(received_msgs[s]) <= Capacity

HasRoom(s) == Len(received_msgs[s]) < Capacity

LoopDelivers(s) ==
  /\ loop[s] = "deliver"
  /\ IF chan_closed[s]
     THEN panicked' = panicked \cup {s} /\ UNCHANGED <<received_msgs, loop>>
     ELSE /\ HasRoom(s)
          /\ received_msgs' = [received_msgs EXCEPT ![s] = Append(@, Param(s))]
          /\ loop' = [loop EXCEPT ![s] = "top"]
          /\ UNCHANGED panicked
  /\ UNCHANGED <<opening, recvFlowVars, pushed, wire, read, play_event,
                 closeVars, sent, got>>

\* A closed flow wakes the receiver, and a closed stream ends the loop.
LoopEnds(s) ==
  /\ \/ loop[s] = "recv" /\ flows_closed[s]
     \/ loop[s] = "closing" /\ closing[s]["stream"] = "no"
  /\ loop' = [loop EXCEPT ![s] = "ended"]
  /\ UNCHANGED <<opening, recvFlowVars, pushed, wire, read, play_event,
                 received_msgs, closeVars, panicked, sent, got>>

Loop(s) ==
  /\ Runs(s)
  /\ \/ LoopTop(s) \/ LoopTakes(s) \/ LoopReturns(s) \/ LoopReplies(s)
     \/ LoopActs(s) \/ LoopTellsEvent(s) \/ LoopDelivers(s) \/ LoopEnds(s)

(***************************************************************************)
(* The applications: send, recv and close.  A passive stream is handed to  *)
(* its application before any packet of it has arrived, and its net_stream *)
(* is nil until one has.                                                   *)
(***************************************************************************)
Usable(s) == s = "passive" \/ opening = "open"

NetStream(s) == s = "active" \/ attached[s]

AppSends(s) ==
  /\ Runs(s) /\ Usable(s)
  /\ ~ flows_closed[s]
  /\ Len(sent[s]) < Len(Payload)
  /\ s = "active" \/ Greets \/ got[s] # <<>>
  /\ IF NetStream(s)
     THEN /\ LET x == Payload[Len(sent[s]) + 1]
             IN  Push(s, x) /\ sent' = [sent EXCEPT ![s] = Append(@, x)]
          /\ UNCHANGED panicked
     ELSE /\ panicked' = panicked \cup {s}
          /\ UNCHANGED <<pushed, wire, sent>>
  /\ UNCHANGED <<opening, recvFlowVars, loopVars, received_msgs, closeVars, got>>

ClientCommand ==
  /\ Runs("active") /\ Usable("active")
  /\ \E cmd \in ClientCommands :
       /\ \A n \in DOMAIN pushed["active"] : pushed["active"][n] # cmd
       /\ Push("active", cmd)
  /\ UNCHANGED <<opening, recvFlowVars, loopVars, received_msgs, closeVars,
                 panicked, sent, got>>

AppReceives(s) ==
  /\ Runs(s) /\ Usable(s)
  /\ received_msgs[s] # <<>>
  /\ got' = [got EXCEPT ![s] = Append(@, Head(received_msgs[s]))]
  /\ received_msgs' = [received_msgs EXCEPT ![s] = Tail(@)]
  /\ UNCHANGED <<opening, recvFlowVars, pushed, wire, loopVars, closeVars,
                 panicked, sent>>

AppCloses(s) ==
  /\ Runs(s) /\ Usable(s) /\ s \in Closers
  /\ closing[s]["app"] = "no" /\ ~ closed[s]
  /\ closing' = [closing EXCEPT ![s]["app"] = FirstStep]
  /\ UNCHANGED <<opening, recvFlowVars, pushed, wire, loopVars, received_msgs,
                 chan_closed, closed, flows_closed, panicked, sent, got>>

(***************************************************************************)
(* close() after its check, in any of the goroutines: the flag and the     *)
(* channel, then the session, which asks the other side to close too.      *)
(* Closing a channel twice panics, and so does a nil net_stream.           *)
(***************************************************************************)
CloseChannel(s, g) ==
  /\ Runs(s) /\ closing[s][g] = "channel"
  /\ closed' = [closed EXCEPT ![s] = TRUE]
  /\ IF chan_closed[s]
     THEN panicked' = panicked \cup {s} /\ UNCHANGED <<chan_closed, closing>>
     ELSE /\ chan_closed' = [chan_closed EXCEPT ![s] = TRUE]
          /\ closing' = [closing EXCEPT ![s][g] = "session"]
          /\ UNCHANGED panicked
  /\ UNCHANGED <<opening, recvFlowVars, pushed, wire, loopVars, received_msgs,
                 flows_closed, sent, got>>

CloseSession(s, g) ==
  /\ Runs(s) /\ closing[s][g] = "session"
  /\ IF NetStream(s)
     THEN /\ wire' = [wire EXCEPT ![Other(s)] = Append(@, CloseRequest)]
          /\ flows_closed' = [flows_closed EXCEPT ![s] = TRUE]
          /\ closing' = [closing EXCEPT ![s][g] = "no"]
          /\ UNCHANGED panicked
     ELSE panicked' = panicked \cup {s} /\ UNCHANGED <<wire, flows_closed, closing>>
  /\ UNCHANGED <<opening, recvFlowVars, pushed, loopVars, received_msgs,
                 chan_closed, closed, sent, got>>

StreamNext ==
  \/ Open \/ Opened \/ OpenTimesOut \/ ClientCommand
  \/ \E s \in Side :
       \/ Arrive(s) \/ Lose(s) \/ Loop(s)
       \/ AppSends(s) \/ AppReceives(s) \/ AppCloses(s)
       \/ \E g \in Goroutine : CloseChannel(s, g) \/ CloseSession(s, g)

(***************************************************************************)
(* Goroutines run, packets of open flows arrive, applications receive, and *)
(* active_open ends, if only by its timeout.  Nothing makes anyone send or *)
(* close.                                                                  *)
(***************************************************************************)
StreamFairness ==
  /\ WF_streamVars(Open) /\ WF_streamVars(Opened \/ OpenTimesOut)
  /\ \A s \in Side :
       /\ WF_streamVars(Arrive(s)) /\ WF_streamVars(Loop(s)) /\ WF_streamVars(AppReceives(s))
       /\ \A g \in Goroutine : WF_streamVars(CloseChannel(s, g) \/ CloseSession(s, g))

StreamSpec == StreamInit /\ [][StreamNext]_streamVars /\ StreamFairness
-----------------------------------------------------------------------------
(***************************************************************************)
(* The types of the variables, and the bounds of the channels.             *)
(***************************************************************************)
StreamTypeOK ==
  /\ opening \in {"idle", "waiting", "open", "failed"}
  /\ attached \in [Side -> BOOLEAN]
  /\ \A s \in Side :
       /\ pushed[s] \in Seq(Data \cup Commands)
       /\ wire[s] \in Seq([seq : Nat, body : Data \cup Commands \cup {"closeRequest"}])
       /\ arrived[s] \subseteq 1 .. Len(pushed[Other(s)])
       /\ read[s] \in 0 .. Len(pushed[Other(s)])
       /\ received_msgs[s] \in Seq(Data) /\ Len(received_msgs[s]) <= Capacity
       /\ sent[s] \in Seq(Data) /\ got[s] \in Seq(Data)
  /\ loop \in [Side -> {"none", "top", "recv", "taken", "reset", "start",
                        "returned", "event", "deliver", "closing", "ended",
                        "dropped"}]
  /\ play_event \in [Side -> BOOLEAN]
  /\ chan_closed \in [Side -> BOOLEAN] /\ closed \in [Side -> BOOLEAN]
  /\ closing \in [Side -> [Goroutine -> {"no", "channel", "session"}]]
  /\ flows_closed \in [Side -> BOOLEAN]
  /\ panicked \subseteq Side

(***************************************************************************)
(* Each direction of a stream is a channel of messages: what an            *)
(* application receives is what the other sent, in order and once, however *)
(* the packets arrive and whenever either side closes or dies.             *)
(***************************************************************************)
Stopped(s) ==
  (IF flows_closed[s] \/ s \in panicked THEN {"send"} ELSE {})
    \cup (IF Other(s) \in panicked THEN {"recv"} ELSE {})

Forth == INSTANCE MessageChannel WITH
  Message <- Data, sent <- sent["active"], delivered <- got["passive"],
  stopped <- Stopped("active")

Back == INSTANCE MessageChannel WITH
  Message <- Data, sent <- sent["passive"], delivered <- got["active"],
  stopped <- Stopped("passive")

CarriesMessages == Forth!Spec /\ Back!Spec

(***************************************************************************)
(* When active_open succeeds, the passive side has its stream and has      *)
(* answered this play, and the active side can receive.                    *)
(***************************************************************************)
OpenIsMutual ==
  opening = "open" =>
    /\ attached["active"] /\ attached["passive"]
    /\ \E n \in arrived["active"] : pushed["passive"][n] = "start"

(***************************************************************************)
(* The messages a stream's dispatcher took from its flow are with the      *)
(* application, in the channel, or in the dispatcher's hand, in the order  *)
(* in which it took them: a full channel drops none.  close() makes the    *)
(* dispatcher drop the message it took last, if it is between its take and *)
(* its test (flow.go 478-488, bi_stream.go 66-67), though its sender may   *)
(* have seen it acknowledged; never one before that, and only close() does *)
(* (it against the dispatcher).                                            *)
(***************************************************************************)
DataTaken(s) == {n \in 1 .. read[s] : pushed[Other(s)][n] \in Data}

LastDropped(s) == IF loop[s] = "dropped" THEN {read[s]} ELSE {}

\* Where the dispatcher holds the message it took last.
Holding == {"taken", "reset", "start", "returned", "deliver"}

InHand(s) ==
  IF loop[s] \in Holding /\ Param(s) \in Data THEN <<Param(s)>> ELSE <<>>

Kept(s) == got[s] \o received_msgs[s] \o InHand(s)

\* q holds what seq has at the places D, in their order.
Lists(q, D, seq) ==
  /\ Len(q) = Cardinality(D)
  /\ \A n \in D : q[Cardinality({m \in D : m <= n})] = seq[n]

OnlyLastDropped ==
  \A s \in Side :
    /\ loop[s] = "dropped" => closed[s]
    /\ Lists(Kept(s), DataTaken(s) \ LastDropped(s), pushed[Other(s)])

(***************************************************************************)
(* A side whose session closed its flows has shut its channel first, so    *)
(* that its application's recv() cannot wait for ever.                     *)
(***************************************************************************)
ClosedIsShut == \A s \in Side : flows_closed[s] => closed[s] /\ chan_closed[s]

(***************************************************************************)
(* No process panics.                                                      *)
(***************************************************************************)
NoPanic == panicked = {}

(***************************************************************************)
(* What one application sends the other receives in the end, unless a side *)
(* closes or panics or active_open times out: neither the order in which   *)
(* packets arrive nor a full channel leaves a message behind               *)
(* (the dispatchers against recv).                                         *)
(***************************************************************************)
Interrupted ==
  panicked # {} \/ opening = "failed" \/ \E s \in Side : closed[s]

AllReceived ==
  \A s \in Side : \A n \in DOMAIN Payload :
    Len(sent[s]) >= n ~> Len(got[Other(s)]) >= n \/ Interrupted
=============================================================================
