------------------------------ MODULE Pipeline ------------------------------
(***************************************************************************)
(* A transport as a pipeline of goroutines and bounded channels: a         *)
(* datagram goes from the socket's recv() to the dispatch() of the         *)
(* handshake, which answers it or passes it to the dispatch() of a         *)
(* session; answers go to the dispatch() of the socket (socket_bin.go,     *)
(* handshake.go, session.go, transport.go).                                *)
(*                                                                         *)
(* SetInChannelParam and SetOutChannelParam put a noisy_chan, a tap, into  *)
(* either path while it runs.  A goroutine that waits on a channel looks   *)
(* at the field that names it only for the next packet.  A tap here is its *)
(* queue and its out channel together, and loses nothing (see NoisyChan).  *)
(*                                                                         *)
(* A packet is the number of the datagram it is, or answers.               *)
(***************************************************************************)
EXTENDS Integers, Sequences, FiniteSets, SequencesExt

CONSTANTS
  ChanSize,        \* network_packet_chan_default_buffer_size
  MaxSessions,     \* bound: sessions that a datagram may be for
  MaxDatagrams,    \* bound: datagrams that arrive
  MaxTaps          \* bound: calls of each of the two Set...ChannelParam

ASSUME PipelineAssumption ==
  /\ ChanSize \in Nat \ {0}
  /\ MaxSessions \in Nat /\ MaxDatagrams \in Nat /\ MaxTaps \in Nat

VARIABLES
  kinds,           \* what each datagram is, in the order of arrival
  read,            \* how many of them recv() has read
  source,          \* the channel at the head of each path
  taps,            \* what is in each of the taps of a path
  field,           \* the tap that handshake.in, or socket.in, names
  reader,          \* the reader of a path: where it is, its channel, its packet
  sessions,        \* session.in of each session
  answering,       \* goroutines that are to send the answer to a hello
  handled,         \* history: what each session handled, in that order
  written,         \* history: what the socket wrote
  refused,         \* history: packets that nobody is to get
  direct           \* history: what each reader took past a tap

pathVars == <<source, taps, field, reader, direct>>
pipeVars == <<kinds, read, pathVars, sessions, answering, handled, written, refused>>

Path == {"in", "out"}
SessionId == 1 .. MaxSessions

\* An ihello, an iikeying that the stream handler accepts or denies, or a
\* packet for a session.
Kind == [what : {"hello", "keying", "denied"}, session : {0}]
        \cup [what : {"data"}, session : SessionId]

\* The source itself is tap 0.
AtField == [at |-> "field", from |-> 0, packet |-> 0]

PipeInit ==
  /\ kinds \in [1 .. MaxDatagrams -> Kind]
  /\ read = 0
  /\ source = [d \in Path |-> <<>>]
  /\ taps = [d \in Path |-> <<>>]
  /\ field = [d \in Path |-> 0]
  /\ reader = [d \in Path |-> AtField]
  /\ sessions = <<>> /\ answering = {}
  /\ handled = [s \in SessionId |-> <<>>]
  /\ written = {} /\ refused = {}
  /\ direct = [d \in Path |-> {}]

HasRoom(chan) == Len(chan) < ChanSize

(***************************************************************************)
(* recv() of the socket waits for room in its channel out.                 *)
(***************************************************************************)
SocketRecv ==
  /\ read < MaxDatagrams /\ HasRoom(source["in"])
  /\ read' = read + 1
  /\ source' = [source EXCEPT !["in"] = Append(@, read + 1)]
  /\ UNCHANGED <<kinds, taps, field, reader, direct, sessions, answering, handled,
                 written, refused>>

(***************************************************************************)
(* Set...ChannelParam(d).  Every tap of a path reads the same source.      *)
(***************************************************************************)
SetChannelParam(d) ==
  /\ Len(taps[d]) < MaxTaps
  /\ taps' = [taps EXCEPT ![d] = Append(@, <<>>)]
  /\ field' = [field EXCEPT ![d] = Len(taps[d]) + 1]
  /\ UNCHANGED <<kinds, read, source, reader, direct, sessions, answering, handled,
                 written, refused>>

TapTakes(d) ==
  /\ source[d] # <<>>
  /\ \E t \in DOMAIN taps[d] : taps' = [taps EXCEPT ![d][t] = Append(@, Head(source[d]))]
  /\ source' = [source EXCEPT ![d] = Tail(@)]
  /\ UNCHANGED <<kinds, read, field, reader, direct, sessions, answering, handled,
                 written, refused>>

(***************************************************************************)
(* The loop of dispatch(): it looks at the field, waits on that channel,   *)
(* and takes a packet.                                                     *)
(***************************************************************************)
\* Mutant: the field is looked at before the loop.
FieldAtStart(d) == 0

FieldNow(d) == field[d]

Look(d) ==
  /\ reader[d].at = "field"
  /\ reader' = [reader EXCEPT ![d] = [at |-> "wait", from |-> FieldNow(d), packet |-> 0]]
  /\ UNCHANGED <<kinds, read, source, taps, field, direct, sessions, answering,
                 handled, written, refused>>

Take(d) ==
  LET t    == reader[d].from
      chan == IF t = 0 THEN source[d] ELSE taps[d][t]
  IN  /\ reader[d].at = "wait" /\ chan # <<>>
      /\ reader' = [reader EXCEPT ![d] = [@ EXCEPT !.at = "packet", !.packet = Head(chan)]]
      /\ IF t = 0
         THEN source' = [source EXCEPT ![d] = Tail(@)] /\ UNCHANGED taps
         ELSE taps' = [taps EXCEPT ![d][t] = Tail(@)] /\ UNCHANGED source
      /\ direct' = [direct EXCEPT ![d] =
                      IF t = 0 /\ taps[d] # <<>> THEN @ \cup {Head(chan)} ELSE @]
      /\ UNCHANGED <<kinds, read, field, sessions, answering, handled, written, refused>>

Done(d) == reader' = [reader EXCEPT ![d] = AtField]

(***************************************************************************)
(* recv_packet of the handshake.  A goroutine of its own sends the answer  *)
(* to a hello.  An iikeying makes a session, which stays in the table also *)
(* when the stream handler does not accept it; only if it does is the      *)
(* iikeying answered, from here, when out has room.  A packet for a        *)
(* session waits for room in its channel in.                               *)
(***************************************************************************)
HandleHello ==
  LET p == reader["in"].packet
  IN  /\ reader["in"].at = "packet" /\ kinds[p].what = "hello"
      /\ answering' = answering \cup {p}
      /\ Done("in")
      /\ UNCHANGED <<kinds, read, source, taps, field, direct, sessions, handled,
                     written, refused>>

SendAnswer ==
  /\ HasRoom(source["out"])
  /\ \E p \in answering :
       /\ answering' = answering \ {p}
       /\ source' = [source EXCEPT !["out"] = Append(@, p)]
  /\ UNCHANGED <<kinds, read, taps, field, reader, direct, sessions, handled, written,
                 refused>>

HandleKeying ==
  LET p == reader["in"].packet
  IN  /\ reader["in"].at = "packet"
      /\ \/ /\ kinds[p].what = "keying" /\ HasRoom(source["out"])
            /\ source' = [source EXCEPT !["out"] = Append(@, p)]
            /\ UNCHANGED refused
         \/ /\ kinds[p].what = "denied"
            /\ refused' = refused \cup {p} /\ UNCHANGED source
      /\ sessions' = Append(sessions, <<>>)
      /\ Done("in")
      /\ UNCHANGED <<kinds, read, taps, field, direct, answering, handled, written>>

DispatchToSession ==
  LET p == reader["in"].packet
      s == kinds[p].session
  IN  /\ reader["in"].at = "packet" /\ kinds[p].what = "data"
      /\ IF s \in DOMAIN sessions
         THEN /\ HasRoom(sessions[s])
              /\ sessions' = [sessions EXCEPT ![s] = Append(@, p)]
              /\ UNCHANGED refused
         ELSE refused' = refused \cup {p} /\ UNCHANGED sessions
      /\ Done("in")
      /\ UNCHANGED <<kinds, read, source, taps, field, direct, answering, handled, written>>

(***************************************************************************)
(* dispatch() of a session: the packet is handled and answered.            *)
(***************************************************************************)
\* Mutant: an answer does not wait for room.
MayAnswerAtOnce == TRUE

MayAnswer == HasRoom(source["out"])

SessionDispatch(s) ==
  /\ s \in DOMAIN sessions /\ sessions[s] # <<>>
  /\ MayAnswer
  /\ sessions' = [sessions EXCEPT ![s] = Tail(@)]
  /\ handled' = [handled EXCEPT ![s] = Append(@, Head(sessions[s]))]
  /\ source' = [source EXCEPT !["out"] = Append(@, Head(sessions[s]))]
  /\ UNCHANGED <<kinds, read, taps, field, reader, direct, answering, written, refused>>

(***************************************************************************)
(* send_packet of the socket.                                              *)
(***************************************************************************)
SocketSend ==
  /\ reader["out"].at = "packet"
  /\ written' = written \cup {reader["out"].packet}
  /\ Done("out")
  /\ UNCHANGED <<kinds, read, source, taps, field, direct, sessions, answering, handled,
                 refused>>

HandshakeDispatch == Look("in") \/ Take("in") \/ HandleHello \/ HandleKeying \/ DispatchToSession

SocketDispatch == Look("out") \/ Take("out") \/ SocketSend

PipeNext ==
  \/ SocketRecv \/ HandshakeDispatch \/ SendAnswer \/ SocketDispatch
  \/ \E s \in SessionId : SessionDispatch(s)
  \/ \E d \in Path : SetChannelParam(d) \/ TapTakes(d)

\* Goroutines run on.  Nobody has to set a parameter.
PipeFairness ==
  /\ WF_pipeVars(SocketRecv) /\ WF_pipeVars(HandshakeDispatch)
  /\ WF_pipeVars(SendAnswer) /\ WF_pipeVars(SocketDispatch)
  /\ \A s \in SessionId : WF_pipeVars(SessionDispatch(s))
  /\ \A d \in Path : WF_pipeVars(TapTakes(d))
-----------------------------------------------------------------------------
Packet == 1 .. MaxDatagrams

\* No channel holds more than its size.
PipeTypeOK ==
  /\ kinds \in [Packet -> Kind] /\ read \in 0 .. MaxDatagrams
  /\ source \in [Path -> Seq(Packet)] /\ taps \in [Path -> Seq(Seq(Packet))]
  /\ field \in [Path -> Nat] /\ direct \in [Path -> SUBSET Packet]
  /\ reader \in [Path -> [at : {"field", "wait", "packet"}, from : Nat,
                          packet : 0 .. MaxDatagrams]]
  /\ \A d \in Path :
       /\ Len(source[d]) <= ChanSize
       /\ field[d] \in 0 .. Len(taps[d]) /\ reader[d].from \in 0 .. Len(taps[d])
  /\ sessions \in Seq(Seq(Packet)) /\ Len(sessions) <= MaxDatagrams
  /\ \A s \in DOMAIN sessions : Len(sessions[s]) <= ChanSize
  /\ answering \subseteq Packet
  /\ handled \in [SessionId -> Seq(Packet)]
  /\ written \subseteq Packet /\ refused \subseteq Packet

\* The reader still waits for its first packet since the tap was put in, on the
\* old channel, and p is in the tap.
HeldUp(p) ==
  \E d \in Path :
    /\ reader[d].at = "wait" /\ reader[d].from # field[d]
    /\ source[d] = <<>> /\ direct[d] = {}
    /\ p \in Range(taps[d][field[d]])

(***************************************************************************)
(* However full the channels are, every datagram the socket read is        *)
(* answered, unless it is refused: no goroutine of the pipeline waits for  *)
(* another that waits for it, and a tap put into a path loses nothing of   *)
(* what was under way.  All that may happen is that the tap was faster     *)
(* than a reader that had looked at the field before: then what is in the  *)
(* tap is held up until that reader gets one more packet from the old      *)
(* channel (the recv() and dispatch() loops against Set...ChannelParam).   *)
(***************************************************************************)
EveryDatagramAnswered ==
  \A p \in Packet : read >= p ~> [](p \in written \cup refused \/ HeldUp(p))

(***************************************************************************)
(* A session handles its packets in the order they arrived: only what the  *)
(* dispatcher, waiting on the old channel, took past a new tap may         *)
(* overtake what is in the tap, and that is a single packet (dispatch of   *)
(* the handshake against SetInChannelParam).                               *)
(***************************************************************************)
OvertakenOnlyByDirect ==
  /\ \A d \in Path : Cardinality(direct[d]) <= 1
  /\ \A s \in SessionId : \A i, j \in DOMAIN handled[s] :
       i < j /\ handled[s][i] > handled[s][j] => handled[s][i] \in direct["in"]
=============================================================================
