----------------------------- MODULE NoisyChan ------------------------------
(***************************************************************************)
(* noisy_chan.go: a queue between two channels of packets that loses,      *)
(* delays and disorders them, and limits their number and their rate with  *)
(* a token bucket.                                                         *)
(*                                                                         *)
(* One goroutine puts packets in the queue, the other takes them out; the  *)
(* first signals a condition variable the second waits on, without holding *)
(* its lock.  Time advances in ticks, milliseconds in the code; a sleep is *)
(* a count of ticks.                                                       *)
(***************************************************************************)
EXTENDS Integers, Sequences, SequencesExt

CONSTANTS
  Sizes,           \* sizes of packets
  MaxPackets,      \* bound: packets that arrive
  Lossy,           \* BOOLEAN: lose_rate > 0
  Delay,           \* delay, in ticks
  Capacity,        \* capacity; 0 is no limit
  MaxPacketSize,   \* max_packet_size; 0 is no limit
  Disorder,        \* disorder
  Speed,           \* speed, bytes per second; 0 is no limit
  Second           \* ticks in a second, 1000 in the code

ASSUME NoisyChanAssumption ==
  /\ Sizes \subseteq Nat \ {0}
  /\ MaxPackets \in Nat /\ Delay \in Nat /\ Capacity \in Nat
  /\ MaxPacketSize \in Nat /\ Speed \in Nat /\ Second \in Nat \ {0}
  /\ Lossy \in BOOLEAN /\ Disorder \in BOOLEAN

VARIABLES
  arrived,         \* packets that came in
  packets,         \* the queue
  receiver,        \* recv(): "idle", or "queued" before its Signal
  sender,          \* where send() is
  front,           \* the item send() works on
  sleeping,        \* ticks send() still sleeps
  bucket,          \* bytes that may be sent now
  elapsed,         \* ticks since bucket_update_ts
  accepted,        \* history: the packets queued
  out,             \* history: the packets sent on
  credit           \* history: what a bucket of Speed bytes a second holds

recvVars == <<arrived, packets, receiver, accepted>>
timeVars == <<sleeping, elapsed, credit>>
chanVars == <<recvVars, timeVars, sender, front, bucket, out>>

NoItem == [id |-> 0, size |-> 0, due |-> 0]

ChanInit ==
  /\ arrived = 0 /\ packets = <<>> /\ receiver = "idle"
  /\ sender = "check" /\ front = NoItem /\ sleeping = 0
  /\ bucket = Speed /\ elapsed = 0
  /\ accepted = {} /\ out = <<>>
  /\ credit = Speed * Second

(***************************************************************************)
(* recv(): a packet is dropped, or queued and then signalled.  The sender  *)
(* removes a packet only after it has sent it on, so the capacity counts   *)
(* the one that is being sent.                                             *)
(***************************************************************************)
Full == Capacity > 0 /\ Len(packets) >= Capacity

TooLong(size) == MaxPacketSize > 0 /\ size > MaxPacketSize

Drop(size) ==
  /\ receiver = "idle" /\ arrived < MaxPackets
  /\ Lossy \/ Full \/ TooLong(size)
  /\ arrived' = arrived + 1
  /\ UNCHANGED <<packets, receiver, accepted, timeVars, sender, front, bucket, out>>

\* The places an item may take: the end, or just before the last item.
Places ==
  {Len(packets) + 1}
    \cup (IF Disorder /\ packets # <<>> THEN {Len(packets)} ELSE {})

Enqueue(size) ==
  /\ receiver = "idle" /\ arrived < MaxPackets
  /\ ~ Full /\ ~ TooLong(size)
  /\ arrived' = arrived + 1
  /\ accepted' = accepted \cup {arrived + 1}
  /\ \E i \in Places :
       packets' = InsertAt(packets, i, [id |-> arrived + 1, size |-> size, due |-> Delay])
  /\ receiver' = "queued"
  /\ UNCHANGED <<timeVars, sender, front, bucket, out>>

Signal ==
  /\ receiver = "queued"
  /\ receiver' = "idle"
  /\ sender' = IF sender = "waiting" THEN "check" ELSE sender
  /\ UNCHANGED <<arrived, packets, accepted, timeVars, front, bucket, out>>

(***************************************************************************)
(* send().  Between its look at an empty queue and Wait, a signal is lost. *)
(***************************************************************************)
CheckQueue ==
  /\ sender = "check"
  /\ sender' = IF packets = <<>> THEN "empty" ELSE "loop"
  /\ UNCHANGED <<recvVars, timeVars, front, bucket, out>>

Wait ==
  /\ sender = "empty"
  /\ sender' = "waiting"
  /\ UNCHANGED <<recvVars, timeVars, front, bucket, out>>

LoopEnds ==
  /\ sender = "loop" /\ packets = <<>>
  /\ sender' = "check"
  /\ UNCHANGED <<recvVars, timeVars, front, bucket, out>>

\* Mutant: the delay is not waited for.
DelayOfNone(item) == 0

DelayOf(item) == item.due

TakeFront ==
  /\ sender = "loop" /\ packets # <<>>
  /\ front' = Head(packets)
  /\ sleeping' = DelayOf(Head(packets))
  /\ sender' = "delayed"
  /\ UNCHANGED <<recvVars, elapsed, credit, bucket, out>>

WakeUp ==
  /\ sleeping = 0
  /\ \/ sender = "delayed" /\ sender' = "due"
     \/ sender = "throttled" /\ sender' = "loop"
  /\ UNCHANGED <<recvVars, timeVars, front, bucket, out>>

(***************************************************************************)
(* update_send_bucket.  The bucket fills by whole bytes a tick.            *)
(***************************************************************************)
IncRate == Speed \div Second

\* Mutant: the bucket has no bottom.
EnoughAlways(filled) == TRUE

\* Mutant: a packet of all the bytes in the bucket is not let through.
EnoughAndMore(filled) == filled > front.size

Enough(filled) == filled >= front.size

UpdateSendBucket ==
  LET grown  == bucket + IncRate * elapsed
      filled == IF grown > Speed THEN Speed ELSE grown
      ticks  == (front.size - filled) \div IncRate
  IN  /\ sender = "due"
      /\ IF IncRate = 0
         THEN sender' = "send" /\ UNCHANGED <<bucket, elapsed, sleeping>>
         ELSE /\ elapsed' = 0
              /\ IF Enough(filled)
                 THEN /\ sender' = "send" /\ bucket' = filled - front.size
                      /\ UNCHANGED sleeping
                 ELSE /\ sender' = "throttled" /\ bucket' = filled
                      /\ sleeping' = IF ticks = 0 THEN 1 ELSE ticks
      /\ UNCHANGED <<recvVars, credit, front, out>>

SendPacket ==
  /\ sender = "send"
  /\ out' = Append(out, front.id)
  /\ credit' = IF Speed = 0 THEN credit ELSE credit - front.size * Second
  /\ sender' = "remove"
  /\ UNCHANGED <<recvVars, sleeping, elapsed, front, bucket>>

\* Mutant: the front as it is now goes, not the item that was sent.
RemainingAfterFront == Tail(packets)

Remaining == RemoveAt(packets, CHOOSE i \in DOMAIN packets : packets[i].id = front.id)

RemoveFront ==
  /\ sender = "remove"
  /\ packets' = Remaining
  /\ sender' = "loop"
  /\ UNCHANGED <<arrived, receiver, accepted, timeVars, front, bucket, out>>

(***************************************************************************)
(* A millisecond passes.                                                   *)
(***************************************************************************)
Less1(n) == IF n = 0 THEN 0 ELSE n - 1

Tick ==
  /\ sleeping' = Less1(sleeping)
  /\ packets' = [i \in DOMAIN packets |-> [packets[i] EXCEPT !.due = Less1(@)]]
  /\ elapsed' = IF IncRate * elapsed >= Speed THEN elapsed ELSE elapsed + 1
  /\ credit' = IF credit + Speed > Speed * Second THEN Speed * Second ELSE credit + Speed
  /\ UNCHANGED <<arrived, receiver, accepted, sender, front, bucket, out>>

RecvStep == Signal \/ \E size \in Sizes : Drop(size) \/ Enqueue(size)

SendStep ==
  \/ CheckQueue \/ Wait \/ LoopEnds \/ TakeFront \/ WakeUp
  \/ UpdateSendBucket \/ SendPacket \/ RemoveFront

ChanNext == RecvStep \/ SendStep \/ Tick

\* Goroutines run on and time passes.  No packet has to arrive.
ChanFairness == WF_chanVars(Signal) /\ WF_chanVars(SendStep) /\ WF_chanVars(Tick)
-----------------------------------------------------------------------------
Items == [id : 1 .. MaxPackets, size : Sizes, due : 0 .. Delay]

Queued == {packets[i].id : i \in DOMAIN packets}

\* The queue holds no more than its capacity, and the bucket no more than a
\* second of bytes, nor less than none.
ChanTypeOK ==
  /\ Capacity > 0 => Len(packets) <= Capacity
  /\ arrived \in 0 .. MaxPackets
  /\ packets \in Seq(Items)
  /\ receiver \in {"idle", "queued"}
  /\ sender \in {"check", "empty", "waiting", "loop", "delayed", "due",
                 "throttled", "send", "remove"}
  /\ front \in Items \cup {NoItem}
  /\ sleeping \in Nat /\ elapsed \in Nat
  /\ bucket \in 0 .. Speed
  /\ accepted \subseteq 1 .. MaxPackets
  /\ out \in Seq(1 .. MaxPackets)

(***************************************************************************)
(* A packet that was queued is in the queue or was sent on, exactly once,  *)
(* however the two goroutines interleave (Remove of the item that was      *)
(* sent, which disorder may have moved from the front).                    *)
(***************************************************************************)
Conserved ==
  /\ accepted = Queued \cup ToSet(out)
  /\ \A i, j \in DOMAIN out : out[i] = out[j] => i = j
  /\ \A id \in Queued \cap ToSet(out) : sender = "remove" /\ id = front.id

(***************************************************************************)
(* A packet is sent on only when its delay is over, also when disorder     *)
(* puts another before it while send() sleeps.                             *)
(***************************************************************************)
DelayRespected ==
  sender \in {"due", "send", "throttled"}
    => \A i \in DOMAIN packets : packets[i].id = front.id => packets[i].due = 0

(***************************************************************************)
(* No more than Speed bytes a second are sent on, after a burst of at most *)
(* Speed bytes and of the one packet send() may hold, paid for already,    *)
(* while the bucket fills again (update_send_bucket, send).                *)
(***************************************************************************)
RateLimited ==
  \E size \in Sizes \cup {0} : ~ TooLong(size) /\ credit >= - (size * Second)

(***************************************************************************)
(* Signal gets every packet queued sent on, but for a signal between       *)
(* send()'s look at an empty queue and its Wait: what that one leaves      *)
(* behind goes with the next (recv_packet against send, with its sleeps).  *)
(* A packet larger than the bucket ever gets, which update_send_bucket     *)
(* caps at speed, is never sent, though, and all behind it wait for ever:  *)
(* only a max_packet_size no larger than speed keeps such packets out, and *)
(* Transport's setters never set one.                                      *)
(***************************************************************************)
TooBig(size) == IncRate > 0 /\ size > Speed

Stuck(k) ==
  \E i, j \in DOMAIN packets : i <= j /\ TooBig(packets[i].size) /\ packets[j].id = k

Signalled(k) == k \in Queued /\ receiver = "queued" /\ sender # "empty"

SignalReleases ==
  \A k \in 1 .. MaxPackets : Signalled(k) ~> (k \in ToSet(out) \/ Stuck(k))

(***************************************************************************)
(* Nothing waits for ever behind a packet that is too large.               *)
(***************************************************************************)
NoneIsStuck == \A k \in 1 .. MaxPackets : Signalled(k) ~> k \in ToSet(out)

(***************************************************************************)
(* Every packet that was queued is sent on.                                *)
(***************************************************************************)
AllSentOn == \A k \in 1 .. MaxPackets : k \in accepted ~> k \in ToSet(out)
=============================================================================
