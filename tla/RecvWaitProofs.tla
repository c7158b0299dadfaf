--------------------------- MODULE RecvWaitProofs ---------------------------
(***************************************************************************)
(* Messages are received once and in order by any number of goroutines:    *)
(* the properties of module RecvWait, for every set of receivers and every *)
(* number of messages.                                                     *)
(***************************************************************************)
EXTENDS RecvWait, SequenceTheorems, TLAPS

(***************************************************************************)
(* The first part of InOrderOnce, message by message.                      *)
(***************************************************************************)
InOrder(t, b, n) ==
  /\ Len(t) + Len(b) = n
  /\ \A i \in 1 .. Len(t) : t[i] = i
  /\ \A i \in 1 .. Len(b) : b[i] = Len(t) + i

Counts(n) == [i \in 1 .. n |-> i]

(***************************************************************************)
(* Two sequences make up 1, 2, ..., n when their elements count on.        *)
(***************************************************************************)
LEMMA InOrderIsCount ==
  ASSUME NEW t \in Seq(Nat), NEW b \in Seq(Nat), NEW n \in Nat
  PROVE  t \o b = Counts(n) <=> InOrder(t, b, n)
<1>1. /\ t \o b \in Seq(Nat)
      /\ Len(t \o b) = Len(t) + Len(b)
      /\ \A i \in 1 .. Len(t) + Len(b) :
            (t \o b)[i] = IF i <= Len(t) THEN t[i] ELSE b[i - Len(t)]
  BY ConcatProperties
<1>2. Len(t) \in Nat /\ Len(b) \in Nat
  OBVIOUS
<1>3. /\ Counts(n) \in Seq(Nat)
      /\ Len(Counts(n)) = n
      /\ \A i \in 1 .. n : Counts(n)[i] = i
  BY DEF Counts
<1>4. ASSUME t \o b = Counts(n) PROVE InOrder(t, b, n)
  <2>1. Len(t) + Len(b) = n
    BY <1>1, <1>3, <1>4
  <2>2. ASSUME NEW i \in 1 .. Len(t) PROVE t[i] = i
    BY <1>1, <1>2, <1>3, <1>4, <2>1
  <2>3. ASSUME NEW i \in 1 .. Len(b) PROVE b[i] = Len(t) + i
    <3>1. Len(t) + i \in 1 .. n /\ ~ (Len(t) + i <= Len(t)) /\ (Len(t) + i) - Len(t) = i
      BY <1>2, <2>1
    <3> QED
      BY <1>1, <1>3, <1>4, <2>1, <3>1
  <2> QED
    BY <2>1, <2>2, <2>3 DEF InOrder
<1>5. ASSUME InOrder(t, b, n) PROVE t \o b = Counts(n)
  <2>1. Len(t \o b) = Len(Counts(n))
    BY <1>1, <1>3, <1>5 DEF InOrder
  <2>2. ASSUME NEW i \in 1 .. Len(t \o b) PROVE (t \o b)[i] = Counts(n)[i]
    <3>1. Counts(n)[i] = i
      BY <1>3, <2>1
    <3>2. CASE i <= Len(t)
      BY <1>1, <1>2, <1>5, <3>1, <3>2 DEF InOrder
    <3>3. CASE ~ (i <= Len(t))
      <4>1. i - Len(t) \in 1 .. Len(b) /\ Len(t) + (i - Len(t)) = i
        BY <1>1, <1>2, <3>3
      <4> QED
        BY <1>1, <1>5, <3>1, <3>3, <4>1 DEF InOrder
    <3> QED
      BY <3>2, <3>3
  <2> QED
    BY <1>1, <1>3, <2>1, <2>2, SeqEqual
<1> QED
  BY <1>4, <1>5

(***************************************************************************)
(* What the counting of InOrderOnce says of the variables.                 *)
(***************************************************************************)
LEMMA InOrderOnceParts ==
  ASSUME TypeOK
  PROVE  taken \o buffer = [i \in 1 .. arrived |-> i] <=> InOrder(taken, buffer, arrived)
<1>1. arrived \in Nat /\ 1 .. arrived \subseteq Nat
  BY WaitAssumption DEF TypeOK
<1>2. taken \in Seq(Nat) /\ buffer \in Seq(Nat)
  BY <1>1, SeqMonotonic DEF TypeOK
<1> QED
  BY <1>1, <1>2, InOrderIsCount DEF Counts

(***************************************************************************)
(* The invariant in parts that the provers take one at a time.             *)
(***************************************************************************)
Places == {"check", "lock", "remove", "wait", "asleep", "wake", "failed"}

Types ==
  /\ arrived \in 0 .. MaxMessages
  /\ buffer \in Seq(Nat) /\ taken \in Seq(Nat)
  /\ count \in Int /\ before \in Int /\ pushing \in BOOLEAN
  /\ list \in {"sound", "torn", "panicked"}
  /\ signals \subseteq {"dispatcher", "closer"}
  /\ mutex \in Receivers \cup {Nobody}
  /\ pc \in [Receivers -> Places]
  /\ found \in [Receivers -> 0 .. arrived] /\ closed \in BOOLEAN
  /\ returned \subseteq 1 .. arrived

Pushes == pushing => arrived < MaxMessages

Sleepers ==
  /\ waiting \in Seq(Receivers)
  /\ \A i \in DOMAIN waiting : pc[waiting[i]] = "asleep"
  /\ \A r \in Receivers : pc[r] = "asleep" => \E i \in DOMAIN waiting : waiting[i] = r
  /\ \A i, j \in DOMAIN waiting : waiting[i] = waiting[j] => i = j

Holds ==
  /\ \A r \in Receivers : pc[r] \in {"remove", "wait"} <=> mutex = r
  /\ \A r \in Receivers : pc[r] = "remove" => buffer # <<>> /\ found[r] = Head(buffer)

Returned == closed \/ \A n \in Nat : n \in returned <=> \E i \in DOMAIN taken : taken[i] = n

Parts ==
  /\ Types /\ Pushes
  /\ InOrder(taken, buffer, arrived)
  /\ Returned
  /\ Sleepers
  /\ Holds

(***************************************************************************)
(* A sequence that counts holds numbers of messages that arrived.          *)
(***************************************************************************)
LEMMA InOrderBounds ==
  ASSUME NEW t \in Seq(Nat), NEW b \in Seq(Nat), NEW n \in Nat, InOrder(t, b, n)
  PROVE  t \in Seq(1 .. n) /\ b \in Seq(1 .. n)
<1>1. Len(t) \in Nat /\ Len(b) \in Nat /\ Len(t) + Len(b) = n
  BY DEF InOrder
<1>2. \A i \in 1 .. Len(t) : t[i] \in 1 .. n
  BY <1>1 DEF InOrder
<1>3. \A i \in 1 .. Len(b) : b[i] \in 1 .. n
  BY <1>1 DEF InOrder
<1>4. t \in [1 .. Len(t) -> 1 .. n] /\ b \in [1 .. Len(b) -> 1 .. n]
  BY <1>2, <1>3, LenProperties
<1>5. /\ t \in UNION {[1 .. k -> 1 .. n] : k \in Nat}
      /\ b \in UNION {[1 .. k -> 1 .. n] : k \in Nat}
  BY <1>1, <1>4
<1>6. Seq(1 .. n) = UNION {[1 .. k -> 1 .. n] : k \in Nat}
  BY SeqDef
<1> QED
  BY <1>5, <1>6

(***************************************************************************)
(* The parts are the invariant.                                            *)
(***************************************************************************)
LEMMA PartsAreIInv == Parts <=> IInv
<1>1. ASSUME Parts PROVE IInv
  <2>1. arrived \in Nat
    BY <1>1, WaitAssumption DEF Parts, Types
  <2>2. buffer \in Seq(1 .. arrived) /\ taken \in Seq(1 .. arrived)
    BY <1>1, <2>1, InOrderBounds DEF Parts, Types
  <2>3. {waiting[i] : i \in DOMAIN waiting} = {r \in Receivers : pc[r] = "asleep"}
    BY <1>1 DEF Parts, Sleepers
  <2>4. TypeOK
    BY <1>1, <2>2, <2>3 DEF Parts, Types, Places, TypeOK
  <2>5. closed \/ returned = {taken[i] : i \in DOMAIN taken}
    <3>1. returned \subseteq Nat
      BY <1>1, <2>1 DEF Parts, Types
    <3>2. \A i \in DOMAIN taken : taken[i] \in Nat
      BY <1>1 DEF Parts, Types
    <3> QED
      BY <1>1, <3>1, <3>2 DEF Parts, Returned
  <2>6. InOrderOnce
    BY <1>1, <2>4, <2>5, InOrderOnceParts DEF Parts, InOrderOnce
  <2> QED
    BY <1>1, <2>4, <2>6 DEF Parts, Pushes, Sleepers, Holds, IInv
<1>2. ASSUME IInv PROVE Parts
  <2>1. TypeOK /\ InOrderOnce
    BY <1>2 DEF IInv
  <2>2. arrived \in Nat /\ 1 .. arrived \subseteq Nat
    BY <2>1, WaitAssumption DEF TypeOK
  <2>3. Types
    <3>1. buffer \in Seq(Nat) /\ taken \in Seq(Nat)
      BY <2>1, <2>2, SeqMonotonic DEF TypeOK
    <3> QED
      BY <2>1, <3>1 DEF TypeOK, Types, Places
  <2>4. InOrder(taken, buffer, arrived)
    BY <2>1, InOrderOnceParts DEF InOrderOnce
  <2>5. Returned
    BY <2>1 DEF InOrderOnce, Returned
  <2>6. Sleepers
    <3>1. {waiting[i] : i \in DOMAIN waiting} = {r \in Receivers : pc[r] = "asleep"}
      BY <2>1 DEF TypeOK
    <3>2. \A i \in DOMAIN waiting : pc[waiting[i]] = "asleep"
      BY <3>1
    <3>3. \A r \in Receivers : pc[r] = "asleep" => \E i \in DOMAIN waiting : waiting[i] = r
      BY <3>1
    <3> QED
      BY <1>2, <3>2, <3>3 DEF IInv, Sleepers
  <2> QED
    BY <1>2, <2>3, <2>4, <2>5, <2>6 DEF IInv, Pushes, Holds, Parts
<1> QED
  BY <1>1, <1>2

(***************************************************************************)
(* The initial state satisfies the invariant.                              *)
(***************************************************************************)
LEMMA InitInv == ASSUME Init PROVE Parts
<1>1. Types
  <2>1. buffer \in Seq(Nat) /\ taken \in Seq(Nat)
    BY DEF Init
  <2>2. arrived = 0 /\ 0 \in 0 .. MaxMessages /\ 0 \in 0 .. arrived
    BY WaitAssumption DEF Init
  <2>3. /\ count \in Int /\ before \in Int
        /\ list \in {"sound", "torn", "panicked"} /\ mutex = Nobody
        /\ signals \subseteq {"dispatcher", "closer"} /\ returned = {}
    BY DEF Init
  <2>5. pushing \in BOOLEAN /\ closed \in BOOLEAN
    BY DEF Init
  <2>4. pc \in [Receivers -> Places] /\ found \in [Receivers -> 0 .. arrived]
    BY <2>2 DEF Init, Places
  <2> QED
    BY <2>1, <2>2, <2>3, <2>4, <2>5 DEF Types
<1>2. InOrder(taken, buffer, arrived)
  BY DEF Init, InOrder
<1>3. Returned /\ Sleepers /\ Pushes
  BY DEF Init, Returned, Sleepers, Pushes
<1>4. Holds
  BY WaitAssumption DEF Init, Holds
<1> QED
  BY <1>1, <1>2, <1>3, <1>4 DEF Parts

USE DEF bufferVars, condVars, recvVars

(***************************************************************************)
(* The dispatcher begins to append a message.                              *)
(***************************************************************************)
LEMMA PushBeginsInv == ASSUME Parts, PushBegins PROVE Parts'
<1> USE DEF Parts, PushBegins
<1>1. Types'
  BY DEF Types
<1>2. InOrder(taken, buffer, arrived)'
  BY DEF InOrder
<1> QED
  BY <1>1, <1>2 DEF Returned, Sleepers, Holds, Pushes

(***************************************************************************)
(* A message arrives.                                                      *)
(***************************************************************************)
LEMMA OnUserDataInv == ASSUME Parts, OnUserData PROVE Parts'
<1> USE DEF Parts
<1>0. buffer \in Seq(Nat) /\ taken \in Seq(Nat) /\ taken' = taken
  BY DEF Types, OnUserData
<1>1. /\ arrived \in Nat /\ arrived' = arrived + 1 /\ arrived' \in 0 .. MaxMessages
      /\ buffer' = Append(buffer, arrived + 1)
  <2>1. arrived' = arrived + 1 /\ buffer' = Append(buffer, arrived + 1) /\ pushing
    BY DEF OnUserData
  <2>2. arrived \in Nat /\ arrived < MaxMessages
    BY <2>1, WaitAssumption DEF Types, Pushes
  <2> QED
    BY <2>1, <2>2, WaitAssumption
<1>2. /\ buffer' \in Seq(Nat) /\ Len(buffer') = Len(buffer) + 1
      /\ \A i \in 1 .. Len(buffer) : buffer'[i] = buffer[i]
      /\ buffer'[Len(buffer) + 1] = arrived + 1
  BY <1>0, <1>1
<1>3. Types'
  <2>1. count' \in Int /\ before' \in Int /\ pushing' = FALSE
    BY DEF Types, OnUserData
  <2>2. list' \in {"sound", "torn", "panicked"}
    BY DEF Types, OnUserData
  <2>3. arrived \in 0 .. arrived' /\ 0 .. arrived \subseteq 0 .. arrived'
        /\ 1 .. arrived \subseteq 1 .. arrived'
    BY <1>1
  <2> QED
    BY <1>1, <1>2, <2>1, <2>2, <2>3 DEF Types, OnUserData
<1>4. InOrder(taken, buffer, arrived)'
  <2>1. Len(taken) + Len(buffer) = arrived /\ Len(taken) \in Nat /\ Len(buffer) \in Nat
    BY <1>0 DEF InOrder
  <2>2. ASSUME NEW i \in 1 .. Len(buffer') PROVE buffer'[i] = Len(taken) + i
    <3>1. CASE i \in 1 .. Len(buffer)
      BY <1>2, <3>1 DEF InOrder
    <3>2. CASE i = Len(buffer) + 1
      BY <1>2, <2>1, <3>2
    <3> QED
      BY <1>2, <2>1, <3>1, <3>2
  <2>3. \A i \in 1 .. Len(buffer') : buffer'[i] = Len(taken') + i
    BY <1>0, <2>2
  <2>4. \A i \in 1 .. Len(taken') : taken'[i] = i
    BY <1>0 DEF InOrder
  <2>5. Len(taken') + Len(buffer') = arrived'
    <3>1. Len(taken') = Len(taken) /\ Len(buffer') = Len(buffer) + 1
      BY <1>0, <1>2
    <3> QED
      BY <1>1, <2>1, <3>1
  <2> QED
    BY <2>3, <2>4, <2>5 DEF InOrder
<1>5. Returned' /\ Sleepers' /\ Pushes'
  BY DEF OnUserData, Returned, Sleepers, Pushes
<1>6. Holds'
  <2>1. buffer # <<>> => buffer' # <<>> /\ Head(buffer') = Head(buffer)
    BY <1>0, <1>1
  <2> QED
    BY <2>1 DEF Holds, OnUserData
<1> QED
  BY <1>3, <1>4, <1>5, <1>6

(***************************************************************************)
(* The flow is closed.                                                     *)
(***************************************************************************)
LEMMA CloseInv == ASSUME Parts, Close PROVE Parts'
<1> USE DEF Parts, Close
<1>1. Types'
  BY DEF Types
<1>2. InOrder(taken, buffer, arrived)'
  BY DEF InOrder
<1> QED
  BY <1>1, <1>2 DEF Returned, Sleepers, Holds, Pushes

(***************************************************************************)
(* A signal wakes the first that waits.                                    *)
(***************************************************************************)
LEMMA SignalInv == ASSUME Parts, Signal PROVE Parts'
<1> USE DEF Parts
<1>1. CASE waiting = <<>>
  <2>1. UNCHANGED <<bufferVars, waiting, recvVars, closed>>
    BY <1>1 DEF Signal
  <2>2. Types'
    BY <2>1 DEF Types, Signal
  <2> QED
    BY <2>1, <2>2 DEF InOrder, Returned, Sleepers, Holds, Pushes
<1>2. CASE waiting # <<>>
  <2>1. /\ pc' = [pc EXCEPT ![Head(waiting)] = "wake"] /\ waiting' = Tail(waiting)
        /\ UNCHANGED <<bufferVars, mutex, found, closed, taken, returned>>
    BY <1>2 DEF Signal, Goes
  <2>2. /\ Head(waiting) \in Receivers /\ Head(waiting) = waiting[1]
        /\ Len(waiting) \in Nat \ {0} /\ waiting' \in Seq(Receivers)
        /\ Len(waiting') = Len(waiting) - 1
        /\ \A i \in 1 .. Len(waiting') : waiting'[i] = waiting[i + 1]
    BY <1>2, <2>1, HeadTailProperties DEF Sleepers
  <2>3. DOMAIN waiting = 1 .. Len(waiting) /\ DOMAIN waiting' = 1 .. Len(waiting')
    BY <2>2 DEF Sleepers
  <2>4. Types'
    BY <2>1, <2>2 DEF Types, Places, Signal
  <2>5. pc[Head(waiting)] = "asleep"
    BY <2>2, <2>3 DEF Sleepers
  <2>6. Sleepers'
    <3>1. ASSUME NEW i \in DOMAIN waiting' PROVE pc'[waiting'[i]] = "asleep"
      <4>1. i + 1 \in DOMAIN waiting /\ waiting'[i] = waiting[i + 1] /\ i + 1 # 1
        BY <2>2, <2>3
      <4>2. waiting[i + 1] # waiting[1] /\ waiting[i + 1] \in Receivers
        BY <2>2, <2>3, <4>1 DEF Sleepers
      <4> QED
        BY <2>1, <2>2, <4>1, <4>2 DEF Sleepers, Types
    <3>2. ASSUME NEW r \in Receivers, pc'[r] = "asleep"
          PROVE  \E i \in DOMAIN waiting' : waiting'[i] = r
      <4>1. pc[r] = "asleep" /\ r # waiting[1]
        BY <2>1, <2>2, <3>2 DEF Types
      <4>2. PICK j \in DOMAIN waiting : waiting[j] = r
        BY <4>1 DEF Sleepers
      <4>3. j # 1
        BY <4>1, <4>2
      <4>4. j - 1 \in DOMAIN waiting' /\ waiting'[j - 1] = r
        BY <2>2, <2>3, <4>2, <4>3
      <4> QED
        BY <4>4
    <3>3. ASSUME NEW i \in DOMAIN waiting', NEW j \in DOMAIN waiting',
                 waiting'[i] = waiting'[j]
          PROVE  i = j
      <4>1. /\ i + 1 \in DOMAIN waiting /\ j + 1 \in DOMAIN waiting
            /\ waiting[i + 1] = waiting[j + 1]
        BY <2>2, <2>3, <3>3
      <4>2. i + 1 = j + 1
        BY <4>1 DEF Sleepers
      <4> QED
        BY <2>2, <2>3, <4>2
    <3> QED
      BY <2>2, <3>1, <3>2, <3>3 DEF Sleepers
  <2>7. Holds'
    BY <2>1, <2>2, <2>5 DEF Holds, Types
  <2>8. InOrder(taken, buffer, arrived)' /\ Returned' /\ Pushes'
    BY <2>1 DEF InOrder, Returned, Pushes
  <2> QED
    BY <2>4, <2>6, <2>7, <2>8
<1> QED
  BY <1>1, <1>2

(***************************************************************************)
(* recv() looks at closed, at the buffer, or wakes up.                     *)
(***************************************************************************)
LEMMA LookInv ==
  ASSUME Parts, NEW r \in Receivers, Check(r) \/ Lock(r) \/ Wake(r)
  PROVE  Parts'
<1> USE DEF Parts
<1>1. /\ UNCHANGED <<arrived, buffer, count, pushing, before, signals, waiting>>
      /\ UNCHANGED <<closed, taken, returned>>
  BY DEF Check, Lock, Wake
<1>2. InOrder(taken, buffer, arrived)' /\ Returned' /\ Pushes'
  BY <1>1 DEF InOrder, Returned, Pushes
<1>3. CASE Check(r) \/ Wake(r)
  <2>1. PICK p \in {"failed", "lock", "check"} : pc' = [pc EXCEPT ![r] = p]
    BY <1>3 DEF Check, Wake, Goes
  <2>2. UNCHANGED <<mutex, found, list>> /\ pc[r] \notin {"remove", "wait", "asleep"}
    BY <1>3 DEF Check, Wake
  <2>3. Types'
    BY <1>1, <2>1, <2>2 DEF Types, Places
  <2>4. Holds' /\ Sleepers'
    BY <1>1, <2>1, <2>2 DEF Holds, Sleepers, Types
  <2> QED
    BY <1>2, <2>3, <2>4
<1>4. CASE Lock(r)
  <2>1. mutex = Nobody /\ pc[r] = "lock"
    BY <1>4 DEF Lock, MayLock
  <2>2. \A s \in Receivers : pc[s] \notin {"remove", "wait"}
    BY <2>1, WaitAssumption DEF Holds
  <2>3. CASE Nothing(r)
    <3>1. mutex' = r /\ pc' = [pc EXCEPT ![r] = "wait"] /\ UNCHANGED <<found, list>>
      BY <2>3 DEF Nothing, Goes
    <3>2. Types'
      BY <1>1, <3>1 DEF Types, Places
    <3>3. Holds' /\ Sleepers'
      BY <1>1, <2>1, <2>2, <3>1 DEF Holds, Sleepers, Types
    <3> QED
      BY <1>2, <3>2, <3>3
  <2>4. CASE Message(r)
    <3>1. /\ mutex' = r /\ pc' = [pc EXCEPT ![r] = "remove"] /\ buffer # <<>>
          /\ found' = [found EXCEPT ![r] = Head(buffer)] /\ list' = list
      BY <2>4 DEF Message, Goes
    <3>2. Head(buffer) \in 0 .. arrived
      <4>1. arrived \in Nat
        BY WaitAssumption DEF Types
      <4>2. buffer \in Seq(1 .. arrived)
        BY <4>1, InOrderBounds DEF Types
      <4> QED
        BY <3>1, <4>1, <4>2, HeadTailProperties
    <3>3. Types'
      BY <1>1, <3>1, <3>2 DEF Types, Places
    <3>4. Holds' /\ Sleepers'
      BY <1>1, <2>1, <2>2, <3>1 DEF Holds, Sleepers, Types
    <3> QED
      BY <1>2, <3>3, <3>4
  <2>5. CASE NoChunk
    <3>1. list' = "panicked" /\ UNCHANGED <<mutex, pc, found>>
      BY <2>5 DEF NoChunk
    <3> QED
      BY <1>1, <1>2, <3>1 DEF Types, Holds, Sleepers
  <2> QED
    BY <1>4, <2>3, <2>4, <2>5 DEF Lock
<1> QED
  BY <1>3, <1>4

(***************************************************************************)
(* recv() goes to sleep.                                                   *)
(***************************************************************************)
LEMMA WaitInv == ASSUME Parts, NEW r \in Receivers, Wait(r) PROVE Parts'
<1> USE DEF Parts
<1>1. /\ pc[r] = "wait" /\ waiting' = Append(waiting, r) /\ mutex' = Nobody
      /\ pc' = [pc EXCEPT ![r] = "asleep"]
      /\ UNCHANGED <<bufferVars, signals, found, closed, taken, returned>>
  BY DEF Wait, Goes
<1>2. InOrder(taken, buffer, arrived)' /\ Returned' /\ Pushes'
  BY <1>1 DEF InOrder, Returned, Pushes
<1>3. Types'
  BY <1>1 DEF Types, Places
<1>4. \A s \in Receivers \ {r} : pc[s] \notin {"remove", "wait"}
  BY <1>1 DEF Holds
<1>5. Holds'
  BY <1>1, <1>4, WaitAssumption DEF Holds, Types
<1>6. /\ waiting' \in Seq(Receivers) /\ Len(waiting') = Len(waiting) + 1
      /\ \A i \in 1 .. Len(waiting) : waiting'[i] = waiting[i]
      /\ waiting'[Len(waiting) + 1] = r /\ Len(waiting) \in Nat
  BY <1>1 DEF Sleepers
<1>7. DOMAIN waiting = 1 .. Len(waiting) /\ DOMAIN waiting' = 1 .. (Len(waiting) + 1)
  BY <1>6 DEF Sleepers
<1>8. \A i \in DOMAIN waiting : waiting[i] \in Receivers /\ waiting[i] # r
  BY <1>1, <1>7 DEF Sleepers
<1>9. Sleepers'
  <2>1. ASSUME NEW i \in DOMAIN waiting' PROVE pc'[waiting'[i]] = "asleep"
    <3>1. CASE i \in DOMAIN waiting
      BY <1>1, <1>6, <1>7, <1>8, <3>1 DEF Sleepers, Types
    <3>2. CASE i = Len(waiting) + 1
      BY <1>1, <1>6, <3>2 DEF Types
    <3> QED
      BY <1>6, <1>7, <3>1, <3>2
  <2>2. ASSUME NEW s \in Receivers, pc'[s] = "asleep"
        PROVE  \E i \in DOMAIN waiting' : waiting'[i] = s
    <3>1. CASE s = r
      BY <1>6, <1>7, <3>1
    <3>2. CASE s # r
      <4>1. pc[s] = "asleep"
        BY <1>1, <2>2, <3>2 DEF Types
      <4>2. PICK j \in DOMAIN waiting : waiting[j] = s
        BY <4>1 DEF Sleepers
      <4> QED
        BY <1>6, <1>7, <4>2
    <3> QED
      BY <3>1, <3>2
  <2>3. ASSUME NEW i \in DOMAIN waiting', NEW j \in DOMAIN waiting',
               waiting'[i] = waiting'[j]
        PROVE  i = j
    <3>1. CASE i \in DOMAIN waiting /\ j \in DOMAIN waiting
      BY <1>6, <1>7, <2>3, <3>1 DEF Sleepers
    <3>2. CASE i \notin DOMAIN waiting \/ j \notin DOMAIN waiting
      BY <1>6, <1>7, <1>8, <2>3, <3>2
    <3> QED
      BY <3>1, <3>2
  <2> QED
    BY <1>6, <2>1, <2>2, <2>3 DEF Sleepers
<1> QED
  BY <1>2, <1>3, <1>5, <1>9

(***************************************************************************)
(* recv() takes the message it found, which is still the oldest.           *)
(***************************************************************************)
LEMMA RemoveInv == ASSUME Parts, NEW r \in Receivers, Remove(r) PROVE Parts'
<1> USE DEF Parts
<1>1. pc[r] = "remove" /\ mutex = r /\ buffer # <<>> /\ found[r] = Head(buffer)
  BY DEF Remove, Holds
<1>2. /\ buffer' = Tail(buffer) /\ taken' = Append(taken, Head(buffer))
      /\ mutex' = Nobody
      /\ pc' = [pc EXCEPT ![r] = IF closed THEN "failed" ELSE "check"]
      /\ returned' = IF closed THEN returned ELSE returned \cup {Head(buffer)}
      /\ count' = count - 1
      /\ UNCHANGED <<arrived, list, pushing, before, signals, waiting, found, closed>>
  BY <1>1 DEF Remove, Goes
<1>3. arrived \in Nat
  BY WaitAssumption DEF Types
<1>4. Head(buffer) \in 1 .. arrived /\ Head(buffer) = buffer[1]
  <2>1. buffer \in Seq(1 .. arrived)
    BY <1>3, InOrderBounds DEF Types
  <2>2. Head(buffer) \in 1 .. arrived
    BY <1>1, <2>1, HeadTailProperties
  <2>3. Head(buffer) = buffer[1]
    BY <1>1 DEF Types
  <2> QED
    BY <2>2, <2>3
<1>5. /\ buffer' \in Seq(Nat) /\ Len(buffer') = Len(buffer) - 1
      /\ \A i \in 1 .. Len(buffer') : buffer'[i] = buffer[i + 1]
      /\ Len(buffer) \in Nat \ {0}
  BY <1>1, <1>2, HeadTailProperties DEF Types
<1>6. /\ taken' \in Seq(Nat) /\ Len(taken') = Len(taken) + 1
      /\ \A i \in 1 .. Len(taken) : taken'[i] = taken[i]
      /\ taken'[Len(taken) + 1] = buffer[1] /\ Len(taken) \in Nat
  BY <1>2, <1>4 DEF Types
<1>7. Types'
  <2>1. /\ found' \in [Receivers -> 0 .. arrived'] /\ returned' \subseteq 1 .. arrived'
        /\ pc' \in [Receivers -> Places]
    BY <1>2, <1>4 DEF Types, Places
  <2>2. count' \in Int
    BY <1>2 DEF Types
  <2> QED
    BY <1>2, <1>5, <1>6, <2>1, <2>2 DEF Types
<1>8. InOrder(taken, buffer, arrived)'
  <2>1. Len(taken') + Len(buffer') = arrived'
    BY <1>2, <1>5, <1>6 DEF InOrder
  <2>2. ASSUME NEW i \in 1 .. Len(taken') PROVE taken'[i] = i
    <3>1. buffer[1] = Len(taken) + 1
      BY <1>5 DEF InOrder
    <3>2. CASE i \in 1 .. Len(taken)
      BY <1>6, <3>2 DEF InOrder
    <3>3. CASE i = Len(taken) + 1
      BY <1>6, <3>1, <3>3
    <3> QED
      BY <1>6, <3>2, <3>3
  <2>3. \A i \in 1 .. Len(buffer') : buffer'[i] = Len(taken') + i
    BY <1>5, <1>6 DEF InOrder
  <2> QED
    BY <2>1, <2>2, <2>3 DEF InOrder
<1>9. Returned'
  <2>1. DOMAIN taken = 1 .. Len(taken) /\ DOMAIN taken' = 1 .. (Len(taken) + 1)
    BY <1>6 DEF Types
  <2>2. ASSUME ~ closed, NEW n \in Nat
        PROVE  n \in returned' <=> \E i \in DOMAIN taken' : taken'[i] = n
    <3>1. n \in returned' <=> n \in returned \/ n = buffer[1]
      BY <1>2, <1>4, <2>2
    <3>2. n \in returned <=> \E i \in DOMAIN taken : taken[i] = n
      BY <2>2 DEF Returned
    <3>3. (\E i \in DOMAIN taken' : taken'[i] = n)
            <=> (\E i \in DOMAIN taken : taken[i] = n) \/ n = buffer[1]
      BY <1>6, <2>1
    <3> QED
      BY <3>1, <3>2, <3>3
  <2> QED
    BY <1>2, <2>2 DEF Returned
<1>10. Sleepers' /\ Pushes'
  BY <1>1, <1>2 DEF Sleepers, Types, Pushes
<1>11. \A s \in Receivers \ {r} : pc[s] \notin {"remove", "wait"}
  BY <1>1 DEF Holds
<1>12. Holds'
  BY <1>2, <1>11, WaitAssumption DEF Holds, Types
<1> QED
  BY <1>7, <1>8, <1>9, <1>10, <1>12

(***************************************************************************)
(* Every step preserves the invariant.                                     *)
(***************************************************************************)
LEMMA NextInv == ASSUME Parts, [Next]_vars PROVE Parts'
<1>1. ASSUME NEW r \in Receivers, Receive(r) PROVE Parts'
  BY <1>1, LookInv, WaitInv, RemoveInv DEF Receive
<1>2. CASE UNCHANGED vars
  BY <1>2 DEF vars, Parts, Types, InOrder, Returned, Sleepers, Holds, Pushes
<1> QED
  BY <1>1, <1>2, PushBeginsInv, OnUserDataInv, CloseInv, SignalInv DEF Next

(***************************************************************************)
(* The inductive invariant: the mutex protects what read_message found     *)
(* until it removes it.                                                    *)
(***************************************************************************)
THEOREM Invariance == Spec => []IInv
<1>1. Init => Parts
  BY InitInv
<1>2. Parts /\ [Next]_vars => Parts'
  BY NextInv
<1>3. Parts => IInv
  BY PartsAreIInv
<1> QED
  BY <1>1, <1>2, <1>3, PTL DEF Spec

(***************************************************************************)
(* The variables keep their types, and the list of those that wait is      *)
(* exactly the goroutines asleep.                                          *)
(***************************************************************************)
THEOREM TypeCorrect == Spec => []TypeOK
<1>1. IInv => TypeOK
  BY DEF IInv
<1> QED
  BY <1>1, Invariance, PTL

(***************************************************************************)
(* Whatever the number of goroutines that call recv(), every message is    *)
(* removed once and in order, and returned unless the flow was closed.     *)
(***************************************************************************)
THEOREM ReceivedInOrderOnce == Spec => []InOrderOnce
<1>1. IInv => InOrderOnce
  BY DEF IInv
<1> QED
  BY <1>1, Invariance, PTL
=============================================================================
