-------------------------- MODULE HandshakeProofs ---------------------------
(***************************************************************************)
(* Sessions pair off and agree on their keys: the properties of module     *)
(* Handshake, for every set of calls, every number of retries, sessions    *)
(* and restarts, and every order, loss and repetition of the packets.      *)
(***************************************************************************)
EXTENDS Handshake, TLAPS

(***************************************************************************)
(* The inductive invariant, in parts.  A call whose tag still waits for an *)
(* RHello has no answer, and an answer is never replaced.                  *)
(***************************************************************************)
WaitsForAnswer ==
  \A c \in Calls :
    /\ c \in requests \/ pc[c] = "idle" => answer[c] = 0 /\ continue_chan[c] = 0
    /\ c \in requests => pc[c] # "idle"
    /\ continue_chan[c] > 0 => answer[c] > 0

\* A session exists only once its call has left the hello loop.
SessionAfterHello ==
  \A c \in Calls :
    /\ pc[c] \in {"idle", "hello"} => dispatch[c] = "none"
    /\ c \in DOMAIN keys => dispatch[c] # "none"
    /\ pc[c] = "ok" => c \in DOMAIN keys

\* What is in the network about keys is what its sender knew, and still true.
KeyingCarriesAnswer ==
  \A p \in net : p.type = "iikeying" => p.cookie = answer[p.initSid]

AnswerNamesSession ==
  \A p \in net : p.type = "rikeying" => passive[p.nonce].other = p.session

\* The responder numbers its sessions apart, across its restarts too.
SessionsNumbered ==
  \A n \in DOMAIN passive :
    n[1] <= cookie /\ (n[1] = cookie => n[2] <= last_sessionid)

PassiveKeyed ==
  \A n \in DOMAIN passive :
    /\ passive[n].other \in Calls
    /\ passive[n].keys = CryptoKeys(n, passive[n].other)

\* The keys of an initiator's session name the responder's session.
KeysFrom(c, n) ==
  /\ passive[n].other = c
  /\ keys[c] = CryptoKeys(c, n)
  /\ dispatch[c] = "keyed" => respSid[c] = n[2]
  /\ dispatch[c] # "keyed" => other_sessionid[c] = n[2]

KeysNamePeer == \A c \in DOMAIN keys : \E n \in DOMAIN passive : KeysFrom(c, n)

IInv ==
  /\ TypeOK
  /\ WaitsForAnswer
  /\ SessionAfterHello
  /\ KeyingCarriesAnswer
  /\ AnswerNamesSession
  /\ SessionsNumbered
  /\ PassiveKeyed
  /\ PassiveWasInvited
  /\ KeysNamePeer
  /\ CallbackNeverBlocks

(***************************************************************************)
(* A packet in the network is one that its type says.                      *)
(***************************************************************************)
LEMMA PacketShapes ==
  ASSUME NEW p \in Packets
  PROVE  /\ p.type \in {"ihello", "fihello", "redirect", "rhello"} => p.tag \in Calls
         /\ p.type = "rhello" => p.cookie \in 1 .. cookie
         /\ p.type = "iikeying" => /\ p.initSid \in Calls
                                   /\ p.cookie \in 1 .. cookie
                                   /\ p.nonce = p.initSid
         /\ p.type = "rikeying" => /\ p.session \in Calls
                                   /\ p.nonce \in DOMAIN passive
                                   /\ p.respSid = p.nonce[2]
  BY DEF Packets, IHello, FIHello, Redirect, RHello, IIKeying, RIKeying

(***************************************************************************)
(* The initial state.                                                      *)
(***************************************************************************)
LEMMA InitIInv == ASSUME Init PROVE IInv
<1>1. TypeOK
  BY HandshakeAssumption DEF Init, TypeOK
<1>2. WaitsForAnswer /\ SessionAfterHello /\ CallbackNeverBlocks
  BY DEF Init, WaitsForAnswer, SessionAfterHello, CallbackNeverBlocks
<1>3. KeyingCarriesAnswer /\ AnswerNamesSession
  BY DEF Init, KeyingCarriesAnswer, AnswerNamesSession
<1>4. SessionsNumbered /\ PassiveKeyed /\ PassiveWasInvited /\ KeysNamePeer
  BY DEF Init, SessionsNumbered, PassiveKeyed, PassiveWasInvited, KeysNamePeer
<1> QED
  BY <1>1, <1>2, <1>3, <1>4 DEF IInv

(***************************************************************************)
(* The cases of a step, for the lemmas that look at every action.          *)
(***************************************************************************)
Step ==
  \/ \E c \in Calls :
       \/ CreateSession(c) \/ HelloTimeout(c) \/ HelloAnswered(c)
       \/ KeyingTimeout(c) \/ LeaveLoop(c) \/ Return(c)
       \/ Establish(c) \/ CheckChan(c) \/ Notify(c)
  \/ \E p \in net :
       \/ RecvRHello(p) \/ RecvRedirect(p) \/ RecvRIKeying(p) \/ RecvIHello(p)
       \/ RecvIIKeying(p, TRUE) \/ RecvIIKeying(p, FALSE) \/ ServerAnswers(p)
  \/ Restart
  \/ UNCHANGED vars

LEMMA Steps == ASSUME [Next]_vars PROVE Step
  BY DEF Next, CallStep, SessionStep, Deliver, Step

(***************************************************************************)
(* The bounds of the retry counters.                                       *)
(***************************************************************************)
LEMMA TriesRange ==
  ASSUME NEW n \in Nat, n <= HelloRetries \/ n <= KeyingRetries
  PROVE  n \in 0 .. (IF HelloRetries > KeyingRetries THEN HelloRetries ELSE KeyingRetries)
  BY HandshakeAssumption

(***************************************************************************)
(* What is in the network stays a packet when cookies and sessions are     *)
(* added.                                                                  *)
(***************************************************************************)
LEMMA PacketsGrow ==
  ASSUME cookie \in Nat, cookie' \in Nat, cookie <= cookie',
         DOMAIN passive \subseteq DOMAIN passive'
  PROVE  Packets \subseteq Packets'
<1>1. 1 .. cookie \subseteq 1 .. cookie'
  OBVIOUS
<1> QED
  BY <1>1 DEF Packets

(***************************************************************************)
(* A nonce of the responder is new, and the sessions it has stay.          *)
(***************************************************************************)
LEMMA NewNonce ==
  ASSUME TypeOK, SessionsNumbered, NEW p \in net, RecvIIKeying(p, TRUE)
  PROVE  LET n == <<cookie, last_sessionid + 1>>
         IN  /\ n \in Nonces /\ n \notin DOMAIN passive
             /\ n[1] = cookie /\ n[2] = last_sessionid + 1
             /\ DOMAIN passive' = DOMAIN passive \cup {n}
             /\ passive'[n] = [other |-> p.initSid, keys |-> CryptoKeys(n, p.initSid)]
             /\ \A s \in DOMAIN passive : passive'[s] = passive[s]
             /\ net' = net \cup {RIKeying(p.initSid, n)}
             /\ p.type = "iikeying" /\ p.initSid \in Calls /\ p.cookie = cookie
<1> DEFINE n == <<cookie, last_sessionid + 1>>
<1>1. /\ p.type = "iikeying" /\ p.cookie = cookie
      /\ last_sessionid < MaxSessions
      /\ passive' = [s \in DOMAIN passive \cup {n} |->
                       IF s = n
                       THEN [other |-> p.initSid, keys |-> CryptoKeys(n, p.nonce)]
                       ELSE passive[s]]
      /\ net' = net \cup {RIKeying(p.initSid, n)}
  BY DEF RecvIIKeying, CookieMatches, ResponderKeys
<1>2. p.initSid \in Calls /\ p.nonce = p.initSid
  BY <1>1, PacketShapes DEF TypeOK
<1>3. n \in Nonces /\ n[1] = cookie /\ n[2] = last_sessionid + 1
  BY <1>1, HandshakeAssumption DEF TypeOK, Nonces
<1>4. n \notin DOMAIN passive
  BY <1>3 DEF SessionsNumbered, TypeOK
<1> QED
  BY <1>1, <1>2, <1>3, <1>4

(***************************************************************************)
(* What no step takes back: sessions of the responder, keys, packets and   *)
(* the answer a call got.                                                  *)
(***************************************************************************)
LEMMA PassiveStays ==
  ASSUME TypeOK, SessionsNumbered, [Next]_vars
  PROVE  /\ DOMAIN passive \subseteq DOMAIN passive'
         /\ \A n \in DOMAIN passive : passive'[n] = passive[n]
<1>1. ASSUME NEW p \in net, RecvIIKeying(p, TRUE)
      PROVE  /\ DOMAIN passive \subseteq DOMAIN passive'
             /\ \A n \in DOMAIN passive : passive'[n] = passive[n]
  BY <1>1, NewNonce
<1>2. CASE passive' = passive
  BY <1>2
<1>3. passive' = passive \/ \E p \in net : RecvIIKeying(p, TRUE)
  <2>1. Step
    BY Steps
  <2> QED
    BY <2>1 DEF Step, CreateSession, HelloTimeout, HelloAnswered, KeyingTimeout,
         LeaveLoop, Return, Establish, CheckChan, Notify, RecvRHello, RecvRedirect,
         RecvRIKeying, RecvIHello, RecvIIKeying, ServerAnswers, Restart,
         responderVars, vars
<1> QED
  BY <1>1, <1>2, <1>3

LEMMA KeysTaken == ASSUME [Next]_vars PROVE keys' = keys \/ \E p \in net : RecvRIKeying(p)
<1>1. Step
  BY Steps
<1> QED
  BY <1>1 DEF Step, CreateSession, HelloTimeout, HelloAnswered, KeyingTimeout,
         LeaveLoop, Return, Establish, CheckChan, Notify, RecvRHello, RecvRedirect,
         RecvRIKeying, RecvIHello, RecvIIKeying, ServerAnswers, Restart,
         sessionVars, vars

LEMMA KeysStay ==
  ASSUME [Next]_vars
  PROVE  \A c \in DOMAIN keys : c \in DOMAIN keys' /\ keys'[c] = keys[c]
<1>1. ASSUME NEW p \in net, RecvRIKeying(p)
      PROVE  \A c \in DOMAIN keys : c \in DOMAIN keys' /\ keys'[c] = keys[c]
  BY <1>1 DEF RecvRIKeying, TakesKeys, Handshaked
<1>2. keys' = keys \/ \E p \in net : RecvRIKeying(p)
  BY KeysTaken
<1> QED
  BY <1>1, <1>2

LEMMA AnswerStays ==
  ASSUME TypeOK, WaitsForAnswer, [Next]_vars,
         NEW c \in Calls, answer[c] > 0
  PROVE  answer'[c] = answer[c]
<1>1. ASSUME NEW p \in net, RecvRHello(p) PROVE answer'[c] = answer[c]
  <2>1. c \notin requests
    BY DEF WaitsForAnswer, TypeOK
  <2> QED
    BY <1>1, <2>1 DEF RecvRHello, TypeOK
<1>2. answer' = answer \/ \E p \in net : RecvRHello(p)
  <2>1. Step
    BY Steps
  <2> QED
    BY <2>1 DEF Step, CreateSession, HelloTimeout, HelloAnswered, KeyingTimeout,
         LeaveLoop, Return, Establish, CheckChan, Notify, RecvRHello, RecvRedirect,
         RecvRIKeying, RecvIHello, RecvIIKeying, ServerAnswers, Restart,
         callVars, vars
<1> QED
  BY <1>1, <1>2

(***************************************************************************)
(* Types.  Cookies and the responder's sessions first: they give packets   *)
(* their range.                                                            *)
(***************************************************************************)
LEMMA RespondersTypes ==
  ASSUME TypeOK, SessionsNumbered, [Next]_vars
  PROVE  /\ cookie' \in 1 .. MaxRestarts + 1 /\ cookie <= cookie'
         /\ last_sessionid' \in 0 .. MaxSessions
         /\ DOMAIN passive' \subseteq Nonces
         /\ Packets \subseteq Packets'
<1>1. cookie' \in 1 .. MaxRestarts + 1 /\ cookie <= cookie' /\ last_sessionid' \in 0 .. MaxSessions
  <2>1. CASE Restart
    BY <2>1, HandshakeAssumption DEF Restart, TypeOK
  <2>2. ASSUME NEW p \in net, NEW accepted \in BOOLEAN, RecvIIKeying(p, accepted)
        PROVE  cookie' = cookie /\ last_sessionid' = last_sessionid + 1 /\ last_sessionid < MaxSessions
    BY <2>2 DEF RecvIIKeying
  <2>3. \/ cookie' = cookie /\ last_sessionid' = last_sessionid
        \/ Restart
        \/ \E p \in net, accepted \in BOOLEAN : RecvIIKeying(p, accepted)
    <3>1. Step
      BY Steps
    <3> QED
      BY <3>1 DEF Step, CreateSession, HelloTimeout, HelloAnswered, KeyingTimeout,
           LeaveLoop, Return, Establish, CheckChan, Notify, RecvRHello, RecvRedirect,
           RecvRIKeying, RecvIHello, ServerAnswers, responderVars, vars
  <2> QED
    BY <2>1, <2>2, <2>3, HandshakeAssumption DEF TypeOK
<1>2. DOMAIN passive' \subseteq Nonces
  <2>1. ASSUME NEW p \in net, RecvIIKeying(p, TRUE) PROVE DOMAIN passive' \subseteq Nonces
    BY <2>1, NewNonce DEF TypeOK
  <2>2. passive' = passive \/ \E p \in net : RecvIIKeying(p, TRUE)
    <3>1. Step
      BY Steps
    <3> QED
      BY <3>1 DEF Step, CreateSession, HelloTimeout, HelloAnswered, KeyingTimeout,
           LeaveLoop, Return, Establish, CheckChan, Notify, RecvRHello, RecvRedirect,
           RecvRIKeying, RecvIHello, RecvIIKeying, ServerAnswers, Restart,
           responderVars, vars
  <2> QED
    BY <2>1, <2>2 DEF TypeOK, Nonces
<1>3. Packets \subseteq Packets'
  BY <1>1, PacketsGrow, PassiveStays DEF TypeOK
<1> QED
  BY <1>1, <1>2, <1>3

(***************************************************************************)
(* The steps that send something.                                          *)
(***************************************************************************)
LEMMA Senders ==
  ASSUME [Next]_vars
  PROVE  \/ net' = net
         \/ \E c \in Calls : CreateSession(c) \/ HelloAnswered(c)
         \/ \E p \in net :
              RecvRedirect(p) \/ RecvIHello(p) \/ RecvIIKeying(p, TRUE) \/ ServerAnswers(p)
<1>1. Step
  BY Steps
<1> QED
  BY <1>1 DEF Step, HelloTimeout, KeyingTimeout, LeaveLoop, Return, Establish,
       CheckChan, Notify, RecvRHello, RecvRIKeying, RecvIIKeying, Restart, vars

LEMMA SendsKeying ==
  ASSUME TypeOK, SessionsNumbered, [Next]_vars, NEW p \in net' \ net
  PROVE  /\ p.type = "iikeying" => \E c \in Calls : HelloAnswered(c) /\ p = IIKeying(c, answer[c])
         /\ p.type = "rikeying" => \E q \in net : /\ RecvIIKeying(q, TRUE)
                                                  /\ p = RIKeying(q.initSid, <<cookie, last_sessionid + 1>>)
<1>1. ASSUME NEW c \in Calls, CreateSession(c) PROVE p.type = "ihello"
  BY <1>1 DEF CreateSession, IHello
<1>2. ASSUME NEW c \in Calls, HelloAnswered(c) PROVE p.type = "iikeying" /\ p = IIKeying(c, answer[c])
  BY <1>2 DEF HelloAnswered, IIKeying
<1>3. ASSUME NEW q \in net, RecvRedirect(q) \/ RecvIHello(q) \/ ServerAnswers(q)
      PROVE  p.type \in {"ihello", "rhello", "fihello", "redirect"}
  BY <1>3 DEF RecvRedirect, RecvIHello, ServerAnswers, IHello, RHello, FIHello, Redirect
<1>4. ASSUME NEW q \in net, RecvIIKeying(q, TRUE)
      PROVE  p.type = "rikeying" /\ p = RIKeying(q.initSid, <<cookie, last_sessionid + 1>>)
  <2>1. net' = net \cup {RIKeying(q.initSid, <<cookie, last_sessionid + 1>>)}
    BY <1>4, NewNonce
  <2> QED
    BY <2>1 DEF RIKeying
<1> QED
  BY <1>1, <1>2, <1>3, <1>4, Senders

(***************************************************************************)
(* Every packet a step sends is one.                                       *)
(***************************************************************************)
LEMMA NetTypes ==
  ASSUME IInv, [Next]_vars
  PROVE  net' \subseteq Packets'
<1> USE DEF IInv
<1>0. TypeOK /\ SessionsNumbered /\ net \subseteq Packets' /\ net \subseteq Packets
  BY RespondersTypes DEF TypeOK
<1>1. ASSUME NEW c \in Calls, CreateSession(c) PROVE net' \subseteq Packets'
  BY <1>0, <1>1, HandshakeAssumption DEF CreateSession, Packets
<1>2. ASSUME NEW c \in Calls, HelloAnswered(c) PROVE net' \subseteq Packets'
  <2>1. answer[c] \in 1 .. cookie' /\ cookie' = cookie
    BY <1>0, <1>2 DEF HelloAnswered, WaitsForAnswer, responderVars, TypeOK
  <2> QED
    BY <1>0, <1>2, <2>1 DEF HelloAnswered, Packets
<1>3. ASSUME NEW p \in net, RecvRedirect(p) PROVE net' \subseteq Packets'
  <2>1. p.tag \in Calls
    BY <1>0, <1>3, PacketShapes DEF RecvRedirect
  <2> QED
    BY <1>0, <1>3, <2>1 DEF RecvRedirect, Packets
<1>4. ASSUME NEW p \in net, RecvIHello(p) PROVE net' \subseteq Packets'
  <2>1. p.tag \in Calls
    BY <1>0, <1>4, PacketShapes DEF RecvIHello
  <2>2. cookie \in 1 .. cookie'
    BY <1>0, <1>4 DEF RecvIHello, responderVars, TypeOK
  <2> QED
    BY <1>0, <1>4, <2>1, <2>2 DEF RecvIHello, Packets
<1>5. ASSUME NEW p \in net, RecvIIKeying(p, TRUE) PROVE net' \subseteq Packets'
  <2> DEFINE n == <<cookie, last_sessionid + 1>>
  <2>1. p.initSid \in Calls /\ n \in DOMAIN passive' /\ net' = net \cup {RIKeying(p.initSid, n)}
    BY <1>0, <1>5, NewNonce
  <2> QED
    BY <1>0, <2>1 DEF Packets
<1>6. ASSUME NEW p \in net, ServerAnswers(p) PROVE net' \subseteq Packets'
  <2>1. p.tag \in Calls
    BY <1>0, <1>6, PacketShapes DEF ServerAnswers
  <2> QED
    BY <1>0, <1>6, <2>1 DEF ServerAnswers, Packets
<1> QED
  BY <1>0, <1>1, <1>2, <1>3, <1>4, <1>5, <1>6, Senders

(***************************************************************************)
(* The variables of the calls and of the initiator's sessions.             *)
(***************************************************************************)
LEMMA TypeStep == ASSUME IInv, [Next]_vars PROVE TypeOK'
<1> USE DEF IInv
<1>0. /\ TypeOK /\ SessionsNumbered
      /\ cookie' \in 1 .. MaxRestarts + 1 /\ cookie <= cookie'
      /\ answer \in [Calls -> 0 .. cookie']
  BY RespondersTypes DEF TypeOK
<1>1. ASSUME NEW c \in Calls, CreateSession(c) PROVE TypeOK'
  <2>1. 1 \in 0 .. (IF HelloRetries > KeyingRetries THEN HelloRetries ELSE KeyingRetries)
    BY HandshakeAssumption
  <2> QED
    BY <1>0, <1>1, <2>1, RespondersTypes, NetTypes DEF CreateSession, sessionVars, TypeOK
<1>2. ASSUME NEW c \in Calls, HelloTimeout(c) PROVE TypeOK'
  <2>1. CASE tries[c] < HelloRetries
    <3>1. tries[c] + 1 \in 0 .. (IF HelloRetries > KeyingRetries THEN HelloRetries ELSE KeyingRetries)
      BY <2>1, HandshakeAssumption DEF TypeOK
    <3> QED
      BY <1>0, <1>2, <2>1, <3>1, RespondersTypes, NetTypes DEF HelloTimeout, sessionVars, TypeOK
  <2>2. CASE ~ (tries[c] < HelloRetries)
    BY <1>0, <1>2, <2>2, RespondersTypes, NetTypes DEF HelloTimeout, sessionVars, TypeOK
  <2> QED
    BY <2>1, <2>2
<1>3. ASSUME NEW c \in Calls, HelloAnswered(c) PROVE TypeOK'
  <2>1. 1 \in 0 .. (IF HelloRetries > KeyingRetries THEN HelloRetries ELSE KeyingRetries)
    BY HandshakeAssumption
  <2>2. continue_chan[c] - 1 \in Nat
    BY <1>3 DEF HelloAnswered, TypeOK
  <2> QED
    BY <1>0, <1>3, <2>1, <2>2, RespondersTypes, NetTypes DEF HelloAnswered, TypeOK
<1>4. ASSUME NEW c \in Calls, KeyingTimeout(c) PROVE TypeOK'
  <2>1. tries[c] + 1 \in 0 .. (IF HelloRetries > KeyingRetries THEN HelloRetries ELSE KeyingRetries)
    BY <1>4, HandshakeAssumption DEF KeyingTimeout, KeyingsLeft, TypeOK
  <2> QED
    BY <1>0, <1>4, <2>1, RespondersTypes, NetTypes DEF KeyingTimeout, sessionVars, TypeOK
<1>5. ASSUME NEW c \in Calls, LeaveLoop(c) \/ Return(c) PROVE TypeOK'
  BY <1>0, <1>5, RespondersTypes, NetTypes DEF LeaveLoop, Return, sessionVars, TypeOK
<1>6. ASSUME NEW c \in Calls, Establish(c) \/ CheckChan(c) \/ Notify(c) PROVE TypeOK'
  BY <1>0, <1>6, RespondersTypes, NetTypes
  DEF Establish, CheckChan, Notify, callVars, TypeOK
<1>7. ASSUME NEW p \in net, RecvRHello(p) PROVE TypeOK'
  <2>1. p.tag \in Calls /\ p.cookie \in 0 .. cookie'
    BY <1>0, <1>7, PacketShapes DEF RecvRHello, TypeOK
  <2>2. continue_chan[p.tag] + 1 \in Nat
    BY <2>1 DEF TypeOK
  <2> QED
    BY <1>0, <1>7, <2>1, <2>2, RespondersTypes, NetTypes
    DEF RecvRHello, RequestsWithout, sessionVars, TypeOK
<1>8. ASSUME NEW p \in net, RecvRIKeying(p) PROVE TypeOK'
  <2>1. p.session \in Calls /\ p.respSid \in 0 .. MaxSessions
    BY <1>0, <1>8, PacketShapes, HandshakeAssumption DEF RecvRIKeying, TypeOK, Nonces
  <2> QED
    BY <1>0, <1>8, <2>1, RespondersTypes, NetTypes DEF RecvRIKeying, callVars, TypeOK
<1>9. CASE UNCHANGED <<callVars, sessionVars>>
  BY <1>0, <1>9, RespondersTypes, NetTypes DEF callVars, sessionVars, TypeOK
<1>10. \/ UNCHANGED <<callVars, sessionVars>>
       \/ \E c \in Calls :
            \/ CreateSession(c) \/ HelloTimeout(c) \/ HelloAnswered(c) \/ KeyingTimeout(c)
            \/ LeaveLoop(c) \/ Return(c) \/ Establish(c) \/ CheckChan(c) \/ Notify(c)
       \/ \E p \in net : RecvRHello(p) \/ RecvRIKeying(p)
  <2>1. Step
    BY Steps
  <2> QED
    BY <2>1 DEF Step, RecvRedirect, RecvIHello, RecvIIKeying, ServerAnswers, Restart, vars
<1> QED
  BY <1>1, <1>2, <1>3, <1>4, <1>5, <1>6, <1>7, <1>8, <1>9, <1>10

(***************************************************************************)
(* The calls: who waits, and who has a session.                            *)
(***************************************************************************)
LEMMA WaitsStep == ASSUME IInv, [Next]_vars PROVE WaitsForAnswer' /\ CallbackNeverBlocks'
<1> USE DEF IInv
<1>1. ASSUME NEW c \in Calls, CreateSession(c) \/ HelloTimeout(c) PROVE WaitsForAnswer' /\ CallbackNeverBlocks'
  BY <1>1 DEF CreateSession, HelloTimeout, WaitsForAnswer, CallbackNeverBlocks, TypeOK
<1>2. ASSUME NEW c \in Calls, HelloAnswered(c) PROVE WaitsForAnswer' /\ CallbackNeverBlocks'
  BY <1>2 DEF HelloAnswered, WaitsForAnswer, CallbackNeverBlocks, TypeOK
<1>3. ASSUME NEW c \in Calls, LeaveLoop(c) \/ Return(c) PROVE WaitsForAnswer' /\ CallbackNeverBlocks'
  BY <1>3 DEF LeaveLoop, Return, WaitsForAnswer, CallbackNeverBlocks, TypeOK
<1>4. ASSUME NEW p \in net, RecvRHello(p) PROVE WaitsForAnswer' /\ CallbackNeverBlocks'
  <2>1. p.cookie \in 1 .. cookie /\ p.tag \in Calls
    BY <1>4, PacketShapes DEF RecvRHello, TypeOK
  <2>2. pc[p.tag] # "idle" /\ requests' = requests \ {p.tag} /\ pc' = pc
    BY <1>4, <2>1 DEF RecvRHello, RequestsWithout, WaitsForAnswer
  <2> QED
    BY <1>4, <2>1, <2>2 DEF RecvRHello, WaitsForAnswer, CallbackNeverBlocks, TypeOK
<1>5. CASE UNCHANGED <<pc, requests, continue_chan, answer>>
  BY <1>5 DEF WaitsForAnswer, CallbackNeverBlocks
<1>6. \/ UNCHANGED <<pc, requests, continue_chan, answer>>
      \/ \E c \in Calls :
           \/ CreateSession(c) \/ HelloTimeout(c) \/ HelloAnswered(c)
           \/ LeaveLoop(c) \/ Return(c)
      \/ \E p \in net : RecvRHello(p)
  <2>1. Step
    BY Steps
  <2> QED
    BY <2>1 DEF Step, KeyingTimeout, Establish, CheckChan, Notify, RecvRedirect,
         RecvRIKeying, RecvIHello, RecvIIKeying, ServerAnswers, Restart, callVars, vars
<1> QED
  BY <1>1, <1>2, <1>3, <1>4, <1>5, <1>6

LEMMA SessionStepInv == ASSUME IInv, [Next]_vars PROVE SessionAfterHello'
<1> USE DEF IInv
<1>1. ASSUME NEW c \in Calls, CreateSession(c) \/ HelloTimeout(c) \/ HelloAnswered(c)
      PROVE  SessionAfterHello'
  BY <1>1 DEF CreateSession, HelloTimeout, HelloAnswered, sessionVars, SessionAfterHello, TypeOK
<1>2. ASSUME NEW c \in Calls, LeaveLoop(c) \/ Return(c) PROVE SessionAfterHello'
  BY <1>2 DEF LeaveLoop, Return, Handshaked, sessionVars, SessionAfterHello, TypeOK
<1>3. ASSUME NEW c \in Calls, Establish(c) \/ CheckChan(c) \/ Notify(c) PROVE SessionAfterHello'
  BY <1>3 DEF Establish, CheckChan, Notify, callVars, SessionAfterHello, TypeOK
<1>4. ASSUME NEW p \in net, RecvRIKeying(p) PROVE SessionAfterHello'
  <2>1. p.session \in Calls
    BY <1>4, PacketShapes DEF RecvRIKeying, TypeOK
  <2> QED
    BY <1>4, <2>1 DEF RecvRIKeying, callVars, SessionAfterHello, TypeOK
<1>5. CASE UNCHANGED <<pc, dispatch, keys>>
  BY <1>5 DEF SessionAfterHello
<1>6. \/ UNCHANGED <<pc, dispatch, keys>>
      \/ \E c \in Calls :
           \/ CreateSession(c) \/ HelloTimeout(c) \/ HelloAnswered(c)
           \/ LeaveLoop(c) \/ Return(c) \/ Establish(c) \/ CheckChan(c) \/ Notify(c)
      \/ \E p \in net : RecvRIKeying(p)
  <2>1. Step
    BY Steps
  <2> QED
    BY <2>1 DEF Step, KeyingTimeout, RecvRHello, RecvRedirect, RecvIHello,
         RecvIIKeying, ServerAnswers, Restart, callVars, sessionVars, vars
<1> QED
  BY <1>1, <1>2, <1>3, <1>4, <1>5, <1>6

(***************************************************************************)
(* The network: a keying, and the answer to it, say what stays true.       *)
(***************************************************************************)
LEMMA KeyingStep == ASSUME IInv, [Next]_vars PROVE KeyingCarriesAnswer'
<1> USE DEF IInv
<1>1. ASSUME NEW p \in net, p.type = "iikeying" PROVE p.cookie = answer'[p.initSid]
  <2>1. p.initSid \in Calls /\ p.cookie \in 1 .. cookie /\ p.cookie = answer[p.initSid]
    BY <1>1, PacketShapes DEF KeyingCarriesAnswer, TypeOK
  <2> QED
    BY <2>1, AnswerStays DEF TypeOK
<1>2. ASSUME NEW p \in net' \ net, p.type = "iikeying" PROVE p.cookie = answer'[p.initSid]
  <2>1. PICK c \in Calls : HelloAnswered(c) /\ p = IIKeying(c, answer[c])
    BY <1>2, SendsKeying
  <2> QED
    BY <2>1 DEF HelloAnswered, IIKeying
<1> QED
  BY <1>1, <1>2 DEF KeyingCarriesAnswer

LEMMA AnswerNamesStep == ASSUME IInv, [Next]_vars PROVE AnswerNamesSession'
<1> USE DEF IInv
<1>1. ASSUME NEW p \in net, p.type = "rikeying" PROVE passive'[p.nonce].other = p.session
  <2>1. p.nonce \in DOMAIN passive /\ passive[p.nonce].other = p.session
    BY <1>1, PacketShapes DEF AnswerNamesSession, TypeOK
  <2> QED
    BY <2>1, PassiveStays
<1>2. ASSUME NEW p \in net' \ net, p.type = "rikeying"
      PROVE  passive'[p.nonce].other = p.session
  <2> DEFINE n == <<cookie, last_sessionid + 1>>
  <2>1. PICK q \in net : RecvIIKeying(q, TRUE) /\ p = RIKeying(q.initSid, n)
    BY <1>2, SendsKeying
  <2>2. passive'[n].other = q.initSid
    <3>1. passive'[n] = [other |-> q.initSid, keys |-> CryptoKeys(n, q.initSid)]
      BY <2>1, NewNonce
    <3> QED
      BY <3>1
  <2> QED
    BY <2>1, <2>2 DEF RIKeying
<1> QED
  BY <1>1, <1>2 DEF AnswerNamesSession

(***************************************************************************)
(* The responder's sessions.                                               *)
(***************************************************************************)
LEMMA PassiveStep ==
  ASSUME IInv, [Next]_vars
  PROVE  SessionsNumbered' /\ PassiveKeyed' /\ PassiveWasInvited'
<1> USE DEF IInv
<1>1. ASSUME NEW p \in net, RecvIIKeying(p, TRUE)
      PROVE  SessionsNumbered' /\ PassiveKeyed' /\ PassiveWasInvited'
  <2> DEFINE n == <<cookie, last_sessionid + 1>>
  <2>1. /\ n[1] = cookie /\ n[2] = last_sessionid + 1
        /\ DOMAIN passive' = DOMAIN passive \cup {n}
        /\ passive'[n] = [other |-> p.initSid, keys |-> CryptoKeys(n, p.initSid)]
        /\ \A s \in DOMAIN passive : passive'[s] = passive[s]
        /\ p.type = "iikeying" /\ p.initSid \in Calls /\ p.cookie = cookie
    BY <1>1, NewNonce
  <2>2. cookie' = cookie /\ last_sessionid' = last_sessionid + 1 /\ answer' = answer
    BY <1>1 DEF RecvIIKeying, callVars
  <2>3. SessionsNumbered'
    BY <2>1, <2>2 DEF SessionsNumbered, TypeOK, Nonces
  <2>4. PassiveKeyed'
    BY <2>1, <2>2 DEF PassiveKeyed
  <2>5. answer[p.initSid] = cookie
    BY <2>1 DEF KeyingCarriesAnswer
  <2>6. PassiveWasInvited'
    BY <2>1, <2>2, <2>5 DEF PassiveWasInvited
  <2> QED
    BY <2>3, <2>4, <2>6
<1>2. CASE passive' = passive
  <2>1. \/ cookie' = cookie /\ last_sessionid' >= last_sessionid /\ last_sessionid' \in Nat
        \/ cookie' = cookie + 1
    <3>1. \/ UNCHANGED <<cookie, last_sessionid>>
          \/ Restart
          \/ \E p \in net, accepted \in BOOLEAN : RecvIIKeying(p, accepted)
      <4>1. Step
        BY Steps
      <4> QED
        BY <4>1 DEF Step, CreateSession, HelloTimeout, HelloAnswered, KeyingTimeout,
             LeaveLoop, Return, Establish, CheckChan, Notify, RecvRHello, RecvRedirect,
             RecvRIKeying, RecvIHello, ServerAnswers, responderVars, vars
    <3> QED
      BY <3>1 DEF RecvIIKeying, Restart, TypeOK
  <2>2. SessionsNumbered'
    BY <1>2, <2>1 DEF SessionsNumbered, TypeOK, Nonces
  <2>3. PassiveKeyed'
    BY <1>2 DEF PassiveKeyed
  <2>4. ASSUME NEW n \in DOMAIN passive PROVE answer'[passive[n].other] = n[1]
    <3>1. passive[n].other \in Calls /\ answer[passive[n].other] = n[1] /\ n[1] > 0
      BY DEF PassiveKeyed, PassiveWasInvited, TypeOK, Nonces
    <3> QED
      BY <3>1, AnswerStays
  <2> QED
    BY <1>2, <2>2, <2>3, <2>4 DEF PassiveWasInvited
<1>3. passive' = passive \/ \E p \in net : RecvIIKeying(p, TRUE)
  <2>1. Step
    BY Steps
  <2> QED
    BY <2>1 DEF Step, CreateSession, HelloTimeout, HelloAnswered, KeyingTimeout,
         LeaveLoop, Return, Establish, CheckChan, Notify, RecvRHello, RecvRedirect,
         RecvRIKeying, RecvIHello, RecvIIKeying, ServerAnswers, Restart,
         responderVars, vars
<1> QED
  BY <1>1, <1>2, <1>3

(***************************************************************************)
(* The initiator's keys: taken from an RIKeying, whose sender has them.    *)
(***************************************************************************)
LEMMA KeysStep == ASSUME IInv, [Next]_vars PROVE KeysNamePeer'
<1> USE DEF IInv
<1>0. /\ DOMAIN passive \subseteq DOMAIN passive'
      /\ \A n \in DOMAIN passive : passive'[n] = passive[n]
  BY PassiveStays
<1>1. ASSUME NEW p \in net, RecvRIKeying(p) PROVE KeysNamePeer'
  <2> DEFINE c == p.session
             n == p.nonce
  <2>1. c \in Calls /\ n \in DOMAIN passive /\ passive[n].other = c /\ p.respSid = n[2]
    BY <1>1, PacketShapes DEF RecvRIKeying, AnswerNamesSession, TypeOK
  <2>2. /\ c \notin DOMAIN keys /\ DOMAIN keys' = DOMAIN keys \cup {c}
        /\ keys'[c] = CryptoKeys(c, n)
        /\ \A s \in DOMAIN keys : keys'[s] = keys[s]
        /\ dispatch' = [dispatch EXCEPT ![c] = "keyed"]
        /\ respSid' = [respSid EXCEPT ![c] = n[2]]
        /\ other_sessionid' = other_sessionid /\ passive' = passive
    BY <1>1, <2>1 DEF RecvRIKeying, TakesKeys, Handshaked, responderVars
  <2>3. KeysFrom(c, n)'
    BY <2>1, <2>2 DEF KeysFrom, CryptoKeys, TypeOK
  <2>4. ASSUME NEW s \in DOMAIN keys PROVE \E m \in DOMAIN passive' : KeysFrom(s, m)'
    <3>1. PICK m \in DOMAIN passive : KeysFrom(s, m)
      BY DEF KeysNamePeer
    <3>2. s # c /\ s \in Calls
      BY <2>2 DEF TypeOK
    <3>3. KeysFrom(s, m)'
      BY <2>1, <2>2, <3>1, <3>2 DEF KeysFrom, CryptoKeys, TypeOK
    <3> QED
      BY <2>2, <3>3
  <2> QED
    BY <2>1, <2>2, <2>3, <2>4 DEF KeysNamePeer
<1>2. ASSUME NEW c \in Calls, HelloAnswered(c) \/ CheckChan(c) \/ Notify(c)
      PROVE  KeysNamePeer'
  <2>1. keys' = keys /\ respSid' = respSid /\ other_sessionid' = other_sessionid
    BY <1>2 DEF HelloAnswered, CheckChan, Notify
  <2>2. ASSUME NEW s \in DOMAIN keys PROVE dispatch'[s] = "keyed" <=> dispatch[s] = "keyed"
    BY <1>2 DEF HelloAnswered, CheckChan, Notify, SessionAfterHello, TypeOK
  <2>3. ASSUME NEW s \in DOMAIN keys PROVE \E m \in DOMAIN passive' : KeysFrom(s, m)'
    <3>1. PICK m \in DOMAIN passive : KeysFrom(s, m)
      BY DEF KeysNamePeer
    <3>2. KeysFrom(s, m)'
      BY <1>0, <2>1, <2>2, <3>1 DEF KeysFrom, CryptoKeys
    <3> QED
      BY <1>0, <3>2
  <2> QED
    BY <2>1, <2>3 DEF KeysNamePeer
<1>3. ASSUME NEW c \in Calls, Establish(c) PROVE KeysNamePeer'
  <2>1. /\ keys' = keys /\ respSid' = respSid /\ dispatch[c] = "keyed"
        /\ dispatch' = [dispatch EXCEPT ![c] = "established"]
        /\ other_sessionid' = [other_sessionid EXCEPT ![c] = respSid[c]]
    BY <1>3 DEF Establish
  <2>2. ASSUME NEW s \in DOMAIN keys PROVE \E m \in DOMAIN passive' : KeysFrom(s, m)'
    <3>1. PICK m \in DOMAIN passive : KeysFrom(s, m)
      BY DEF KeysNamePeer
    <3>2. KeysFrom(s, m)'
      <4>1. CASE s = c
        BY <1>0, <2>1, <3>1, <4>1 DEF KeysFrom, CryptoKeys, TypeOK
      <4>2. CASE s # c
        BY <1>0, <2>1, <3>1, <4>2 DEF KeysFrom, CryptoKeys, TypeOK
      <4> QED
        BY <4>1, <4>2
    <3> QED
      BY <1>0, <3>2
  <2> QED
    BY <2>1, <2>2 DEF KeysNamePeer
<1>4. CASE UNCHANGED <<dispatch, respSid, keys, other_sessionid>>
  <2>1. ASSUME NEW s \in DOMAIN keys PROVE \E m \in DOMAIN passive' : KeysFrom(s, m)'
    <3>1. PICK m \in DOMAIN passive : KeysFrom(s, m)
      BY DEF KeysNamePeer
    <3>2. KeysFrom(s, m)'
      BY <1>0, <1>4, <3>1 DEF KeysFrom, CryptoKeys
    <3> QED
      BY <1>0, <3>2
  <2> QED
    BY <1>4, <2>1 DEF KeysNamePeer
<1>5. \/ UNCHANGED <<dispatch, respSid, keys, other_sessionid>>
      \/ \E c \in Calls : HelloAnswered(c) \/ CheckChan(c) \/ Notify(c) \/ Establish(c)
      \/ \E p \in net : RecvRIKeying(p)
  <2>1. Step
    BY Steps
  <2> QED
    BY <2>1 DEF Step, CreateSession, HelloTimeout, KeyingTimeout, LeaveLoop, Return,
         RecvRHello, RecvRedirect, RecvIHello, RecvIIKeying, ServerAnswers, Restart,
         sessionVars, vars
<1> QED
  BY <1>1, <1>2, <1>3, <1>4, <1>5

(***************************************************************************)
(* The invariant holds.                                                    *)
(***************************************************************************)
LEMMA StepIInv == ASSUME IInv, [Next]_vars PROVE IInv'
  BY TypeStep, WaitsStep, SessionStepInv, KeyingStep, AnswerNamesStep, PassiveStep, KeysStep
  DEF IInv

LEMMA Invariant == Spec => []IInv
  BY InitIInv, StepIInv, PTL DEF Spec

(***************************************************************************)
(* The keys the two ends of a pair have, one the mirror of the other.      *)
(***************************************************************************)
LEMMA KeysFromAgree ==
  ASSUME IInv, NEW c \in DOMAIN keys, NEW n \in DOMAIN passive
  PROVE  AgreesWith(c, n) <=> passive[n].other = c /\ keys[c] = CryptoKeys(c, n)
<1>1. passive[n].keys = CryptoKeys(n, passive[n].other)
  BY DEF IInv, PassiveKeyed
<1>2. PICK m \in DOMAIN passive : keys[c] = CryptoKeys(c, m)
  BY DEF IInv, KeysNamePeer, KeysFrom
<1> QED
  BY <1>1, <1>2 DEF AgreesWith, CryptoKeys

LEMMA IInvImplies == ASSUME IInv PROVE Agreement /\ CallbackNeverBlocks /\ SuccessHasKeys
<1>1. ASSUME NEW c \in DOMAIN keys
      PROVE  \E n \in DOMAIN passive :
               AgreesWith(c, n) /\ (dispatch[c] = "keyed" \/ other_sessionid[c] = n[2])
  BY KeysFromAgree DEF IInv, KeysNamePeer, KeysFrom
<1>2. CallbackNeverBlocks
  BY DEF IInv
<1>3. ASSUME NEW c \in Calls, pc[c] = "ok"
      PROVE  Handshaked(c) /\ (dispatch[c] = "keyed" \/ other_sessionid[c] # 0)
  <2>1. c \in DOMAIN keys
    BY <1>3 DEF IInv, SessionAfterHello
  <2>2. PICK n \in DOMAIN passive : KeysFrom(c, n)
    BY <2>1 DEF IInv, KeysNamePeer
  <2>3. n[2] # 0
    BY DEF IInv, TypeOK, Nonces
  <2> QED
    BY <2>1, <2>2, <2>3 DEF KeysFrom, Handshaked
<1> QED
  BY <1>1, <1>2, <1>3 DEF Agreement, SuccessHasKeys

(***************************************************************************)
(* The refinement: which pairs of sessions have agreed.  Each step adds at *)
(* most the pair of the session that takes its keys.                       *)
(***************************************************************************)
Names(c, n) ==
  c \in DOMAIN keys /\ n \in DOMAIN passive /\ passive[n].other = c /\ keys[c] = CryptoKeys(c, n)

AgreedIsNames ==
  /\ Agreed \subseteq Calls \X Nonces
  /\ \A c, n : <<c, n>> \in Agreed <=> Names(c, n)

LEMMA AgreedNames == IInv => AgreedIsNames
<1> SUFFICES ASSUME IInv PROVE AgreedIsNames
  OBVIOUS
<1>1. DOMAIN keys \subseteq Calls /\ DOMAIN passive \subseteq Nonces
  BY DEF IInv, TypeOK
<1>2. Agreed \subseteq Calls \X Nonces
  BY <1>1 DEF Agreed
<1>3. ASSUME NEW c, NEW n PROVE <<c, n>> \in Agreed <=> Names(c, n)
  BY KeysFromAgree DEF Agreed, Names
<1> QED
  BY <1>2, <1>3 DEF AgreedIsNames

LEMMA AgreedNamesNext == IInv' => AgreedIsNames'
  BY AgreedNames, PTL

\* Which pairs a step can add.
LEMMA NamesStep ==
  ASSUME IInv, [Next]_vars, NEW c, NEW n
  PROVE  /\ Names(c, n) => Names(c, n)'
         /\ Names(c, n)' => \/ Names(c, n)
                            \/ \E p \in net : /\ RecvRIKeying(p)
                                              /\ c = p.session /\ c \notin DOMAIN keys
<1>1. /\ DOMAIN passive \subseteq DOMAIN passive'
      /\ \A s \in DOMAIN passive : passive'[s] = passive[s]
      /\ \A s \in DOMAIN keys : s \in DOMAIN keys' /\ keys'[s] = keys[s]
  BY PassiveStays, KeysStay DEF IInv
<1>2. Names(c, n) => Names(c, n)'
  BY <1>1 DEF Names, CryptoKeys
<1>3. CASE c \in DOMAIN keys
  <2>1. PICK m \in DOMAIN passive : keys[c] = CryptoKeys(c, m)
    BY <1>3 DEF IInv, KeysNamePeer, KeysFrom
  <2>2. ASSUME Names(c, n)' PROVE n = m
    BY <1>1, <1>3, <2>1, <2>2 DEF Names, CryptoKeys
  <2>3. Names(c, n)' => Names(c, n)
    BY <1>1, <1>3, <2>1, <2>2 DEF Names
  <2> QED
    BY <1>2, <2>3
<1>4. CASE c \notin DOMAIN keys
  <2>1. keys' = keys \/ \E p \in net : RecvRIKeying(p)
    BY KeysTaken
  <2>2. ASSUME NEW p \in net, RecvRIKeying(p), c \in DOMAIN keys' PROVE c = p.session
    BY <1>4, <2>2 DEF RecvRIKeying
  <2> QED
    BY <1>2, <1>4, <2>1, <2>2 DEF Names
<1> QED
  BY <1>3, <1>4

LEMMA PairingStep == ASSUME IInv, IInv', [Next]_vars PROVE [Keying!Next]_Agreed
<1>1. /\ Agreed \subseteq Calls \X Nonces
      /\ \A c, n : <<c, n>> \in Agreed <=> Names(c, n)
  BY AgreedNames DEF AgreedIsNames
<1>2. /\ Agreed' \subseteq Calls \X Nonces
      /\ \A c, n : <<c, n>> \in Agreed' <=> Names(c, n)'
  BY AgreedNamesNext DEF AgreedIsNames
<1>3. Agreed \subseteq Agreed'
  <2>1. ASSUME NEW p \in Agreed PROVE p \in Agreed'
    <3>1. p = <<p[1], p[2]>>
      BY <1>1
    <3> QED
      BY <1>1, <1>2, <3>1, NamesStep
  <2> QED
    BY <2>1
<1>4. ASSUME NEW p \in Agreed' \ Agreed PROVE Keying!Next
  <2>1. /\ p \in Calls \X Nonces /\ p = <<p[1], p[2]>>
        /\ Names(p[1], p[2])' /\ ~ Names(p[1], p[2])
    BY <1>1, <1>2
  <2>2. PICK q \in net : RecvRIKeying(q) /\ p[1] = q.session /\ p[1] \notin DOMAIN keys
    BY <2>1, NamesStep
  <2>3. ASSUME NEW r \in Agreed PROVE r[1] # p[1] /\ r[2] # p[2]
    <3>1. r = <<r[1], r[2]>> /\ Names(r[1], r[2])
      BY <1>1
    <3>2. r[1] \in DOMAIN keys
      BY <3>1 DEF Names
    <3>3. Names(r[1], r[2])'
      BY <3>1, NamesStep
    <3>4. r[1] = p[1] <=> r[2] = p[2]
      BY <2>1, <3>3 DEF Names, CryptoKeys
    <3> QED
      BY <2>2, <3>2, <3>4
  <2>4. ASSUME NEW r \in Agreed' \ Agreed PROVE r = p
    <3>1. r = <<r[1], r[2]>> /\ Names(r[1], r[2])' /\ ~ Names(r[1], r[2])
      BY <1>1, <1>2
    <3>2. PICK s \in net : RecvRIKeying(s) /\ r[1] = s.session /\ r[1] \notin DOMAIN keys
      BY <3>1, NamesStep
    <3>3. DOMAIN keys' = DOMAIN keys \cup {q.session}
      BY <2>2 DEF RecvRIKeying
    <3>4. r[1] \in DOMAIN keys'
      BY <3>1 DEF Names
    <3>5. r[1] = p[1]
      BY <2>2, <3>2, <3>3, <3>4
    <3>6. r[2] = p[2]
      BY <2>1, <3>1, <3>5 DEF Names, CryptoKeys
    <3> QED
      BY <2>1, <3>1, <3>5, <3>6
  <2>5. Agreed' = Agreed \cup {p}
    BY <1>3, <2>4
  <2> QED
    BY <2>1, <2>3, <2>5 DEF Keying!Next, Keying!Free
<1> QED
  BY <1>3, <1>4

-----------------------------------------------------------------------------
(***************************************************************************)
(* Types, and what the network carries: see Handshake!TypeOK.              *)
(***************************************************************************)
THEOREM HandshakeTypes == Spec => []TypeOK
<1>1. IInv => TypeOK
  BY DEF IInv
<1> QED
  BY <1>1, Invariant, PTL

(***************************************************************************)
(* Two ends that have keys have the same ones and the initiator sends to   *)
(* the id of its peer (recv_rikeying against recv_iikeying).               *)
(***************************************************************************)
THEOREM KeysAgree == Spec => []Agreement
<1>1. IInv => Agreement
  BY IInvImplies
<1> QED
  BY <1>1, Invariant, PTL

(***************************************************************************)
(* The responder keys only whom its present run has invited, whatever      *)
(* comes late or twice, and after any number of restarts (recv_iikeying).  *)
(***************************************************************************)
THEOREM OnlyInvitedAreKeyed == Spec => []PassiveWasInvited
<1>1. IInv => PassiveWasInvited
  BY DEF IInv
<1> QED
  BY <1>1, Invariant, PTL

(***************************************************************************)
(* The callback of an RHello runs once for a call, so that its send into   *)
(* a channel of one place does not block (recv_rhello).                    *)
(***************************************************************************)
THEOREM CallbackRunsOnce == Spec => []CallbackNeverBlocks
<1>1. IInv => CallbackNeverBlocks
  BY DEF IInv
<1> QED
  BY <1>1, Invariant, PTL

(***************************************************************************)
(* A call that succeeded has keys and its peer's id (active_open).         *)
(***************************************************************************)
THEOREM SuccessMeansKeys == Spec => []SuccessHasKeys
<1>1. IInv => SuccessHasKeys
  BY IInvImplies
<1> QED
  BY <1>1, Invariant, PTL

(***************************************************************************)
(* Sessions pair off for good: the handshake implements module Pairing.    *)
(***************************************************************************)
THEOREM HandshakePairs == Spec => IsPairing
<1>1. Init => Keying!Init
  BY DEF Init, Agreed, Keying!Init
<1>2. IInv /\ IInv' /\ [Next]_vars => [Keying!Next]_Agreed
  BY PairingStep
<1> QED
  BY <1>1, <1>2, Invariant, PTL DEF Spec, IsPairing, Keying!Spec
=============================================================================
