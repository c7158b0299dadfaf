----------------------------- MODULE Handshake ------------------------------
(***************************************************************************)
(* Setting up sessions: handshake.go, and the keying half of session.go.   *)
(*                                                                         *)
(* An initiator runs calls of create_session, each in a goroutine of its   *)
(* own, towards one responder: directly, or through a server that forwards *)
(* the hello to the responder or redirects the initiator to it.  A call    *)
(* has one tag and creates at most one session, so it names both, and the  *)
(* nonce of the session.  The responder creates a session for every        *)
(* IIKeying that carries its cookie, and may restart.                      *)
(*                                                                         *)
(* net holds every packet ever sent: the network delivers each of them any *)
(* number of times, at any time, or never.                                 *)
(***************************************************************************)
EXTENDS Integers

CONSTANTS
  Calls,           \* the calls of create_session
  Target,          \* Target[c]: whom call c addresses, "responder" or "server"
  HelloRetries,    \* ihello_retry
  KeyingRetries,   \* iikeying_retry_count
  MaxSessions,     \* bound: sessions a run of the responder creates
  MaxRestarts      \* bound: restarts of the responder

ASSUME HandshakeAssumption ==
  /\ Target \in [Calls -> {"responder", "server"}]
  /\ HelloRetries \in Nat \ {0} /\ KeyingRetries \in Nat \ {0}
  /\ MaxSessions \in Nat /\ MaxRestarts \in Nat

VARIABLES
  pc,              \* how far each call has come
  tries,           \* hellos, then keyings, the call has sent
  requests,        \* the tags that wait for an RHello
  continue_chan,   \* items in the channel the RHello callback writes
  answer,          \* the cookie the callback stored; 0 before
  active_open_chan,
  dispatch,        \* what the session's dispatch goroutine is doing
  respSid,         \* argument of the recv_rikeying that is running
  keys,            \* dkey and ekey of the sessions that have them
  other_sessionid,
  cookie,          \* the responder's, drawn at each start
  last_sessionid,  \* the responder's
  passive,         \* every session the responder ever keyed
  net

callVars == <<pc, tries, requests, continue_chan, answer>>
sessionVars == <<active_open_chan, dispatch, respSid, keys, other_sessionid>>
responderVars == <<cookie, last_sessionid, passive>>
vars == <<callVars, sessionVars, responderVars, net>>

Init ==
  /\ pc = [c \in Calls |-> "idle"] /\ tries = [c \in Calls |-> 0]
  /\ requests = {} /\ continue_chan = [c \in Calls |-> 0]
  /\ answer = [c \in Calls |-> 0]
  /\ active_open_chan = [c \in Calls |-> "nil"]
  /\ dispatch = [c \in Calls |-> "none"] /\ respSid = [c \in Calls |-> 0]
  /\ keys = [c \in {} |-> <<>>] /\ other_sessionid = [c \in Calls |-> 0]
  /\ cookie = 1 /\ last_sessionid = 0 /\ passive = [n \in {} |-> <<>>]
  /\ net = {}

(***************************************************************************)
(* Packets, and the keys.  The keys of a session are hashes of both        *)
(* nonces, in the order of the direction they are used in.                 *)
(***************************************************************************)
IHello(to, c) == [type |-> "ihello", to |-> to, tag |-> c]
FIHello(c) == [type |-> "fihello", tag |-> c]
Redirect(c) == [type |-> "redirect", tag |-> c]
RHello(c, ck) == [type |-> "rhello", tag |-> c, cookie |-> ck]
IIKeying(c, ck) == [type |-> "iikeying", initSid |-> c, cookie |-> ck, nonce |-> c]
RIKeying(c, n) ==
  [type |-> "rikeying", session |-> c, respSid |-> n[2], nonce |-> n]

CryptoKeys(myNonce, otherNonce) ==
  [dkey |-> <<myNonce, otherNonce>>, ekey |-> <<otherNonce, myNonce>>]

\* Mutant: the responder takes the nonces in the initiator's order.
ResponderKeysSwapped(myNonce, otherNonce) == CryptoKeys(otherNonce, myNonce)

ResponderKeys(myNonce, otherNonce) == CryptoKeys(myNonce, otherNonce)

Handshaked(c) == c \in DOMAIN keys

(***************************************************************************)
(* create_session, up to the answer to its hellos.                         *)
(***************************************************************************)
CreateSession(c) ==
  /\ pc[c] = "idle"
  /\ pc' = [pc EXCEPT ![c] = "hello"]
  /\ tries' = [tries EXCEPT ![c] = 1]
  /\ requests' = requests \cup {c}
  /\ net' = net \cup {IHello(Target[c], c)}
  /\ UNCHANGED <<continue_chan, answer, sessionVars, responderVars>>

\* Every retry is the same packet again, which net already holds.
HelloTimeout(c) ==
  /\ pc[c] = "hello"
  /\ IF tries[c] < HelloRetries
     THEN tries' = [tries EXCEPT ![c] = @ + 1] /\ UNCHANGED pc
     ELSE pc' = [pc EXCEPT ![c] = "failed"] /\ UNCHANGED tries
  /\ UNCHANGED <<requests, continue_chan, answer, sessionVars, responderVars, net>>

\* new_session, and active_open up to its first IIKeying.
HelloAnswered(c) ==
  /\ pc[c] = "hello" /\ continue_chan[c] > 0
  /\ continue_chan' = [continue_chan EXCEPT ![c] = @ - 1]
  /\ pc' = [pc EXCEPT ![c] = "keying"]
  /\ tries' = [tries EXCEPT ![c] = 1]
  /\ active_open_chan' = [active_open_chan EXCEPT ![c] = "empty"]
  /\ dispatch' = [dispatch EXCEPT ![c] = "idle"]
  /\ net' = net \cup {IIKeying(c, answer[c])}
  /\ UNCHANGED <<requests, answer, respSid, keys, other_sessionid, responderVars>>

(***************************************************************************)
(* active_open, from its first IIKeying.  It gives the channel up before   *)
(* it looks whether there are keys.                                        *)
(***************************************************************************)
\* Mutant: one retry too many.
KeyingsLeftOneMore(c) == tries[c] <= KeyingRetries

KeyingsLeft(c) == tries[c] < KeyingRetries

KeyingTimeout(c) ==
  /\ pc[c] = "keying" /\ KeyingsLeft(c)
  /\ tries' = [tries EXCEPT ![c] = @ + 1]
  /\ UNCHANGED <<pc, requests, continue_chan, answer, sessionVars, responderVars, net>>

GivesUp(c) == tries[c] >= KeyingRetries

LeaveLoop(c) ==
  /\ pc[c] = "keying"
  /\ GivesUp(c) \/ active_open_chan[c] = "full"
  /\ active_open_chan' = [active_open_chan EXCEPT ![c] = "nil"]
  /\ pc' = [pc EXCEPT ![c] = "leaving"]
  /\ UNCHANGED <<tries, requests, continue_chan, answer, dispatch, respSid,
                 keys, other_sessionid, responderVars, net>>

Return(c) ==
  /\ pc[c] = "leaving"
  /\ pc' = [pc EXCEPT ![c] = IF Handshaked(c) THEN "ok" ELSE "failed"]
  /\ UNCHANGED <<tries, requests, continue_chan, answer, sessionVars, responderVars, net>>

(***************************************************************************)
(* The initiator's handshake dispatch goroutine: an answer takes the       *)
(* request away, a redirect does not.                                      *)
(***************************************************************************)
\* Mutant: the request is left in the map.
RequestsKept(c) == requests

RequestsWithout(c) == requests \ {c}

RecvRHello(p) ==
  /\ p.type = "rhello" /\ p.tag \in requests
  /\ requests' = RequestsWithout(p.tag)
  /\ answer' = [answer EXCEPT ![p.tag] = p.cookie]
  /\ continue_chan' = [continue_chan EXCEPT ![p.tag] = @ + 1]
  /\ UNCHANGED <<pc, tries, sessionVars, responderVars, net>>

RecvRedirect(p) ==
  /\ p.type = "redirect" /\ p.tag \in requests
  /\ net' = net \cup {IHello("responder", p.tag)}
  /\ UNCHANGED <<callVars, sessionVars, responderVars>>

(***************************************************************************)
(* The dispatch goroutine of a session: recv_rikeying, in the steps other  *)
(* goroutines see.  active_open_chan is read twice, and a send to a nil    *)
(* channel blocks for good.                                                *)
(***************************************************************************)
\* Mutant: keys are taken from every RIKeying.
TakesKeysAlways(c) == TRUE

TakesKeys(c) == ~ Handshaked(c)

RecvRIKeying(p) ==
  /\ p.type = "rikeying"
  /\ LET c == p.session
     IN  /\ dispatch[c] = "idle" /\ TakesKeys(c)
         /\ keys' = [s \in DOMAIN keys \cup {c} |->
                       IF s = c THEN CryptoKeys(c, p.nonce) ELSE keys[s]]
         /\ dispatch' = [dispatch EXCEPT ![c] = "keyed"]
         /\ respSid' = [respSid EXCEPT ![c] = p.respSid]
  /\ UNCHANGED <<callVars, active_open_chan, other_sessionid, responderVars, net>>

\* Mutant: the peer's id is not kept.
EstablishWithoutId(c) ==
  /\ dispatch[c] = "keyed"
  /\ dispatch' = [dispatch EXCEPT ![c] = "established"]
  /\ UNCHANGED <<callVars, active_open_chan, respSid, keys, other_sessionid,
                 responderVars, net>>

Establish(c) ==
  /\ dispatch[c] = "keyed"
  /\ dispatch' = [dispatch EXCEPT ![c] = "established"]
  /\ other_sessionid' = [other_sessionid EXCEPT ![c] = respSid[c]]
  /\ UNCHANGED <<callVars, active_open_chan, respSid, keys, responderVars, net>>

CheckChan(c) ==
  /\ dispatch[c] = "established"
  /\ dispatch' = [dispatch EXCEPT
                    ![c] = IF active_open_chan[c] = "nil" THEN "idle" ELSE "notify"]
  /\ UNCHANGED <<callVars, active_open_chan, respSid, keys, other_sessionid,
                 responderVars, net>>

Notify(c) ==
  /\ dispatch[c] = "notify"
  /\ IF active_open_chan[c] = "nil"
     THEN /\ dispatch' = [dispatch EXCEPT ![c] = "blocked"]
          /\ UNCHANGED active_open_chan
     ELSE /\ dispatch' = [dispatch EXCEPT ![c] = "idle"]
          /\ active_open_chan' = [active_open_chan EXCEPT ![c] = "full"]
  /\ UNCHANGED <<callVars, respSid, keys, other_sessionid, responderVars, net>>

(***************************************************************************)
(* The responder's handshake dispatch goroutine.                           *)
(***************************************************************************)
RecvIHello(p) ==
  /\ \/ p.type = "ihello" /\ p.to = "responder"
     \/ p.type = "fihello"
  /\ net' = net \cup {RHello(p.tag, cookie)}
  /\ UNCHANGED <<callVars, sessionVars, responderVars>>

\* Mutant: the cookie is not looked at.
AnyCookie(ck) == TRUE

CookieMatches(ck) == ck = cookie

\* The session is made before the stream handler is asked.  One it refuses
\* stays in the map, without keys, and the initiator gets no answer.
RecvIIKeying(p, accepted) ==
  LET n == <<cookie, last_sessionid + 1>>
  IN  /\ p.type = "iikeying" /\ CookieMatches(p.cookie)
      /\ last_sessionid < MaxSessions
      /\ last_sessionid' = last_sessionid + 1
      /\ IF accepted
         THEN /\ passive' = [s \in DOMAIN passive \cup {n} |->
                               IF s = n
                               THEN [other |-> p.initSid, keys |-> ResponderKeys(n, p.nonce)]
                               ELSE passive[s]]
              /\ net' = net \cup {RIKeying(p.initSid, n)}
         ELSE UNCHANGED <<passive, net>>
      /\ UNCHANGED <<callVars, sessionVars, cookie>>

\* A process that starts again draws a cookie and counts sessions from 1.
Restart ==
  /\ cookie <= MaxRestarts
  /\ cookie' = cookie + 1 /\ last_sessionid' = 0
  /\ UNCHANGED <<callVars, sessionVars, passive, net>>

(***************************************************************************)
(* The server between them, which is not part of this repository.          *)
(***************************************************************************)
ServerAnswers(p) ==
  /\ p.type = "ihello" /\ p.to = "server"
  /\ \E answerTo \in {FIHello(p.tag), Redirect(p.tag)} : net' = net \cup {answerTo}
  /\ UNCHANGED <<callVars, sessionVars, responderVars>>

CallStep(c) ==
  \/ CreateSession(c) \/ HelloTimeout(c) \/ HelloAnswered(c)
  \/ KeyingTimeout(c) \/ LeaveLoop(c) \/ Return(c)

SessionStep(c) == Establish(c) \/ CheckChan(c) \/ Notify(c)

Deliver(p) ==
  \/ RecvRHello(p) \/ RecvRedirect(p) \/ RecvRIKeying(p)
  \/ RecvIHello(p) \/ \E accepted \in BOOLEAN : RecvIIKeying(p, accepted)
  \/ ServerAnswers(p)

Next ==
  \/ \E c \in Calls : CallStep(c) \/ SessionStep(c)
  \/ \E p \in net : Deliver(p)
  \/ Restart

Spec == Init /\ [][Next]_vars
-----------------------------------------------------------------------------
Nonces == (1 .. MaxRestarts + 1) \X (1 .. MaxSessions)

Packets ==
  {IHello(to, c) : to \in {"responder", "server"}, c \in Calls}
  \cup {FIHello(c) : c \in Calls} \cup {Redirect(c) : c \in Calls}
  \cup {RHello(c, ck) : c \in Calls, ck \in 1 .. cookie}
  \cup {IIKeying(c, ck) : c \in Calls, ck \in 1 .. cookie}
  \cup {RIKeying(c, n) : c \in Calls, n \in DOMAIN passive}

(***************************************************************************)
(* Every variable has its type; the network carries what the hosts send.   *)
(***************************************************************************)
TypeOK ==
  /\ pc \in [Calls -> {"idle", "hello", "keying", "leaving", "ok", "failed"}]
  /\ tries \in [Calls -> 0 .. (IF HelloRetries > KeyingRetries THEN HelloRetries ELSE KeyingRetries)]
  /\ requests \subseteq Calls
  /\ continue_chan \in [Calls -> Nat]
  /\ answer \in [Calls -> 0 .. cookie]
  /\ active_open_chan \in [Calls -> {"nil", "empty", "full"}]
  /\ dispatch \in [Calls -> {"none", "idle", "keyed", "established", "notify", "blocked"}]
  /\ respSid \in [Calls -> 0 .. MaxSessions]
  /\ DOMAIN keys \subseteq Calls
  /\ other_sessionid \in [Calls -> 0 .. MaxSessions]
  /\ cookie \in 1 .. MaxRestarts + 1
  /\ last_sessionid \in 0 .. MaxSessions
  /\ DOMAIN passive \subseteq Nonces
  /\ net \subseteq Packets

(***************************************************************************)
(* A session of the initiator that has keys agrees with one the responder  *)
(* made for it: each end decrypts with the key the other encrypts with,    *)
(* and the initiator sends to that session's id (recv_rikeying and         *)
(* recv_iikeying, whatever copies and late packets they see).              *)
(***************************************************************************)
AgreesWith(c, n) ==
  /\ passive[n].other = c
  /\ keys[c].dkey = passive[n].keys.ekey
  /\ keys[c].ekey = passive[n].keys.dkey

Agreement ==
  \A c \in DOMAIN keys :
    \E n \in DOMAIN passive :
      AgreesWith(c, n) /\ (dispatch[c] = "keyed" \/ other_sessionid[c] = n[2])

(***************************************************************************)
(* The responder keys a session only for an initiator that an earlier      *)
(* hello of this very run of the responder has answered: packets from      *)
(* before a restart, and copies, create nothing (recv_iikeying).           *)
(***************************************************************************)
PassiveWasInvited == \A n \in DOMAIN passive : answer[passive[n].other] = n[1]

(***************************************************************************)
(* However many RHellos answer the retries of a call, its callback runs    *)
(* once: the handshake dispatch goroutine, which serves all sessions,      *)
(* never blocks on a channel nobody reads (recv_rhello, create_session).   *)
(***************************************************************************)
CallbackNeverBlocks == \A c \in Calls : continue_chan[c] <= 1

(***************************************************************************)
(* A call that succeeded has a session with keys, and the peer's id in it  *)
(* or about to be (active_open, whose last timeout can come while          *)
(* recv_rikeying is running).                                              *)
(***************************************************************************)
SuccessHasKeys ==
  \A c \in Calls :
    pc[c] = "ok"
      => Handshaked(c) /\ (dispatch[c] = "keyed" \/ other_sessionid[c] # 0)

(***************************************************************************)
(* Sessions pair off: keys once agreed are never replaced, and no session  *)
(* of the responder serves two of the initiator.                           *)
(***************************************************************************)
Agreed == {p \in (DOMAIN keys) \X (DOMAIN passive) : AgreesWith(p[1], p[2])}

Keying ==
  INSTANCE Pairing WITH
    Initiators <- Calls, Responders <- Nonces, pairs <- Agreed

IsPairing == Keying!Spec

(***************************************************************************)
(* The session of a call that succeeded goes on serving its packets: its   *)
(* dispatch goroutine does not hang (active_open against recv_rikeying).   *)
(***************************************************************************)
OpenedIsServed == \A c \in Calls : pc[c] = "ok" => dispatch[c] # "blocked"
=============================================================================
