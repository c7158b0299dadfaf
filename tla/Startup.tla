------------------------------ MODULE Startup ------------------------------
(***************************************************************************)
(* The chunks that open a session, as handshake.go and session.go write    *)
(* them and chunk.go reads them.  A fihello, a redirect and a change of    *)
(* cookie come from servers and other peers only.                          *)
(***************************************************************************)
EXTENDS Options

KeyLen == 128

(***************************************************************************)
(* A public key, a number, is written in KeyLen bytes, with zeros in       *)
(* front; the certificate and the nonce that carry it are options.         *)
(***************************************************************************)
Padded(key) == [i \in 1 .. KeyLen - Len(key) |-> 0] \o key

AsNumber(buf) == From(buf, Min({i \in DOMAIN buf : buf[i] # 0} \cup {Len(buf) + 1}))

InitiatorCert(key) == <<129, 2, 29, 2>> \o Padded(key)

Nonce(key) == <<3, 26, 0, 0, 2, 30, 0, 129, 2, 13, 2>> \o Padded(key)

\* gen_certificate; a Flash client adds its key to its certificate.
Certificate(pseudo_id) == <<1, 10, 65, 14>> \o pseudo_id \o <<2, 21, 2, 2, 21, 5, 2, 21, 14>>

FlashCert(pseudo_id, key) == Certificate(pseudo_id) \o <<129, 2, 29, 2>> \o Padded(key)

\* What recv_iikeying, recv_rikeying and recv_rhello find in them.
KeyInCert(cert) == AsNumber(Tail(ReadOption(cert, 29)))

KeyInNonce(nonce) == AsNumber(Tail(ReadOption(nonce, 13)))

KeyInRHello(cert) ==
  IF ReadVluOption(cert, 29, 0) = 2 /\ Len(cert) > KeyLen
  THEN AsNumber(From(cert, Len(cert) - KeyLen + 1)) ELSE <<>>

(***************************************************************************)
(* An address is four or sixteen bytes and a port.                         *)
(***************************************************************************)
EncodeAddress(a) == <<IF Len(a.ip) = 16 THEN 128 ELSE 0>> \o a.ip \o Word(a.port)

DecodeAddress(buf) ==
  LET n == IF Head(buf) < 128 THEN 4 ELSE 16
  IN  [value |-> [ip |-> SubSeq(buf, 2, Min({n + 1, Len(buf)})),
                  port |-> FromWord(From(buf, n + 2))],
       rest  |-> From(buf, n + 4)]

DecodeAddresses[buf \in Buffer] ==
  IF buf = <<>> THEN <<>>
  ELSE LET a == DecodeAddress(buf) IN <<a.value>> \o DecodeAddresses[a.rest]

(***************************************************************************)
(* An endpoint discriminator: its length, that of what follows, its type   *)
(* and its data.  The first length is wrong for data of 127 bytes and      *)
(* more, and nobody reads it.                                              *)
(***************************************************************************)
EncodeEndpoint(m) ==
  LET n == 1 + Len(m.edp)
  IN  EncodeVlu(GetVluSize(n) + n) \o EncodeVlu(n) \o <<m.edpType>> \o m.edp

DecodeEndpoint(buf) ==
  LET n == DecodeVlu(DecodeVlu(buf).rest)
  IN  [edpType |-> Head(n.rest), edp |-> SubSeq(n.rest, 2, n.value),
       rest    |-> From(n.rest, n.value + 1)]

SessionId(sid) == <<0, 0>> \o Word(sid)
FromSessionId(buf) == FromWord(From(buf, 3))

(***************************************************************************)
(* The chunks.                                                             *)
(***************************************************************************)
StartupTypes == {"ihello", "fihello", "rhello", "cookiechange", "redirect", "iikeying", "rikeying"}

EncodeStartup(m) ==
  CASE m.type = "ihello"   -> EncodeEndpoint(m) \o m.tag
    [] m.type = "fihello"  -> EncodeEndpoint(m) \o EncodeAddress(m.addr) \o m.tag
    [] m.type = "rhello"   -> EncodePrefixed(m.tag) \o EncodePrefixed(m.cookie) \o m.cert
    [] m.type = "cookiechange" -> EncodePrefixed(m.old) \o m.cookie
    [] m.type = "redirect" ->
         EncodePrefixed(m.tag)
           \o FlattenSeq([i \in DOMAIN m.addrs |-> EncodeAddress(m.addrs[i])])
    [] m.type = "iikeying" ->
         SessionId(m.sid) \o EncodePrefixed(m.cookie) \o EncodePrefixed(m.cert)
           \o EncodePrefixed(m.nonce) \o <<88>>
    [] m.type = "rikeying" -> SessionId(m.sid) \o EncodePrefixed(m.nonce) \o <<88>>

DecodeHello(type, buf) ==
  LET edp  == DecodeEndpoint(buf)
      addr == DecodeAddress(edp.rest)
  IN  IF type = "ihello"
      THEN [type |-> type, edpType |-> edp.edpType, edp |-> edp.edp, tag |-> edp.rest]
      ELSE [type |-> type, edpType |-> edp.edpType, edp |-> edp.edp, addr |-> addr.value,
            tag |-> addr.rest]

DecodeRHello(buf) ==
  LET tag    == DecodePrefixed(buf)
      cookie == DecodePrefixed(tag.rest)
  IN  [type |-> "rhello", tag |-> tag.value, cookie |-> cookie.value, cert |-> cookie.rest]

DecodeCookieChange(buf) ==
  LET old == DecodePrefixed(buf)
  IN  [type |-> "cookiechange", old |-> old.value, cookie |-> old.rest]

DecodeRedirect(buf) ==
  LET tag == DecodePrefixed(buf)
  IN  [type |-> "redirect", tag |-> tag.value, addrs |-> DecodeAddresses[tag.rest]]

DecodeIIKeying(buf) ==
  LET cookie == DecodePrefixed(From(buf, 5))
      cert   == DecodePrefixed(cookie.rest)
      nonce  == DecodePrefixed(cert.rest)
  IN  [type |-> "iikeying", sid |-> FromSessionId(buf), cookie |-> cookie.value,
       cert |-> cert.value, nonce |-> nonce.value]

DecodeRIKeying(buf) ==
  [type |-> "rikeying", sid |-> FromSessionId(buf),
   nonce |-> DecodePrefixed(From(buf, 5)).value]

DecodeStartup(type, buf) ==
  CASE type \in {"ihello", "fihello"} -> DecodeHello(type, buf)
    [] type = "rhello"       -> DecodeRHello(buf)
    [] type = "cookiechange" -> DecodeCookieChange(buf)
    [] type = "redirect"     -> DecodeRedirect(buf)
    [] type = "iikeying"     -> DecodeIIKeying(buf)
    [] type = "rikeying"     -> DecodeRIKeying(buf)
=============================================================================
