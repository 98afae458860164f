------------------------------- MODULE Codec -------------------------------
(* LengthPrefixCodec (src/src/protocol/codec.rs) and the messages of the     *)
(* peer protocol (messages.rs).  What may be missing is a set with at most   *)
(* one element.  Addresses are valid UTF-8, which from_utf8_lossy keeps.     *)
EXTENDS Octets

CONSTANT MaxPayload     \* MAX_PAYLOAD

HeaderLen == 4

\* message_type: the position counts from 0.
Types == <<"Handshake", "Bitfield", "Request", "Piece", "Have", "Cancel",
           "Choke", "Unchoke", "Interested", "NotInterested", "Pex">>
Code(m) == (CHOOSE k \in DOMAIN Types : Types[k] = m.type) - 1

Ranges == {"Request", "Cancel"}
Signals == {"Choke", "Unchoke", "Interested", "NotInterested"}

\* enum Message and what its lists are made of. A list is as long as the
\* octets before it can tell.
Siblings == [left : BOOLEAN, hash : Array(HashLen)]
PexPeers == [id : Array(IdLen), addr : Lists(Octet, 1), score : Array(ScoreLen)]
AllMessages ==
    [type : {"Handshake"}, version : Octet, hash : Array(HashLen), id : Array(IdLen)]
    \cup [type : {"Bitfield"}, bits : Bytes]
    \cup [type : Ranges, index : Unsigned(4), offset : Unsigned(4), length : Unsigned(4)]
    \cup [type : {"Piece"}, index : Unsigned(4), offset : Unsigned(4),
          proof : Lists(Siblings, 2), data : Bytes]
    \cup [type : {"Have"}, index : Unsigned(4)]
    \cup [type : {"Pex"}, added : Lists(PexPeers, 2), dropped : Lists(Array(IdLen), 2)]
    \cup [type : Signals]

----------------------------------------------------------------------------
(* encode *)

Total(lengths) ==
    LET total[k \in 0 .. Len(lengths)] == IF k = 0 THEN 0 ELSE total[k - 1] + lengths[k]
    IN  total[Len(lengths)]

\* A seeded defect for the checks: the flag beside a hash is not counted.
PieceLenShort(m) == 4 + 4 + (2 + Len(m.proof) * HashLen) + Len(m.data)

PieceLen(m) == 4 + 4 + (2 + Len(m.proof) * (1 + HashLen)) + Len(m.data)

\* The length each arm computes for its payload.
PayloadLen(m) ==
    CASE m.type = "Handshake" -> 1 + HashLen + IdLen
      [] m.type = "Bitfield" -> Len(m.bits)
      [] m.type \in Ranges -> 12
      [] m.type = "Piece" -> PieceLen(m)
      [] m.type = "Have" -> 4
      [] m.type = "Pex" -> 2 + Total([k \in DOMAIN m.added |-> IdLen + 1 + Len(m.added[k].addr) + ScoreLen])
                             + 2 + Len(m.dropped) * IdLen
      [] m.type \in Signals -> 0

\* A seeded defect for the checks: the flag says right for left.
PutSiblingFlipped(s) == Put(IF s.left THEN 0 ELSE 1, 1) \o s.hash

PutSibling(s) == Put(IF s.left THEN 1 ELSE 0, 1) \o s.hash
PutPexPeer(p) == p.id \o Put(Len(p.addr), 1) \o p.addr \o p.score

Payload(m) ==
    CASE m.type = "Handshake" -> Put(m.version, 1) \o m.hash \o m.id
      [] m.type = "Bitfield" -> m.bits
      [] m.type \in Ranges -> Put(m.index, 4) \o Put(m.offset, 4) \o Put(m.length, 4)
      [] m.type = "Piece" -> Put(m.index, 4) \o Put(m.offset, 4) \o Put(Len(m.proof), 2)
                               \o PutAll(PutSibling, m.proof) \o m.data
      [] m.type = "Have" -> Put(m.index, 4)
      [] m.type = "Pex" -> Put(Len(m.added), 2) \o PutAll(PutPexPeer, m.added)
                             \o Put(Len(m.dropped), 2) \o FlattenSeq(m.dropped)
      [] m.type \in Signals -> <<>>

Encode(m) == Put(1 + PayloadLen(m), HeaderLen) \o Put(Code(m), 1) \o Payload(m)

----------------------------------------------------------------------------
(* decode *)

GetSibling(octets) ==
    {[item |-> [left |-> octets[1] # 0, hash |-> Field(octets, 1, HashLen)],
      rest |-> From(octets, 1 + HashLen)]}

GetId(octets) ==
    IF Len(octets) < IdLen THEN {}
    ELSE {[item |-> Field(octets, 0, IdLen), rest |-> From(octets, IdLen)]}

GetPexPeer(octets) ==
    IF Len(octets) < IdLen + 1 THEN {}
    ELSE LET len == octets[IdLen + 1]
             tail == From(octets, IdLen + 1)
         IN  IF Len(tail) < len + ScoreLen THEN {}
             ELSE {[item |-> [id |-> Field(octets, 0, IdLen), addr |-> Field(tail, 0, len),
                              score |-> Field(tail, len, ScoreLen)],
                    rest |-> From(tail, len + ScoreLen)]}

\* The numbers a payload begins with, w octets each.
Number(p, skip, w) == Value(Field(p, skip, w))

ParsePiece(p) ==
    IF Len(p) < 10 THEN {}
    ELSE LET count == Number(p, 8, 2) IN
         IF Len(p) - 10 < count * (1 + HashLen) THEN {}
         ELSE {[type |-> "Piece", index |-> Number(p, 0, 4), offset |-> Number(p, 4, 4),
                proof |-> read.items, data |-> read.rest] :
                   read \in GetAll(GetSibling, count, From(p, 10))}

ParsePex(p) ==
    IF Len(p) < 2 THEN {}
    ELSE UNION {IF Len(added.rest) < 2 THEN {}
                ELSE {[type |-> "Pex", added |-> added.items, dropped |-> dropped.items] :
                        dropped \in GetAll(GetId, Number(added.rest, 0, 2), From(added.rest, 2))} :
                added \in GetAll(GetPexPeer, Number(p, 0, 2), From(p, 2))}

\* The message of a frame. Octets beyond what a type needs are ignored.
Parse(code, p) ==
    IF code >= Len(Types) THEN {}
    ELSE LET type == Types[code + 1] IN
         CASE type = "Handshake" ->
                IF Len(p) < 1 + HashLen + IdLen THEN {}
                ELSE {[type |-> type, version |-> p[1], hash |-> Field(p, 1, HashLen),
                       id |-> Field(p, 1 + HashLen, IdLen)]}
           [] type = "Bitfield" -> {[type |-> type, bits |-> p]}
           [] type \in Ranges ->
                IF Len(p) < 12 THEN {}
                ELSE {[type |-> type, index |-> Number(p, 0, 4), offset |-> Number(p, 4, 4),
                       length |-> Number(p, 8, 4)]}
           [] type = "Piece" -> ParsePiece(p)
           [] type = "Have" -> IF Len(p) < 4 THEN {} ELSE {[type |-> type, index |-> Number(p, 0, 4)]}
           [] type = "Pex" -> ParsePex(p)
           [] type \in Signals -> {[type |-> type]}

\* A seeded defect for the checks: one octet more than the frame is waited for.
IncompleteStrictly(src, length) == Len(src) <= HeaderLen + length

Incomplete(src, length) == Len(src) < HeaderLen + length

\* One call: no whole frame yet, an error, or a message; and the octets left.
Decode(src) ==
    IF Len(src) < HeaderLen THEN [kind |-> "none", rest |-> src]
    ELSE LET length == Number(src, 0, HeaderLen) IN
         IF length = 0 THEN [kind |-> "error", rest |-> From(src, HeaderLen)]
         ELSE IF length - 1 > MaxPayload THEN [kind |-> "error", rest |-> src]
         ELSE IF Incomplete(src, length) THEN [kind |-> "none", rest |-> src]
         ELSE LET messages == Parse(src[HeaderLen + 1], Field(src, HeaderLen + 1, length - 1))
                  rest == From(src, HeaderLen + length)
              IN  IF messages = {} THEN [kind |-> "error", rest |-> rest]
                  ELSE [kind |-> "message", message |-> CHOOSE m \in messages : TRUE, rest |-> rest]
=============================================================================
