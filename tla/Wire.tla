-------------------------------- MODULE Wire --------------------------------
(***************************************************************************)
(* One direction of a peer connection: PeerConnection's send and recv      *)
(* (src/src/network/peer.rs) over Framed, LengthPrefixCodec and a TCP      *)
(* stream, which delivers the octets in pieces of any size and may break   *)
(* anywhere; and a datagram of the DHT (rpc.rs), which arrives whole or    *)
(* not at all.                                                             *)
(***************************************************************************)
EXTENDS Codec, Rpc

CONSTANTS
    Messages,   \* messages of the peer protocol
    Strange,    \* octets of frames that are none of them
    MaxSent,    \* bound on what is sent on the stream
    Queries     \* messages of the DHT

\* What another program may send instead of a message: an empty frame, one that
\* is too long, or one that is read as no message.
Refused(octets) ==
    /\ octets \in Bytes /\ Len(octets) >= HeaderLen
    /\ LET length == Number(octets, 0, HeaderLen) IN
        \/ length = 0
        \/ length - 1 > MaxPayload
        \/ /\ Len(octets) = HeaderLen + length
           /\ Parse(octets[HeaderLen + 1], Field(octets, HeaderLen + 1, length - 1)) = {}

\* The program sends what it can encode: pieces of 256 KiB with a proof of at
\* most 32 hashes, twenty peers with an address in a message, answers of eight
\* nodes or twenty peers.
ASSUME ConstantsAssumption ==
    /\ \A m \in Messages : m \in AllMessages /\ PayloadLen(m) <= MaxPayload
    /\ \A octets \in Strange : Refused(octets)
    /\ \A m \in Queries : m \in AllQueries
    /\ Len(Types) <= Base /\ Len(Kinds) <= Base
    /\ MaxPayload \in Nat /\ MaxPayload + 1 \in Unsigned(4)
    /\ MaxSent \in Nat

VARIABLES
    pipe,       \* octets under way
    src,        \* the decoder's buffer
    status,     \* "open"; "cut" when no more octets will come; how recv ended
    \* What both sides did; the code does not keep it:
    sent,       \* what was sent: messages, and strange frames
    got,        \* what recv returned
    asked,      \* the message sent as a datagram, as a set
    understood  \* what it was decoded to

stream == <<pipe, src, status, sent, got>>
datagrams == <<asked, understood>>
vars == <<stream, datagrams>>

Init ==
    /\ pipe = <<>> /\ src = <<>> /\ status = "open"
    /\ sent = <<>> /\ got = <<>>
    /\ asked = {} /\ understood = {}

----------------------------------------------------------------------------
(* The stream *)

Ended == status \in {"failed", "closed"}

\* The octets of something sent.
Frame(item) == IF item.type = "Strange" THEN item.octets ELSE Encode(item)

\* PeerConnection::send: also the other end's program may be another one.
Send ==
    /\ status = "open" /\ Len(sent) < MaxSent
    /\ \E item \in Messages \cup {[type |-> "Strange", octets |-> s] : s \in Strange} :
        /\ sent' = Append(sent, item)
        /\ pipe' = pipe \o Frame(item)
    /\ UNCHANGED <<src, status, got, datagrams>>

\* TCP hands over some of the octets; Framed appends them to its buffer.
Arrive ==
    /\ ~Ended
    /\ \E n \in 1 .. Len(pipe) :
        /\ src' = src \o SubSeq(pipe, 1, n)
        /\ pipe' = From(pipe, n)
    /\ UNCHANGED <<status, sent, got, datagrams>>

\* The sender closes the connection, or it breaks; what has not arrived is lost.
Cut ==
    /\ status = "open"
    /\ status' = "cut"
    /\ pipe' = <<>>
    /\ UNCHANGED <<src, sent, got, datagrams>>

\* recv calls the decoder, and returns a message, an error, on which the caller
\* gives the connection up, or at the end of the stream that it is closed; what
\* is left over then is an error too.
Recv ==
    /\ ~Ended
    /\ LET d == Decode(src) IN
        \/ /\ d.kind = "message"
           /\ got' = Append(got, d.message)
           /\ src' = d.rest
           /\ UNCHANGED status
        \/ /\ d.kind = "error"
           /\ status' = "failed"
           /\ src' = d.rest
           /\ UNCHANGED got
        \/ /\ d.kind = "none" /\ status = "cut"
           /\ status' = IF src = <<>> THEN "closed" ELSE "failed"
           /\ UNCHANGED <<src, got>>
    /\ UNCHANGED <<pipe, sent, datagrams>>

----------------------------------------------------------------------------
(* A datagram *)

\* What decode makes of the octets that encode yields; one datagram is sent, a
\* bound of the model.
Ask ==
    /\ asked = {}
    /\ \E m \in Queries : asked' = {m} /\ understood' = DecodeRpc(EncodeRpc(m))
    /\ UNCHANGED stream

----------------------------------------------------------------------------

Receiving == Arrive \/ Recv

Next == Send \/ Cut \/ Receiving \/ Ask

\* The receiver keeps calling recv, and TCP delivers what is not lost.
Spec == Init /\ [][Next]_vars /\ WF_vars(Receiving)

----------------------------------------------------------------------------
(* Properties *)

\* However the stream is cut into pieces, the decoder neither loses an octet
\* nor takes one for another: what it holds and what is under way are the
\* frames of what it has not returned yet.
NothingLost ==
    status = "open" =>
        src \o pipe = FlattenSeq([k \in 1 .. Len(sent) - Len(got) |-> Frame(sent[Len(got) + k])])

\* recv returns the messages that were sent, whole and in order, and nothing
\* after a frame that is no message or after the end of the stream.
Connection == INSTANCE Channel WITH
    Messages <- Messages \cup {[type |-> "Strange", octets |-> s] : s \in Strange},
    ended <- Ended
ChannelSpec == Connection!Spec

\* As long as the connection lives, a message that was sent is received unless
\* the stream has stopped making sense before it.
Received ==
    \A n \in 1 .. MaxSent : Len(sent) >= n ~> Len(got) >= n \/ status # "open"

\* A datagram says to the one who decodes it what its sender meant.
SaidIsHeard == understood = asked
=============================================================================
