------------------------------- MODULE MipLink -------------------------------
(***************************************************************************)
(* What becomes of a message between two daemons: the words mipd packs it  *)
(* into, the frame, the receiver's buffer, and what is read from it.  A    *)
(* message is a byte array; strings and ARP words are arrays too, the      *)
(* first byte of a word being its most significant one.  A byte of the     *)
(* buffer is known by the message it came with and its place in the array, *)
(* so that a stale one can be told from a fresh one.  Hosts are            *)
(* little-endian.                                                          *)
(***************************************************************************)
EXTENDS Integers, Sequences

CONSTANTS
    LocalMip,       \* the receiver
    Nodes,          \* its neighbours
    Targets,        \* addresses that are asked for by ARP
    Texts,          \* lengths of the messages of ping and pong, the tag included
    Ttls,           \* TTLs of a ping: any byte
    MaxNodes,       \* MAX_NODES (52)
    Size,           \* the part of rcv_buf that is followed: a bound (512 - 18)
    Scribbles       \* what else may be on the stack: functions from places of
                    \* rcv_buf to bytes

Broadcast == 255

ASSUME LinkAssumption ==
    /\ LocalMip \in 0 .. 254 /\ Nodes \subseteq 0 .. 254 /\ Targets \subseteq 0 .. 254
    /\ Texts \subseteq Nat \ (0 .. 4) /\ Ttls \subseteq 0 .. 255
    /\ MaxNodes \in Nat /\ MaxNodes >= 8
    /\ Size \in Nat /\ Size >= 8 /\ Size % 4 = 0
    /\ \A s \in Scribbles : /\ DOMAIN s \subseteq 0 .. Size - 1
                           /\ \A o \in DOMAIN s : s[o] \in 0 .. 255

VARIABLES
    rcv_buf,    \* what its stack slots hold, also between two calls
    frame,      \* the message received last, or Nothing
    pdu,        \* its header, as received
    type        \* what mipd or, for a routing message, routingd takes it for

vars == <<rcv_buf, frame, pdu, type>>

Nothing == [kind |-> "nothing", from |-> 0, arg |-> 0, ttl |-> 0]

\* arg is the address of an ARP message or the length of a text.
Message ==
    [kind : {"hello", "update"}, from : Nodes, arg : {0}, ttl : {1}]
    \cup [kind : {"arpRequest"}, from : Nodes, arg : Targets, ttl : {1}]
    \cup [kind : {"arpReply"}, from : Nodes, arg : Targets, ttl : {0}]
    \cup [kind : {"ping", "pong"}, from : Nodes, arg : Texts, ttl : Ttls]

(***************************************************************************)
(* The sender.                                                             *)
(***************************************************************************)

\* strlen is kept in a byte.
str_length(m) == m.arg % 256

\* Bit 31 is the type, the address goes to bits 23 to 30.
create_sdu_miparp(arp_type, mip_addr) ==
    <<arp_type * 128 + mip_addr \div 2, (mip_addr % 2) * 128, 0, 0>>

\* ASCII of what the handlers look at; a letter of a text and an entry of a
\* table are any other value.
Header(m) ==
    CASE m.kind = "hello"      -> <<m.from, 0, 72, 69, 76>>
      [] m.kind = "update"     -> <<m.from, 0, 85, 80, 68>>
      [] m.kind = "arpRequest" -> create_sdu_miparp(0, m.arg)
      [] m.kind = "arpReply"   -> create_sdu_miparp(1, m.arg)
      [] m.kind = "ping"       -> <<0, 0, 0, str_length(m), 80, 73, 78, 71, 58>>
      [] m.kind = "pong"       -> <<0, 0, 0, str_length(m), 80, 79, 78, 71, 58>>

Content(m, p) == IF p < Len(Header(m)) THEN Header(m)[p + 1] ELSE 1

\* Mutant: the last, partial word of a text is forgotten.
WordsRoundedDown(m) ==
    CASE m.kind = "hello"            -> 2
      [] m.kind = "update"           -> (3 * MaxNodes + 5 + 3) \div 4
      [] m.kind \in {"ping", "pong"} -> str_length(m) \div 4 + 1
      [] OTHER                       -> 4

\* sdu_len.  An ARP message has one word, but says four.
Words(m) ==
    CASE m.kind = "hello"            -> 2
      [] m.kind = "update"           -> (3 * MaxNodes + 5 + 3) \div 4
      [] m.kind \in {"ping", "pong"} -> (str_length(m) + 3) \div 4 + 1
      [] OTHER                       -> 4

\* The place in the array of the byte at offset o of the words.
Packed(o) == 4 * (o \div 4) + (3 - (o % 4))

SduType(m) == CASE m.kind \in {"arpRequest", "arpReply"} -> 1
                [] m.kind \in {"ping", "pong"}           -> 2
                [] m.kind \in {"hello", "update"}        -> 4

Dst(m) == IF m.kind \in {"hello", "update", "arpRequest"} THEN Broadcast ELSE LocalMip

\* The fields of mip_hdr: 4 bits of ttl, 9 of sdu_len.
fill_pdu(m) == [dst |-> Dst(m), src |-> m.from, ttl |-> m.ttl % 16,
                sdu_len |-> Words(m) % 512, sdu_type |-> SduType(m)]

\* The header on the wire, as its upper and its lower 16 bits.
mip_serialize_pdu(hdr) ==
    [high |-> hdr.dst * 256 + hdr.src,
     low  |-> hdr.ttl * 4096 + (hdr.sdu_len % 256) * 8 + (hdr.sdu_type % 16)]

(***************************************************************************)
(* The receiver.                                                           *)
(***************************************************************************)

\* Mutant: the type is kept in four bits.
DeserializeWide(h) ==
    [dst |-> h.high \div 256, src |-> h.high % 256, ttl |-> (h.low \div 4096) % 16,
     sdu_len |-> (h.low \div 8) % 64, sdu_type |-> h.low % 16]

\* Mutant: the mask of the length is as wide as the sender's.
DeserializeLong(h) ==
    [dst |-> h.high \div 256, src |-> h.high % 256, ttl |-> (h.low \div 4096) % 16,
     sdu_len |-> (h.low \div 8) % 256, sdu_type |-> (h.low % 16) % 8]

\* The mask for the type is one bit too wide; the field is not.
mip_deserialize_pdu(h) ==
    [dst |-> h.high \div 256, src |-> h.high % 256, ttl |-> (h.low \div 4096) % 16,
     sdu_len |-> (h.low \div 8) % 64, sdu_type |-> (h.low % 16) % 8]

\* sdu_len words were meant, sdu_len bytes are sent and overwrite rcv_buf.
Overwrite(m) == [o \in 0 .. Size - 1 |-> IF o < Words(m)
                                         THEN [of |-> m, at |-> Packed(o)]
                                         ELSE rcv_buf[o]]

\* A byte that no message wrote is its value.
Junk(g) == [of |-> Nothing, at |-> g]
Value(b) == IF b.of = Nothing THEN b.at ELSE Content(b.of, b.at)

\* Mutant: the words are written out as they lie in memory.
UnpackedAsStored(buf, p) == buf[p]

\* Byte p of the array the words are written out to again.
Unpacked(buf, p) == buf[4 * (p \div 4) + (3 - (p % 4))]

\* Bytes at and after position p spell the letters.
Spells(buf, p, letters) ==
    \A i \in 1 .. Len(letters) : Value(Unpacked(buf, p + i - 1)) = letters[i]

\* Mutant: the type bit is not masked out.
decode_sdu_miparpUnmasked(first, second) == first * 2 + second \div 128

decode_sdu_miparp(first, second) == (first % 128) * 2 + second \div 128

\* Mutant: two letters of the three are compared.
RouteTypeShort(buf) ==
    IF Spells(buf, 2, <<72, 69>>) THEN "hello"
    ELSE IF Spells(buf, 2, <<85, 80>>) THEN "update"
    ELSE IF Spells(buf, 2, <<82, 69>>) THEN "request"
    ELSE "invalid"

\* What routingd takes a relayed message for.
RouteType(buf) ==
    IF Spells(buf, 2, <<72, 69, 76>>) THEN "hello"
    ELSE IF Spells(buf, 2, <<85, 80, 68>>) THEN "update"
    ELSE IF Spells(buf, 2, <<82, 69, 81>>) THEN "request"
    ELSE "invalid"

\* Mutant: the words of a text are told apart by their first letter.
PingTypesByLetter(hdr, buf) ==
    IF Spells(buf, 4, <<80>>) THEN {"ping"} ELSE {"unknown"}

\* The tag is the second word; with less than two it lies behind the SDU.
PingTypes(hdr, buf) ==
    IF hdr.sdu_len < 2 THEN {"ping", "pong", "unknown"}
    ELSE IF Spells(buf, 4, <<80, 73, 78, 71>>) THEN {"ping"}
    ELSE IF Spells(buf, 4, <<80, 79, 78, 71>>) THEN {"pong"}
    ELSE {"unknown"}

\* handle_mip_packet, and what routingd makes of MIP_ROUTE.
Types(hdr, buf) ==
    CASE hdr.sdu_type = 1 -> {IF Value(Unpacked(buf, 0)) >= 128 THEN "arpReply"
                                                                ELSE "arpRequest"}
      [] hdr.sdu_type = 2 -> PingTypes(hdr, buf)
      [] hdr.sdu_type = 4 -> {RouteType(buf)}
      [] OTHER            -> {"unknown"}

Init ==
    /\ \E s \in Scribbles : /\ DOMAIN s = 0 .. Size - 1
                           /\ rcv_buf = [o \in 0 .. Size - 1 |-> Junk(s[o])]
    /\ frame = Nothing
    /\ pdu = mip_deserialize_pdu([high |-> 0, low |-> 0])
    /\ type = "unknown"

\* A frame arrives; those that get lost are those that do not.
Receive(m) ==
    LET hdr == mip_deserialize_pdu(mip_serialize_pdu(fill_pdu(m))) IN
    /\ frame' = m
    /\ rcv_buf' = Overwrite(m)
    /\ pdu' = hdr
    /\ type' \in Types(hdr, rcv_buf')

\* Between two frames the stack is used for other things, or not: any bytes of
\* it may become any other.
UseStack(s) ==
    /\ frame # Nothing
    /\ rcv_buf' = [o \in 0 .. Size - 1 |-> IF o \in DOMAIN s THEN Junk(s[o])
                                                            ELSE rcv_buf[o]]
    /\ frame' = Nothing
    /\ UNCHANGED <<pdu, type>>

Next ==
    \/ \E m \in Message : Receive(m)
    \/ \E s \in Scribbles : UseStack(s)

Spec == Init /\ [][Next]_vars

(***************************************************************************)
(* Properties.                                                             *)
(***************************************************************************)

TypeOK ==
    /\ rcv_buf \in [0 .. Size - 1 -> [of : Message \cup {Nothing}, at : Nat]]
    /\ frame \in Message \cup {Nothing}
    /\ pdu \in [dst : 0 .. 255, src : 0 .. 255, ttl : 0 .. 15,
                sdu_len : 0 .. 63, sdu_type : 0 .. 7]

\* The bytes the handlers get.
Delivered == IF frame = Nothing THEN {} ELSE
             {p \in 0 .. 4 * pdu.sdu_len - 1 : p < Size}
sdu(p) == Unpacked(rcv_buf, p)

\* The fields of the header arrive as they were put into mip_hdr, whatever the
\* others are: no field runs into its neighbour (pdu.c:152-156, 208-212).
\* Of a length 6 bits are left.
HeaderSurvives ==
    frame # Nothing =>
        /\ pdu.dst = Dst(frame) /\ pdu.src = frame.from
        /\ pdu.ttl = frame.ttl % 16 /\ pdu.sdu_type = SduType(frame)
        /\ pdu.sdu_len = Words(frame) % 64

\* A byte is read where it was written or not at all: through words, memory
\* order and back, no byte of a message, of this or an older one, turns up at
\* another place, and what the frame has room for is there (utils.c:648-682).
BytesInPlace ==
    \A p \in Delivered : LET b == sdu(p) IN
        /\ b.of # Nothing => b.at = p
        /\ 4 * (p \div 4) + (3 - (p % 4)) < Words(frame) => b.of = frame

\* Whatever the uninitialised part of the buffer holds, a message is not taken
\* for another: an ARP message and an update are read as what they are, a
\* Hello as that or as invalid, and a text of 8 to 63 words (25 to 248 letters)
\* as what it is (utils.c:273-306, route.c:262-272).
KindSurvives ==
    /\ frame.kind \in {"arpRequest", "arpReply", "update"} => type = frame.kind
    /\ frame.kind = "hello" => type \in {"hello", "invalid"}
    /\ frame.kind \in {"ping", "pong"} /\ Words(frame) \in 8 .. 63
          => type = frame.kind

\* The address an ARP message asks for is the one that is read, next to the
\* type bit and with the length in bytes taken for one in words
\* (utils.c:158-175, 535-544).
ArpTargetSurvives ==
    frame.kind \in {"arpRequest", "arpReply"} =>
        decode_sdu_miparp(Value(sdu(0)), Value(sdu(1))) = frame.arg

\* The receiver of a text prints no letter from behind it, once the word with
\* the length arrives whole and the length in words is not cut (utils.c:484-514,
\* 565-597).
TextFits ==
    frame.kind \in {"ping", "pong"} /\ Words(frame) \in 4 .. 63 =>
        256 * Value(sdu(2)) + Value(sdu(3)) <= 4 * (pdu.sdu_len - 1)

\* The last letter of a Hello is never sent, and no other message has it in its
\* place: a Hello is understood only where the letter is in memory that no
\* message ever wrote (pdu.c:167, route.c:262).
HelloNeedsJunk == type = "hello" /\ frame.kind = "hello" => sdu(4).of = Nothing

(***************************************************************************)
(* What the comments say and the code does not do.                         *)
(***************************************************************************)

\* route.c:290 and 242: a Hello includes the sender's address and "HEL", and is
\* one of the three messages routingd handles.
HelloIsUnderstood == frame.kind = "hello" => type = "hello"

=============================================================================
