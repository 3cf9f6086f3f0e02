---------------------------- MODULE MipLinkProofs ----------------------------
(***************************************************************************)
(* MipLink for any addresses, texts and buffers.  All properties follow    *)
(* from one invariant, LinkInv: a byte of the buffer lies where its        *)
(* message put it, the last frame fills the buffer as far as it goes, and  *)
(* the header and the type are what that frame makes them.                 *)
(***************************************************************************)
EXTENDS MipLink, TLAPS

\* The header of a message, as received.
Arrived(m) == mip_deserialize_pdu(mip_serialize_pdu(fill_pdu(m)))

Place == 0 .. Size - 1
Cell == [of : Message \cup {Nothing}, at : Nat]

Written == \A o \in Place : rcv_buf[o].of # Nothing =>
                rcv_buf[o].at = Packed(o) /\ o < Words(rcv_buf[o].of)

Latest == frame # Nothing =>
    /\ pdu = Arrived(frame)
    /\ type \in Types(pdu, rcv_buf)
    /\ \A o \in Place : o < Words(frame) => rcv_buf[o] = [of |-> frame, at |-> Packed(o)]

LinkInv == TypeOK /\ Written /\ Latest

(***************************************************************************)
(* Facts about messages.                                                   *)
(***************************************************************************)

\* What the fields of a message may be; Nothing is no message.
LEMMA Fields ==
    ASSUME NEW m \in Message
    PROVE  /\ m.kind \in {"hello", "update", "arpRequest", "arpReply", "ping", "pong"}
           /\ m.from \in 0 .. 254 /\ m.arg \in Nat /\ m.ttl \in 0 .. 255
           /\ m.kind \in {"arpRequest", "arpReply"} => m.arg \in 0 .. 254
           /\ m # Nothing
<1>0. /\ \A n \in Nodes \cup Targets : n \in 0 .. 254
      /\ \A n \in Texts : n \in Nat
      /\ \A n \in Ttls : n \in 0 .. 255
  BY LinkAssumption
<1>1. CASE m \in [kind : {"hello", "update"}, from : Nodes, arg : {0}, ttl : {1}]
  <2>1. m.kind \in {"hello", "update"} /\ m.from \in Nodes /\ m.arg \in {0} /\ m.ttl \in {1}
    BY <1>1
  <2>2. m # Nothing
    BY <2>1 DEF Nothing
  <2>3. m.from \in 0 .. 254 /\ m.arg \in Nat /\ m.ttl \in 0 .. 255
    BY <1>0, <2>1
  <2>4. m.kind \in {"arpRequest", "arpReply"} => m.arg \in 0 .. 254
    BY <1>0, <2>1
  <2>5. m.kind \in {"hello", "update", "arpRequest", "arpReply", "ping", "pong"}
    BY <2>1
  <2> QED BY <2>2, <2>3, <2>4, <2>5
<1>2. CASE m \in [kind : {"arpRequest"}, from : Nodes, arg : Targets, ttl : {1}]
  <2>1. m.kind \in {"arpRequest"} /\ m.from \in Nodes /\ m.arg \in Targets /\ m.ttl \in {1}
    BY <1>2
  <2>2. m # Nothing
    BY <2>1 DEF Nothing
  <2>3. m.from \in 0 .. 254 /\ m.arg \in Nat /\ m.ttl \in 0 .. 255
    BY <1>0, <2>1
  <2>4. m.kind \in {"arpRequest", "arpReply"} => m.arg \in 0 .. 254
    BY <1>0, <2>1
  <2>5. m.kind \in {"hello", "update", "arpRequest", "arpReply", "ping", "pong"}
    BY <2>1
  <2> QED BY <2>2, <2>3, <2>4, <2>5
<1>3. CASE m \in [kind : {"arpReply"}, from : Nodes, arg : Targets, ttl : {0}]
  <2>1. m.kind \in {"arpReply"} /\ m.from \in Nodes /\ m.arg \in Targets /\ m.ttl \in {0}
    BY <1>3
  <2>2. m # Nothing
    BY <2>1 DEF Nothing
  <2>3. m.from \in 0 .. 254 /\ m.arg \in Nat /\ m.ttl \in 0 .. 255
    BY <1>0, <2>1
  <2>4. m.kind \in {"arpRequest", "arpReply"} => m.arg \in 0 .. 254
    BY <1>0, <2>1
  <2>5. m.kind \in {"hello", "update", "arpRequest", "arpReply", "ping", "pong"}
    BY <2>1
  <2> QED BY <2>2, <2>3, <2>4, <2>5
<1>4. CASE m \in [kind : {"ping", "pong"}, from : Nodes, arg : Texts, ttl : Ttls]
  <2>1. m.kind \in {"ping", "pong"} /\ m.from \in Nodes /\ m.arg \in Texts /\ m.ttl \in Ttls
    BY <1>4
  <2>2. m # Nothing
    BY <2>1 DEF Nothing
  <2>3. m.from \in 0 .. 254 /\ m.arg \in Nat /\ m.ttl \in 0 .. 255
    BY <1>0, <2>1
  <2>4. m.kind \in {"arpRequest", "arpReply"} => m.arg \in 0 .. 254
    BY <1>0, <2>1
  <2>5. m.kind \in {"hello", "update", "arpRequest", "arpReply", "ping", "pong"}
    BY <2>1
  <2> QED BY <2>2, <2>3, <2>4, <2>5
<1> QED BY <1>1, <1>2, <1>3, <1>4 DEF Message

\* The number of words of each kind of message.
LEMMA WordCount ==
    ASSUME NEW m \in Message
    PROVE  /\ Words(m) \in Nat
           /\ m.kind = "hello" => Words(m) = 2
           /\ m.kind = "update" => Words(m) >= 8
           /\ m.kind \in {"arpRequest", "arpReply"} => Words(m) = 4
           /\ m.kind \in {"ping", "pong"} => Words(m) = ((m.arg % 256) + 3) \div 4 + 1
  BY Fields, LinkAssumption DEF Words, str_length

\* Reversing the bytes of a word twice gives the word again, within the buffer.
LEMMA PackedTwice ==
    ASSUME NEW o \in Place
    PROVE  Packed(o) \in Place /\ Packed(Packed(o)) = o
  BY LinkAssumption DEF Packed, Place

\* Cutting a number to 9 bits first does not change its lowest six.
LEMMA LowestSix ==
    ASSUME NEW l \in Nat
    PROVE  l % 512 \in Nat /\ (l % 512) % 64 = l % 64
<1>1. l % 512 \in 0 .. 511 /\ l \div 512 \in Nat /\ l = 512 * (l \div 512) + (l % 512)
  OBVIOUS
<1> DEFINE r == l % 512
           q == l \div 512
<1>2. r \in 0 .. 511 /\ q \in Nat /\ l = 512 * q + r
  BY <1>1
<1> SUFFICES r \in Nat /\ r % 64 = l % 64
  OBVIOUS
<1> HIDE DEF r, q
<1>3. r % 64 \in 0 .. 63 /\ r \div 64 \in Nat /\ r = 64 * (r \div 64) + (r % 64)
  BY <1>2
<1>4. l = 64 * (8 * q + (r \div 64)) + (r % 64)
  BY <1>2, <1>3
<1>5. \A k \in Nat, c \in 0 .. 63 : l = 64 * k + c => l % 64 = c
  BY <1>2
<1> QED BY <1>2, <1>3, <1>4, <1>5

Joined(t, n, y) == t * 4096 + n * 8 + y
Split(low, t, n, y) ==
    /\ (low \div 4096) % 16 = t
    /\ (low \div 8) % 64 = n % 64
    /\ (low % 16) % 8 = y

\* The lower half of the header is taken apart where it was put together.
LEMMA LowerHalf ==
    ASSUME NEW t \in 0 .. 15, NEW n \in 0 .. 255, NEW y \in {1, 2, 4}
    PROVE  Split(Joined(t, n, y), t, n, y)
<1> DEFINE low == t * 4096 + n * 8 + y
<1>1. low \in Nat /\ low = t * 4096 + n * 8 + y /\ n * 8 + y \in 0 .. 4095
  OBVIOUS
<1> HIDE DEF low
<1>2. low \div 4096 = t
  BY <1>1
<1>3. low \div 8 = t * 512 + n
  BY <1>1
<1>4. (t * 512 + n) % 64 = n % 64
  OBVIOUS
<1>5. n % 2 \in {0, 1} /\ n \div 2 \in Nat /\ n = 2 * (n \div 2) + (n % 2)
  OBVIOUS
<1>6. low = 16 * (t * 256 + (n \div 2)) + (8 * (n % 2) + y)
  BY <1>1, <1>5
<1>7. t * 256 + (n \div 2) \in Nat /\ 8 * (n % 2) + y \in 0 .. 15
  BY <1>5
<1>8. \A k \in Nat, c \in 0 .. 15 : low = 16 * k + c => low % 16 = c
  BY <1>1
<1>9. low % 16 = 8 * (n % 2) + y
  BY <1>6, <1>7, <1>8
<1>10. y % 8 = y /\ (8 + y) % 8 = y
  OBVIOUS
<1>11. (low % 16) % 8 = y
  BY <1>5, <1>9, <1>10
<1>12. Split(low, t, n, y)
  BY <1>2, <1>3, <1>4, <1>11 DEF Split
<1> QED BY <1>12 DEF low, Joined

\* The header of a message as received.
LEMMA ArrivedFields ==
    ASSUME NEW m \in Message
    PROVE  Arrived(m) = [dst |-> Dst(m), src |-> m.from, ttl |-> m.ttl % 16,
                         sdu_len |-> Words(m) % 64, sdu_type |-> SduType(m)]
<1>1. /\ Dst(m) \in 0 .. 255 /\ m.from \in 0 .. 255 /\ m.ttl % 16 \in 0 .. 15
      /\ Words(m) % 512 \in Nat /\ (Words(m) % 512) % 64 = Words(m) % 64
  <2>1. Dst(m) \in 0 .. 255 /\ m.from \in 0 .. 255 /\ m.ttl \in Nat
    BY Fields, LinkAssumption DEF Dst, Broadcast
  <2>2. m.ttl % 16 \in 0 .. 15
    BY <2>1
  <2>3. Words(m) \in Nat
    BY WordCount
  <2> QED BY <2>1, <2>2, <2>3, LowestSix
<1>2. SduType(m) \in {1, 2, 4}
  BY Fields DEF SduType
<1> DEFINE l == Words(m) % 512
<1> DEFINE w == mip_serialize_pdu(fill_pdu(m))
<1>3. /\ w.high = Dst(m) * 256 + m.from
      /\ w.low = (m.ttl % 16) * 4096 + (l % 256) * 8 + (SduType(m) % 16)
  BY DEF mip_serialize_pdu, fill_pdu
<1>4. /\ w.high \div 256 = Dst(m) /\ w.high % 256 = m.from
      /\ (w.low \div 4096) % 16 = m.ttl % 16 /\ (w.low \div 8) % 64 = l % 64
      /\ (w.low % 16) % 8 = SduType(m)
  <2> DEFINE d == Dst(m)  s == m.from  t == m.ttl % 16  y == SduType(m)
             high == w.high  low == w.low
  <2>1. /\ d \in 0 .. 255 /\ s \in 0 .. 255 /\ t \in 0 .. 15
        /\ l \in Nat /\ y \in {1, 2, 4}
    BY <1>1, <1>2
  <2>2. high = d * 256 + s /\ low = t * 4096 + (l % 256) * 8 + (y % 16)
    BY <1>3
  <2> HIDE DEF l, w, d, s, t, y, high, low
  <2>3. /\ high \div 256 = d /\ high % 256 = s
        /\ (low \div 4096) % 16 = t /\ (low \div 8) % 64 = l % 64
        /\ (low % 16) % 8 = y
    <3> DEFINE n == l % 256
    <3>1. n \in 0 .. 255 /\ n % 64 = l % 64
      BY <2>1
    <3>2. low = t * 4096 + n * 8 + y
      BY <2>1, <2>2
    <3> HIDE DEF n
    <3>3. /\ (low \div 4096) % 16 = t /\ (low \div 8) % 64 = n % 64
          /\ (low % 16) % 8 = y
      <4>1. t \in 0 .. 15 /\ n \in 0 .. 255 /\ y \in {1, 2, 4}
        BY <2>1, <3>1
      <4>2. Split(Joined(t, n, y), t, n, y)
        BY <4>1, LowerHalf
      <4>3. low = Joined(t, n, y)
        BY <3>2 DEF Joined
      <4> QED BY <4>2, <4>3 DEF Split
    <3>4. high \div 256 = d /\ high % 256 = s
      BY <2>1, <2>2
    <3> QED BY <3>1, <3>3, <3>4
  <2> QED BY <2>3 DEF d, s, t, y, high, low
<1> QED BY <1>1, <1>4 DEF Arrived, mip_deserialize_pdu

(***************************************************************************)
(* The invariant.                                                          *)
(***************************************************************************)

\* What is on the stack is bytes.
LEMMA ScribbleBytes ==
    ASSUME NEW s \in Scribbles, NEW o \in DOMAIN s
    PROVE  s[o] \in Nat
<1>1. s[o] \in 0 .. 255
  BY LinkAssumption
<1> QED BY <1>1

\* Nothing was received yet.
LEMMA LinkInvInit == Init => LinkInv
<1> SUFFICES ASSUME Init PROVE LinkInv
  OBVIOUS
<1>1. PICK s \in Scribbles : /\ DOMAIN s = Place
                            /\ rcv_buf = [o \in Place |-> Junk(s[o])]
  BY DEF Init, Place
<1>2. \A o \in Place : s[o] \in Nat
  BY <1>1, ScribbleBytes
<1>3. rcv_buf \in [Place -> Cell] /\ \A o \in Place : rcv_buf[o].of = Nothing
  BY <1>1, <1>2 DEF Junk, Cell
<1>4. pdu \in [dst : 0 .. 255, src : 0 .. 255, ttl : 0 .. 15,
               sdu_len : 0 .. 63, sdu_type : 0 .. 7]
  BY DEF Init, mip_deserialize_pdu
<1> QED BY <1>3, <1>4 DEF Init, LinkInv, TypeOK, Written, Latest, Place, Cell

\* A frame fills the buffer as far as it goes.
LEMMA LinkInvReceive ==
    ASSUME LinkInv, NEW m \in Message, Receive(m)
    PROVE  LinkInv'
<1>1. m # Nothing /\ Words(m) \in Nat
  BY Fields, WordCount
<1>2. rcv_buf \in [Place -> Cell] /\ rcv_buf' = Overwrite(m)
  BY DEF LinkInv, TypeOK, Place, Cell, Receive
<1>3. \A o \in Place :
         /\ o < Words(m) => rcv_buf'[o] = [of |-> m, at |-> Packed(o)]
         /\ ~(o < Words(m)) => rcv_buf'[o] = rcv_buf[o]
  BY <1>2 DEF Overwrite, Place
<1>4. \A o \in Place : Packed(o) \in Nat
  BY PackedTwice, LinkAssumption DEF Place
<1>5. rcv_buf' \in [Place -> Cell]
  BY <1>2, <1>4 DEF Overwrite, Place, Cell
<1>6. ASSUME NEW o \in Place, rcv_buf'[o].of # Nothing
      PROVE  rcv_buf'[o].at = Packed(o) /\ o < Words(rcv_buf'[o].of)
  <2>1. CASE o < Words(m)
    <3>0. rcv_buf'[o] = [of |-> m, at |-> Packed(o)]
      BY <1>3, <2>1, Zenon
    <3>1. rcv_buf'[o].of = m /\ rcv_buf'[o].at = Packed(o)
      BY <3>0
    <3> QED BY <2>1, <3>1, Zenon
  <2>2. CASE ~(o < Words(m))
    BY <1>3, <1>6, <2>2 DEF Written, LinkInv
  <2> QED BY <2>1, <2>2
<1>7. Latest'
  BY <1>3 DEF Latest, Receive, Arrived
<1>8. pdu' \in [dst : 0 .. 255, src : 0 .. 255, ttl : 0 .. 15,
                sdu_len : 0 .. 63, sdu_type : 0 .. 7]
  <2>1. /\ Dst(m) \in 0 .. 255 /\ m.from \in 0 .. 255 /\ m.ttl % 16 \in 0 .. 15
        /\ Words(m) % 64 \in 0 .. 63 /\ SduType(m) \in 0 .. 7
    BY Fields, <1>1, LinkAssumption DEF Dst, Broadcast, SduType
  <2>2. pdu' = Arrived(m)
    BY DEF Receive, Arrived
  <2> QED BY <2>1, <2>2, ArrivedFields
<1> QED BY <1>5, <1>6, <1>7, <1>8 DEF LinkInv, TypeOK, Written, Receive, Place, Cell

\* Junk belongs to no message.
LEMMA LinkInvStack ==
    ASSUME LinkInv, NEW s \in Scribbles, UseStack(s)
    PROVE  LinkInv'
<1>1. rcv_buf \in [Place -> Cell]
  BY DEF LinkInv, TypeOK, Place, Cell
<1>2. rcv_buf' = [o \in Place |-> IF o \in DOMAIN s THEN Junk(s[o]) ELSE rcv_buf[o]]
  BY DEF UseStack, Place
<1>3. \A o \in DOMAIN s : Junk(s[o]) \in Cell /\ Junk(s[o]).of = Nothing
  BY ScribbleBytes DEF Junk, Cell
<1>4. rcv_buf' \in [Place -> Cell]
  BY <1>1, <1>2, <1>3
<1>5. \A o \in Place : rcv_buf'[o] = rcv_buf[o] \/ rcv_buf'[o].of = Nothing
  BY <1>2, <1>3
<1>6. Written'
  BY <1>5 DEF Written, LinkInv
<1> QED BY <1>4, <1>6 DEF LinkInv, TypeOK, Latest, UseStack, Place, Cell

\* LinkInv is inductive.
LEMMA LinkInvStep == LinkInv /\ [Next]_vars => LinkInv'
<1> SUFFICES ASSUME LinkInv, [Next]_vars PROVE LinkInv'
  OBVIOUS
<1>1. CASE UNCHANGED vars
  BY <1>1 DEF LinkInv, TypeOK, Written, Latest, vars
<1>2. CASE Next
  BY <1>2, LinkInvReceive, LinkInvStack DEF Next
<1> QED BY <1>1, <1>2

\* LinkInv holds in every state.
LEMMA LinkInvariant == Spec => []LinkInv
  BY LinkInvInit, LinkInvStep, PTL DEF Spec

(***************************************************************************)
(* The properties.                                                         *)
(***************************************************************************)

\* The state always has its type (the fields of mip_hdr and rcv_buf).
THEOREM LinkTypeCorrect == Spec => []TypeOK
  BY LinkInvariant, PTL DEF LinkInv

\* What byte p of the array is: where it was written, if it was, and that of
\* the last frame, as far as that goes.
LEMMA Reading ==
    ASSUME LinkInv, NEW p \in Place
    PROVE  /\ sdu(p).of # Nothing => sdu(p).at = p /\ Packed(p) < Words(sdu(p).of)
           /\ frame # Nothing /\ Packed(p) < Words(frame)
                 => sdu(p) = [of |-> frame, at |-> p]
           /\ sdu(p).of \in Message \cup {Nothing}
<1> DEFINE o == Packed(p)
<1>1. o \in Place /\ Packed(o) = p
  BY PackedTwice
<1>2. sdu(p) = rcv_buf[o]
  BY DEF sdu, Unpacked, Packed
<1> HIDE DEF o
<1>3. rcv_buf[o].of # Nothing => rcv_buf[o].at = p /\ o < Words(rcv_buf[o].of)
  <2>1. rcv_buf[o].of # Nothing
           => rcv_buf[o].at = Packed(o) /\ o < Words(rcv_buf[o].of)
    BY <1>1, Zenon DEF LinkInv, Written
  <2> QED BY <1>1, <2>1, Zenon
<1>4. frame # Nothing /\ o < Words(frame) => rcv_buf[o] = [of |-> frame, at |-> p]
  <2>1. frame # Nothing /\ o < Words(frame)
           => rcv_buf[o] = [of |-> frame, at |-> Packed(o)]
    BY <1>1, Zenon DEF LinkInv, Latest
  <2> QED BY <1>1, <2>1, Zenon
<1>5. rcv_buf[o].of \in Message \cup {Nothing}
  <2>1. rcv_buf \in [Place -> Cell]
    BY DEF LinkInv, TypeOK, Place, Cell
  <2> QED BY <1>1, <2>1 DEF Cell
<1> QED BY <1>2, <1>3, <1>4, <1>5, Zenon DEF o

\* The fields of the header arrive (pdu.c:152-156, 208-212).
THEOREM HeaderArrives == Spec => []HeaderSurvives
<1>1. LinkInv => HeaderSurvives
  <2> SUFFICES ASSUME LinkInv, frame # Nothing
               PROVE  /\ pdu.dst = Dst(frame) /\ pdu.src = frame.from
                      /\ pdu.ttl = frame.ttl % 16 /\ pdu.sdu_type = SduType(frame)
                      /\ pdu.sdu_len = Words(frame) % 64
    BY DEF HeaderSurvives
  <2>1. frame \in Message /\ pdu = Arrived(frame)
    BY DEF LinkInv, TypeOK, Latest
  <2> QED BY <2>1, ArrivedFields
<1> QED BY <1>1, LinkInvariant, PTL

\* No byte turns up at another place than its own, whatever the buffer held
\* (utils.c:648-682).
THEOREM BytesKeepTheirPlace == Spec => []BytesInPlace
<1>1. LinkInv => BytesInPlace
  <2> SUFFICES ASSUME LinkInv, NEW p \in Delivered
               PROVE  /\ sdu(p).of # Nothing => sdu(p).at = p
                      /\ Packed(p) < Words(frame) => sdu(p).of = frame
    BY DEF BytesInPlace, Packed
  <2>1. frame # Nothing
    BY DEF Delivered
  <2>2. p \in Place
    BY <2>1, LinkAssumption DEF Delivered, Place, LinkInv, TypeOK
  <2>3. /\ sdu(p).of # Nothing => sdu(p).at = p
        /\ Packed(p) < Words(frame) => sdu(p) = [of |-> frame, at |-> p]
    BY <2>1, <2>2, Reading, Zenon
  <2> QED BY <2>3
<1> QED BY <1>1, LinkInvariant, PTL

\* Where the first eight bytes of the array are in the words.
LEMMA FirstPlaces ==
    /\ Packed(0) = 3 /\ Packed(1) = 2 /\ Packed(2) = 1 /\ Packed(3) = 0
    /\ Packed(4) = 7 /\ Packed(5) = 6 /\ Packed(6) = 5 /\ Packed(7) = 4
    /\ 0 .. 7 \subseteq Place
  BY LinkAssumption DEF Packed, Place

\* What the frame has room for is read with its value.
LEMMA FreshValue ==
    ASSUME LinkInv, frame # Nothing, NEW p \in Place, Packed(p) < Words(frame)
    PROVE  Value(sdu(p)) = Content(frame, p)
<1>1. sdu(p) = [of |-> frame, at |-> p]
  BY Reading, Zenon
<1>2. sdu(p).of = frame /\ sdu(p).at = p
  BY <1>1
<1> QED BY <1>2, Zenon DEF Value

\* The type of the last message is read from its header and the buffer.
LEMMA TypeRead ==
    ASSUME LinkInv, frame # Nothing
    PROVE  /\ frame \in Message
           /\ type \in Types(pdu, rcv_buf)
           /\ pdu.sdu_type = SduType(frame) /\ pdu.sdu_len = Words(frame) % 64
<1>1. frame \in Message /\ pdu = Arrived(frame)
  BY DEF LinkInv, TypeOK, Latest
<1> QED BY <1>1, ArrivedFields DEF LinkInv, Latest

\* The bytes of an ARP message.
LEMMA ArpBytes ==
    ASSUME LinkInv, frame # Nothing, frame.kind \in {"arpRequest", "arpReply"}
    PROVE  /\ frame.arg \in 0 .. 254
           /\ Value(sdu(0)) = (IF frame.kind = "arpReply" THEN 128 ELSE 0)
                                  + frame.arg \div 2
           /\ Value(sdu(1)) = (frame.arg % 2) * 128
<1>1. frame \in Message /\ Words(frame) = 4
  BY TypeRead, WordCount
<1>2. Value(sdu(0)) = Content(frame, 0) /\ Value(sdu(1)) = Content(frame, 1)
  <2>1. 0 \in Place /\ 1 \in Place
    BY FirstPlaces
  <2>2. Packed(0) < Words(frame) /\ Packed(1) < Words(frame)
    BY <1>1, FirstPlaces
  <2> QED BY <2>1, <2>2, FreshValue
<1>3. Header(frame) = create_sdu_miparp(IF frame.kind = "arpReply" THEN 1 ELSE 0,
                                        frame.arg)
  BY DEF Header
<1> QED BY <1>1, <1>2, <1>3, Fields DEF Content, create_sdu_miparp

\* The address an ARP message asks for is the one that is read
\* (utils.c:158-175, 535-544).
THEOREM ArpTargetArrives == Spec => []ArpTargetSurvives
<1>1. LinkInv => ArpTargetSurvives
  <2> SUFFICES ASSUME LinkInv, frame.kind \in {"arpRequest", "arpReply"}
               PROVE  decode_sdu_miparp(Value(sdu(0)), Value(sdu(1))) = frame.arg
    BY DEF ArpTargetSurvives
  <2>1. frame # Nothing
    BY DEF Nothing
  <2> QED BY <2>1, ArpBytes DEF decode_sdu_miparp
<1> QED BY <1>1, LinkInvariant, PTL

\* A text does not pretend to be longer than what its receiver has
\* (utils.c:484-514, 565-597).
THEOREM TextsFit == Spec => []TextFits
<1>1. LinkInv => TextFits
  <2> SUFFICES ASSUME LinkInv, frame.kind \in {"ping", "pong"},
                      Words(frame) \in 4 .. 63
               PROVE  256 * Value(sdu(2)) + Value(sdu(3)) <= 4 * (pdu.sdu_len - 1)
    BY DEF TextFits
  <2>1. frame # Nothing
    BY DEF Nothing
  <2>2. frame \in Message /\ pdu.sdu_len = Words(frame)
    BY <2>1, TypeRead
  <2>3. Value(sdu(2)) = Content(frame, 2) /\ Value(sdu(3)) = Content(frame, 3)
    <3>1. 2 \in Place /\ 3 \in Place
      BY FirstPlaces
    <3>2. Packed(2) < Words(frame) /\ Packed(3) < Words(frame)
      BY FirstPlaces
    <3> QED BY <2>1, <3>1, <3>2, FreshValue
  <2>4. Content(frame, 2) = 0 /\ Content(frame, 3) = frame.arg % 256
    BY DEF Content, Header, str_length
  <2>5. frame.arg \in Nat /\ Words(frame) = ((frame.arg % 256) + 3) \div 4 + 1
    BY <2>2, Fields, WordCount
  <2> QED BY <2>2, <2>3, <2>4, <2>5
<1> QED BY <1>1, LinkInvariant, PTL

\* A Hello is understood only by accident (pdu.c:167, route.c:262).
THEOREM HellosNeedJunk == Spec => []HelloNeedsJunk
<1>1. LinkInv => HelloNeedsJunk
  <2> SUFFICES ASSUME LinkInv, type = "hello", frame.kind = "hello",
                      sdu(4).of # Nothing
               PROVE  FALSE
    BY DEF HelloNeedsJunk
  <2>1. frame # Nothing
    BY DEF Nothing
  <2>2. type = RouteType(rcv_buf)
    BY <2>1, TypeRead DEF Types, SduType
  <2>3. Value(sdu(4)) = 76
    BY <2>2 DEF RouteType, Spells, sdu
  <2>4. sdu(4).of \in Message /\ sdu(4).at = 4 /\ 7 < Words(sdu(4).of)
    <3>1. 4 \in Place /\ Packed(4) = 7
      BY FirstPlaces
    <3>2. sdu(4).of \in Message /\ sdu(4).at = 4 /\ Packed(4) < Words(sdu(4).of)
      BY <3>1, Reading, Zenon
    <3> QED BY <3>1, <3>2
  <2> DEFINE m == sdu(4).of
  <2>5. Content(m, 4) = 76
    BY <2>3, <2>4 DEF Value
  <2>6. m.kind \in {"update", "ping", "pong"}
    <3> HIDE DEF m
    <3>1. m \in Message /\ 7 < Words(m)
      BY <2>4 DEF m
    <3> QED BY <3>1, Fields, WordCount
  <2> HIDE DEF m
  <2> QED BY <2>5, <2>6 DEF Content, Header
<1> QED BY <1>1, LinkInvariant, PTL

\* Whatever the buffer held before, a message is not taken for another
\* (utils.c:273-306, route.c:262-272).
THEOREM KindsSurvive == Spec => []KindSurvives
<1>1. ASSUME LinkInv, frame.kind \in {"arpRequest", "arpReply"}
      PROVE  type = frame.kind
  <2>1. frame # Nothing
    BY <1>1 DEF Nothing
  <2>2. /\ frame.arg \in 0 .. 254
        /\ Value(Unpacked(rcv_buf, 0)) = (IF frame.kind = "arpReply" THEN 128 ELSE 0)
                                            + frame.arg \div 2
    BY <1>1, <2>1, ArpBytes DEF sdu
  <2>3. Value(Unpacked(rcv_buf, 0)) >= 128 <=> frame.kind = "arpReply"
    BY <1>1, <2>2
  <2>4. type \in Types(pdu, rcv_buf) /\ pdu.sdu_type = 1
    BY <1>1, <2>1, TypeRead DEF SduType
  <2> QED BY <1>1, <2>3, <2>4 DEF Types
<1>2. ASSUME LinkInv, frame.kind \in {"hello", "update"}
      PROVE  /\ frame.kind = "update" => type = "update"
             /\ frame.kind = "hello" => type \in {"hello", "invalid"}
  <2>1. frame # Nothing
    BY <1>2 DEF Nothing
  <2>2. frame \in Message /\ type = RouteType(rcv_buf)
    BY <1>2, <2>1, TypeRead DEF Types, SduType
  <2>3. Value(sdu(2)) = Content(frame, 2) /\ Value(sdu(3)) = Content(frame, 3)
    <3>1. 2 \in Place /\ 3 \in Place
      BY FirstPlaces
    <3>2. Packed(2) < Words(frame) /\ Packed(3) < Words(frame)
      BY <1>2, <2>2, FirstPlaces, WordCount
    <3> QED BY <1>2, <2>1, <3>1, <3>2, FreshValue
  <2>4. CASE frame.kind = "hello"
    <3>1. Value(Unpacked(rcv_buf, 2)) = 72
      BY <2>3, <2>4 DEF Content, Header, sdu
    <3>2. ~Spells(rcv_buf, 2, <<85, 80, 68>>) /\ ~Spells(rcv_buf, 2, <<82, 69, 81>>)
      BY <3>1 DEF Spells
    <3> QED BY <2>2, <2>4, <3>2 DEF RouteType
  <2>5. CASE frame.kind = "update"
    <3>1. Value(sdu(4)) = Content(frame, 4)
      <4>1. 4 \in Place /\ Packed(4) < Words(frame)
        BY <2>2, <2>5, FirstPlaces, WordCount
      <4> QED BY <1>2, <2>1, <4>1, FreshValue
    <3>2. /\ Value(Unpacked(rcv_buf, 2)) = 85 /\ Value(Unpacked(rcv_buf, 3)) = 80
          /\ Value(Unpacked(rcv_buf, 4)) = 68
      BY <2>3, <2>5, <3>1 DEF Content, Header, sdu
    <3>3. Spells(rcv_buf, 2, <<85, 80, 68>>) /\ ~Spells(rcv_buf, 2, <<72, 69, 76>>)
      BY <3>2 DEF Spells
    <3> QED BY <2>2, <2>5, <3>3 DEF RouteType
  <2> QED BY <1>2, <2>4, <2>5
<1>3. ASSUME LinkInv, frame.kind \in {"ping", "pong"}, Words(frame) \in 8 .. 63
      PROVE  type = frame.kind
  <2>1. frame # Nothing
    BY <1>3 DEF Nothing
  <2>2. type \in PingTypes(pdu, rcv_buf) /\ pdu.sdu_len = Words(frame)
    BY <1>3, <2>1, TypeRead DEF Types, SduType
  <2>3. \A p \in 4 .. 7 : Value(sdu(p)) = Content(frame, p)
    <3>1. \A p \in 4 .. 7 : p \in Place /\ Packed(p) < Words(frame)
      BY <1>3, FirstPlaces
    <3> QED BY <1>3, <2>1, <3>1, FreshValue
  <2>4. /\ Value(Unpacked(rcv_buf, 4)) = 80 /\ Value(Unpacked(rcv_buf, 6)) = 78
        /\ Value(Unpacked(rcv_buf, 5)) = (IF frame.kind = "ping" THEN 73 ELSE 79)
        /\ Value(Unpacked(rcv_buf, 7)) = 71
    BY <1>3, <2>3 DEF Content, Header, sdu
  <2>5. /\ Spells(rcv_buf, 4, <<80, 73, 78, 71>>) <=> frame.kind = "ping"
        /\ Spells(rcv_buf, 4, <<80, 79, 78, 71>>) <=> frame.kind = "pong"
    BY <1>3, <2>4 DEF Spells
  <2> QED BY <1>3, <2>2, <2>5 DEF PingTypes
<1>4. LinkInv => KindSurvives
  BY <1>1, <1>2, <1>3 DEF KindSurvives
<1> QED BY <1>4, LinkInvariant, PTL

=============================================================================
