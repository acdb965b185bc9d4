----------------------------- MODULE SerialLink -----------------------------
(***************************************************************************)
(* Two SerialTransport ends in one direction (src/comms/serial_transport,  *)
(* serial_framing, udp_wire): the sender frames packets and writes them    *)
(* piecemeal, the line garbles, the receiver reads whatever has come and   *)
(* feeds it to the parser, which fills the two inboxes.                    *)
(*                                                                         *)
(* A byte is a digit to the base Base.  A packet's encoding is its tag,    *)
(* the length of its body in one digit, and its body; fields are left out. *)
(***************************************************************************)
EXTENDS Integers, Sequences

CONSTANTS
  Base, SYNC_BYTE_1, SYNC_BYTE_2, MAX_PAYLOAD_BYTES,
  Tag, BodyBytes,   \* the tag and the body's length, by channel
  Contents,         \* sets of bytes that bodies may be made of
  BufferBytes,      \* what the line and the kernel's buffers hold
  MaxInbox,         \* bound: packets left in an inbox while more are sent
  MaxFaults         \* bound: garbled bytes and failed calls

FRAME_HEADER_BYTES == 4
WIRE_HEADER_BYTES  == 2   \* of udp_wire: tag and length
Channel == {"beacon", "message"}
Byte    == 0..(Base - 1)

ASSUME LinkAssumption ==
  /\ Base \in Nat /\ MAX_PAYLOAD_BYTES \in Nat /\ BufferBytes \in Nat \ {0}
  /\ {SYNC_BYTE_1, SYNC_BYTE_2} \subseteq Byte /\ SYNC_BYTE_1 # SYNC_BYTE_2
  /\ Tag \in [Channel -> Byte \ {0}] /\ Tag["beacon"] # Tag["message"]
  /\ BodyBytes \in [Channel -> Byte] /\ Contents \subseteq SUBSET Byte
  /\ \A c \in Channel : WIRE_HEADER_BYTES + BodyBytes[c] <= MAX_PAYLOAD_BYTES
  /\ MAX_PAYLOAD_BYTES < Base * Base      \* two digits hold any length
  /\ MaxInbox \in Nat /\ MaxFaults \in Nat

VARIABLES
  data,       \* what bodies are made of, an element of Contents
  out,        \* the part of write_framed's buffer not yet written
  wire,       \* bytes written and not yet read
  rx,         \* the receiver: parser and inboxes
  tx_healthy, rx_healthy,
  faults,     \* history: faults so far
  clean,      \* history: the parser was at a frame's end, no fault since
  owed        \* history: if clean, packets sent or due and not yet polled

linkVars == <<data, out, wire, rx, tx_healthy, rx_healthy, faults, clean, owed>>
-----------------------------------------------------------------------------
(* Encoding, and the parser.  rx.open: bytes fed and neither counted in    *)
(* bytes_dropped_ nor part of a decoded frame.                             *)

wire_encode(c, body) == <<Tag[c], BodyBytes[c]>> \o body

encode(payload) ==
  IF Len(payload) > MAX_PAYLOAD_BYTES THEN <<>>
  ELSE <<SYNC_BYTE_1, SYNC_BYTE_2, Len(payload) % Base, Len(payload) \div Base>> \o payload

peek_tag(frame) == IF frame = <<>> THEN 0 ELSE frame[1]

\* decode_beacon or decode_message succeeds; what follows the body is ignored.
decodes(c, frame) == /\ Len(frame) >= WIRE_HEADER_BYTES + BodyBytes[c]
                     /\ peek_tag(frame) = Tag[c] /\ frame[2] = BodyBytes[c]

wire_body(c, frame) ==
  SubSeq(frame, WIRE_HEADER_BYTES + 1, WIRE_HEADER_BYTES + BodyBytes[c])

reset(r) == [r EXCEPT !.state = "WaitSync1", !.expected_len = 0, !.buffer = <<>>]

\* Mutant: after a frame that does not decode another of its length is read.
on_frame_stays(r, frame) ==
  IF frame # <<>> /\ \A c \in Channel : ~decodes(c, frame)
  THEN [r EXCEPT !.open = @ - Len(frame), !.buffer = <<>>]
  ELSE reset([r EXCEPT !.open = @ - (FRAME_HEADER_BYTES + Len(frame)),
                       !.inbox = [c \in Channel |->
                         IF decodes(c, frame) THEN Append(@[c], wire_body(c, frame)) ELSE @[c]]])

\* The callback of drain_fd, then the parser's own bookkeeping.
on_frame(r, frame) ==
  reset([r EXCEPT !.open = @ - (FRAME_HEADER_BYTES + Len(frame)),
                  !.inbox = [c \in Channel |->
                    IF decodes(c, frame) THEN Append(@[c], wire_body(c, frame)) ELSE @[c]]])

WaitSync1(r, b) == IF b = SYNC_BYTE_1 THEN [r EXCEPT !.state = "WaitSync2"]
                   ELSE [r EXCEPT !.open = @ - 1]

\* Mutant: only the byte itself is counted as dropped.
WaitSync2_one(r, b) == CASE b = SYNC_BYTE_2 -> [r EXCEPT !.state = "WaitLenLo"]
                         [] b = SYNC_BYTE_1 -> [r EXCEPT !.open = @ - 1]
                         [] OTHER -> [r EXCEPT !.state = "WaitSync1", !.open = @ - 1]

WaitSync2(r, b) == CASE b = SYNC_BYTE_2 -> [r EXCEPT !.state = "WaitLenLo"]
                     [] b = SYNC_BYTE_1 -> [r EXCEPT !.open = @ - 1]
                     [] OTHER -> [r EXCEPT !.state = "WaitSync1", !.open = @ - 2]

WaitLenHi(r, b) ==
  LET n == r.expected_len + Base * b
  IN  CASE n > MAX_PAYLOAD_BYTES -> reset([r EXCEPT !.open = @ - FRAME_HEADER_BYTES])
        [] n = 0 -> on_frame(r, <<>>)
        [] OTHER -> [r EXCEPT !.state = "ReadPayload", !.expected_len = n, !.buffer = <<>>]

ReadPayload(r, b) == LET buffer == Append(r.buffer, b)
                     IN  IF Len(buffer) = r.expected_len THEN on_frame(r, buffer)
                         ELSE [r EXCEPT !.buffer = buffer]

\* One turn of the loop of Parser::feed.
feed_byte(was, b) ==
  LET r == [was EXCEPT !.open = @ + 1]
  IN  CASE r.state = "WaitSync1"   -> WaitSync1(r, b)
        [] r.state = "WaitSync2"   -> WaitSync2(r, b)
        [] r.state = "WaitLenLo"   -> [r EXCEPT !.expected_len = b, !.state = "WaitLenHi"]
        [] r.state = "WaitLenHi"   -> WaitLenHi(r, b)
        [] r.state = "ReadPayload" -> ReadPayload(r, b)

\* after[k]: where the parser can be after k bytes, one state.
feed(r, bytes) ==
  LET after[k \in 0..Len(bytes)] ==
        IF k = 0 THEN {r} ELSE {feed_byte(was, bytes[k]) : was \in after[k - 1]}
  IN  CHOOSE last \in after[Len(bytes)] : TRUE
-----------------------------------------------------------------------------
LinkInit ==
  /\ data \in Contents /\ out = <<>> /\ wire = <<>>
  /\ rx = [state |-> "WaitSync1", expected_len |-> 0, buffer |-> <<>>, open |-> 0,
           inbox |-> [c \in Channel |-> <<>>]]
  /\ tx_healthy = TRUE /\ rx_healthy = TRUE
  /\ faults = 0 /\ clean = TRUE /\ owed = rx.inbox

\* What the receiver will have once it has read all that is written.
Arrived == feed(rx, wire)

\* send_beacon or send_message enters the loop of write_framed.
send(c, body) ==
  /\ out = <<>> /\ \A d \in Channel : Len(rx.inbox[d]) < MaxInbox
  /\ out' = encode(wire_encode(c, body))
  /\ clean' = (clean \/ Arrived.state = "WaitSync1")
  /\ owed' = IF ~clean' THEN owed
             ELSE [IF clean THEN owed ELSE Arrived.inbox EXCEPT ![c] = Append(@, body)]
  /\ UNCHANGED <<data, wire, rx, tx_healthy, rx_healthy, faults>>

\* write() takes n bytes.  When there is no room it fails with EAGAIN and the
\* loop goes round: no step.
write(n) ==
  /\ n \in 1..Len(out) /\ Len(wire) + n <= BufferBytes
  /\ wire' = wire \o SubSeq(out, 1, n)
  /\ out' = SubSeq(out, n + 1, Len(out))
  /\ UNCHANGED <<data, rx, tx_healthy, rx_healthy, faults, clean, owed>>

\* What was owed is not any more: the packets concerned may be lost.
Fault == /\ faults < MaxFaults /\ faults' = faults + 1
         /\ clean' = FALSE /\ owed' = [c \in Channel |-> <<>>]

\* write() fails otherwise: the frame is given up where it is.
write_fails == /\ out # <<>> /\ out' = <<>> /\ tx_healthy' = FALSE
               /\ Fault /\ UNCHANGED <<data, wire, rx, rx_healthy>>

\* Mutant: what the inbox held before the read is lost.
poll_overwrites(c, k) ==
  LET read == feed([rx EXCEPT !.inbox[c] = <<>>], SubSeq(wire, 1, k)) IN
  /\ rx' = [read EXCEPT !.inbox[c] = <<>>]
  /\ wire' = SubSeq(wire, k + 1, Len(wire))
  /\ owed' = [owed EXCEPT ![c] = SubSeq(@, Len(read.inbox[c]) + 1, Len(@))]
  /\ UNCHANGED <<data, out, tx_healthy, clean>>

\* poll_beacons or poll_messages after drain_fd has read k bytes.
poll(c, k) ==
  LET read == feed(rx, SubSeq(wire, 1, k)) IN
  /\ rx' = [read EXCEPT !.inbox[c] = <<>>]
  /\ wire' = SubSeq(wire, k + 1, Len(wire))
  /\ owed' = [owed EXCEPT ![c] = SubSeq(@, Len(read.inbox[c]) + 1, Len(@))]
  /\ UNCHANGED <<data, out, tx_healthy, clean>>

poll_all(c) == poll(c, Len(wire)) /\ UNCHANGED <<rx_healthy, faults>>

\* read() fails after k bytes, which the parser has been fed.
poll_fails(c, k) == /\ k \in 0..Len(wire) /\ poll(c, k) /\ rx_healthy' = FALSE
                    /\ faults < MaxFaults /\ faults' = faults + 1

\* The line alters, loses or adds a byte.
garble(k, bytes) ==
  /\ Fault
  /\ wire' = SubSeq(wire, 1, k - 1) \o bytes \o SubSeq(wire, k + 1, Len(wire))
  /\ UNCHANGED <<data, out, rx, tx_healthy, rx_healthy>>

noise == \E k \in 1..Len(wire) :
           \/ garble(k, <<>>)
           \/ \E b \in Byte : garble(k, <<b>>) \/ garble(k, <<b, wire[k]>>)

Send == \E c \in Channel : \E body \in [1..BodyBytes[c] -> data] : send(c, body)

Write == \E n \in 1..Len(out) : write(n)

LinkNext == \/ Send \/ Write \/ write_fails \/ noise
        \/ \E c \in Channel : poll_all(c) \/ \E k \in 0..Len(wire) : poll_fails(c, k)

LinkSpec == LinkInit /\ [][LinkNext]_linkVars

\* Every tick sends and polls; write_framed goes on until it has written all.
LinkFairSpec == /\ LinkSpec /\ WF_linkVars(Send) /\ WF_linkVars(Write)
                /\ \A c \in Channel : WF_linkVars(poll_all(c))
-----------------------------------------------------------------------------
LinkTypeOK ==
  /\ data \in Contents /\ out \in Seq(Byte) /\ wire \in Seq(Byte)
  /\ rx.state \in {"WaitSync1", "WaitSync2", "WaitLenLo", "WaitLenHi", "ReadPayload"}
  /\ rx.buffer \in Seq(Byte)
  /\ rx.state = "ReadPayload" => Len(rx.buffer) < rx.expected_len
  /\ rx.expected_len \in 0..(IF rx.state = "WaitLenHi" THEN Base ELSE MAX_PAYLOAD_BYTES)
  /\ faults \in 0..MaxFaults /\ {clean, tx_healthy, rx_healthy} \subseteq BOOLEAN

\* Every byte fed to the parser is part of a decoded frame, or counted in
\* bytes_dropped_, or part of the frame being read (serial_framing.h:53-54).
BytesAccounted ==
  rx.open = CASE rx.state = "WaitSync1"   -> 0
              [] rx.state = "WaitSync2"   -> 1
              [] rx.state = "WaitLenLo"   -> 2
              [] rx.state = "WaitLenHi"   -> 3
              [] rx.state = "ReadPayload" -> FRAME_HEADER_BYTES + Len(rx.buffer)

\* Without faults since the parser was last at the end of a frame, what is
\* owed is exactly what the inboxes hold and the unread bytes will yield,
\* whatever the bodies contain and wherever reads and writes cut the frames.
Intact == clean => feed(rx, wire \o out).inbox = owed

\* Once the line is quiet the parser finds a frame's end and loses no packet
\* after that, if bodies are free of the first sync byte.
Resynchronises == SYNC_BYTE_1 \notin data => <>[]clean
=============================================================================
