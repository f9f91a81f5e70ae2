------------------------------ MODULE Framing ------------------------------
(***************************************************************************)
(* The byte stream of a TCP connection: escape.js, frame-decoder.js and    *)
(* the way packet.js uses them, in server/src/protocol/.  A sender writes  *)
(* frames; something else (line noise, a peer that starts in the middle)   *)
(* writes runs of bytes; TCP delivers the bytes in chunks of any size; the *)
(* receiver's FrameDecoder cuts them up again.                             *)
(***************************************************************************)
EXTENDS Integers, Sequences, SequencesExt

CONSTANTS
  Packets,         \* the byte sequences that are valid packets, checksum included
  Noise,           \* runs of bytes between frames
  MaxFrameLength,  \* MAX_FRAME_LENGTH
  MaxSends,        \* bound: frames sent
  MaxNoise,        \* bound: runs of noise
  MaxChunk         \* bound: bytes per chunk

Byte == 0..255

FLAG == 126
ESC  == 125

VARIABLES
  wire,       \* bytes written and not yet delivered
  buffer,     \* FrameDecoder.buffer
  synced,     \* FrameDecoder.synced
  sent,       \* packets sent
  delivered,  \* packets the receiver decoded
  noises      \* runs of noise

framingVars == <<wire, buffer, synced, sent, delivered, noises>>

-----------------------------------------------------------------------------
EscapeByte(b) ==
  CASE b = FLAG -> <<ESC, 2>> [] b = ESC -> <<ESC, 1>> [] OTHER -> <<b>>

Escape(data) == FlattenSeq([i \in DOMAIN data |-> EscapeByte(data[i])])

\* unescape: ok is FALSE for an escape followed by anything but 1 or 2, and for
\* a FLAG.
Unescape[data \in Seq(Byte)] ==
  IF data = << >> THEN [ok |-> TRUE, data |-> << >>]
  ELSE LET pair == Len(data) > 1 /\ data[1] = ESC /\ data[2] \in {1, 2}
           rest == Unescape[SubSeq(data, IF pair THEN 3 ELSE 2, Len(data))]
           byte == IF pair THEN (IF data[2] = 2 THEN FLAG ELSE ESC) ELSE data[1]
       IN  [ok |-> rest.ok /\ (pair \/ data[1] \notin {ESC, FLAG}),
            data |-> <<byte>> \o rest.data]

\* encodePacket.
Frame(packet) == <<FLAG>> \o Escape(packet) \o <<FLAG>>

\* decodePacket of what is between two delimiters.
Decoded(inner) ==
  LET u == Unescape[inner]
  IN  IF u.ok /\ u.data \in Packets THEN <<u.data>> ELSE << >>

-----------------------------------------------------------------------------
Unframed(bytes) == \A i \in DOMAIN bytes : bytes[i] # FLAG

FirstFlag(bytes) ==
  CHOOSE i \in DOMAIN bytes :
    bytes[i] = FLAG /\ \A j \in 1..(i - 1) : bytes[j] # FLAG

After(bytes) == SubSeq(bytes, FirstFlag(bytes) + 1, Len(bytes))

\* The loop of push: every non-empty run between two delimiters is a frame.
Frames[bytes \in Seq(Byte)] ==
  IF Unframed(bytes) THEN [buffer |-> bytes, packets |-> << >>]
  ELSE LET rest == Frames[After(bytes)]
       IN  [buffer |-> rest.buffer,
            packets |-> Decoded(SubSeq(bytes, 1, FirstFlag(bytes) - 1)) \o rest.packets]

\* What precedes the first delimiter is garbage.
Scan(bytes, sync) ==
  IF ~sync /\ Unframed(bytes)
  THEN [buffer |-> bytes, synced |-> FALSE, packets |-> << >>]
  ELSE LET f == Frames[IF sync THEN bytes ELSE After(bytes)]
       IN  [buffer |-> f.buffer, synced |-> TRUE, packets |-> f.packets]

\* A packet fits into the buffer, and the noise between two frames holds none.
ASSUME FramingAssumption ==
  /\ Packets \subseteq Seq(Byte) \ {<< >>} /\ Noise \subseteq Seq(Byte)
  /\ MaxFrameLength \in Nat /\ MaxNoise \in Nat /\ MaxChunk \in Nat
  /\ \A p \in Packets : Len(Escape(p)) <= MaxFrameLength
  /\ \A k \in 0..MaxNoise : \A ns \in [1..k -> Noise] :
       Frames[FlattenSeq(ns) \o <<FLAG>>].packets = << >>

\* What is left without a delimiter and too long is dropped.
\* Mutant: one byte too early.
Limited_Early(d) ==
  IF Len(d.buffer) >= MaxFrameLength
  THEN [d EXCEPT !.buffer = << >>, !.synced = FALSE] ELSE d
Limited(d) ==
  IF Len(d.buffer) > MaxFrameLength
  THEN [d EXCEPT !.buffer = << >>, !.synced = FALSE] ELSE d

-----------------------------------------------------------------------------
FramingInit ==
  /\ wire = << >> /\ buffer = << >> /\ synced = FALSE
  /\ sent = << >> /\ delivered = << >> /\ noises = 0

Send ==
  /\ Len(sent) < MaxSends
  /\ \E p \in Packets : wire' = wire \o Frame(p) /\ sent' = Append(sent, p)
  /\ UNCHANGED <<buffer, synced, delivered, noises>>

MakeNoise ==
  /\ noises < MaxNoise /\ noises' = noises + 1
  /\ \E n \in Noise : wire' = wire \o n
  /\ UNCHANGED <<buffer, synced, sent, delivered>>

\* push
Push ==
  \E n \in 1..MaxChunk :
    /\ n <= Len(wire)
    /\ LET d == Limited(Scan(buffer \o SubSeq(wire, 1, n), synced))
       IN  /\ buffer' = d.buffer /\ synced' = d.synced
           /\ delivered' = delivered \o d.packets
    /\ wire' = SubSeq(wire, n + 1, Len(wire))
    /\ UNCHANGED <<sent, noises>>

FramingNext == Send \/ MakeNoise \/ Push

FramingSpec == FramingInit /\ [][FramingNext]_framingVars

-----------------------------------------------------------------------------
(***************************************************************************)
(* Properties                                                              *)
(***************************************************************************)

\* The buffer holds the unframed bytes only, and no more than the limit.
FramingTypeOK ==
  /\ wire \in Seq(Byte) /\ buffer \in Seq(Byte) /\ synced \in BOOLEAN
  /\ sent \in Seq(Packets) /\ delivered \in Seq(Packets) /\ noises \in Nat
  /\ Len(buffer) <= MaxFrameLength /\ Unframed(buffer)

\* No frame is lost: noise costs nothing but itself.
NothingLost == wire = << >> => delivered = sent

=============================================================================
