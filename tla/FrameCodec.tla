----------------------------- MODULE FrameCodec -----------------------------
(***************************************************************************)
(* The frame codec.  The header is counted as five bytes and the payload   *)
(* is written from the fifth on: one byte before the CRC is never written, *)
(* goes out with what the buffer held, and is covered by the CRC.          *)
(*                                                                         *)
(* The CRC is the sequence it covers: no two texts have the same.  A frame *)
(* is thus the bytes up to the CRC, and the CRC.                           *)
(***************************************************************************)
EXTENDS Naturals, Sequences

CONSTANTS
  ByteModulus,       \* 2^8
  MaximumPayload,
  NoFrame            \* decode() fails

ASSUME FrameAssumption == ByteModulus \in Nat \ {0} /\ MaximumPayload \in Nat

Bytes == 0..ByteModulus-1

Sync   == "A5 5A"                      \* both bytes of the sync word
NoSync == "other"

FrameValues == [opcode : Bytes, payload : UNION { [1..n -> Bytes] : n \in 0..MaximumPayload }]

VARIABLES
  sent,   \* history: the frame encoded
  wire,   \* [bytes, crc]: what goes out
  damaged \* history: a byte was changed on the way, or the end was lost

frameVars == <<sent, wire, damaged>>

FrameInit == sent = NoFrame /\ wire = NoFrame /\ damaged = FALSE

(* The bytes before the CRC, the one that is left as it was included. *)
encode(frame, stale) ==
  LET bytes == <<Sync, Len(frame.payload) % ByteModulus, frame.opcode>> \o frame.payload \o <<stale>>
  IN [bytes |-> bytes, crc |-> bytes]

(* Mutant of decode: the CRC is not compared. *)
decodeUnchecked(w) ==
  IF \/ Len(w.bytes) < 4
     \/ w.bytes[1] # Sync
     \/ w.bytes[2] > MaximumPayload \/ Len(w.bytes) # 4 + w.bytes[2]
  THEN NoFrame
  ELSE [opcode |-> w.bytes[3], payload |-> SubSeq(w.bytes, 4, 3 + w.bytes[2])]

(* Less than a header, whose sync word counts as one here, is refused first. *)
decode(w) ==
  IF \/ Len(w.bytes) < 4
     \/ w.bytes[1] # Sync
     \/ w.bytes[2] > MaximumPayload \/ Len(w.bytes) # 4 + w.bytes[2]
     \/ w.crc # w.bytes
  THEN NoFrame
  ELSE [opcode |-> w.bytes[3], payload |-> SubSeq(w.bytes, 4, 3 + w.bytes[2])]

Encode(frame, stale) ==
  /\ sent = NoFrame
  /\ sent' = frame /\ wire' = encode(frame, stale)
  /\ UNCHANGED damaged

(* External: a byte is damaged on the way. *)
Damage(i, b) ==
  /\ sent # NoFrame /\ ~damaged
  /\ i \in 1..Len(wire.bytes) /\ b # wire.bytes[i]
  /\ wire' = [wire EXCEPT !.bytes[i] = b]
  /\ damaged' = TRUE
  /\ UNCHANGED sent

(* External: the end is lost on the way, so that the CRC is not that of the rest. *)
Truncate(n) ==
  /\ sent # NoFrame /\ ~damaged
  /\ n < Len(wire.bytes)
  /\ wire' = [wire EXCEPT !.bytes = SubSeq(@, 1, n)]
  /\ damaged' = TRUE
  /\ UNCHANGED sent

(* The receiver is done with the frame. *)
NextFrame == sent' = NoFrame /\ wire' = NoFrame /\ damaged' = FALSE

FrameNext ==
  \/ NextFrame
  \/ \E frame \in FrameValues, stale \in Bytes : Encode(frame, stale)
  \/ Damage(1, NoSync)
  \/ \E i \in 2..MaximumPayload+4, b \in Bytes : Damage(i, b)
  \/ \E n \in 0..MaximumPayload+3 : Truncate(n)

FrameSpec == FrameInit /\ [][FrameNext]_frameVars

-----------------------------------------------------------------------------
(***************************************************************************)
(* decode() returns the frame that was encoded, whatever the unwritten     *)
(* byte holds, and refuses one that is damaged or cut short; a payload     *)
(* whose size does not fit in the length byte is refused rather than cut.  *)
(***************************************************************************)
FrameRoundTrip ==
  wire # NoFrame =>
    decode(wire) = IF damaged \/ Len(sent.payload) >= ByteModulus THEN NoFrame ELSE sent

=============================================================================
