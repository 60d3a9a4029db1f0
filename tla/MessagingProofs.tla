--------------------------- MODULE MessagingProofs ---------------------------
(***************************************************************************)
(* Proofs about messages on their way: the ring buffer holds a sequence,   *)
(* the offline queue stores and forwards in order, no telemetry record     *)
(* vanishes, a command delivered again is handled once, a subscriber has   *)
(* its events once and in order, a frame is decoded as it was encoded or   *)
(* refused, and the scanner reads back the object that the writer wrote.   *)
(***************************************************************************)
EXTENDS Messaging, EventBus, FrameCodec, JsonCodec, FiniteSetTheorems,
        SequenceTheorems, WellFoundedInduction, TLAPS

-----------------------------------------------------------------------------
(* Indices of a ring, apart from everything else. *)
Wrap(x, m) == x % m

LEMMA WrapIs ==
  ASSUME NEW m \in Nat \ {0}, NEW x \in 0..2*m-1
  PROVE  /\ Wrap(x, m) = IF x < m THEN x ELSE x - m
         /\ Wrap(x, m) \in 0..m-1
BY DEF Wrap

(* The slots of different entries are different. *)
LEMMA SlotsDiffer ==
  ASSUME NEW m \in Nat \ {0}, NEW r \in 0..m-1, NEW c \in 0..m-1, NEW i \in 1..c
  PROVE  Wrap(r + i - 1, m) # Wrap(r + c, m)
<1>1. r + i - 1 \in 0..2*m-1 /\ r + c \in 0..2*m-1
      OBVIOUS
<1>2. Wrap(r + i - 1, m) = IF r + i - 1 < m THEN r + i - 1 ELSE r + i - 1 - m
      BY <1>1, WrapIs
<1>3. Wrap(r + c, m) = IF r + c < m THEN r + c ELSE r + c - m
      BY <1>1, WrapIs
<1>4. QED
      BY <1>2, <1>3

(* From the next slot on, the ring begins with the second entry. *)
LEMMA SlotOfNext ==
  ASSUME NEW m \in Nat \ {0}, NEW r \in 0..m-1, NEW k \in 0..m-1
  PROVE  Wrap(Wrap(r + 1, m) + k, m) = Wrap(r + 1 + k, m)
<1>1. r + 1 \in 0..2*m-1 /\ r + 1 + k \in 0..2*m-1
      OBVIOUS
<1>2. Wrap(r + 1, m) = (IF r + 1 < m THEN r + 1 ELSE r + 1 - m) /\ Wrap(r + 1, m) \in 0..m-1
      BY <1>1, WrapIs
<1>3. Wrap(r + 1, m) + k \in 0..2*m-1
      BY <1>2
<1>4. Wrap(Wrap(r + 1, m) + k, m) =
        IF Wrap(r + 1, m) + k < m THEN Wrap(r + 1, m) + k ELSE Wrap(r + 1, m) + k - m
      BY <1>3, WrapIs
<1>5. Wrap(r + 1 + k, m) = IF r + 1 + k < m THEN r + 1 + k ELSE r + 1 + k - m
      BY <1>1, WrapIs
<1>6. QED
      BY <1>2, <1>4, <1>5

(* The slot after the last written one. *)
LEMMA WriteMoves ==
  ASSUME NEW m \in Nat \ {0}, NEW r \in 0..m-1, NEW c \in 0..m-1
  PROVE  Wrap(Wrap(r + c, m) + 1, m) = Wrap(r + (c + 1), m)
<1>1. r + c \in 0..2*m-1 /\ r + (c + 1) \in 0..2*m-1
      OBVIOUS
<1>2. Wrap(r + c, m) = (IF r + c < m THEN r + c ELSE r + c - m) /\ Wrap(r + c, m) \in 0..m-1
      BY <1>1, WrapIs
<1>3. Wrap(r + c, m) + 1 \in 0..2*m-1
      BY <1>2
<1>4. Wrap(Wrap(r + c, m) + 1, m) =
        IF Wrap(r + c, m) + 1 < m THEN Wrap(r + c, m) + 1 ELSE (Wrap(r + c, m) + 1) - m
  <2> DEFINE w == Wrap(r + c, m) + 1
  <2>1. w \in 0..2*m-1
        BY <1>3
  <2> HIDE DEF w
  <2>2. Wrap(w, m) = IF w < m THEN w ELSE w - m
        BY <2>1, WrapIs
  <2>3. QED
        BY <2>2, Zenon DEF w
<1>5. Wrap(r + (c + 1), m) = IF r + (c + 1) < m THEN r + (c + 1) ELSE r + (c + 1) - m
      BY <1>1, WrapIs
<1>6. QED
      BY <1>2, <1>4, <1>5

-----------------------------------------------------------------------------
(***************************************************************************)
(* The ring buffer holds a sequence: its members agree with each other,    *)
(* try_push appends to the sequence and drop_oldest removes its head.      *)
(***************************************************************************)
RingOf(T, m) == { b \in Buffers(T, m) : b.write_index = Wrap(b.read_index + b.count, m) }

LEMMA RingFacts ==
  ASSUME NEW T, NEW m \in Nat \ {0}, NEW b \in RingOf(T, m)
  PROVE  /\ b.entries \in [0..m-1 -> T] /\ b.read_index \in 0..m-1 /\ b.write_index \in 0..m-1
         /\ b.count \in 0..m /\ b.count \in Nat
         /\ b.write_index = Wrap(b.read_index + b.count, m)
         /\ Contents(b, m) = [i \in 1..b.count |-> b.entries[Wrap(b.read_index + i - 1, m)]]
         /\ Contents(b, m) \in Seq(T) /\ Len(Contents(b, m)) = b.count
<1>1. /\ b.entries \in [0..m-1 -> T] /\ b.read_index \in 0..m-1 /\ b.write_index \in 0..m-1
      /\ b.count \in 0..m /\ b.write_index = Wrap(b.read_index + b.count, m)
      BY DEF RingOf, Buffers
<1>n. b.count \in Nat
      BY <1>1
<1>2. Contents(b, m) = [i \in 1..b.count |-> b.entries[Wrap(b.read_index + i - 1, m)]]
      BY DEF Contents, Wrap
<1>3. ASSUME NEW i \in 1..b.count PROVE b.entries[Wrap(b.read_index + i - 1, m)] \in T
  <2>1. b.read_index + i - 1 \in 0..2*m-1
        BY <1>1
  <2>2. Wrap(b.read_index + i - 1, m) \in 0..m-1
        BY <2>1, WrapIs
  <2>3. QED
        BY <1>1, <2>2
<1>4. Contents(b, m) \in [1..b.count -> T]
      BY <1>2, <1>3
<1>5. Contents(b, m) \in Seq(T) /\ Len(Contents(b, m)) = b.count
      BY <1>n, <1>4
<1>6. QED
      BY <1>1, <1>n, <1>2, <1>5

LEMMA PushAppends ==
  ASSUME NEW T, NEW m \in Nat \ {0}, NEW b \in RingOf(T, m), NEW v \in T, ~full(b, m)
  PROVE  /\ try_push(b, v, m) \in RingOf(T, m)
         /\ Contents(try_push(b, v, m), m) = Append(Contents(b, m), v)
<1> DEFINE p == try_push(b, v, m)
<1>b. /\ b.entries \in [0..m-1 -> T] /\ b.read_index \in 0..m-1 /\ b.write_index \in 0..m-1
      /\ b.count \in 0..m /\ b.count \in Nat
      /\ b.write_index = Wrap(b.read_index + b.count, m)
      BY RingFacts
<1>c. b.count \in 0..m-1
      BY <1>b DEF full
<1>1. /\ p.entries = [b.entries EXCEPT ![b.write_index] = v]
      /\ p.read_index = b.read_index /\ p.write_index = Wrap(b.write_index + 1, m)
      /\ p.count = b.count + 1
      /\ p = [entries |-> p.entries, read_index |-> p.read_index,
              write_index |-> p.write_index, count |-> p.count]
      BY DEF try_push, full, RingOf, Buffers, Wrap
<1> HIDE DEF p
<1>2. p.write_index = Wrap(p.read_index + p.count, m)
      BY <1>b, <1>c, <1>1, WriteMoves
<1>3. Wrap(b.write_index + 1, m) \in 0..m-1
  <2>1. b.write_index + 1 \in 0..2*m-1
        BY <1>b
  <2>2. QED
        BY <2>1, WrapIs
<1>4. p \in RingOf(T, m)
  <2>1. p.entries \in [0..m-1 -> T]
        BY <1>b, <1>1
  <2>2. p.read_index \in 0..m-1 /\ p.write_index \in 0..m-1 /\ p.count \in 0..m
        BY <1>b, <1>c, <1>1, <1>3
  <2>3. p \in Buffers(T, m)
        BY <1>1, <2>1, <2>2 DEF Buffers
  <2>4. QED
        BY <1>2, <2>3 DEF RingOf
<1>5. /\ Contents(p, m) = [i \in 1..b.count + 1 |-> p.entries[Wrap(b.read_index + i - 1, m)]]
      /\ Contents(p, m) \in Seq(T) /\ Len(Contents(p, m)) = b.count + 1
  <2>1. /\ Contents(p, m) = [i \in 1..p.count |-> p.entries[Wrap(p.read_index + i - 1, m)]]
        /\ Contents(p, m) \in Seq(T) /\ Len(Contents(p, m)) = p.count
        BY <1>4, RingFacts
  <2>2. QED
        BY <1>1, <2>1
<1>6. /\ Contents(b, m) = [i \in 1..b.count |-> b.entries[Wrap(b.read_index + i - 1, m)]]
      /\ Contents(b, m) \in Seq(T) /\ Len(Contents(b, m)) = b.count
      BY RingFacts
<1>7. ASSUME NEW i \in 1..b.count
      PROVE  p.entries[Wrap(b.read_index + i - 1, m)] = Contents(b, m)[i]
  <2>1. Wrap(b.read_index + i - 1, m) # b.write_index
        BY <1>b, <1>c, SlotsDiffer
  <2>2. QED
        BY <1>b, <1>1, <1>6, <2>1
<1>8. p.entries[Wrap(b.read_index + (b.count + 1) - 1, m)] = v
  <2>1. b.read_index + (b.count + 1) - 1 = b.read_index + b.count
        BY <1>b
  <2>2. QED
        BY <1>b, <1>1, <2>1
<1>9. /\ Append(Contents(b, m), v) \in Seq(T) /\ Len(Append(Contents(b, m), v)) = b.count + 1
      /\ \A i \in 1..b.count + 1 :
           Append(Contents(b, m), v)[i] = IF i = b.count + 1 THEN v ELSE Contents(b, m)[i]
  <2> DEFINE c == Contents(b, m)
  <2>1. c \in Seq(T) /\ Len(c) = b.count
        BY <1>6
  <2> HIDE DEF c
  <2>2. /\ Append(c, v) \in Seq(T) /\ Len(Append(c, v)) = Len(c) + 1
        /\ \A i \in 1..Len(c) + 1 : Append(c, v)[i] = IF i = Len(c) + 1 THEN v ELSE c[i]
        BY <2>1
  <2>3. QED
        BY <2>1, <2>2 DEF c
<1>10. ASSUME NEW i \in 1..b.count + 1
       PROVE  p.entries[Wrap(b.read_index + i - 1, m)] =
                IF i = b.count + 1 THEN v ELSE Contents(b, m)[i]
  <2>1. CASE i = b.count + 1
        BY <1>8, <2>1
  <2>2. CASE i # b.count + 1
    <3>1. i \in 1..b.count
          BY <1>b, <2>2
    <3>2. QED
          BY <1>7, <2>2, <3>1
  <2>3. QED
        BY <2>1, <2>2
<1>11. Contents(p, m) = Append(Contents(b, m), v)
  <2>1. \A i \in 1..b.count + 1 : Contents(p, m)[i] = Append(Contents(b, m), v)[i]
        BY <1>5, <1>9, <1>10
  <2>2. QED
        BY <1>5, <1>9, <2>1, SeqEqual
<1>12. QED
       BY <1>4, <1>11 DEF p

LEMMA DropRemovesHead ==
  ASSUME NEW T, NEW m \in Nat \ {0}, NEW b \in RingOf(T, m), ~empty(b)
  PROVE  /\ drop_oldest(b, m) \in RingOf(T, m)
         /\ b.count > 0 /\ Contents(b, m)[1] = peek(b)
         /\ Contents(drop_oldest(b, m), m) = Tail(Contents(b, m))
<1> DEFINE p == drop_oldest(b, m)
<1>b. /\ b.entries \in [0..m-1 -> T] /\ b.read_index \in 0..m-1 /\ b.write_index \in 0..m-1
      /\ b.count \in 0..m /\ b.count \in Nat
      /\ b.write_index = Wrap(b.read_index + b.count, m)
      BY RingFacts
<1>c. b.count > 0 /\ b.count - 1 \in 0..m-1
      BY <1>b DEF empty
<1>1. /\ p.entries = b.entries
      /\ p.read_index = Wrap(b.read_index + 1, m) /\ p.write_index = b.write_index
      /\ p.count = b.count - 1
      /\ p = [entries |-> p.entries, read_index |-> p.read_index,
              write_index |-> p.write_index, count |-> p.count]
      BY DEF drop_oldest, empty, RingOf, Buffers, Wrap
<1> HIDE DEF p
<1>2. p.write_index = Wrap(p.read_index + p.count, m)
  <2>1. Wrap(Wrap(b.read_index + 1, m) + (b.count - 1), m) = Wrap(b.read_index + 1 + (b.count - 1), m)
        BY <1>b, <1>c, SlotOfNext
  <2>2. b.read_index + 1 + (b.count - 1) = b.read_index + b.count
        BY <1>b
  <2>3. QED
        BY <1>b, <1>1, <2>1, <2>2
<1>3. Wrap(b.read_index + 1, m) \in 0..m-1
  <2>1. b.read_index + 1 \in 0..2*m-1
        BY <1>b
  <2>2. QED
        BY <2>1, WrapIs
<1>4. p \in RingOf(T, m)
  <2>1. p.count \in 0..m
        BY <1>b, <1>c, <1>1
  <2>2. p \in Buffers(T, m)
        BY <1>b, <1>1, <1>3, <2>1 DEF Buffers
  <2>3. QED
        BY <1>2, <2>2 DEF RingOf
<1>5. Contents(p, m) =
        [i \in 1..b.count - 1 |-> b.entries[Wrap(Wrap(b.read_index + 1, m) + i - 1, m)]]
      BY <1>1, <1>4, RingFacts
<1>6. /\ Contents(b, m) = [i \in 1..b.count |-> b.entries[Wrap(b.read_index + i - 1, m)]]
      /\ Contents(b, m) \in Seq(T) /\ Len(Contents(b, m)) = b.count
      BY RingFacts
<1>7. ASSUME NEW i \in 1..b.count - 1
      PROVE  b.entries[Wrap(Wrap(b.read_index + 1, m) + i - 1, m)] = Contents(b, m)[i + 1]
  <2>1. i - 1 \in 0..m-1 /\ i + 1 \in 1..b.count
        BY <1>b
  <2>2. Wrap(Wrap(b.read_index + 1, m) + (i - 1), m) = Wrap(b.read_index + 1 + (i - 1), m)
        BY <1>b, <2>1, SlotOfNext
  <2>3. /\ b.read_index + 1 + (i - 1) = b.read_index + (i + 1) - 1
        /\ Wrap(b.read_index + 1, m) + (i - 1) = Wrap(b.read_index + 1, m) + i - 1
        BY <1>b, <1>3
  <2>4. QED
        BY <1>6, <2>1, <2>2, <2>3
<1>8. /\ Tail(Contents(b, m)) \in Seq(T) /\ Len(Tail(Contents(b, m))) = b.count - 1
      /\ \A i \in 1..b.count - 1 : Tail(Contents(b, m))[i] = Contents(b, m)[i + 1]
  <2>1. Contents(b, m) # <<>>
    <3>1. ASSUME Contents(b, m) = <<>> PROVE FALSE
      <4>1. Len(Contents(b, m)) = 0
            BY <3>1
      <4>2. QED
            BY <1>6, <1>c, <4>1
    <3>2. QED
          BY <3>1
  <2>2. QED
        BY <1>6, <2>1, HeadTailProperties
<1>9. Contents(b, m)[1] = peek(b)
  <2>1. b.read_index + 1 - 1 = b.read_index /\ 1 \in 1..b.count /\ b.read_index \in 0..2*m-1
        /\ b.read_index < m
        BY <1>b, <1>c
  <2>2. Wrap(b.read_index, m) = b.read_index
        BY <2>1, WrapIs
  <2>3. QED
        BY <1>6, <2>1, <2>2 DEF peek
<1>10. Contents(p, m) = Tail(Contents(b, m))
  <2>1. Contents(p, m) \in Seq(T) /\ Len(Contents(p, m)) = b.count - 1
        BY <1>1, <1>4, RingFacts
  <2>2. \A i \in 1..b.count - 1 : Contents(p, m)[i] = Tail(Contents(b, m))[i]
        BY <1>5, <1>7, <1>8
  <2>3. QED
        BY <1>8, <2>1, <2>2, SeqEqual
<1>11. QED
       BY <1>4, <1>c, <1>9, <1>10 DEF p

LEMMA NewIsEmpty ==
  ASSUME NEW T, NEW m \in Nat \ {0}, NEW blank \in T
  PROVE  NewBuffer(blank, m) \in RingOf(T, m) /\ Contents(NewBuffer(blank, m), m) = <<>>
<1> DEFINE p == NewBuffer(blank, m)
<1>1. 0 \in 0..m-1 /\ 0 \in 0..m /\ 0 \in 0..2*m-1 /\ 0 < m
      OBVIOUS
<1>2. Wrap(0, m) = 0
      BY <1>1, WrapIs
<1>3. p \in Buffers(T, m) /\ p.write_index = 0 /\ p.read_index + p.count = 0 /\ p.count = 0
      BY <1>1 DEF NewBuffer, Buffers
<1> HIDE DEF p
<1>4. p \in RingOf(T, m)
      BY <1>2, <1>3 DEF RingOf
<1>5. Contents(p, m) \in Seq(T) /\ Len(Contents(p, m)) = 0
      BY <1>3, <1>4, RingFacts
<1>6. Contents(p, m) = <<>>
      BY <1>5
<1>7. QED
      BY <1>4, <1>6 DEF p

-----------------------------------------------------------------------------
(***************************************************************************)
(* The offline queue and what is in it.                                    *)
(***************************************************************************)
Slots == Messages \cup {Blank}

CacheTypeOK ==
  /\ cache \in [CacheLines -> [id : Ids \cup {Blank}, status : Statuses \cup {Blank}]]
  /\ cache_index \in CacheLines
  /\ \A i \in CacheLines : cache[i].id \in Ids => cache[i].status \in Statuses

QueueTypeOK ==
  /\ queue \in RingOf(Slots, Depth)
  /\ dropped \in Nat /\ next_seq \in 0..MaxTelemetry

QueueInv == CacheTypeOK /\ QueueTypeOK

(* What an enqueue makes of the queue. *)
LEMMA EnqueueIs ==
  ASSUME QueueTypeOK, NEW message \in Messages, NEW allow_drop \in BOOLEAN,
         enqueue(message, allow_drop)
  PROVE  /\ queue' \in RingOf(Slots, Depth)
         /\ \/ /\ full(queue, Depth) /\ allow_drop
               /\ Contents(queue', Depth) = Append(Tail(Contents(queue, Depth)), message)
               /\ Len(Contents(queue, Depth)) = Depth
               /\ dropped' = dropped + 1
            \/ /\ full(queue, Depth) /\ ~allow_drop
               /\ queue' = queue /\ dropped' = dropped
            \/ /\ ~full(queue, Depth)
               /\ Contents(queue', Depth) = Append(Contents(queue, Depth), message)
               /\ Len(Contents(queue, Depth)) < Depth
               /\ dropped' = dropped
<1>t. /\ Depth \in Nat \ {0} /\ queue \in RingOf(Slots, Depth) /\ message \in Slots
      BY MessagingAssumption DEF QueueTypeOK, Slots
<1>c. /\ queue.count \in 0..Depth /\ Len(Contents(queue, Depth)) = queue.count
      BY <1>t, RingFacts
<1>1. CASE full(queue, Depth) /\ allow_drop
  <2> DEFINE q == drop_oldest(queue, Depth)
  <2>1. ~empty(queue)
        BY <1>1, <1>t DEF full, empty
  <2>2. q \in RingOf(Slots, Depth) /\ Contents(q, Depth) = Tail(Contents(queue, Depth))
        BY <1>t, <2>1, DropRemovesHead
  <2>3. ~full(q, Depth)
    <3>1. q.count = queue.count - 1
          BY <2>1, <1>t DEF drop_oldest, RingOf, Buffers
    <3>2. QED
          BY <3>1, <1>c, <1>t DEF full
  <2>4. queue' = try_push(q, message, Depth) /\ dropped' = dropped + 1
        BY <1>1 DEF enqueue
  <2> HIDE DEF q
  <2>r. q \in RingOf(Slots, Depth)
        BY <2>2
  <2>5. /\ try_push(q, message, Depth) \in RingOf(Slots, Depth)
        /\ Contents(try_push(q, message, Depth), Depth) = Append(Contents(q, Depth), message)
        BY <1>t, <2>r, <2>3, PushAppends
  <2>6. QED
        BY <1>1, <1>c, <2>2, <2>4, <2>5 DEF full
<1>2. CASE full(queue, Depth) /\ ~allow_drop
      BY <1>2, <1>t DEF enqueue, try_push
<1>3. CASE ~full(queue, Depth)
  <2>1. queue' = try_push(queue, message, Depth) /\ dropped' = dropped
        BY <1>3 DEF enqueue
  <2>2. /\ try_push(queue, message, Depth) \in RingOf(Slots, Depth)
        /\ Contents(try_push(queue, message, Depth), Depth)
             = Append(Contents(queue, Depth), message)
        BY <1>t, <1>3, PushAppends
  <2>3. Len(Contents(queue, Depth)) < Depth
        BY <1>c, <1>3, <1>t DEF full
  <2>4. QED
        BY <1>3, <2>1, <2>2, <2>3
<1>4. QED
      BY <1>1, <1>2, <1>3

(* The answers, and the telemetry records, are messages. *)
LEMMA AnswerIsMessage ==
  ASSUME NEW id \in Ids \cup {Blank}, NEW status \in Statuses
  PROVE  /\ [id |-> id, status |-> status] \in Responses
         /\ [id |-> id, status |-> status] \in Messages
BY DEF Messages, Responses

LEMMA RecordIsMessage ==
  ASSUME QueueTypeOK, next_seq < MaxTelemetry
  PROVE  /\ [seq |-> next_seq] \in Telemetry /\ [seq |-> next_seq] \in Messages
         /\ next_seq + 1 \in 0..MaxTelemetry
<1>1. next_seq \in 0..MaxTelemetry-1 /\ next_seq + 1 \in 0..MaxTelemetry
      BY MessagingAssumption DEF QueueTypeOK
<1>2. QED
      BY <1>1 DEF Telemetry, Messages

(* Every way to answer: who is answered, what, and whether it is cached. *)
Answers(id, status) ==
  /\ id \in Ids \cup {Blank} /\ status \in Statuses
  /\ respond(id, status)

LEMMA EveryAnswer ==
  ASSUME QueueInv, NEW id \in Ids
  PROVE  /\ OnCorruptMessage => Answers(Blank, "corrupt")
         /\ OnRepeatedCommand(id) => \E status : Answers(id, status)
         /\ OnDeniedCommand(id) => Answers(id, "denied") /\ Decide(id, "denied", FALSE)
         /\ \A name : OnUnknownCommand(id, name)
                        => Answers(id, "not_found") /\ Decide(id, "not_found", FALSE)
         /\ \A name : OnCommand(id, name)
                        => \E status \in Statuses : Answers(id, status) /\ Decide(id, status, TRUE)
<1>1. OnCorruptMessage => Answers(Blank, "corrupt")
      BY DEF OnCorruptMessage, Answers, Statuses
<1>2. ASSUME OnRepeatedCommand(id) PROVE \E status : Answers(id, status)
  <2>1. PICK i \in find_cached(id) : respond(id, cache[i].status)
        BY <1>2 DEF OnRepeatedCommand
  <2>2. cache[i].status \in Statuses
        BY <2>1 DEF find_cached, QueueInv, CacheTypeOK
  <2>3. Answers(id, cache[i].status)
        BY <2>1, <2>2 DEF Answers
  <2>4. QED
        BY <2>3
<1>3. OnDeniedCommand(id) => Answers(id, "denied") /\ Decide(id, "denied", FALSE)
      BY DEF OnDeniedCommand, Decide, Answers, Statuses
<1>4. \A name : OnUnknownCommand(id, name)
                  => Answers(id, "not_found") /\ Decide(id, "not_found", FALSE)
      BY DEF OnUnknownCommand, Decide, Answers, Statuses
<1>5. ASSUME NEW name, OnCommand(id, name)
      PROVE  \E status \in Statuses : Answers(id, status) /\ Decide(id, status, TRUE)
  <2>1. PICK status \in HandlerStatuses : Decide(id, status, TRUE)
        BY <1>5 DEF OnCommand
  <2>2. status \in Statuses /\ Answers(id, status)
        BY <2>1 DEF Decide, Answers, Statuses
  <2>3. QED
        BY <2>1, <2>2
<1>6. QED
      BY <1>1, <1>2, <1>3, <1>4, <1>5

-----------------------------------------------------------------------------
(***************************************************************************)
(* Every step leaves the queue's contents alone, adds a message at their   *)
(* end - dropping the oldest when, and only when, a telemetry record finds *)
(* the queue full - or removes the oldest.                                 *)
(***************************************************************************)
Kept == Contents(queue', Depth) = Contents(queue, Depth) /\ dropped' = dropped

Added(message) ==
  /\ Len(Contents(queue, Depth)) < Depth
  /\ Contents(queue', Depth) = Append(Contents(queue, Depth), message)
  /\ dropped' = dropped

PushedOut(message) ==
  /\ Len(Contents(queue, Depth)) = Depth
  /\ Contents(queue', Depth) = Append(Tail(Contents(queue, Depth)), message)
  /\ dropped' = dropped + 1

Removed ==
  /\ Contents(queue, Depth) # <<>>
  /\ Contents(queue', Depth) = Tail(Contents(queue, Depth))
  /\ dropped' = dropped

LEMMA PublishStep ==
  ASSUME QueueInv, PublishTelemetry
  PROVE  /\ QueueTypeOK' /\ [seq |-> next_seq] \in Messages
         /\ \/ /\ Kept /\ at_broker' = Sent([seq |-> next_seq])
               /\ acked' = [seq |-> next_seq]
            \/ /\ at_broker' \in {at_broker, Sent([seq |-> next_seq])} /\ acked' = Blank
               /\ Added([seq |-> next_seq]) \/ PushedOut([seq |-> next_seq])
<1> DEFINE m == [seq |-> next_seq]
<1>1. /\ m \in Messages /\ next_seq' \in 0..MaxTelemetry
      BY RecordIsMessage DEF QueueInv, PublishTelemetry
<1>2. /\ \/ PublishOk(m) /\ UNCHANGED <<queue, dropped>>
         \/ NotSent(m) /\ enqueue(m, TRUE)
      BY DEF PublishTelemetry
<1> HIDE DEF m
<1>3. CASE PublishOk(m) /\ UNCHANGED <<queue, dropped>>
  <2>1. QueueTypeOK' /\ Kept /\ at_broker' = Sent(m) /\ acked' = m
        BY <1>1, <1>3 DEF QueueInv, QueueTypeOK, Kept, PublishOk
  <2>2. QED
        BY <1>1, <2>1 DEF m
<1>4. CASE NotSent(m) /\ enqueue(m, TRUE)
  <2>1. at_broker' \in {at_broker, Sent(m)} /\ acked' = Blank
        BY <1>4 DEF NotSent, PublishFails
  <2>2. queue' \in RingOf(Slots, Depth) /\ (Added(m) \/ PushedOut(m)) /\ dropped' \in Nat
    <3>1. TRUE \in BOOLEAN
          OBVIOUS
    <3>2. /\ queue' \in RingOf(Slots, Depth)
          /\ Added(m) \/ PushedOut(m)
          BY <1>1, <1>4, <3>1, EnqueueIs DEF QueueInv, Added, PushedOut
    <3>3. QED
          BY <3>2 DEF QueueInv, QueueTypeOK, Added, PushedOut
  <2>3. QueueTypeOK'
        BY <1>1, <2>2 DEF QueueTypeOK
  <2>4. QED
        BY <1>1, <2>1, <2>2, <2>3 DEF m
<1>5. QED
      BY <1>2, <1>3, <1>4

LEMMA ReplayStep ==
  ASSUME QueueInv, ReplayOne
  PROVE  /\ QueueTypeOK'
         /\ \/ /\ Kept /\ at_broker' \in {at_broker, Sent(Contents(queue, Depth)[1])}
               /\ acked' = Blank
            \/ /\ Removed /\ at_broker' = Sent(Contents(queue, Depth)[1])
               /\ acked' = Contents(queue, Depth)[1]
<1>1. /\ Depth \in Nat \ {0} /\ queue \in RingOf(Slots, Depth) /\ ~empty(queue)
      /\ dropped' = dropped /\ next_seq' = next_seq /\ dropped \in Nat /\ next_seq \in 0..MaxTelemetry
      BY MessagingAssumption DEF QueueInv, QueueTypeOK, ReplayOne
<1>2. /\ drop_oldest(queue, Depth) \in RingOf(Slots, Depth)
      /\ queue.count > 0 /\ Contents(queue, Depth)[1] = peek(queue)
      /\ Contents(drop_oldest(queue, Depth), Depth) = Tail(Contents(queue, Depth))
      BY <1>1, DropRemovesHead
<1>3. Contents(queue, Depth) \in Seq(Slots) /\ Len(Contents(queue, Depth)) = queue.count
      BY <1>1, RingFacts
<1>4. Contents(queue, Depth) # <<>>
  <2>1. ASSUME Contents(queue, Depth) = <<>> PROVE FALSE
    <3>1. Len(Contents(queue, Depth)) = 0
          BY <2>1
    <3>2. QED
          BY <1>2, <1>3, <3>1
  <2>2. QED
        BY <2>1
<1>5. CASE PublishOk(peek(queue)) /\ queue' = drop_oldest(queue, Depth)
      BY <1>1, <1>2, <1>4, <1>5 DEF QueueTypeOK, Removed, PublishOk
<1>6. CASE PublishFails(peek(queue)) /\ UNCHANGED queue
      BY <1>1, <1>2, <1>6 DEF QueueTypeOK, Kept, PublishFails
<1>7. QED
      BY <1>5, <1>6 DEF ReplayOne

LEMMA AnswerStep ==
  ASSUME QueueInv, NEW id, NEW status, Answers(id, status)
  PROVE  /\ QueueTypeOK' /\ next_seq' = next_seq
         /\ \/ Kept /\ acked' \in Responses \cup {Blank}
            \/ \E message \in Responses : Added(message) /\ acked' = Blank
         /\ at_broker \subseteq at_broker'
<1> DEFINE m == [id |-> id, status |-> status]
<1>1. m \in Responses /\ m \in Messages
      BY AnswerIsMessage DEF Answers
<1>2. /\ \/ PublishOk(m) /\ UNCHANGED <<queue, dropped>>
         \/ NotSent(m) /\ enqueue(m, FALSE)
      /\ next_seq' = next_seq
      BY DEF Answers, respond
<1> HIDE DEF m
<1>3. at_broker \subseteq at_broker'
      BY <1>2 DEF PublishOk, NotSent, PublishFails, Sent
<1>4. CASE PublishOk(m) /\ UNCHANGED <<queue, dropped>>
      BY <1>1, <1>2, <1>3, <1>4 DEF QueueInv, QueueTypeOK, Kept, PublishOk
<1>5. CASE NotSent(m) /\ enqueue(m, FALSE)
  <2>p. acked' = Blank
        BY <1>5 DEF NotSent, PublishFails
  <2>1. FALSE \in BOOLEAN
        OBVIOUS
  <2>2. queue' \in RingOf(Slots, Depth) /\ (Kept \/ Added(m)) /\ dropped' = dropped
        BY <1>1, <1>5, <2>1, EnqueueIs DEF QueueInv, Added, Kept
  <2>3. QueueTypeOK'
        BY <1>2, <2>2 DEF QueueInv, QueueTypeOK
  <2>4. QED
        BY <1>1, <1>2, <1>3, <2>p, <2>2, <2>3
<1>6. QED
      BY <1>2, <1>4, <1>5

LEMMA QueueSteps ==
  ASSUME QueueInv, [MessagingNext]_messagingVars
  PROVE  \/ PublishTelemetry \/ ReplayOne
         \/ \E id, status : Answers(id, status)
         \/ /\ UNCHANGED <<queue, dropped, next_seq, at_broker>>
            /\ acked' \in {acked, Blank}
<1>1. CASE SetConnected \/ \E name \in Names : AddHandler(name)
      BY <1>1 DEF SetConnected, AddHandler
<1>2. CASE UNCHANGED messagingVars
      BY <1>2 DEF messagingVars
<1>3. CASE OnCorruptMessage
  <2>1. \E status \in {"corrupt"} : Answers(Blank, status)
        BY <1>3 DEF OnCorruptMessage, Answers, Statuses
  <2>2. QED
        BY <2>1
<1>4. ASSUME NEW id \in Ids, OnRepeatedCommand(id) \/ OnDeniedCommand(id)
      PROVE  \E i, status : Answers(i, status)
      BY <1>4, EveryAnswer
<1>5. ASSUME NEW id \in Ids, NEW name \in Names, OnUnknownCommand(id, name) \/ OnCommand(id, name)
      PROVE  \E i, status : Answers(i, status)
      BY <1>5, EveryAnswer
<1>6. QED
      BY <1>1, <1>2, <1>3, <1>4, <1>5 DEF MessagingNext

-----------------------------------------------------------------------------
(* The next line of the cache. *)
LEMMA NextLine ==
  ASSUME CacheTypeOK, NEW id \in Ids, NEW status, cache_answer(id, status)
  PROVE  cache_index' = Wrap(cache_index + 1, kIdempotencyWindow) /\ cache_index' \in CacheLines
<1>1. kIdempotencyWindow \in Nat \ {0} /\ cache_index \in 0..kIdempotencyWindow-1
      BY MessagingAssumption DEF CacheTypeOK, CacheLines
<1>2. cache_index + 1 \in 0..2*kIdempotencyWindow-1
      BY <1>1
<1>3. Wrap(cache_index + 1, kIdempotencyWindow) \in 0..kIdempotencyWindow-1
      BY <1>1, <1>2, WrapIs
<1>4. cache_index' = Wrap(cache_index + 1, kIdempotencyWindow)
      BY DEF cache_answer, Wrap
<1>5. QED
      BY <1>3, <1>4 DEF CacheLines

LEMMA DecideKeepsCache ==
  ASSUME QueueInv, NEW id \in Ids, NEW status \in Statuses, NEW ran, Decide(id, status, ran)
  PROVE  CacheTypeOK'
<1>1. /\ cache \in [CacheLines -> [id : Ids \cup {Blank}, status : Statuses \cup {Blank}]]
      /\ cache_index \in CacheLines
      /\ \A i \in CacheLines : cache[i].id \in Ids => cache[i].status \in Statuses
      BY DEF QueueInv, CacheTypeOK
<1>2. cache_answer(id, status)
      BY DEF Decide
<1>3. cache' = [cache EXCEPT ![cache_index] = [id |-> id, status |-> status]]
      BY <1>2 DEF cache_answer
<1>4. cache_index' \in CacheLines
      BY <1>2, NextLine DEF QueueInv
<1>5. cache' \in [CacheLines -> [id : Ids \cup {Blank}, status : Statuses \cup {Blank}]]
      BY <1>1, <1>3
<1>6. \A i \in CacheLines : cache'[i].id \in Ids => cache'[i].status \in Statuses
      BY <1>1, <1>3
<1>7. QED
      BY <1>4, <1>5, <1>6 DEF CacheTypeOK

(* A step caches an answer or leaves the cache and its history alone. *)
CacheStep(id, status, ran) ==
  id \in Ids /\ status \in Statuses /\ ran \in BOOLEAN /\ Decide(id, status, ran)

LEMMA CacheSteps ==
  ASSUME QueueInv, [MessagingNext]_messagingVars
  PROVE  \/ \E id, status, ran : CacheStep(id, status, ran)
         \/ \E id \in Ids : OnRepeatedCommand(id)
         \/ OnCorruptMessage
         \/ UNCHANGED commandVars
<1>1. CASE PublishTelemetry \/ ReplayOne \/ SetConnected \/ \E name \in Names : AddHandler(name)
      BY <1>1 DEF PublishTelemetry, ReplayOne, SetConnected, AddHandler
<1>2. CASE UNCHANGED messagingVars
      BY <1>2 DEF messagingVars, commandVars
<1>3. ASSUME NEW id \in Ids, OnDeniedCommand(id)
      PROVE  \E i, status, ran : CacheStep(i, status, ran)
  <2>1. CacheStep(id, "denied", FALSE)
        BY <1>3 DEF CacheStep, OnDeniedCommand, Statuses
  <2>2. QED
        BY <2>1
<1>4. ASSUME NEW id \in Ids, NEW name \in Names, OnUnknownCommand(id, name)
      PROVE  \E i, status, ran : CacheStep(i, status, ran)
  <2>1. CacheStep(id, "not_found", FALSE)
        BY <1>4 DEF CacheStep, OnUnknownCommand, Statuses
  <2>2. QED
        BY <2>1
<1>5. ASSUME NEW id \in Ids, NEW name \in Names, OnCommand(id, name)
      PROVE  \E i, status, ran : CacheStep(i, status, ran)
  <2>1. PICK status \in HandlerStatuses : Decide(id, status, TRUE)
        BY <1>5 DEF OnCommand
  <2>2. CacheStep(id, status, TRUE)
        BY <2>1 DEF CacheStep, Statuses
  <2>3. QED
        BY <2>2
<1>6. QED
      BY <1>1, <1>2, <1>3, <1>4, <1>5 DEF MessagingNext

LEMMA QueueStarts == MessagingInit => QueueInv
<1>1. ASSUME MessagingInit PROVE QueueTypeOK
  <2>1. Depth \in Nat \ {0} /\ Blank \in Slots /\ 0 \in 0..MaxTelemetry /\ 0 \in Nat
        BY MessagingAssumption DEF Slots
  <2>2. NewBuffer(Blank, Depth) \in RingOf(Slots, Depth)
        BY <2>1, NewIsEmpty
  <2>3. QED
        BY <1>1, <2>1, <2>2 DEF MessagingInit, QueueTypeOK
<1>2. ASSUME MessagingInit PROVE CacheTypeOK
  <2>1. 0 \in CacheLines
        BY MessagingAssumption DEF CacheLines
  <2>2. QED
        BY <1>2, <2>1, MessagingAssumption DEF MessagingInit, CacheTypeOK, EmptyLine
<1>3. QED
      BY <1>1, <1>2 DEF QueueInv

LEMMA QueueStepKeeps == QueueInv /\ [MessagingNext]_messagingVars => QueueInv'
<1> SUFFICES ASSUME QueueInv, [MessagingNext]_messagingVars PROVE QueueInv'
    OBVIOUS
<1>1. QueueTypeOK'
  <2>1. CASE PublishTelemetry
        BY <2>1, PublishStep
  <2>2. CASE ReplayOne
        BY <2>2, ReplayStep
  <2>3. CASE \E id, status : Answers(id, status)
        BY <2>3, AnswerStep
  <2>4. CASE UNCHANGED <<queue, dropped, next_seq, at_broker>>
        BY <2>4 DEF QueueInv, QueueTypeOK
  <2>5. QED
        BY <2>1, <2>2, <2>3, <2>4, QueueSteps
<1>2. CacheTypeOK'
  <2>1. ASSUME NEW id, NEW status, NEW ran, CacheStep(id, status, ran) PROVE CacheTypeOK'
        BY <2>1, DecideKeepsCache DEF CacheStep
  <2>2. CASE UNCHANGED <<cache, cache_index>>
        BY <2>2 DEF QueueInv, CacheTypeOK
  <2>3. QED
        BY <2>1, <2>2, CacheSteps DEF OnRepeatedCommand, OnCorruptMessage, commandVars
<1>3. QED
      BY <1>1, <1>2 DEF QueueInv

(***************************************************************************)
(* The offline queue's indices and count always agree, so what it holds is *)
(* a sequence of messages, and every line of the answer cache is empty or  *)
(* an answer (OfflineQueue, CommandDispatcher::cache).                     *)
(***************************************************************************)
THEOREM QueueInvariant == MessagingSpec => []QueueInv
<1>1. MessagingInit => QueueInv
      BY QueueStarts
<1>2. QueueInv /\ [MessagingNext]_messagingVars => QueueInv'
      BY QueueStepKeeps
<1>3. QED
      BY <1>1, <1>2, PTL DEF MessagingSpec

-----------------------------------------------------------------------------
(***************************************************************************)
(* No telemetry record vanishes.                                           *)
(***************************************************************************)
Held(s) == { s[i] : i \in 1..Len(s) }

LEMMA HeldAfterAppend ==
  ASSUME NEW T, NEW s \in Seq(T), NEW v \in T
  PROVE  Held(s) \subseteq Held(Append(s, v)) /\ v \in Held(Append(s, v))
<1> DEFINE a == Append(s, v)
<1>1. /\ Len(a) = Len(s) + 1 /\ Len(s) \in Nat
      /\ \A i \in 1..Len(s) : a[i] = s[i]
      /\ a[Len(s) + 1] = v
      OBVIOUS
<1> HIDE DEF a
<1>2. ASSUME NEW x \in Held(s) PROVE x \in Held(a)
  <2>1. PICK i \in 1..Len(s) : x = s[i]
        BY DEF Held
  <2>2. i \in 1..Len(a) /\ a[i] = x
        BY <1>1, <2>1
  <2>3. QED
        BY <2>2 DEF Held
<1>3. v \in Held(a)
  <2>1. Len(s) + 1 \in 1..Len(a)
        BY <1>1
  <2>2. QED
        BY <1>1, <2>1 DEF Held
<1>4. QED
      BY <1>2, <1>3 DEF a

LEMMA HeldAfterTail ==
  ASSUME NEW T, NEW s \in Seq(T), s # <<>>
  PROVE  Held(s) \subseteq {s[1]} \cup Held(Tail(s))
<1>1. /\ Tail(s) \in Seq(T) /\ Len(Tail(s)) = Len(s) - 1 /\ Len(s) \in Nat
      /\ \A i \in 1..Len(s) - 1 : Tail(s)[i] = s[i + 1]
      BY HeadTailProperties
<1> DEFINE t == Tail(s)
<1> HIDE DEF t
<1>2. ASSUME NEW x \in Held(s), x # s[1] PROVE x \in Held(t)
  <2>1. PICK i \in 1..Len(s) : x = s[i]
        BY DEF Held
  <2>2. i - 1 \in 1..Len(s) - 1 /\ (i - 1) + 1 = i
        BY <1>1, <1>2, <2>1
  <2>3. t[i - 1] = x /\ i - 1 \in 1..Len(t)
        BY <1>1, <2>1, <2>2 DEF t
  <2>4. QED
        BY <2>3 DEF Held
<1>3. QED
      BY <1>2 DEF t

Lost == { s \in 0..next_seq-1 : s \notin at_broker /\ [seq |-> s] \notin Queued }

LEMMA QueuedIs ==
  ASSUME QueueTypeOK
  PROVE  /\ Queued = Held(Contents(queue, Depth)) /\ Contents(queue, Depth) \in Seq(Slots)
         /\ Len(Contents(queue, Depth)) = queue.count
<1>1. Len(Contents(queue, Depth)) = queue.count /\ Contents(queue, Depth) \in Seq(Slots)
      BY MessagingAssumption, RingFacts DEF QueueTypeOK
<1>2. QED
      BY <1>1, Zenon DEF Queued, Held

LEMMA QueuedNextIs ==
  ASSUME QueueTypeOK'
  PROVE  /\ Queued' = Held(Contents(queue', Depth)) /\ Contents(queue', Depth) \in Seq(Slots)
<1>1. Len(Contents(queue', Depth)) = queue'.count /\ Contents(queue', Depth) \in Seq(Slots)
      BY MessagingAssumption, RingFacts DEF QueueTypeOK
<1>2. Queued' = { Contents(queue', Depth)[i] : i \in 1..queue'.count }
      BY DEF Queued, Contents
<1>3. QED
      BY <1>1, <1>2, Zenon DEF Held

(* A smaller set of lost records, or one with a record more, is as small as it should be. *)
LEMMA LostIsCounted ==
  ASSUME QueueTypeOK, QueueTypeOK', NothingVanishes,
         \/ Lost' \subseteq Lost /\ dropped' = dropped
         \/ (\E x : Lost' \subseteq Lost \cup {x}) /\ dropped' = dropped + 1
  PROVE  NothingVanishes'
<1>1. IsFiniteSet(Lost) /\ Cardinality(Lost) \in Nat /\ Cardinality(Lost) <= dropped
  <2>1. next_seq \in Int /\ next_seq - 1 \in Int /\ 0 \in Int
        BY DEF QueueTypeOK
  <2>2. IsFiniteSet(0..next_seq-1)
        BY <2>1, FS_Interval
  <2>3. IsFiniteSet(Lost)
        BY <2>2, FS_Subset DEF Lost
  <2>4. QED
        BY <2>3, FS_CardinalityType DEF NothingVanishes, Lost
<1>2. CASE Lost' \subseteq Lost /\ dropped' = dropped
  <2>1. Cardinality(Lost') <= Cardinality(Lost) /\ Cardinality(Lost') \in Nat
        BY <1>1, <1>2, FS_Subset, FS_CardinalityType
  <2>2. Cardinality(Lost') <= dropped'
        BY <1>1, <1>2, <2>1 DEF QueueTypeOK
  <2>3. QED
        BY <2>2 DEF NothingVanishes, Lost
<1>3. ASSUME NEW x, Lost' \subseteq Lost \cup {x}, dropped' = dropped + 1
      PROVE  NothingVanishes'
  <2> DEFINE more == Lost \cup {x}
  <2>1. /\ IsFiniteSet(more) /\ Cardinality(more) \in Nat
        /\ Cardinality(more) <= Cardinality(Lost) + 1
    <3>1. /\ IsFiniteSet(more)
          /\ Cardinality(more) = IF x \in Lost THEN Cardinality(Lost) ELSE Cardinality(Lost) + 1
          BY <1>1, FS_AddElement, Zenon
    <3>2. QED
          BY <1>1, <3>1
  <2>2. Lost' \subseteq more
        BY <1>3
  <2> HIDE DEF more
  <2>3. Cardinality(Lost') <= Cardinality(more) /\ Cardinality(Lost') \in Nat
        BY <2>1, <2>2, FS_Subset, FS_CardinalityType
  <2>4. Cardinality(Lost') <= dropped'
        BY <1>1, <1>3, <2>1, <2>3 DEF QueueTypeOK
  <2>5. QED
        BY <2>4 DEF NothingVanishes, Lost
<1>4. QED
      BY <1>2, <1>3


LEMMA NothingVanishesStep ==
  ASSUME QueueInv, QueueInv', NothingVanishes, [MessagingNext]_messagingVars
  PROVE  NothingVanishes'
<1> DEFINE c == Contents(queue, Depth)
           d == Contents(queue', Depth)
<1>t. QueueTypeOK /\ QueueTypeOK' /\ next_seq \in 0..MaxTelemetry
      BY DEF QueueInv, QueueTypeOK
<1>q. /\ Queued = Held(c) /\ Queued' = Held(d) /\ c \in Seq(Slots) /\ d \in Seq(Slots)
      BY <1>t, QueuedIs, QueuedNextIs
<1>m. \A m \in Messages : m \in Slots
      BY DEF Slots
<1>l. /\ Lost  = { s \in 0..next_seq-1 : s \notin at_broker /\ [seq |-> s] \notin Held(c) }
      /\ Lost' = { s \in 0..next_seq'-1 : s \notin at_broker' /\ [seq |-> s] \notin Held(d) }
      BY <1>q DEF Lost
<1>a. ASSUME NEW m \in Messages, Added(m) PROVE Held(c) \subseteq Held(d) /\ m \in Held(d)
      BY <1>q, <1>m, <1>a, HeldAfterAppend DEF Added
<1>p. ASSUME NEW m \in Messages, PushedOut(m)
      PROVE  Held(c) \subseteq {c[1]} \cup Held(d) /\ m \in Held(d)
  <2> DEFINE t == Tail(c)
  <2>1. c # <<>>
    <3>1. ASSUME c = <<>> PROVE FALSE
      <4>1. Len(c) = 0
            BY <3>1
      <4>2. QED
            BY <1>p, <4>1, MessagingAssumption DEF PushedOut
    <3>2. QED
          BY <3>1
  <2>2. Held(c) \subseteq {c[1]} \cup Held(t) /\ t \in Seq(Slots)
        BY <1>q, <2>1, HeldAfterTail, HeadTailProperties
  <2>3. d = Append(t, m)
        BY <1>p DEF PushedOut
  <2> HIDE DEF t, c, d
  <2>4. Held(t) \subseteq Held(d) /\ m \in Held(d)
        BY <1>m, <2>2, <2>3, HeldAfterAppend
  <2>5. QED
        BY <2>2, <2>4
<1>r. ASSUME Removed PROVE Held(c) \subseteq {c[1]} \cup Held(d)
      BY <1>q, <1>r, HeldAfterTail DEF Removed
<1>s. ASSUME NEW m PROVE at_broker \subseteq Sent(m)
      BY DEF Sent
<1>k. Kept => d = c
      BY DEF Kept
<1> HIDE DEF c, d
<1>1. CASE PublishTelemetry
  <2>1. next_seq' = next_seq + 1 /\ [seq |-> next_seq] \in Telemetry /\ [seq |-> next_seq] \in Messages
        BY <1>1, <1>t, RecordIsMessage DEF PublishTelemetry
  <2>2. next_seq \in Sent([seq |-> next_seq])
        BY <2>1 DEF Sent
  <2>3. \A s \in 0..next_seq'-1 : s \in 0..next_seq-1 \/ s = next_seq
        BY <1>t, <2>1
  <2>4. CASE Kept /\ at_broker' = Sent([seq |-> next_seq])
    <3>1. at_broker \subseteq at_broker' /\ next_seq \in at_broker' /\ d = c
          BY <1>s, <1>k, <2>2, <2>4
    <3>2. Lost' \subseteq Lost /\ dropped' = dropped
          BY <1>l, <2>3, <2>4, <3>1 DEF Kept
    <3>3. QED
          BY <1>t, <3>2, LostIsCounted
  <2>5. CASE at_broker' \in {at_broker, Sent([seq |-> next_seq])} /\ Added([seq |-> next_seq])
    <3>1. at_broker \subseteq at_broker' /\ [seq |-> next_seq] \in Held(d) /\ Held(c) \subseteq Held(d)
          BY <1>s, <1>a, <2>1, <2>5
    <3>2. Lost' \subseteq Lost /\ dropped' = dropped
          BY <1>l, <2>3, <2>5, <3>1 DEF Added
    <3>3. QED
          BY <1>t, <3>2, LostIsCounted
  <2>6. CASE at_broker' \in {at_broker, Sent([seq |-> next_seq])} /\ PushedOut([seq |-> next_seq])
    <3>1. /\ at_broker \subseteq at_broker' /\ [seq |-> next_seq] \in Held(d)
          /\ Held(c) \subseteq {c[1]} \cup Held(d)
          BY <1>s, <1>p, <2>1, <2>6
    <3>2. ASSUME NEW s \in Lost' PROVE s \in Lost \/ [seq |-> s] = c[1]
      <4>1. s \in 0..next_seq'-1 /\ s \notin at_broker' /\ [seq |-> s] \notin Held(d)
            BY <1>l
      <4>2. s # next_seq
            BY <3>1, <4>1
      <4>3. s \in 0..next_seq-1 /\ s \notin at_broker
            BY <2>3, <3>1, <4>1, <4>2
      <4>4. QED
            BY <1>l, <3>1, <4>1, <4>3
    <3>3. \A s : [seq |-> s] = c[1] => s = c[1].seq
      <4>1. ASSUME NEW s, [seq |-> s] = c[1] PROVE s = c[1].seq
        <5>1. [seq |-> s].seq = s
              OBVIOUS
        <5>2. QED
              BY <4>1, <5>1
      <4>2. QED
            BY <4>1
    <3>4. Lost' \subseteq Lost \cup {c[1].seq} /\ dropped' = dropped + 1
          BY <2>6, <3>2, <3>3 DEF PushedOut
    <3>5. \E x : Lost' \subseteq Lost \cup {x}
          BY <3>4
    <3>6. QED
          BY <1>t, <3>4, <3>5, LostIsCounted
  <2>7. QED
        BY <1>1, <2>4, <2>5, <2>6, PublishStep
<1>2. CASE ReplayOne
  <2>1. next_seq' = next_seq /\ dropped' = dropped
        BY <1>2 DEF ReplayOne
  <2>2. CASE Kept /\ at_broker' \in {at_broker, Sent(c[1])}
    <3>1. d = c /\ at_broker \subseteq at_broker'
          BY <1>s, <1>k, <2>2
    <3>2. Lost' \subseteq Lost
          BY <1>l, <2>1, <3>1
    <3>3. QED
          BY <1>t, <2>1, <3>2, LostIsCounted
  <2>3. CASE Removed /\ at_broker' = Sent(c[1])
    <3>1. Held(c) \subseteq {c[1]} \cup Held(d) /\ at_broker \subseteq at_broker'
          BY <1>s, <1>r, <2>3
    <3>2. ASSUME NEW s \in Lost' PROVE s \in Lost
      <4>1. s \in 0..next_seq-1 /\ s \notin at_broker' /\ [seq |-> s] \notin Held(d)
            BY <1>l, <2>1
      <4>2. s \in 0..MaxTelemetry-1
            BY <1>t, <4>1, MessagingAssumption
      <4>3. [seq |-> s] \in Telemetry /\ [seq |-> s].seq = s
            BY <4>2 DEF Telemetry
      <4>4. [seq |-> s] # c[1]
            BY <2>3, <4>1, <4>3 DEF Sent
      <4>5. QED
            BY <1>l, <3>1, <4>1, <4>4
    <3>3. QED
          BY <1>t, <2>1, <3>2, LostIsCounted
  <2>4. QED
        BY <1>2, <2>2, <2>3, ReplayStep DEF c
<1>3. ASSUME NEW id, NEW status, Answers(id, status) PROVE NothingVanishes'
  <2>1. /\ next_seq' = next_seq /\ at_broker \subseteq at_broker'
        /\ Kept \/ \E m \in Messages : Added(m)
        BY <1>3, AnswerStep DEF Messages
  <2>2. Held(c) \subseteq Held(d) /\ dropped' = dropped
    <3>1. CASE Kept
          BY <1>k, <3>1 DEF Kept
    <3>2. CASE \E m \in Messages : Added(m)
          BY <1>a, <3>2 DEF Added
    <3>3. QED
          BY <2>1, <3>1, <3>2
  <2>3. Lost' \subseteq Lost
        BY <1>l, <2>1, <2>2
  <2>4. QED
        BY <1>t, <2>2, <2>3, LostIsCounted
<1>4. CASE UNCHANGED <<queue, dropped, next_seq, at_broker>>
      BY <1>4 DEF NothingVanishes, Queued
<1>5. QED
      BY <1>1, <1>2, <1>3, <1>4, QueueSteps

(***************************************************************************)
(* dropped_count() is honest, for every depth of the queue and however     *)
(* often the transport fails: a telemetry record that is neither with the  *)
(* broker nor in the queue was counted as dropped                          *)
(* (TelemetryService::publish_bool, replay_one, OfflineQueue::enqueue).    *)
(***************************************************************************)
THEOREM QueueNothingVanishes == MessagingSpec => []NothingVanishes
<1>1. MessagingInit => NothingVanishes
  <2> SUFFICES ASSUME MessagingInit PROVE NothingVanishes
      OBVIOUS
  <2>1. 0..next_seq-1 = {} /\ dropped = 0
        BY DEF MessagingInit
  <2>2. Lost = {}
        BY <2>1 DEF Lost
  <2>3. Cardinality(Lost) <= dropped
        BY <2>1, <2>2, FS_EmptySet
  <2>4. QED
        BY <2>3 DEF NothingVanishes, Lost
<1>2. QueueInv /\ QueueInv' /\ NothingVanishes /\ [MessagingNext]_messagingVars => NothingVanishes'
      BY NothingVanishesStep
<1>3. QED
      BY <1>1, <1>2, QueueInvariant, PTL DEF MessagingSpec

-----------------------------------------------------------------------------
(***************************************************************************)
(* The queue, its users and the ring buffer implement StoreAndForward.     *)
(* What the refinement needs beyond the types: the numbers of the records  *)
(* that wait are below the next one.                                       *)
(***************************************************************************)
NumbersBelow ==
  \A s \in Nat : [seq |-> s] \in Held(Contents(queue, Depth)) => s < next_seq

LEMMA HeldAppended ==
  ASSUME NEW T, NEW s \in Seq(T), NEW v \in T
  PROVE  Held(Append(s, v)) \subseteq Held(s) \cup {v}
<1> DEFINE a == Append(s, v)
<1>1. /\ Len(a) = Len(s) + 1 /\ Len(s) \in Nat
      /\ \A i \in 1..Len(s) : a[i] = s[i]
      /\ a[Len(s) + 1] = v
      OBVIOUS
<1> HIDE DEF a
<1>2. ASSUME NEW x \in Held(a), x # v PROVE x \in Held(s)
  <2>1. PICK i \in 1..Len(a) : x = a[i]
        BY DEF Held
  <2>2. i \in 1..Len(s)
        BY <1>1, <1>2, <2>1
  <2>3. QED
        BY <1>1, <2>1, <2>2 DEF Held
<1>3. QED
      BY <1>2 DEF a

LEMMA HeldByTail ==
  ASSUME NEW T, NEW s \in Seq(T), s # <<>>
  PROVE  Held(Tail(s)) \subseteq Held(s)
<1>1. /\ Len(Tail(s)) = Len(s) - 1 /\ Len(s) \in Nat
      /\ \A i \in 1..Len(s) - 1 : Tail(s)[i] = s[i + 1]
      BY HeadTailProperties
<1> DEFINE t == Tail(s)
<1> HIDE DEF t
<1>2. ASSUME NEW x \in Held(t) PROVE x \in Held(s)
  <2>1. PICK i \in 1..Len(t) : x = t[i]
        BY DEF Held
  <2>2. i \in 1..Len(s) - 1 /\ i + 1 \in 1..Len(s)
        BY <1>1, <2>1 DEF t
  <2>3. x = s[i + 1]
        BY <1>1, <2>1, <2>2 DEF t
  <2>4. QED
        BY <2>2, <2>3 DEF Held
<1>3. QED
      BY <1>2 DEF t

(* What each kind of step makes of the entries. *)
LEMMA HeldAfterStep ==
  ASSUME QueueTypeOK, NEW m \in Messages
  PROVE  /\ Added(m) \/ PushedOut(m)
              => Held(Contents(queue', Depth)) \subseteq Held(Contents(queue, Depth)) \cup {m}
         /\ Removed => Held(Contents(queue', Depth)) \subseteq Held(Contents(queue, Depth))
<1> DEFINE c == Contents(queue, Depth)
<1>1. c \in Seq(Slots) /\ m \in Slots
      BY QueuedIs DEF Slots
<1>2. ASSUME Added(m) PROVE Held(Contents(queue', Depth)) \subseteq Held(c) \cup {m}
  <2>1. Held(Append(c, m)) \subseteq Held(c) \cup {m}
        BY <1>1, HeldAppended
  <2>2. QED
        BY <1>2, <2>1 DEF Added
<1>3. ASSUME PushedOut(m) PROVE Held(Contents(queue', Depth)) \subseteq Held(c) \cup {m}
  <2>1. c # <<>>
    <3>1. ASSUME c = <<>> PROVE FALSE
      <4>1. Len(c) = 0
            BY <3>1
      <4>2. QED
            BY <1>3, <4>1, MessagingAssumption DEF PushedOut
    <3>2. QED
          BY <3>1
  <2> DEFINE t == Tail(c)
  <2>2. t \in Seq(Slots) /\ Held(t) \subseteq Held(c)
        BY <1>1, <2>1, HeldByTail, HeadTailProperties
  <2>3. Contents(queue', Depth) = Append(t, m)
        BY <1>3 DEF PushedOut
  <2> HIDE DEF t, c
  <2>4. Held(Append(t, m)) \subseteq Held(t) \cup {m}
        BY <1>1, <2>2, HeldAppended
  <2>5. QED
        BY <2>2, <2>3, <2>4
<1>4. ASSUME Removed PROVE Held(Contents(queue', Depth)) \subseteq Held(c)
  <2>1. Held(Tail(c)) \subseteq Held(c)
        BY <1>1, <1>4, HeldByTail DEF Removed
  <2>2. QED
        BY <1>4, <2>1 DEF Removed
<1>5. QED
      BY <1>2, <1>3, <1>4

(* An answer is no record. *)
LEMMA AnswersAreNoRecords ==
  ASSUME NEW m \in Responses, NEW s
  PROVE  m # [seq |-> s]
<1>1. "id" \in DOMAIN m
      BY DEF Responses
<1>2. "id" \notin DOMAIN [seq |-> s]
      OBVIOUS
<1>3. QED
      BY <1>1, <1>2

LEMMA NumbersBelowStep ==
  ASSUME QueueInv, NumbersBelow, [MessagingNext]_messagingVars
  PROVE  NumbersBelow'
<1> DEFINE c == Contents(queue, Depth)
           d == Contents(queue', Depth)
<1>t. QueueTypeOK /\ next_seq \in Nat
      BY MessagingAssumption DEF QueueInv, QueueTypeOK
<1>i. \A s \in Nat : [seq |-> s] \in Held(c) => s < next_seq
      BY DEF NumbersBelow
<1>k. Kept => Held(d) \subseteq Held(c)
      BY DEF Kept
<1>h. \A m \in Messages : /\ Added(m) \/ PushedOut(m) => Held(d) \subseteq Held(c) \cup {m}
                          /\ Removed => Held(d) \subseteq Held(c)
      BY <1>t, HeldAfterStep
<1>g. (\A s \in Nat : [seq |-> s] \in Held(d) => s < next_seq') => NumbersBelow'
      BY DEF NumbersBelow
<1> HIDE DEF c, d
<1>1. CASE PublishTelemetry
  <2>1. next_seq' = next_seq + 1
        BY <1>1 DEF PublishTelemetry
  <2>2. Held(d) \subseteq Held(c) \cup {[seq |-> next_seq]}
        BY <1>1, <1>k, <1>h, PublishStep
  <2>3. ASSUME NEW s \in Nat, [seq |-> s] \in Held(d) PROVE s < next_seq'
    <3>1. CASE [seq |-> s] \in Held(c)
          BY <1>t, <1>i, <2>1, <3>1
    <3>2. CASE [seq |-> s] = [seq |-> next_seq]
      <4>1. s = next_seq
        <5>1. [seq |-> s].seq = s /\ [seq |-> next_seq].seq = next_seq
              OBVIOUS
        <5>2. QED
              BY <3>2, <5>1
      <4>2. QED
            BY <1>t, <2>1, <4>1
    <3>3. QED
          BY <2>2, <2>3, <3>1, <3>2
  <2>4. QED
        BY <1>g, <2>3
<1>2. CASE ReplayOne
  <2>1. next_seq' = next_seq
        BY <1>2 DEF ReplayOne
  <2>2. \E m : m \in Messages
        BY AnswerIsMessage DEF Statuses
  <2>3. Held(d) \subseteq Held(c)
        BY <1>2, <1>k, <1>h, <2>2, ReplayStep
  <2>4. QED
        BY <1>g, <1>i, <2>1, <2>3
<1>3. ASSUME NEW id, NEW status, Answers(id, status) PROVE NumbersBelow'
  <2>1. /\ next_seq' = next_seq
        /\ Kept \/ \E m \in Responses : Added(m)
        BY <1>3, AnswerStep
  <2>2. ASSUME NEW s \in Nat, [seq |-> s] \in Held(d) PROVE s < next_seq'
    <3>1. [seq |-> s] \in Held(c)
      <4>1. CASE Kept
            BY <1>k, <2>2, <4>1
      <4>2. ASSUME NEW m \in Responses, Added(m) PROVE [seq |-> s] \in Held(c)
        <5>1. m \in Messages
              BY DEF Messages
        <5>2. Held(d) \subseteq Held(c) \cup {m}
              BY <1>h, <4>2, <5>1
        <5>3. m # [seq |-> s]
              BY AnswersAreNoRecords
        <5>4. QED
              BY <2>2, <5>2, <5>3
      <4>3. QED
            BY <2>1, <4>1, <4>2
    <3>2. QED
          BY <1>i, <2>1, <3>1
  <2>3. QED
        BY <1>g, <2>2
<1>4. CASE UNCHANGED <<queue, dropped, next_seq, at_broker>>
      BY <1>4 DEF NumbersBelow
<1>5. QED
      BY <1>1, <1>2, <1>3, <1>4, QueueSteps

LEMMA NumbersBelowInvariant == MessagingSpec => []NumbersBelow
<1>1. MessagingInit => NumbersBelow
  <2> SUFFICES ASSUME MessagingInit PROVE NumbersBelow
      OBVIOUS
  <2>1. Contents(queue, Depth) = <<>>
    <3>1. Depth \in Nat \ {0} /\ Blank \in Slots
          BY MessagingAssumption DEF Slots
    <3>2. QED
          BY <3>1, NewIsEmpty DEF MessagingInit
  <2>2. Len(Contents(queue, Depth)) = 0
        BY <2>1
  <2>3. Held(Contents(queue, Depth)) = {}
        BY <2>2 DEF Held
  <2>4. QED
        BY <2>3 DEF NumbersBelow
<1>2. QueueInv /\ NumbersBelow /\ [MessagingNext]_messagingVars => NumbersBelow'
      BY NumbersBelowStep
<1>3. QED
      BY <1>1, <1>2, QueueInvariant, PTL DEF MessagingSpec

(***************************************************************************)
(* The offline queue keeps what a store-and-forward queue promises,        *)
(* whatever its depth and however often the transport fails: an entry      *)
(* leaves in its turn, because publish() returned ok for it or because     *)
(* telemetry found the queue full, which dropped_count() counts; the       *)
(* answer to a command never pushes an entry out; no record is queued      *)
(* twice or published past its queued copy (OfflineQueue::enqueue,         *)
(* TelemetryService::publish_bool, replay_one, CommandDispatcher::respond).*)
(***************************************************************************)
THEOREM QueueIsFifo == MessagingSpec => FifoSpec
<1>1. MessagingInit => Fifo!Init
  <2> SUFFICES ASSUME MessagingInit PROVE Contents(queue, Depth) = <<>>
      BY DEF Fifo!Init, MessagingInit
  <2>1. Depth \in Nat \ {0} /\ Blank \in Slots
        BY MessagingAssumption DEF Slots
  <2>2. QED
        BY <2>1, NewIsEmpty DEF MessagingInit
<1>2. QueueInv /\ NumbersBelow /\ [MessagingNext]_messagingVars => [Fifo!Next]_(Fifo!vars)
  <2> SUFFICES ASSUME QueueInv, NumbersBelow, [MessagingNext]_messagingVars
               PROVE  Fifo!Next \/ UNCHANGED Fifo!vars
      OBVIOUS
  <2> DEFINE c == Contents(queue, Depth)
  <2>t. QueueTypeOK /\ Fifo!Waiting = Held(c)
        BY DEF QueueInv, Fifo!Waiting, Held
  <2>n. next_seq < MaxTelemetry => [seq |-> next_seq] \in Telemetry /\ [seq |-> next_seq] \notin Fifo!Waiting
    <3>1. SUFFICES ASSUME next_seq < MaxTelemetry
                   PROVE  [seq |-> next_seq] \in Telemetry /\ [seq |-> next_seq] \notin Held(c)
          BY <2>t
    <3>2. [seq |-> next_seq] \in Telemetry
          BY <2>t, <3>1, RecordIsMessage
    <3>3. next_seq \in Nat /\ ~(next_seq < next_seq)
          BY <2>t, MessagingAssumption DEF QueueTypeOK
    <3>4. QED
          BY <3>2, <3>3 DEF NumbersBelow
  <2>k. ASSUME Kept PROVE UNCHANGED <<Contents(queue, Depth), dropped>>
        BY <2>k DEF Kept
  <2>r. ASSUME Kept, acked' = Blank PROVE Fifo!Next
        BY <2>k, <2>r DEF Fifo!Next, Fifo!Refuse
  <2>1. CASE PublishTelemetry
    <3> DEFINE m == [seq |-> next_seq]
    <3>1. m \in Telemetry /\ m \notin Fifo!Waiting
          BY <2>1, <2>n DEF PublishTelemetry
    <3>2. \/ Kept /\ acked' = m
          \/ acked' = Blank /\ (Added(m) \/ PushedOut(m))
          BY <2>1, PublishStep
    <3> HIDE DEF m
    <3>3. CASE Kept /\ acked' = m
      <4>1. Fifo!Publish(m)
            BY <2>k, <3>1, <3>3 DEF Fifo!Publish
      <4>2. QED
            BY <3>1, <4>1 DEF Fifo!Next
    <3>4. CASE acked' = Blank /\ Added(m)
      <4>1. Fifo!Keep(m)
            BY <3>1, <3>4 DEF Fifo!Keep, Added
      <4>2. QED
            BY <3>1, <4>1 DEF Fifo!Next
    <3>5. CASE acked' = Blank /\ PushedOut(m)
      <4>1. Fifo!PushOut(m)
            BY <3>1, <3>5 DEF Fifo!PushOut, PushedOut
      <4>2. QED
            BY <3>1, <4>1 DEF Fifo!Next
    <3>6. QED
          BY <3>2, <3>3, <3>4, <3>5
  <2>2. CASE ReplayOne
    <3>1. CASE Removed /\ acked' = Contents(queue, Depth)[1]
      <4>1. Fifo!Forward
            BY <3>1 DEF Fifo!Forward, Removed
      <4>2. QED
            BY <4>1 DEF Fifo!Next
    <3>2. QED
          BY <2>2, <2>r, <3>1, ReplayStep
  <2>3. ASSUME NEW id, NEW status, Answers(id, status) PROVE Fifo!Next
    <3>1. ASSUME NEW m \in Responses, Kept, acked' = m PROVE Fifo!Next
      <4>1. Fifo!Publish(m)
            BY <2>k, <3>1 DEF Fifo!Publish
      <4>2. QED
            BY <4>1 DEF Fifo!Next
    <3>2. ASSUME NEW m \in Responses, Added(m), acked' = Blank PROVE Fifo!Next
      <4>1. Fifo!Keep(m)
            BY <3>2 DEF Fifo!Keep, Added
      <4>2. QED
            BY <4>1 DEF Fifo!Next
    <3>3. QED
          BY <2>3, <2>r, <3>1, <3>2, AnswerStep
  <2>4. CASE /\ UNCHANGED <<queue, dropped, next_seq, at_broker>>
             /\ acked' \in {acked, Blank}
    <3>1. UNCHANGED <<Contents(queue, Depth), dropped>>
          BY <2>4
    <3>2. CASE acked' = acked
          BY <3>1, <3>2 DEF Fifo!vars
    <3>3. CASE acked' = Blank
          BY <3>1, <3>3 DEF Fifo!Next, Fifo!Refuse
    <3>4. QED
          BY <2>4, <3>2, <3>3
  <2>5. QED
        BY <2>1, <2>2, <2>3, <2>4, QueueSteps
<1>3. QED
      BY <1>1, <1>2, QueueInvariant, NumbersBelowInvariant, PTL DEF MessagingSpec, FifoSpec, Fifo!Spec

-----------------------------------------------------------------------------
(***************************************************************************)
(* A command delivered again is handled once.  The answer to a command     *)
(* that is not forgotten is on one line of the cache, as far behind        *)
(* cache_index as answers were cached since; a forgotten one has no line.  *)
(***************************************************************************)
LineOf(index, k) == Wrap(index + (kIdempotencyWindow - 1 - k), kIdempotencyWindow)

(* Where the answer k lines back is, before and after another is cached. *)
LEMMA LinesMove ==
  ASSUME NEW index \in CacheLines, NEW k \in CacheLines
  PROVE  /\ LineOf(index, k) \in CacheLines
         /\ k = kIdempotencyWindow - 1 => LineOf(index, k) = index
         /\ k < kIdempotencyWindow - 1
              => /\ LineOf(index, k) # index
                 /\ LineOf(Wrap(index + 1, kIdempotencyWindow), k + 1) = LineOf(index, k)
         /\ LineOf(Wrap(index + 1, kIdempotencyWindow), 0) = index
<1> DEFINE w == kIdempotencyWindow
           n == Wrap(index + 1, kIdempotencyWindow)
<1>w. w \in Nat \ {0} /\ index \in 0..w-1 /\ k \in 0..w-1
      BY MessagingAssumption DEF CacheLines
<1>1. n = (IF index + 1 < w THEN index + 1 ELSE index + 1 - w) /\ n \in 0..w-1
  <2>1. index + 1 \in 0..2*w-1
        BY <1>w
  <2>2. QED
        BY <1>w, <2>1, WrapIs
<1> HIDE DEF w, n
<1>2. /\ Wrap(index + (w - 1 - k), w) =
           IF index + (w - 1 - k) < w THEN index + (w - 1 - k) ELSE index + (w - 1 - k) - w
      /\ Wrap(index + (w - 1 - k), w) \in 0..w-1
  <2>1. index + (w - 1 - k) \in 0..2*w-1
        BY <1>w
  <2>2. QED
        BY <1>w, <2>1, WrapIs
<1>3. k < w - 1 => Wrap(n + (w - 1 - (k + 1)), w) =
        IF n + (w - 1 - (k + 1)) < w THEN n + (w - 1 - (k + 1)) ELSE (n + (w - 1 - (k + 1))) - w
  <2> SUFFICES ASSUME k < w - 1
               PROVE  Wrap(n + (w - 1 - (k + 1)), w) =
                        IF n + (w - 1 - (k + 1)) < w
                        THEN n + (w - 1 - (k + 1)) ELSE (n + (w - 1 - (k + 1))) - w
      OBVIOUS
  <2> DEFINE x == n + (w - 1 - (k + 1))
  <2>1. x \in 0..2*w-1
        BY <1>w, <1>1
  <2> HIDE DEF x
  <2>2. Wrap(x, w) = IF x < w THEN x ELSE x - w
        BY <1>w, <2>1, WrapIs
  <2>3. QED
        BY <2>2, Zenon DEF x
<1>4. Wrap(n + (w - 1 - 0), w) =
        IF n + (w - 1 - 0) < w THEN n + (w - 1 - 0) ELSE (n + (w - 1 - 0)) - w
  <2> DEFINE x == n + (w - 1 - 0)
  <2>1. x \in 0..2*w-1
        BY <1>w, <1>1
  <2> HIDE DEF x
  <2>2. Wrap(x, w) = IF x < w THEN x ELSE x - w
        BY <1>w, <2>1, WrapIs
  <2>3. QED
        BY <2>2, Zenon DEF x
<1>5. /\ Wrap(index + (w - 1 - k), w) \in 0..w-1
      /\ k = w - 1 => Wrap(index + (w - 1 - k), w) = index
      /\ k < w - 1 => /\ Wrap(index + (w - 1 - k), w) # index
                      /\ Wrap(n + (w - 1 - (k + 1)), w) = Wrap(index + (w - 1 - k), w)
      /\ Wrap(n + (w - 1 - 0), w) = index
  <2>1. k = w - 1 => Wrap(index + (w - 1 - k), w) = index
        BY <1>w, <1>2
  <2>2. k < w - 1 => Wrap(index + (w - 1 - k), w) # index
        BY <1>w, <1>2
  <2>3. k < w - 1 => Wrap(n + (w - 1 - (k + 1)), w) = Wrap(index + (w - 1 - k), w)
        BY <1>w, <1>1, <1>2, <1>3
  <2>4. Wrap(n + (w - 1 - 0), w) = index
        BY <1>w, <1>1, <1>4
  <2>5. QED
        BY <1>2, <2>1, <2>2, <2>3, <2>4
<1>6. QED
      BY <1>5 DEF w, n, LineOf, CacheLines

Remembered(id) ==
  /\ cache[LineOf(cache_index, age[id])].id = id
  /\ cache[LineOf(cache_index, age[id])].status = reply[id]
  /\ \A i \in CacheLines : cache[i].id = id => i = LineOf(cache_index, age[id])

RecallInv ==
  /\ age \in [Ids -> 0..kIdempotencyWindow]
  /\ reply \in [Ids -> Statuses \cup {Blank}]
  /\ runs \in [Ids -> BOOLEAN]
  /\ \A id \in Ids : IF Forgotten(id) THEN find_cached(id) = {} ELSE Remembered(id)


(* What caching an answer makes of the other identifiers. *)
LEMMA DecideKeepsRecall ==
  ASSUME QueueInv, RecallInv, NEW id0 \in Ids, NEW status \in Statuses, NEW ran \in BOOLEAN,
         Decide(id0, status, ran)
  PROVE  /\ RecallInv'
         /\ \A id \in Ids : ~Forgotten(id) /\ ~Forgotten(id)'
                              => runs'[id] = runs[id] /\ reply'[id] = reply[id]
<1> DEFINE w == kIdempotencyWindow
           n == Wrap(cache_index + 1, kIdempotencyWindow)
<1>w. w \in Nat \ {0}
      BY MessagingAssumption
<1>i. /\ age \in [Ids -> 0..w] /\ reply \in [Ids -> Statuses \cup {Blank}]
      /\ runs \in [Ids -> BOOLEAN]
      /\ \A id \in Ids : IF age[id] >= w THEN find_cached(id) = {} ELSE Remembered(id)
      BY DEF RecallInv, Forgotten
<1>c. /\ cache \in [CacheLines -> [id : Ids \cup {Blank}, status : Statuses \cup {Blank}]]
      /\ cache_index \in CacheLines
      BY DEF QueueInv, CacheTypeOK
<1>d. /\ find_cached(id0) = {}
      /\ age' = [i \in Ids |-> IF i = id0 THEN 0 ELSE IF age[i] >= w THEN age[i] ELSE age[i] + 1]
      /\ cache' = [cache EXCEPT ![cache_index] = [id |-> id0, status |-> status]]
      /\ runs' = [i \in Ids |-> IF i = id0 THEN runs[i] # ran ELSE ~(age'[i] >= w) /\ runs[i]]
      /\ reply' = [i \in Ids |-> IF i = id0 THEN status ELSE IF age'[i] >= w THEN Blank ELSE reply[i]]
      BY DEF Decide, cache_answer, respond, Forgotten
<1>n. cache_index' = n
      BY NextLine DEF Decide, QueueInv
<1>l. \A id \in Ids : age[id] < w => age[id] \in CacheLines
      BY <1>i, <1>w DEF CacheLines
<1>0. age[id0] >= w
  <2>1. ASSUME age[id0] < w PROVE FALSE
    <3>1. Remembered(id0) /\ LineOf(cache_index, age[id0]) \in CacheLines
          BY <1>i, <1>w, <1>c, <1>l, <2>1, LinesMove
    <3>2. LineOf(cache_index, age[id0]) \in find_cached(id0)
          BY <3>1 DEF Remembered, find_cached
    <3>3. QED
          BY <1>d, <3>2
  <2>2. QED
        BY <1>i, <1>w, <2>1
<1>1. age' \in [Ids -> 0..w]
      BY <1>i, <1>w, <1>d
<1>2. reply' \in [Ids -> Statuses \cup {Blank}]
      BY <1>i, <1>d
<1>3. runs' \in [Ids -> BOOLEAN]
  <2>1. \A i \in Ids : (IF i = id0 THEN runs[i] # ran ELSE ~(age'[i] >= w) /\ runs[i]) \in BOOLEAN
        BY Zenon
  <2>2. QED
        BY <1>d, <2>1, Zenon
<1>4. ASSUME NEW id \in Ids
      PROVE  IF age'[id] >= w THEN find_cached(id)' = {} ELSE Remembered(id)'
  <2>1. CASE id = id0
    <3>1. age'[id] = 0 /\ reply'[id] = status
          BY <1>d, <2>1
    <3>2. LineOf(n, 0) = cache_index
          BY <1>c, LinesMove
    <3>3. cache'[cache_index].id = id /\ cache'[cache_index].status = status
          BY <1>c, <1>d, <2>1
    <3>4. \A i \in CacheLines : cache'[i].id = id => i = cache_index
          BY <1>c, <1>d, <2>1 DEF find_cached
    <3>5. Remembered(id)'
          BY <1>n, <3>1, <3>2, <3>3, <3>4 DEF Remembered
    <3>6. QED
          BY <1>w, <3>1, <3>5
  <2>2. CASE id # id0 /\ age[id] >= w
    <3>1. age'[id] = age[id]
          BY <1>d, <2>2
    <3>2. \A i \in CacheLines : cache'[i].id # id
          BY <1>c, <1>d, <1>i, <2>2 DEF find_cached
    <3>3. find_cached(id)' = {}
          BY <3>2 DEF find_cached
    <3>4. QED
          BY <2>2, <3>1, <3>3
  <2>3. CASE id # id0 /\ ~(age[id] >= w)
    <3>1. /\ age'[id] = age[id] + 1 /\ age[id] \in CacheLines /\ age[id] \in 0..w-1
          BY <1>d, <1>i, <1>w, <1>l, <2>3
    <3> DEFINE l == LineOf(cache_index, age[id])
    <3>2. /\ cache[l].id = id /\ cache[l].status = reply[id] /\ l \in CacheLines
          /\ \A i \in CacheLines : cache[i].id = id => i = l
          BY <1>i, <1>c, <2>3, <3>1, LinesMove DEF Remembered
    <3>3. CASE age[id] = w - 1
      <4>1. l = cache_index
            BY <1>c, <3>1, <3>3, LinesMove
      <4>2. \A i \in CacheLines : cache'[i].id # id
            BY <1>c, <1>d, <2>3, <3>2, <4>1
      <4>3. find_cached(id)' = {}
            BY <4>2 DEF find_cached
      <4>4. age'[id] >= w
            BY <1>w, <3>1, <3>3
      <4>5. QED
            BY <4>3, <4>4
    <3>4. CASE age[id] # w - 1
      <4>1. age[id] < w - 1 /\ ~(age'[id] >= w)
            BY <1>w, <3>1, <3>4
      <4>2. l # cache_index /\ LineOf(n, age[id] + 1) = l
            BY <1>c, <3>1, <4>1, LinesMove
      <4>3. reply'[id] = reply[id]
            BY <1>d, <2>3, <4>1
      <4> HIDE DEF l
      <4>4. /\ cache'[l].id = id /\ cache'[l].status = reply'[id]
            /\ \A i \in CacheLines : cache'[i].id = id => i = l
            BY <1>c, <1>d, <2>3, <3>2, <4>2, <4>3
      <4>5. Remembered(id)'
            BY <1>n, <3>1, <4>2, <4>4 DEF Remembered
      <4>6. QED
            BY <4>1, <4>5
    <3>5. QED
          BY <3>3, <3>4
  <2>4. QED
        BY <2>1, <2>2, <2>3
<1>5. RecallInv'
      BY <1>1, <1>2, <1>3, <1>4 DEF RecallInv, Forgotten
<1>6. ASSUME NEW id \in Ids, ~(age[id] >= w), ~(age'[id] >= w)
      PROVE  runs'[id] = runs[id] /\ reply'[id] = reply[id]
  <2>1. id # id0
        BY <1>0, <1>6
  <2>2. reply'[id] = reply[id]
        BY <1>d, <1>6, <2>1
  <2>3. runs'[id] = runs[id]
    <3>1. runs'[id] = (~(age'[id] >= w) /\ runs[id])
          BY <1>d, <2>1, Zenon
    <3>2. runs[id] \in BOOLEAN
          BY <1>i
    <3>3. CASE runs[id] = TRUE
          BY <1>6, <3>1, <3>3
    <3>4. CASE runs[id] = FALSE
          BY <1>6, <3>1, <3>4
    <3>5. QED
          BY <3>2, <3>3, <3>4
  <2>4. QED
        BY <2>2, <2>3
<1>7. QED
      BY <1>5, <1>6 DEF Forgotten


(* An answer from the cache, and one to nobody, change nothing that is remembered. *)
LEMMA AnswerKeepsRecall ==
  ASSUME QueueInv, RecallInv, NEW id0 \in Ids \cup {Blank}, NEW status \in Statuses,
         respond(id0, status), UNCHANGED <<cache, cache_index, age, runs>>,
         id0 \in Ids => ~Forgotten(id0) /\ status = reply[id0]
  PROVE  /\ RecallInv'
         /\ \A id \in Ids : ~Forgotten(id) /\ ~Forgotten(id)'
                              => runs'[id] = runs[id] /\ reply'[id] = reply[id]
<1>1. \A id \in Ids : Forgotten(id)' <=> Forgotten(id)
      BY DEF Forgotten
<1>2. reply' = [i \in Ids |-> IF i = id0 THEN status ELSE IF Forgotten(i) THEN Blank ELSE reply[i]]
      BY DEF respond, Forgotten
<1>3. reply' \in [Ids -> Statuses \cup {Blank}]
      BY <1>2 DEF RecallInv
<1>4. \A id \in Ids : ~Forgotten(id) => reply'[id] = reply[id]
      BY <1>2
<1>5. ASSUME NEW id \in Ids
      PROVE  IF Forgotten(id)' THEN find_cached(id)' = {} ELSE Remembered(id)'
  <2>1. CASE Forgotten(id)
        BY <1>1, <2>1 DEF RecallInv, find_cached
  <2>2. CASE ~Forgotten(id)
        BY <1>1, <1>4, <2>2 DEF RecallInv, Remembered
  <2>3. QED
        BY <2>1, <2>2
<1>6. RecallInv'
      BY <1>3, <1>5 DEF RecallInv
<1>7. QED
      BY <1>4, <1>6

LEMMA RecallStep ==
  ASSUME QueueInv, RecallInv, [MessagingNext]_messagingVars
  PROVE  /\ RecallInv'
         /\ \A id \in Ids : ~Forgotten(id) /\ ~Forgotten(id)'
                              => runs'[id] = runs[id] /\ reply'[id] = reply[id]
<1> DEFINE Once == \A id \in Ids : ~Forgotten(id) /\ ~Forgotten(id)'
                                     => runs'[id] = runs[id] /\ reply'[id] = reply[id]
<1>1. ASSUME NEW id, NEW status, NEW ran, CacheStep(id, status, ran) PROVE RecallInv' /\ Once
      BY <1>1, DecideKeepsRecall DEF CacheStep
<1>2. ASSUME NEW id \in Ids, OnRepeatedCommand(id) PROVE RecallInv' /\ Once
  <2>1. PICK i \in find_cached(id) : respond(id, cache[i].status)
        BY <1>2 DEF OnRepeatedCommand
  <2>2. ~Forgotten(id) /\ Remembered(id)
        BY <2>1 DEF RecallInv
  <2>3. /\ i \in CacheLines /\ cache[i].id = id /\ cache[i].status \in Statuses
        BY <2>1 DEF find_cached, QueueInv, CacheTypeOK
  <2>4. cache[i].status = reply[id]
        BY <2>2, <2>3 DEF Remembered
  <2>5. UNCHANGED <<cache, cache_index, age, runs>>
        BY <1>2 DEF OnRepeatedCommand
  <2>6. QED
        BY <2>1, <2>2, <2>3, <2>4, <2>5, AnswerKeepsRecall
<1>3. ASSUME OnCorruptMessage PROVE RecallInv' /\ Once
  <2>1. /\ UNCHANGED <<cache, cache_index, age, runs>> /\ respond(Blank, "corrupt")
        /\ Blank \notin Ids /\ "corrupt" \in Statuses
        BY <1>3, MessagingAssumption DEF OnCorruptMessage, Statuses
  <2>2. QED
        BY <2>1, AnswerKeepsRecall
<1>4. ASSUME UNCHANGED commandVars PROVE RecallInv' /\ Once
      BY <1>4 DEF commandVars, RecallInv, Remembered, find_cached, Forgotten
<1>5. QED
      BY <1>1, <1>2, <1>3, <1>4, CacheSteps

LEMMA RecallStarts == MessagingInit => RecallInv
<1> SUFFICES ASSUME MessagingInit PROVE RecallInv
    OBVIOUS
<1>1. kIdempotencyWindow \in 0..kIdempotencyWindow /\ kIdempotencyWindow \in Nat
      BY MessagingAssumption
<1>2. \A id \in Ids : Forgotten(id) /\ find_cached(id) = {}
      BY <1>1, MessagingAssumption DEF MessagingInit, Forgotten, find_cached, EmptyLine
<1>3. QED
      BY <1>1, <1>2 DEF MessagingInit, RecallInv

(***************************************************************************)
(* The answer to every command of the window is on exactly one line of the *)
(* cache, and no other command is (CommandDispatcher::cache, find_cached). *)
(***************************************************************************)
THEOREM QueueRecall == MessagingSpec => []RecallInv
<1>1. MessagingInit => RecallInv
      BY RecallStarts
<1>2. QueueInv /\ RecallInv /\ [MessagingNext]_messagingVars => RecallInv'
      BY RecallStep
<1>3. QED
      BY <1>1, <1>2, QueueInvariant, PTL DEF MessagingSpec

(***************************************************************************)
(* A command delivered again within the window neither runs its handler    *)
(* again nor gets another answer, for every window, every set of handlers  *)
(* and any number of commands (CommandDispatcher::on_message).             *)
(***************************************************************************)
THEOREM QueueHandledOnce == MessagingSpec => HandledOnce
<1>1. QueueInv /\ RecallInv /\ [MessagingNext]_messagingVars
        => [\A id \in Ids : ~Forgotten(id) /\ ~Forgotten(id)'
                              => runs'[id] = runs[id] /\ reply'[id] = reply[id]]_messagingVars
      BY RecallStep
<1>2. QED
      BY <1>1, QueueInvariant, QueueRecall, PTL DEF MessagingSpec, HandledOnce

-----------------------------------------------------------------------------
(***************************************************************************)
(* Frames.  A frame on the wire is what encode() made of it, or damaged,   *)
(* and then its CRC is another than its bytes'.                            *)
(***************************************************************************)
FrameInv ==
  \/ wire = NoFrame /\ sent = NoFrame /\ ~damaged
  \/ sent \in FrameValues /\ ~damaged /\ \E stale \in Bytes : wire = encode(sent, stale)
  \/ sent \in FrameValues \ {NoFrame} /\ damaged /\ wire.crc # wire.bytes

(* What is where in an encoded frame. *)
LEMMA EncodedBytes ==
  ASSUME NEW frame \in FrameValues, NEW stale \in Bytes
  PROVE  LET bytes == encode(frame, stale).bytes
             n     == Len(frame.payload)
         IN /\ n \in 0..MaximumPayload /\ frame.payload \in Seq(Bytes)
            /\ bytes \in Seq(Bytes \cup {Sync}) /\ Len(bytes) = 4 + n
            /\ bytes[1] = Sync /\ bytes[2] = n % ByteModulus /\ bytes[3] = frame.opcode
            /\ SubSeq(bytes, 4, 3 + n) = frame.payload
            /\ encode(frame, stale).crc = bytes
<1> DEFINE p == frame.payload
           n == Len(p)
           h == <<Sync, n % ByteModulus, frame.opcode>>
           b == h \o p \o <<stale>>
           T == Bytes \cup {Sync}
<1>1. PICK k \in 0..MaximumPayload : p \in [1..k -> Bytes]
      BY DEF FrameValues
<1>2. p \in Seq(Bytes) /\ n = k /\ n \in 0..MaximumPayload /\ n \in Nat
      BY <1>1, FrameAssumption
<1>3. n % ByteModulus \in Bytes /\ frame.opcode \in Bytes
      BY <1>2, FrameAssumption DEF Bytes, FrameValues
<1>4. h \in Seq(T) /\ p \in Seq(T) /\ <<stale>> \in Seq(T) /\ Len(h) = 3 /\ Len(<<stale>>) = 1
      /\ h[1] = Sync /\ h[2] = n % ByteModulus /\ h[3] = frame.opcode
      BY <1>2, <1>3
<1>5. encode(frame, stale).bytes = b /\ encode(frame, stale).crc = b
      BY DEF encode
<1> HIDE DEF h, n, T
<1>6. /\ h \o p \in Seq(T) /\ Len(h \o p) = 3 + n
      /\ \A i \in 1..3 + n : (h \o p)[i] = IF i <= 3 THEN h[i] ELSE p[i - 3]
  <2>1. p \in Seq(T) /\ Len(p) = n /\ n \in Nat
        BY <1>2, <1>4 DEF n
  <2> HIDE DEF p
  <2>2. /\ h \o p \in Seq(T) /\ Len(h \o p) = Len(h) + Len(p)
        /\ \A i \in 1..Len(h) + Len(p) : (h \o p)[i] = IF i <= Len(h) THEN h[i] ELSE p[i - Len(h)]
        BY <1>4, <2>1, ConcatProperties
  <2>3. QED
        BY <1>4, <2>1, <2>2
<1> DEFINE hp == h \o p
<1>7. /\ b \in Seq(T) /\ Len(b) = 4 + n
      /\ \A i \in 1..3 + n : b[i] = hp[i]
  <2>1. hp \in Seq(T) /\ Len(hp) = 3 + n
        BY <1>6
  <2> HIDE DEF hp
  <2>2. /\ hp \o <<stale>> \in Seq(T) /\ Len(hp \o <<stale>>) = 3 + n + 1
        /\ \A i \in 1..3 + n : (hp \o <<stale>>)[i] = hp[i]
        BY <1>2, <1>4, <2>1, ConcatProperties
  <2>3. 3 + n + 1 = 4 + n
        BY <1>2
  <2>4. QED
        BY <2>2, <2>3 DEF hp
<1>8. b[1] = Sync /\ b[2] = n % ByteModulus /\ b[3] = frame.opcode
  <2>1. 1 \in 1..3 + n /\ 2 \in 1..3 + n /\ 3 \in 1..3 + n
        BY <1>2
  <2>2. QED
        BY <1>4, <1>6, <1>7, <2>1
<1>9. \A i \in 1..n : b[i + 3] = p[i]
  <2> TAKE i \in 1..n
  <2>1. i + 3 \in 1..3 + n /\ ~(i + 3 <= 3) /\ (i + 3) - 3 = i
        BY <1>2
  <2>2. QED
        BY <1>6, <1>7, <2>1
<1> HIDE DEF b, p
<1>10. SubSeq(b, 4, 3 + n) = p
  <2> DEFINE s == SubSeq(b, 4, 3 + n)
  <2>1. /\ s \in Seq(T) /\ Len(s) = n
        /\ \A i \in 1..n : s[i] = b[i + 3]
    <3>1. s = [i \in 1..n |-> b[i + 3]]
          BY <1>2, <1>7
    <3>2. \A i \in 1..n : b[i + 3] \in T
          BY <1>2, <1>7
    <3>3. s \in [1..n -> T]
          BY <3>1, <3>2
    <3>4. \A i \in 1..n : s[i] = b[i + 3]
          BY <3>1
    <3> HIDE DEF s
    <3>5. s \in Seq(T) /\ Len(s) = n
          BY <1>2, <3>3
    <3>6. QED
          BY <3>4, <3>5
  <2> HIDE DEF s
  <2>2. p \in Seq(T) /\ Len(p) = n
        BY <1>4 DEF n
  <2>3. s = p
        BY <1>9, <2>1, <2>2, SeqEqual
  <2>4. QED
        BY <2>3 DEF s
<1>11. QED
       BY <1>2, <1>5, <1>7, <1>8, <1>10 DEF n, p, T

LEMMA DecodeEncoded ==
  ASSUME NEW frame \in FrameValues, NEW stale \in Bytes
  PROVE  decode(encode(frame, stale)) =
           IF Len(frame.payload) >= ByteModulus THEN NoFrame ELSE frame
<1> DEFINE e == encode(frame, stale)
           n == Len(frame.payload)
<1>1. /\ n \in 0..MaximumPayload /\ Len(e.bytes) = 4 + n
      /\ e.bytes[1] = Sync /\ e.bytes[2] = n % ByteModulus /\ e.bytes[3] = frame.opcode
      /\ SubSeq(e.bytes, 4, 3 + n) = frame.payload /\ e.crc = e.bytes
      BY EncodedBytes
<1>2. ByteModulus \in Nat \ {0} /\ MaximumPayload \in Nat
      BY FrameAssumption
<1> HIDE DEF e, n
<1>3. CASE n >= ByteModulus
  <2>1. n % ByteModulus < n /\ n % ByteModulus \in Nat
        BY <1>1, <1>2, <1>3
  <2>2. Len(e.bytes) # 4 + e.bytes[2]
        BY <1>1, <2>1
  <2>3. decode(e) = NoFrame
        BY <2>2 DEF decode
  <2>4. QED
        BY <1>3, <2>3 DEF e, n
<1>4. CASE ~(n >= ByteModulus)
  <2>1. n % ByteModulus = n
        BY <1>1, <1>2, <1>4
  <2>2. ~(e.bytes[2] > MaximumPayload)
        BY <1>1, <1>2, <2>1
  <2>s. ~(Len(e.bytes) < 4)
        BY <1>1, <1>2
  <2>3. decode(e) = [opcode |-> frame.opcode, payload |-> frame.payload]
        BY <1>1, <2>1, <2>2, <2>s DEF decode
  <2>4. frame = [opcode |-> frame.opcode, payload |-> frame.payload]
        BY DEF FrameValues
  <2>5. QED
        BY <1>4, <2>3, <2>4 DEF e, n
<1>5. QED
      BY <1>3, <1>4

LEMMA FrameStep == FrameInv /\ [FrameNext]_frameVars => FrameInv'
<1> SUFFICES ASSUME FrameInv, [FrameNext]_frameVars PROVE FrameInv'
    OBVIOUS
<1>1. CASE NextFrame
      BY <1>1 DEF NextFrame, FrameInv
<1>2. CASE UNCHANGED frameVars
      BY <1>2 DEF frameVars, FrameInv
<1>3. ASSUME NEW frame \in FrameValues, NEW stale \in Bytes, Encode(frame, stale) PROVE FrameInv'
  <2>1. sent' = frame /\ wire' = encode(frame, stale) /\ ~damaged'
        BY <1>3 DEF Encode, FrameInv
  <2>2. QED
        BY <1>3, <2>1 DEF FrameInv
<1>4. ASSUME NEW i, NEW b, Damage(i, b) PROVE FrameInv'
  <2>1. /\ sent # NoFrame /\ ~damaged /\ i \in 1..Len(wire.bytes) /\ b # wire.bytes[i]
        /\ wire' = [wire EXCEPT !.bytes[i] = b] /\ damaged' = TRUE /\ sent' = sent
        BY <1>4 DEF Damage
  <2>2. sent \in FrameValues /\ \E stale \in Bytes : wire = encode(sent, stale)
        BY <2>1 DEF FrameInv
  <2>3. PICK stale \in Bytes : wire = encode(sent, stale)
        BY <2>2
  <2> DEFINE w == wire.bytes
  <2>4. /\ w \in Seq(Bytes \cup {Sync}) /\ wire.crc = w
        BY <2>2, <2>3, EncodedBytes
  <2>5. wire = [bytes |-> w, crc |-> w]
        BY <2>3 DEF encode
  <2>6. wire'.bytes = [w EXCEPT ![i] = b] /\ wire'.crc = w
        BY <2>1, <2>5
  <2>7. i \in DOMAIN w
        BY <2>1, <2>4
  <2>8. wire'.bytes # wire'.crc
    <3>1. wire'.bytes[i] = b
          BY <2>6, <2>7
    <3>2. QED
          BY <2>1, <2>6, <3>1
  <2>9. QED
        BY <2>1, <2>2, <2>8 DEF FrameInv
<1>5. ASSUME NEW n \in 0..MaximumPayload+3, Truncate(n) PROVE FrameInv'
  <2>1. /\ sent # NoFrame /\ ~damaged /\ n < Len(wire.bytes)
        /\ wire' = [wire EXCEPT !.bytes = SubSeq(@, 1, n)] /\ damaged' = TRUE /\ sent' = sent
        BY <1>5 DEF Truncate
  <2>2. sent \in FrameValues /\ \E stale \in Bytes : wire = encode(sent, stale)
        BY <2>1 DEF FrameInv
  <2>3. PICK stale \in Bytes : wire = encode(sent, stale)
        BY <2>2
  <2> DEFINE w == wire.bytes
             rest == SubSeq(w, 1, n)
  <2>4. w \in Seq(Bytes \cup {Sync}) /\ n \in Nat /\ n < Len(w)
        BY <2>1, <2>2, <2>3, EncodedBytes, FrameAssumption
  <2>5. wire = [bytes |-> w, crc |-> w]
        BY <2>3 DEF encode
  <2>6. wire'.bytes = rest /\ wire'.crc = w
        BY <2>1, <2>5
  <2>7. Len(rest) = n
    <3> HIDE DEF w
    <3>1. QED
          BY <2>4
  <2> HIDE DEF rest, w
  <2>8. rest # w
        BY <2>4, <2>7
  <2>9. QED
        BY <2>1, <2>2, <2>6, <2>8 DEF FrameInv
<1>6. QED
      BY <1>1, <1>2, <1>3, <1>4, <1>5 DEF FrameNext

(***************************************************************************)
(* The frame codec returns the frame that was encoded whatever the byte    *)
(* holds that is never written, and refuses a damaged one, one cut short   *)
(* and one too long for its length byte: for every payload up to any       *)
(* maximum (FrameCodec::encode, decode).                                   *)
(***************************************************************************)
THEOREM MessagingFrameRoundTrip == FrameSpec => []FrameRoundTrip
<1>1. FrameInit => FrameInv
      BY DEF FrameInit, FrameInv
<1>2. FrameInv /\ [FrameNext]_frameVars => FrameInv'
      BY FrameStep
<1>3. FrameInv => FrameRoundTrip
  <2>1. ASSUME NEW stale \in Bytes, sent \in FrameValues, ~damaged, wire = encode(sent, stale)
        PROVE  decode(wire) = IF damaged \/ Len(sent.payload) >= ByteModulus THEN NoFrame ELSE sent
        BY <2>1, DecodeEncoded
  <2>2. ASSUME damaged, wire.crc # wire.bytes
        PROVE  decode(wire) = NoFrame
        BY <2>2 DEF decode
  <2>3. QED
        BY <2>1, <2>2 DEF FrameInv, FrameRoundTrip
<1>4. QED
      BY <1>1, <1>2, <1>3, PTL DEF FrameSpec

-----------------------------------------------------------------------------
(***************************************************************************)
(* Induction over the naturals, on a set.                                  *)
(***************************************************************************)
LEMMA Induction ==
  ASSUME NEW S, 0 \in S, \A n \in Nat : n \in S => n + 1 \in S
  PROVE  \A n \in Nat : n \in S
<1> DEFINE T == { n \in Nat : n \notin S }
           R == OpToRel(<, Nat)
<1>1. ASSUME T # {} PROVE FALSE
  <2>1. IsWellFoundedOn(R, Nat) /\ T \subseteq Nat
        BY NatLessThanWellFounded
  <2>2. \A x, y \in Nat : x < y => <<x, y>> \in R
        BY DEF OpToRel
  <2> HIDE DEF R, T
  <2>3. PICK x \in T : \A y \in T : ~(<<y, x>> \in R)
        BY <1>1, <2>1, WFMin
  <2>4. x \in Nat /\ x \notin S
        BY DEF T
  <2>5. x # 0
        BY <2>4
  <2>6. x - 1 \in Nat /\ x - 1 < x /\ (x - 1) + 1 = x
        BY <2>4, <2>5
  <2>7. <<x - 1, x>> \in R
        BY <2>2, <2>4, <2>6
  <2>8. x - 1 \in S
        BY <2>3, <2>6, <2>7 DEF T
  <2>9. QED
        BY <2>4, <2>6, <2>8
<1>2. QED
      BY <1>1

-----------------------------------------------------------------------------
(***************************************************************************)
(* The event bus.  The places of a topic are taken from the front, and a   *)
(* sink has at most one of them, so that one publish() pushes at most once *)
(* to it; its queue has the numbers of its events in ascending order.      *)
(***************************************************************************)
OnePlace ==
  /\ subscribers \in [Topics -> [Places -> Sinks \cup {NoSink}]]
  /\ \A t \in Topics, p, q \in Places :
       /\ subscribers[t][p] = subscribers[t][q] /\ subscribers[t][p] # NoSink => p = q
       /\ p < q /\ subscribers[t][p] = NoSink => subscribers[t][q] = NoSink

QueueOK(s) ==
  LET events == Contents(queues[s], QueueCapacity) IN
    /\ queues[s] \in RingOf(Nat, QueueCapacity)
    /\ Held(events) = owed[s]
    /\ \A i, j \in 1..Len(events) : i < j => events[i] < events[j]
    /\ \A i \in 1..Len(events) : events[i] <= published

BusInv ==
  /\ OnePlace
  /\ published \in Nat
  /\ queues \in [Sinks -> RingOf(Nat, QueueCapacity)] /\ owed \in [Sinks -> SUBSET Nat]
  /\ \A s \in Sinks : QueueOK(s)

(* What the loop of publish() leaves, after its first n places. *)
PushedUpTo(t, n, s) ==
  IF \E p \in 1..n : subscribers[t][p] = s
  THEN try_push(queues[s], published + 1, QueueCapacity) ELSE queues[s]

(* One more place of the loop. *)
LEMMA PushedNext ==
  ASSUME BusInv, NEW t \in Topics, NEW n \in Places, NEW s \in Sinks
  PROVE  PushedUpTo(t, n, s) =
           IF subscribers[t][n] = s
           THEN try_push(PushedUpTo(t, n - 1, s), published + 1, QueueCapacity)
           ELSE PushedUpTo(t, n - 1, s)
<1>1. SubscribersPerTopic \in Nat /\ n \in 1..SubscribersPerTopic /\ NoSink \notin Sinks
      BY BusAssumption DEF Places
<1>2. \A p \in 1..n : p \in 1..n - 1 \/ p = n
      BY <1>1
<1>3. \A p \in 1..n - 1 : p \in 1..n /\ p \in Places /\ p # n
      BY <1>1 DEF Places
<1>4. n \in 1..n
      BY <1>1
<1>5. CASE subscribers[t][n] = s
  <2>1. \A p \in 1..n - 1 : subscribers[t][p] # s
        BY <1>1, <1>3, <1>5 DEF BusInv, OnePlace
  <2>2. PushedUpTo(t, n - 1, s) = queues[s]
        BY <2>1 DEF PushedUpTo
  <2>3. QED
        BY <1>4, <1>5, <2>2 DEF PushedUpTo
<1>6. CASE subscribers[t][n] # s
  <2>1. (\E p \in 1..n : subscribers[t][p] = s) <=> (\E p \in 1..n - 1 : subscribers[t][p] = s)
        BY <1>2, <1>3, <1>6
  <2>2. QED
        BY <1>6, <2>1 DEF PushedUpTo
<1>7. QED
      BY <1>5, <1>6

LEMMA PublishIs ==
  ASSUME BusInv, NEW t \in Topics, Publish(t)
  PROVE  queues' = [s \in Sinks |-> PushedUpTo(t, SubscribersPerTopic, s)]
<1> DEFINE N == SubscribersPerTopic
           Loop(f) == [p \in 0..N |->
                         IF p = 0 THEN queues
                         ELSE [s \in Sinks |-> IF subscribers[t][p] = s
                                               THEN try_push(f[p-1][s], published + 1, QueueCapacity)
                                               ELSE f[p-1][s]]]
           pushed == CHOOSE f : f = Loop(f)
           g == [n \in 0..N |-> [s \in Sinks |-> PushedUpTo(t, n, s)]]
<1>n. N \in Nat /\ Places = 1..N
      BY BusAssumption DEF Places
<1>q. queues \in [Sinks -> RingOf(Nat, QueueCapacity)]
      BY DEF BusInv
<1>1. queues' = pushed[N]
      BY DEF Publish
<1>2. \A s \in Sinks : PushedUpTo(t, 0, s) = queues[s]
      BY DEF PushedUpTo
<1>3. \A n \in 1..N, s \in Sinks :
        PushedUpTo(t, n, s) = IF subscribers[t][n] = s
                              THEN try_push(PushedUpTo(t, n - 1, s), published + 1, QueueCapacity)
                              ELSE PushedUpTo(t, n - 1, s)
      BY <1>n, PushedNext
<1>4. g = Loop(g)
  <2>1. g[0] = queues
        BY <1>n, <1>q, <1>2
  <2>2. ASSUME NEW n \in 1..N
        PROVE  g[n] = [s \in Sinks |-> IF subscribers[t][n] = s
                                       THEN try_push(g[n-1][s], published + 1, QueueCapacity)
                                       ELSE g[n-1][s]]
    <3>1. n - 1 \in 0..N /\ n \in 0..N
          BY <1>n
    <3>2. \A s \in Sinks : g[n-1][s] = PushedUpTo(t, n - 1, s)
          BY <3>1
    <3>3. QED
          BY <1>3, <3>1, <3>2
  <2>3. \A n \in 0..N : g[n] = Loop(g)[n]
    <3> TAKE n \in 0..N
    <3>1. CASE n = 0
          BY <2>1, <3>1
    <3>2. CASE n # 0
      <4>1. n \in 1..N
            BY <1>n, <3>2
      <4> HIDE DEF g
      <4>2. QED
            BY <2>2, <3>2, <4>1
    <3>3. QED
          BY <3>1, <3>2
  <2>4. QED
        BY <2>3
<1>5. pushed = Loop(pushed)
  <2> HIDE DEF g, Loop
  <2>1. \E f : f = Loop(f)
        BY <1>4
  <2>2. QED
        BY <2>1, Zenon
<1> HIDE DEF pushed
<1>6. ASSUME NEW n \in Nat, n + 1 \in 0..N, n \in 0..N, pushed[n] = g[n] PROVE pushed[n + 1] = g[n + 1]
  <2>1. (n + 1) - 1 = n /\ n + 1 # 0
        OBVIOUS
  <2> HIDE DEF g
  <2>2. /\ pushed[n + 1] = Loop(pushed)[n + 1] /\ g[n + 1] = Loop(g)[n + 1]
        BY <1>4, <1>5
  <2>3. /\ Loop(pushed)[n + 1] = [s \in Sinks |-> IF subscribers[t][n + 1] = s
                                       THEN try_push(pushed[(n + 1)-1][s], published + 1, QueueCapacity)
                                       ELSE pushed[(n + 1)-1][s]]
        /\ Loop(g)[n + 1] = [s \in Sinks |-> IF subscribers[t][n + 1] = s
                                       THEN try_push(g[(n + 1)-1][s], published + 1, QueueCapacity)
                                       ELSE g[(n + 1)-1][s]]
        BY <1>6, <2>1
  <2> HIDE DEF Loop
  <2>4. QED
        BY <1>6, <2>1, <2>2, <2>3
<1>7. pushed[0] = g[0]
  <2>1. 0 \in 0..N
        BY <1>n
  <2> HIDE DEF g
  <2>2. Loop(pushed)[0] = queues /\ Loop(g)[0] = queues
        BY <2>1
  <2> HIDE DEF Loop
  <2>3. QED
        BY <1>4, <1>5, <2>2
<1>8. pushed[N] = g[N]
  <2> DEFINE S == { n \in Nat : n \in 0..N => pushed[n] = g[n] }
  <2> HIDE DEF g, Loop
  <2>1. 0 \in S
        BY <1>7
  <2>2. ASSUME NEW n \in Nat, n \in S PROVE n + 1 \in S
    <3>1. ASSUME n + 1 \in 0..N PROVE pushed[n + 1] = g[n + 1]
      <4>1. n \in 0..N
            BY <1>n, <3>1
      <4>2. QED
            BY <1>6, <2>2, <3>1, <4>1
    <3>2. QED
          BY <3>1
  <2> HIDE DEF S
  <2>3. \A n \in Nat : n \in S
        BY <2>1, <2>2, Induction
  <2>4. N \in 0..N
        BY <1>n
  <2>5. QED
        BY <1>n, <2>3, <2>4 DEF S
<1>9. g[N] = [s \in Sinks |-> PushedUpTo(t, N, s)]
      BY <1>n
<1>10. QED
       BY <1>1, <1>8, <1>9


(* What a push does to the queue of a sink that is subscribed. *)
LEMMA PushKeepsOrder ==
  ASSUME BusInv, NEW s \in Sinks, ~full(queues[s], QueueCapacity),
         NEW b, b = try_push(queues[s], published + 1, QueueCapacity)
  PROVE  LET events == Contents(b, QueueCapacity) IN
           /\ b \in RingOf(Nat, QueueCapacity)
           /\ Held(events) = owed[s] \cup {published + 1}
           /\ \A i, j \in 1..Len(events) : i < j => events[i] < events[j]
           /\ \A i \in 1..Len(events) : events[i] <= published + 1
<1> DEFINE c == Contents(queues[s], QueueCapacity)
           e == Contents(b, QueueCapacity)
           v == published + 1
<1>1. /\ queues[s] \in RingOf(Nat, QueueCapacity) /\ Held(c) = owed[s]
      /\ \A i, j \in 1..Len(c) : i < j => c[i] < c[j]
      /\ \A i \in 1..Len(c) : c[i] <= published
      /\ published \in Nat /\ v \in Nat /\ QueueCapacity \in Nat \ {0}
      BY BusAssumption DEF BusInv, QueueOK
<1>2. c \in Seq(Nat)
      BY <1>1, RingFacts
<1>3. b \in RingOf(Nat, QueueCapacity) /\ e = Append(c, v)
      BY <1>1, PushAppends
<1> HIDE DEF c, e
<1>4. /\ Len(c) \in Nat /\ Len(e) = Len(c) + 1 /\ e[Len(c) + 1] = v
      /\ \A i \in 1..Len(c) : e[i] = c[i] /\ c[i] \in Nat
      BY <1>1, <1>2, <1>3
<1>5. \A i \in 1..Len(e) : i \in 1..Len(c) \/ i = Len(c) + 1
      BY <1>4
<1>6. Held(e) = Held(c) \cup {v}
  <2>1. Held(c) \subseteq Held(e) /\ v \in Held(e)
        BY <1>1, <1>2, <1>3, HeldAfterAppend
  <2>2. ASSUME NEW x \in Held(e) PROVE x \in Held(c) \cup {v}
    <3>1. PICK i \in 1..Len(e) : x = e[i]
          BY DEF Held
    <3>2. QED
          BY <1>4, <1>5, <3>1 DEF Held
  <2>3. QED
        BY <2>1, <2>2
<1>7. \A i \in 1..Len(e) : e[i] <= v
      BY <1>1, <1>4, <1>5
<1>8. \A i, j \in 1..Len(e) : i < j => e[i] < e[j]
  <2> SUFFICES ASSUME NEW i \in 1..Len(e), NEW j \in 1..Len(e), i < j PROVE e[i] < e[j]
      OBVIOUS
  <2>1. i \in 1..Len(c)
        BY <1>4
  <2>2. CASE j \in 1..Len(c)
        BY <1>1, <1>4, <2>1, <2>2
  <2>3. CASE j = Len(c) + 1
        BY <1>1, <1>4, <2>1, <2>3
  <2>4. QED
        BY <1>5, <2>2, <2>3
<1>9. QED
      BY <1>1, <1>3, <1>6, <1>7, <1>8 DEF e

LEMMA BusPublishStep ==
  ASSUME BusInv, NEW t \in Topics, Publish(t)
  PROVE  BusInv'
<1>1. /\ published' = published + 1 /\ subscribers' = subscribers /\ published \in Nat
      /\ published' \in Nat /\ QueueCapacity \in Nat \ {0}
      BY BusAssumption DEF Publish, BusInv
<1>2. queues' = [s \in Sinks |-> PushedUpTo(t, SubscribersPerTopic, s)]
      BY PublishIs
<1>3. owed' = [s \in Sinks |->
        IF (\E p \in Places : subscribers[t][p] = s) /\ ~full(queues[s], QueueCapacity)
        THEN owed[s] \cup {published + 1} ELSE owed[s]]
      BY DEF Publish
<1>4. OnePlace'
      BY <1>1 DEF BusInv, OnePlace
<1>5. ASSUME NEW s \in Sinks PROVE QueueOK(s)'
  <2>1. CASE (\E p \in Places : subscribers[t][p] = s) /\ ~full(queues[s], QueueCapacity)
    <3> DEFINE b == try_push(queues[s], published + 1, QueueCapacity)
    <3>1. queues'[s] = b /\ owed'[s] = owed[s] \cup {published + 1}
          BY <1>2, <1>3, <2>1 DEF PushedUpTo, Places
    <3> HIDE DEF b
    <3> DEFINE e == Contents(b, QueueCapacity)
    <3>2. /\ b \in RingOf(Nat, QueueCapacity)
          /\ Held(e) = owed[s] \cup {published + 1}
          /\ \A i, j \in 1..Len(e) : i < j => e[i] < e[j]
          /\ \A i \in 1..Len(e) : e[i] <= published + 1
          BY <2>1, PushKeepsOrder DEF b
    <3>3. e = Contents(queues[s], QueueCapacity)'
          BY <3>1 DEF Contents
    <3> HIDE DEF e
    <3>4. QED
          BY <1>1, <3>1, <3>2, <3>3 DEF QueueOK
  <2>2. CASE ~((\E p \in Places : subscribers[t][p] = s) /\ ~full(queues[s], QueueCapacity))
    <3>1. queues'[s] = queues[s] /\ owed'[s] = owed[s]
          BY <1>2, <1>3, <2>2 DEF PushedUpTo, Places, try_push
    <3> DEFINE e == Contents(queues[s], QueueCapacity)
    <3>2. /\ queues[s] \in RingOf(Nat, QueueCapacity) /\ Held(e) = owed[s]
          /\ \A i, j \in 1..Len(e) : i < j => e[i] < e[j]
          /\ \A i \in 1..Len(e) : e[i] <= published
          BY DEF BusInv, QueueOK
    <3>3. e = Contents(queues[s], QueueCapacity)'
          BY <3>1 DEF Contents
    <3>4. e \in Seq(Nat)
          BY <1>1, <3>2, RingFacts
    <3> HIDE DEF e
    <3>5. \A i \in 1..Len(e) : e[i] <= published + 1
          BY <1>1, <3>2, <3>4
    <3>6. QED
          BY <1>1, <3>1, <3>2, <3>3, <3>5 DEF QueueOK
  <2>3. QED
        BY <2>1, <2>2
<1>6. queues' \in [Sinks -> RingOf(Nat, QueueCapacity)]
  <2>1. \A s \in Sinks : PushedUpTo(t, SubscribersPerTopic, s) \in RingOf(Nat, QueueCapacity)
    <3> TAKE s \in Sinks
    <3>1. queues'[s] \in RingOf(Nat, QueueCapacity)
          BY <1>5 DEF QueueOK
    <3>2. QED
          BY <1>2, <3>1
  <2>2. QED
        BY <1>2, <2>1
<1>7. owed' \in [Sinks -> SUBSET Nat]
  <2>1. owed \in [Sinks -> SUBSET Nat]
        BY DEF BusInv
  <2>2. published + 1 \in Nat
        BY <1>1
  <2>3. QED
        BY <1>3, <2>1, <2>2
<1>8. QED
      BY <1>1, <1>4, <1>5, <1>6, <1>7 DEF BusInv


LEMMA BusTakeStep ==
  ASSUME BusInv, NEW s0 \in Sinks, TakeEvent(s0)
  PROVE  BusInv'
<1>1. /\ published' = published /\ subscribers' = subscribers
      /\ queues' = [queues EXCEPT ![s0] = drop_oldest(@, QueueCapacity)]
      /\ owed' = [owed EXCEPT ![s0] = @ \ {peek(queues[s0])}]
      /\ ~empty(queues[s0])
      /\ queues \in [Sinks -> RingOf(Nat, QueueCapacity)] /\ owed \in [Sinks -> SUBSET Nat]
      /\ published \in Nat /\ QueueCapacity \in Nat \ {0}
      BY BusAssumption DEF TakeEvent, BusInv
<1>2. OnePlace'
      BY <1>1 DEF BusInv, OnePlace
<1> DEFINE c == Contents(queues[s0], QueueCapacity)
           b == drop_oldest(queues[s0], QueueCapacity)
           e == Contents(b, QueueCapacity)
<1>3. /\ queues[s0] \in RingOf(Nat, QueueCapacity) /\ Held(c) = owed[s0]
      /\ \A i, j \in 1..Len(c) : i < j => c[i] < c[j]
      /\ \A i \in 1..Len(c) : c[i] <= published
      BY DEF BusInv, QueueOK
<1>4. /\ c \in Seq(Nat) /\ Len(c) = queues[s0].count
      BY <1>1, <1>3, RingFacts
<1>5. /\ b \in RingOf(Nat, QueueCapacity) /\ queues[s0].count > 0
      /\ c[1] = peek(queues[s0]) /\ e = Tail(c)
      BY <1>1, <1>3, DropRemovesHead
<1> HIDE DEF c, b
<1>6. c # <<>> /\ Len(c) \in Nat /\ Len(c) > 0
  <2>1. ASSUME c = <<>> PROVE FALSE
    <3>1. Len(c) = 0
          BY <2>1
    <3>2. QED
          BY <1>4, <1>5, <3>1
  <2>2. Len(c) \in Nat
        BY <1>4
  <2>3. QED
        BY <1>4, <1>5, <2>1, <2>2
<1>7. /\ e \in Seq(Nat) /\ Len(e) = Len(c) - 1
      /\ \A i \in 1..Len(c) - 1 : e[i] = c[i + 1]
      BY <1>4, <1>5, <1>6, HeadTailProperties
<1> HIDE DEF e
<1>8. Held(e) = Held(c) \ {c[1]}
  <2>1. Held(c) \subseteq {c[1]} \cup Held(e)
        BY <1>4, <1>5, <1>6, HeldAfterTail
  <2>2. ASSUME NEW x \in Held(e) PROVE x \in Held(c) /\ x # c[1]
    <3>1. PICK i \in 1..Len(e) : x = e[i]
          BY DEF Held
    <3>2. i + 1 \in 1..Len(c) /\ 1 \in 1..Len(c) /\ 1 < i + 1 /\ i \in 1..Len(c) - 1
          BY <1>6, <1>7
    <3>3. x = c[i + 1]
          BY <1>7, <3>1, <3>2
    <3>4. c[1] < c[i + 1]
          BY <1>3, <3>2
    <3>5. c[1] \in Nat /\ c[i + 1] \in Nat
          BY <1>4, <3>2
    <3>6. QED
          BY <3>2, <3>3, <3>4, <3>5 DEF Held
  <2>3. QED
        BY <2>1, <2>2
<1>9. /\ \A i, j \in 1..Len(e) : i < j => e[i] < e[j]
      /\ \A i \in 1..Len(e) : e[i] <= published
  <2>1. \A i \in 1..Len(e) : i \in 1..Len(c) - 1 /\ i + 1 \in 1..Len(c)
        BY <1>6, <1>7
  <2>2. \A i, j \in 1..Len(e) : i < j => i + 1 < j + 1
        BY <1>6, <1>7
  <2>3. \A i \in 1..Len(e) : e[i] = c[i + 1]
        BY <1>7, <2>1
  <2>4. ASSUME NEW i \in 1..Len(e), NEW j \in 1..Len(e), i < j PROVE e[i] < e[j]
        BY <1>3, <2>1, <2>2, <2>3, <2>4
  <2>5. ASSUME NEW i \in 1..Len(e) PROVE e[i] <= published
        BY <1>3, <2>1, <2>3
  <2>6. QED
        BY <2>4, <2>5
<1>10. ASSUME NEW s \in Sinks PROVE QueueOK(s)'
  <2>1. CASE s = s0
    <3>1. queues'[s] = b /\ owed'[s] = Held(e)
          BY <1>1, <1>3, <1>5, <1>8, <2>1 DEF b
    <3>2. e = Contents(queues[s], QueueCapacity)'
          BY <3>1 DEF e, Contents
    <3>3. QED
          BY <1>1, <1>5, <1>9, <3>1, <3>2 DEF QueueOK
  <2>2. CASE s # s0
    <3>1. queues'[s] = queues[s] /\ owed'[s] = owed[s] /\ published' = published
          BY <1>1, <2>2
    <3>2. Contents(queues[s], QueueCapacity)' = Contents(queues[s], QueueCapacity)
          BY <3>1 DEF Contents
    <3>3. QueueOK(s)
          BY DEF BusInv
    <3>4. QED
          BY <3>1, <3>2, <3>3 DEF QueueOK
  <2>3. QED
        BY <2>1, <2>2
<1>11. queues' \in [Sinks -> RingOf(Nat, QueueCapacity)]
       BY <1>1, <1>5 DEF b
<1>12. owed' \in [Sinks -> SUBSET Nat]
       BY <1>1
<1>13. QED
       BY <1>1, <1>2, <1>10, <1>11, <1>12 DEF BusInv

LEMMA QueuesRest ==
  ASSUME BusInv, UNCHANGED <<queues, published, owed>>, NEW s \in Sinks
  PROVE  QueueOK(s)'
<1>1. Contents(queues[s], QueueCapacity)' = Contents(queues[s], QueueCapacity)
      BY DEF Contents
<1>2. QueueOK(s)
      BY DEF BusInv
<1>3. QED
      BY <1>1, <1>2 DEF QueueOK

LEMMA BusSubscribeStep ==
  ASSUME BusInv, NEW t0 \in Topics, NEW s0 \in Sinks, Subscribe(t0, s0)
  PROVE  BusInv'
<1>1. PICK p0 \in Place(t0, s0) :
        /\ \A q \in Place(t0, s0) : p0 <= q
        /\ subscribers' = [subscribers EXCEPT ![t0][p0] = s0]
      BY DEF Subscribe
<1>2. subscribers \in [Topics -> [Places -> Sinks \cup {NoSink}]]
      BY DEF BusInv, OnePlace
<1>3. p0 \in Places /\ subscribers[t0][p0] \in {s0, NoSink}
      BY DEF Place
<1>4. subscribers' \in [Topics -> [Places -> Sinks \cup {NoSink}]]
      BY <1>1, <1>2, <1>3
<1>5. \A t \in Topics, p \in Places :
        subscribers'[t][p] = IF t = t0 /\ p = p0 THEN s0 ELSE subscribers[t][p]
      BY <1>1, <1>2, <1>3
<1>6. UNCHANGED <<queues, published, owed>>
      BY DEF Subscribe
<1>p. /\ \A q \in Places : subscribers[t0][q] = NoSink \/ subscribers[t0][q] = s0 => p0 <= q
      /\ Places \subseteq Nat
      BY <1>1 DEF Place, Places
<1>o. \A t \in Topics, p, q \in Places :
        /\ subscribers[t][p] = subscribers[t][q] /\ subscribers[t][p] # NoSink => p = q
        /\ p < q /\ subscribers[t][p] = NoSink => subscribers[t][q] = NoSink
      BY DEF BusInv, OnePlace
<1>u. \A q \in Places : q # p0 => subscribers[t0][q] # s0
  <2> SUFFICES ASSUME NEW q \in Places, q # p0, subscribers[t0][q] = s0 PROVE FALSE
      OBVIOUS
  <2>1. p0 < q
        BY <1>3, <1>p
  <2>2. s0 # NoSink
        BY BusAssumption
  <2>3. QED
        BY <1>3, <1>o, <2>1, <2>2
<1>7. OnePlace'
  <2>1. ASSUME NEW t \in Topics, NEW p \in Places, NEW q \in Places,
               subscribers'[t][p] = subscribers'[t][q], subscribers'[t][p] # NoSink
        PROVE  p = q
        BY <1>5, <1>o, <1>u, <2>1
  <2>2. ASSUME NEW t \in Topics, NEW p \in Places, NEW q \in Places,
               p < q, subscribers'[t][p] = NoSink
        PROVE  subscribers'[t][q] = NoSink
    <3>1. s0 # NoSink
          BY BusAssumption
    <3>2. subscribers[t][p] = NoSink
          BY <1>5, <2>2, <3>1
    <3>3. ~(t = t0 /\ q = p0)
          BY <1>p, <2>2, <3>2
    <3>4. QED
          BY <1>5, <1>o, <2>2, <3>2, <3>3
  <2>3. QED
        BY <1>4, <2>1, <2>2 DEF OnePlace
<1>8. \A s \in Sinks : QueueOK(s)'
      BY <1>6, QueuesRest
<1>9. QED
      BY <1>6, <1>7, <1>8 DEF BusInv

LEMMA BusStarts == BusInit => BusInv
<1> SUFFICES ASSUME BusInit PROVE BusInv
    OBVIOUS
<1>1. OnePlace
      BY DEF BusInit, OnePlace
<1> DEFINE b == NewBuffer(0, QueueCapacity)
<1>2. b \in RingOf(Nat, QueueCapacity) /\ Contents(b, QueueCapacity) = <<>>
      BY BusAssumption, NewIsEmpty
<1> HIDE DEF b
<1>3. \A s \in Sinks : queues[s] = b /\ owed[s] = {}
      BY DEF BusInit, b
<1>4. ASSUME NEW s \in Sinks PROVE QueueOK(s)
  <2>1. Contents(queues[s], QueueCapacity) = <<>> /\ Len(<<>>) = 0
        BY <1>2, <1>3
  <2>2. Held(<<>>) = {}
        BY <2>1 DEF Held
  <2>3. 1..Len(Contents(queues[s], QueueCapacity)) = {}
        BY <2>1
  <2>4. QED
        BY <1>2, <1>3, <2>1, <2>2, <2>3 DEF QueueOK
<1>5. queues \in [Sinks -> RingOf(Nat, QueueCapacity)] /\ owed \in [Sinks -> SUBSET Nat]
      BY <1>2 DEF BusInit, b
<1>6. published \in Nat
      BY DEF BusInit
<1>7. QED
      BY <1>1, <1>4, <1>5, <1>6 DEF BusInv

(***************************************************************************)
(* A subscriber has its events once and in order, for any number of        *)
(* topics, sinks and places and every capacity, however often and to       *)
(* whatever topics it subscribed (EventBus::subscribe, publish,            *)
(* EventQueue).                                                            *)
(***************************************************************************)
THEOREM MessagingEventsOnceInOrder == BusSpec => []EventsOnceInOrder
<1>1. BusInit => BusInv
      BY BusStarts
<1>2. BusInv /\ [BusNext]_busVars => BusInv'
  <2> SUFFICES ASSUME BusInv, [BusNext]_busVars PROVE BusInv'
      OBVIOUS
  <2>1. CASE \E t \in Topics, s \in Sinks : Subscribe(t, s)
        BY <2>1, BusSubscribeStep
  <2>2. CASE \E t \in Topics : Publish(t)
        BY <2>2, BusPublishStep
  <2>3. CASE \E s \in Sinks : TakeEvent(s)
        BY <2>3, BusTakeStep
  <2>4. CASE UNCHANGED busVars
        BY <2>4, QueuesRest DEF busVars, BusInv, OnePlace
  <2>5. QED
        BY <2>1, <2>2, <2>3, <2>4 DEF BusNext
<1>3. BusInv => EventsOnceInOrder
  <2> SUFFICES ASSUME BusInv, NEW s \in Sinks
               PROVE  LET events == Contents(queues[s], QueueCapacity) IN
                        /\ { events[i] : i \in 1..queues[s].count } = owed[s]
                        /\ \A i \in 2..queues[s].count : events[i-1] < events[i]
      BY DEF EventsOnceInOrder
  <2> DEFINE c == Contents(queues[s], QueueCapacity)
             n == queues[s].count
  <2>1. /\ queues[s] \in RingOf(Nat, QueueCapacity) /\ Held(c) = owed[s]
        /\ \A i, j \in 1..Len(c) : i < j => c[i] < c[j]
        BY DEF BusInv, QueueOK
  <2>2. Len(c) = n /\ n \in Nat
        BY <2>1, BusAssumption, RingFacts
  <2> HIDE DEF c, n
  <2>3. { c[i] : i \in 1..n } = owed[s]
        BY <2>1, <2>2, Zenon DEF Held
  <2>4. ASSUME NEW i \in 2..n PROVE c[i-1] < c[i]
    <3>1. i - 1 \in 1..Len(c) /\ i \in 1..Len(c) /\ i - 1 < i
          BY <2>2
    <3>2. QED
          BY <2>1, <3>1
  <2>5. QED
        BY <2>3, <2>4 DEF c, n
<1>4. QED
      BY <1>1, <1>2, <1>3, PTL DEF BusSpec

-----------------------------------------------------------------------------
(***************************************************************************)
(* A function defined by a loop exists: it starts with init, and step n    *)
(* makes its value at n from the one at n - 1.                             *)
(***************************************************************************)
Steps(N, R) == [1..N -> [R -> R]]

IsLoop(f, N, R, init, step) ==
  /\ f \in [0..N -> R]
  /\ f[0] = init
  /\ \A n \in 1..N : f[n] = step[n][f[n-1]]

LEMMA LoopExists ==
  ASSUME NEW N \in Nat, NEW R, NEW init \in R, NEW step \in Steps(N, R)
  PROVE  \E f : IsLoop(f, N, R, init, step)
<1> USE DEF Steps
<1> DEFINE Upto(n, f) == f[0] = init /\ \A m \in 1..n : f[m] = step[m][f[m-1]]
           S == { n \in Nat : n <= N => \E f \in [0..n -> R] : Upto(n, f) }
<1>1. 0 \in S
  <2> DEFINE f == [m \in 0..0 |-> init]
  <2>1. f \in [0..0 -> R] /\ Upto(0, f)
        OBVIOUS
  <2>2. QED
        BY <2>1
<1>2. ASSUME NEW n \in Nat, n \in S PROVE n + 1 \in S
  <2>1. ASSUME n + 1 <= N PROVE \E g \in [0..n+1 -> R] : Upto(n + 1, g)
    <3>1. PICK f \in [0..n -> R] : Upto(n, f)
          BY <1>2, <2>1
    <3> DEFINE g == [m \in 0..n+1 |-> IF m <= n THEN f[m] ELSE step[n+1][f[n]]]
    <3>2. f[n] \in R /\ step[n+1] \in [R -> R]
          BY <2>1
    <3>3. g \in [0..n+1 -> R]
          BY <3>2
    <3>4. g[0] = init
          BY <3>1
    <3>5. ASSUME NEW m \in 1..n+1 PROVE g[m] = step[m][g[m-1]]
      <4>1. CASE m <= n
            BY <3>1, <4>1
      <4>2. CASE m = n + 1
            BY <4>2
      <4>3. QED
            BY <4>1, <4>2
    <3>6. QED
          BY <3>3, <3>4, <3>5
  <2>2. QED
        BY <2>1
<1>3. N \in S
  <2> HIDE DEF S
  <2>1. QED
        BY <1>1, <1>2, Induction
<1>4. QED
      BY <1>3 DEF IsLoop

(* The elements of a concatenation. *)
LEMMA Joined ==
  ASSUME NEW T, NEW a \in Seq(T), NEW b \in Seq(T)
  PROVE  /\ a \o b \in Seq(T) /\ Len(a \o b) = Len(a) + Len(b)
         /\ \A i \in 1..Len(a) : (a \o b)[i] = a[i]
         /\ \A i \in 1..Len(b) : (a \o b)[Len(a) + i] = b[i]
OBVIOUS

(* What a text is made of. *)
Symbols == Characters \cup {FirstKey, SecondKey}
             \cup {"quote", "backslash", "colon", "comma", "brace"}

(* What a character becomes. *)
EscapedCharacter(c) ==
  (IF c \in {"quote", "backslash"} THEN <<"backslash">> ELSE <<>>) \o <<c>>

LEMMA EscapedCharacterIs ==
  ASSUME NEW c \in Characters
  PROVE  /\ EscapedCharacter(c) \in Seq(Symbols)
         /\ c \in {"quote", "backslash"} =>
              /\ Len(EscapedCharacter(c)) = 2
              /\ EscapedCharacter(c)[1] = "backslash" /\ EscapedCharacter(c)[2] = c
         /\ c \notin {"quote", "backslash"} =>
              Len(EscapedCharacter(c)) = 1 /\ EscapedCharacter(c)[1] = c
<1>1. CASE c \in {"quote", "backslash"}
  <2>1. EscapedCharacter(c) = <<"backslash">> \o <<c>>
        BY <1>1 DEF EscapedCharacter
  <2>2. <<"backslash">> \in Seq(Symbols) /\ <<c>> \in Seq(Symbols)
        BY DEF Symbols
  <2>3. QED
        BY <1>1, <2>1, <2>2, Joined
<1>2. CASE c \notin {"quote", "backslash"}
  <2>1. EscapedCharacter(c) = <<c>>
        BY <1>2 DEF EscapedCharacter
  <2>2. QED
        BY <1>2, <2>1 DEF Symbols
<1>3. QED
      BY <1>1, <1>2

(***************************************************************************)
(* The writer's loop: after n characters it has written written[n], and    *)
(* what it has written stays.                                              *)
(***************************************************************************)
Writes(v, written) ==
  /\ written \in [0..Len(v) -> Seq(Symbols)]
  /\ written[0] = <<>>
  /\ \A n \in 1..Len(v) : written[n] = written[n-1] \o EscapedCharacter(v[n])
  /\ Escaped(v) = written[Len(v)]

LEMMA EscapedIsWritten ==
  ASSUME NEW v \in Seq(Characters)
  PROVE  \E written : Writes(v, written)
<1> DEFINE N == Len(v)
           Loop(f) == [n \in 0..N |->
                         IF n = 0 THEN <<>>
                         ELSE f[n-1] \o (IF v[n] \in {"quote", "backslash"} THEN <<"backslash">> ELSE <<>>)
                                     \o <<v[n]>>]
           prefix == CHOOSE f : f = Loop(f)
           step == [n \in 1..N |-> [x \in Seq(Symbols) |-> x \o EscapedCharacter(v[n])]]
<1>1. Escaped(v) = prefix[N]
      BY DEF Escaped
<1>2. N \in Nat /\ (\A n \in 1..N : v[n] \in Characters) /\ <<>> \in Seq(Symbols)
      OBVIOUS
<1> HIDE DEF N
<1>3. \A n \in 1..N : EscapedCharacter(v[n]) \in Seq(Symbols)
      BY <1>2, EscapedCharacterIs
<1>4. step \in [1..N -> [Seq(Symbols) -> Seq(Symbols)]]
  <2>1. ASSUME NEW n \in 1..N, NEW x \in Seq(Symbols) PROVE x \o EscapedCharacter(v[n]) \in Seq(Symbols)
        BY <1>3, Joined
  <2>2. QED
        BY <2>1
<1>5. ASSUME NEW n \in 1..N, NEW x \in Seq(Symbols)
      PROVE  x \o (IF v[n] \in {"quote", "backslash"} THEN <<"backslash">> ELSE <<>>) \o <<v[n]>>
               = x \o EscapedCharacter(v[n])
  <2>1. v[n] \in Symbols /\ "backslash" \in Symbols
        BY <1>2 DEF Symbols
  <2>2. CASE v[n] \in {"quote", "backslash"}
    <3>1. (x \o <<"backslash">>) \o <<v[n]>> = x \o (<<"backslash">> \o <<v[n]>>)
          BY <2>1, ConcatAssociative
    <3>2. QED
          BY <2>2, <3>1 DEF EscapedCharacter
  <2>3. CASE v[n] \notin {"quote", "backslash"}
    <3>1. x \o <<>> = x /\ <<>> \o <<v[n]>> = <<v[n]>>
          BY <2>1
    <3>2. QED
          BY <2>3, <3>1 DEF EscapedCharacter
  <2>4. QED
        BY <2>2, <2>3
<1>6. PICK g \in [0..N -> Seq(Symbols)] :
             g[0] = <<>> /\ \A n \in 1..N : g[n] = step[n][g[n-1]]
  <2> DEFINE R == Seq(Symbols)
             init == <<>>
  <2>1. N \in Nat /\ init \in R /\ step \in Steps(N, R)
        BY <1>2, <1>4 DEF Steps
  <2> HIDE DEF step, R, init
  <2>2. \E f : IsLoop(f, N, R, init, step)
        BY <2>1, LoopExists
  <2>3. QED
        BY <2>2 DEF IsLoop, R, init
<1>7. \A n \in 1..N : n - 1 \in 0..N /\ g[n-1] \in Seq(Symbols)
      BY <1>2, <1>6
<1>8. \A n \in 1..N : g[n] = g[n-1] \o EscapedCharacter(v[n])
      BY <1>6, <1>7
<1>9. g = Loop(g)
  <2>1. ASSUME NEW n \in 0..N PROVE g[n] = Loop(g)[n]
    <3>1. CASE n = 0
          BY <1>6, <3>1
    <3>2. CASE n # 0
      <4>1. n \in 1..N
            BY <1>2, <3>2
      <4>2. Loop(g)[n] = g[n-1] \o (IF v[n] \in {"quote", "backslash"} THEN <<"backslash">> ELSE <<>>) \o <<v[n]>>
            BY <3>2
      <4>3. QED
            BY <4>1, <4>2, <1>5, <1>7, <1>8
    <3>3. QED
          BY <3>1, <3>2
  <2>2. QED
        BY <2>1, <1>6
<1>10. prefix = Loop(prefix)
  <2> HIDE DEF Loop
  <2>1. QED
        BY <1>9
<1> HIDE DEF prefix
<1>11. /\ prefix = [n \in 0..N |-> prefix[n]] /\ prefix[0] = <<>>
       /\ \A n \in 1..N : prefix[n] = prefix[n-1] \o (IF v[n] \in {"quote", "backslash"} THEN <<"backslash">> ELSE <<>>) \o <<v[n]>>
  <2>1. prefix = [n \in 0..N |-> prefix[n]]
        BY <1>10
  <2>2. \A n \in 0..N : prefix[n] = Loop(prefix)[n]
        BY <1>10
  <2>3. prefix[0] = <<>>
    <3>1. 0 \in 0..N
          BY <1>2
    <3>2. Loop(prefix)[0] = <<>>
          BY <3>1
    <3>3. QED
          BY <2>2, <3>1, <3>2
  <2>4. ASSUME NEW n \in 1..N
        PROVE  prefix[n] = prefix[n-1] \o (IF v[n] \in {"quote", "backslash"} THEN <<"backslash">> ELSE <<>>) \o <<v[n]>>
    <3>1. n \in 0..N /\ n # 0
          BY <1>2
    <3>2. QED
          BY <2>2, <3>1
  <2>5. QED
        BY <2>1, <2>3, <2>4
<1>12. \A n \in Nat : n <= N => prefix[n] \in Seq(Symbols)
  <2> DEFINE S == { n \in Nat : n <= N => prefix[n] \in Seq(Symbols) }
  <2>1. 0 \in S
        BY <1>2, <1>11
  <2>2. ASSUME NEW n \in Nat, n \in S PROVE n + 1 \in S
    <3>1. ASSUME n + 1 <= N PROVE prefix[n+1] \in Seq(Symbols)
      <4>1. n + 1 \in 1..N /\ (n + 1) - 1 = n /\ prefix[n] \in Seq(Symbols)
            BY <1>2, <2>2, <3>1
      <4>2. prefix[n+1] = prefix[n] \o EscapedCharacter(v[n+1])
            BY <1>5, <1>11, <4>1
      <4>3. QED
            BY <1>3, <4>1, <4>2, Joined
    <3>2. QED
          BY <3>1
  <2>3. QED
    <3> HIDE DEF S
    <3>1. \A n \in Nat : n \in S
          BY <2>1, <2>2, Induction
    <3>2. QED
          BY <3>1 DEF S
<1>13. prefix \in [0..N -> Seq(Symbols)]
      BY <1>2, <1>11, <1>12
<1>14. \A n \in 1..N : prefix[n] = prefix[n-1] \o EscapedCharacter(v[n])
  <2>1. \A n \in 1..N : prefix[n-1] \in Seq(Symbols)
        BY <1>2, <1>12
  <2>2. QED
        BY <1>5, <1>11, <2>1
<1>15. QED
      BY <1>1, <1>11, <1>13, <1>14 DEF Writes, N

(* What was written stays. *)
LEMMA WrittenStays ==
  ASSUME NEW v \in Seq(Characters), NEW written, Writes(v, written), NEW n \in 0..Len(v)
  PROVE  /\ Len(written[n]) <= Len(Escaped(v))
         /\ \A i \in 1..Len(written[n]) : Escaped(v)[i] = written[n][i]
<1> DEFINE Stays(k) == /\ Len(written[n]) <= Len(written[k])
                       /\ \A i \in 1..Len(written[n]) : written[k][i] = written[n][i]
           S == { d \in Nat : n + d <= Len(v) => Stays(n + d) }
<1>0. Len(v) \in Nat
      OBVIOUS
<1>1. 0 \in S
  <2>1. n + 0 = n /\ written[n] \in Seq(Symbols)
        BY <1>0 DEF Writes
  <2>2. QED
        BY <2>1
<1>2. ASSUME NEW d \in Nat, d \in S PROVE d + 1 \in S
  <2>1. ASSUME n + (d + 1) <= Len(v) PROVE Stays(n + (d + 1))
    <3> DEFINE k == n + (d + 1)
               e == EscapedCharacter(v[k])
    <3>1. k \in 1..Len(v) /\ k - 1 = n + d /\ k - 1 \in 0..Len(v) /\ Stays(k - 1)
          BY <1>0, <1>2, <2>1
    <3>2. written[k] = written[k-1] \o e
          BY <3>1 DEF Writes
    <3>3. e \in Seq(Symbols) /\ written[k-1] \in Seq(Symbols) /\ written[n] \in Seq(Symbols)
      <4>1. v[k] \in Characters
            BY <3>1
      <4>2. e \in Seq(Symbols)
            BY <4>1, EscapedCharacterIs
      <4>3. QED
            BY <3>1, <4>2 DEF Writes
    <3> HIDE DEF k, e
    <3>4. /\ Len(written[k]) = Len(written[k-1]) + Len(e)
          /\ \A i \in 1..Len(written[k-1]) : written[k][i] = written[k-1][i]
          BY <3>2, <3>3, Joined
    <3>5. Len(written[k-1]) \in Nat /\ Len(e) \in Nat /\ Len(written[n]) \in Nat
          BY <3>3
    <3>6. Len(written[n]) <= Len(written[k])
          BY <3>1, <3>4, <3>5
    <3>7. \A i \in 1..Len(written[n]) : i \in 1..Len(written[k-1])
          BY <3>1, <3>5
    <3>8. QED
          BY <3>1, <3>4, <3>6, <3>7 DEF k
  <2>2. QED
        BY <2>1
<1>3. Len(v) - n \in S
  <2> HIDE DEF S
  <2>1. Len(v) - n \in Nat
        BY <1>0
  <2>2. QED
        BY <1>1, <1>2, <2>1, Induction
<1>4. n + (Len(v) - n) = Len(v)
      BY <1>0
<1>5. QED
      BY <1>3, <1>4 DEF Writes

(* Every quote that the writer writes for a value has a backslash before it. *)
LEMMA QuotesAreEscaped ==
  ASSUME NEW v \in Seq(Characters)
  PROVE  /\ Escaped(v) \in Seq(Symbols)
         /\ \A i \in 1..Len(Escaped(v)) :
              Escaped(v)[i] = "quote" => i > 1 /\ Escaped(v)[i-1] = "backslash"
<1>1. PICK written : Writes(v, written)
      BY EscapedIsWritten
<1> DEFINE Safe(s) == \A i \in 1..Len(s) : s[i] = "quote" => i > 1 /\ s[i-1] = "backslash"
           S == { n \in Nat : n <= Len(v) => Safe(written[n]) }
<1>2. 0 \in S
  <2>1. Safe(<<>>)
        OBVIOUS
  <2>2. QED
        BY <1>1, <2>1 DEF Writes
<1>3. ASSUME NEW n \in Nat, n \in S PROVE n + 1 \in S
  <2>1. ASSUME n + 1 <= Len(v) PROVE Safe(written[n+1])
    <3> DEFINE a == written[n]
               c == v[n+1]
               e == EscapedCharacter(c)
    <3>1. n + 1 \in 1..Len(v) /\ (n + 1) - 1 = n /\ n \in 0..Len(v)
          BY <2>1
    <3>2. c \in Characters /\ a \in Seq(Symbols) /\ Safe(a) /\ written[n+1] = a \o e
      <4>1. c \in Characters
            BY <3>1
      <4>2. a \in Seq(Symbols) /\ Safe(a)
            BY <1>1, <1>3, <3>1 DEF Writes
      <4>3. written[n+1] = written[(n+1)-1] \o EscapedCharacter(v[n+1])
            BY <1>1, <3>1 DEF Writes
      <4>4. QED
            BY <3>1, <4>1, <4>2, <4>3
    <3> HIDE DEF a, c
    <3>3. /\ e \in Seq(Symbols)
          /\ c \in {"quote", "backslash"} => Len(e) = 2 /\ e[1] = "backslash" /\ e[2] = c
          /\ c \notin {"quote", "backslash"} => Len(e) = 1 /\ e[1] = c
          BY <3>2, EscapedCharacterIs
    <3> HIDE DEF e
    <3>4. /\ Len(a \o e) = Len(a) + Len(e) /\ Len(a) \in Nat /\ Len(e) \in Nat
          /\ \A i \in 1..Len(a) : (a \o e)[i] = a[i]
          /\ \A i \in 1..Len(e) : (a \o e)[Len(a) + i] = e[i]
          BY <3>2, <3>3, Joined
    <3>5. ASSUME NEW i \in 1..Len(a \o e), (a \o e)[i] = "quote"
          PROVE  i > 1 /\ (a \o e)[i-1] = "backslash"
      <4>1. CASE i <= Len(a)
        <5>1. i \in 1..Len(a) /\ a[i] = "quote"
              BY <3>4, <3>5, <4>1
        <5>2. i > 1 /\ a[i-1] = "backslash" /\ i - 1 \in 1..Len(a)
              BY <3>2, <3>4, <5>1
        <5>3. QED
              BY <3>4, <5>2
      <4>2. CASE i > Len(a)
        <5>1. i - Len(a) \in 1..Len(e) /\ Len(a) + (i - Len(a)) = i
              BY <3>4, <4>2
        <5>2. e[i - Len(a)] = "quote"
              BY <3>4, <3>5, <5>1
        <5>3. c \in {"quote", "backslash"} /\ i - Len(a) = 2
              BY <3>3, <3>4, <5>1, <5>2
        <5>4. i - 1 = Len(a) + 1 /\ i > 1 /\ 1 \in 1..Len(e)
              BY <3>3, <3>4, <5>3
        <5>5. (a \o e)[i-1] = e[1]
              BY <3>4, <5>4
        <5>6. QED
              BY <3>3, <5>3, <5>4, <5>5
      <4>3. QED
            BY <3>4, <4>1, <4>2
    <3>6. QED
          BY <3>2, <3>5
  <2>2. QED
        BY <2>1
<1>4. Len(v) \in S
  <2> HIDE DEF S
  <2>1. QED
        BY <1>2, <1>3, Induction
<1>5. QED
      BY <1>1, <1>4 DEF Writes

-----------------------------------------------------------------------------
(* Where no blank stands, none is skipped. *)
LEMMA NoBlanks ==
  ASSUME NEW t \in Seq(Symbols), NEW p \in 1..Len(t), t[p] # "blank"
  PROVE  AfterBlanks(t, p) = p
<1> DEFINE After(q) == /\ \A r \in p..q-1 : t[r] = "blank"
                       /\ q = Len(t) + 1 \/ t[q] # "blank"
<1>1. Len(t) \in Nat
      OBVIOUS
<1>2. p \in p..Len(t)+1 /\ After(p)
      BY <1>1
<1>3. ASSUME NEW q \in p..Len(t)+1, After(q) PROVE q = p
      BY <1>1, <1>3
<1>4. AfterBlanks(t, p) = CHOOSE q \in p..Len(t)+1 : After(q)
      BY DEF AfterBlanks
<1>5. QED
  <2> HIDE DEF After
  <2>1. QED
        BY <1>2, <1>3, <1>4

(***************************************************************************)
(* The scanner finds a key and its value, if no key stands before them.    *)
(***************************************************************************)
LEMMA FoundValue ==
  ASSUME NEW t \in Seq(Symbols), NEW key, NEW s \in 1..Len(t), s + 4 <= Len(t),
         t[s] = "quote", t[s+1] = key, t[s+2] = "quote", t[s+3] = "colon", t[s+4] = "quote",
         \A r \in 1..s-1 : ~KeyAt(t, key, r)
  PROVE  find_value(t, key) = s + 4
<1>0. Len(t) \in Nat
      OBVIOUS
<1>1. AfterBlanks(t, s + 3) = s + 3
  <2>1. s + 3 \in 1..Len(t) /\ t[s+3] # "blank"
        BY <1>0
  <2>2. QED
        BY <2>1, NoBlanks
<1>2. AfterBlanks(t, (s + 3) + 1) = s + 4
  <2>1. s + 4 \in 1..Len(t) /\ t[s+4] # "blank" /\ (s + 3) + 1 = s + 4
        BY <1>0
  <2>2. QED
        BY <2>1, NoBlanks
<1>3. SubSeq(t, s, s + 2) = <<"quote", key, "quote">>
  <2>1. s \in 1..Len(t)+1 /\ s + 2 \in s-1..Len(t)
        BY <1>0
  <2>2. /\ SubSeq(t, s, s + 2) \in Seq(Symbols) /\ Len(SubSeq(t, s, s + 2)) = 3
        /\ \A i \in 1..3 : SubSeq(t, s, s + 2)[i] = t[s + i - 1]
        BY <1>0, <2>1, SubSeqProperties
  <2> DEFINE found == SubSeq(t, s, s + 2)
             sought == <<"quote", key, "quote">>
  <2>3. /\ sought \in Seq(Symbols) /\ Len(sought) = 3
        /\ sought[1] = "quote" /\ sought[2] = key /\ sought[3] = "quote"
    <3>1. t[s+1] \in Symbols /\ "quote" \in Symbols
          BY <1>0 DEF Symbols
    <3>2. QED
          BY <3>1
  <2>4. found[1] = "quote" /\ found[2] = key /\ found[3] = "quote"
    <3>1. s + 1 - 1 = s /\ s + 2 - 1 = s + 1 /\ s + 3 - 1 = s + 2
          OBVIOUS
    <3>2. QED
          BY <2>2, <3>1
  <2>5. found \in Seq(Symbols) /\ Len(found) = 3
        BY <2>2
  <2> HIDE DEF found, sought
  <2>6. \A i \in 1..Len(found) : found[i] = sought[i]
        BY <2>3, <2>4, <2>5
  <2>7. found = sought
        BY <2>3, <2>5, <2>6, SeqEqual
  <2>8. QED
        BY <2>7 DEF found, sought
<1>4. KeyAt(t, key, s)
      BY <1>0, <1>1, <1>3 DEF KeyAt
<1> DEFINE starts == { r \in 1..Len(t) : KeyAt(t, key, r) }
<1>5. s \in starts /\ \A r \in starts : s <= r
      BY <1>0, <1>4
<1>6. find_value(t, key) =
        IF starts = {} THEN Len(t) + 1
        ELSE LET q == CHOOSE q \in starts : \A r \in starts : q <= r
             IN AfterBlanks(t, AfterBlanks(t, q + 3) + 1)
      BY DEF find_value
<1>7. (CHOOSE q \in starts : \A r \in starts : q <= r) = s
  <2>1. \A q \in starts : (\A r \in starts : q <= r) => q = s
        BY <1>0, <1>5
  <2> HIDE DEF starts
  <2>2. QED
        BY <1>5, <2>1
<1>8. QED
  <2> HIDE DEF starts
  <2>1. QED
        BY <1>1, <1>2, <1>5, <1>6, <1>7

-----------------------------------------------------------------------------
(***************************************************************************)
(* The body of get_string's loop at q: what is read from there on.         *)
(***************************************************************************)
TailAt(t, tail, q) ==
  IF q > Len(t) THEN NoValue
  ELSE IF t[q] = "quote" THEN <<>>
  ELSE LET c == IF t[q] = "backslash" /\ q < Len(t) THEN q + 1 ELSE q
       IN IF tail[c+1] = NoValue THEN NoValue ELSE <<t[c]>> \o tail[c+1]

(* The loop runs from the end: two values of tail give the one before. *)
LEMMA TailExists ==
  ASSUME NEW t \in Seq(Symbols)
  PROVE  \E tail : tail = [q \in 1..Len(t)+2 |-> TailAt(t, tail, q)]
<1> DEFINE L == Len(t)
           V == Seq(Symbols) \cup {NoValue}
           R == V \X V
           Before(q, a, b) ==
             IF q > L THEN NoValue
             ELSE IF t[q] = "quote" THEN <<>>
             ELSE IF t[q] = "backslash" /\ q < L
             THEN IF b = NoValue THEN NoValue ELSE <<t[q+1]>> \o b
             ELSE IF a = NoValue THEN NoValue ELSE <<t[q]>> \o a
           init == <<NoValue, NoValue>>
           step == [m \in 1..L+1 |-> [x \in R |-> <<Before(L+2-m, x[1], x[2]), x[1]>>]]
<1>1. L \in Nat /\ (\A i \in 1..L : t[i] \in Symbols) /\ <<>> \in V /\ NoValue \in V
      OBVIOUS
<1> HIDE DEF L
<1>2. ASSUME NEW i \in 1..L, NEW x \in V, x # NoValue PROVE <<t[i]>> \o x \in V
  <2>1. <<t[i]>> \in Seq(Symbols) /\ x \in Seq(Symbols)
        BY <1>1, <1>2
  <2>2. QED
        BY <2>1, Joined
<1>3. ASSUME NEW q \in 1..L+1, NEW a \in V, NEW b \in V PROVE Before(q, a, b) \in V
  <2>1. CASE q > L
        BY <1>1, <2>1
  <2>2. CASE q <= L
    <3>1. q \in 1..L /\ (q < L => q + 1 \in 1..L)
          BY <1>1, <2>2
    <3>2. (a # NoValue => <<t[q]>> \o a \in V) /\ (q < L /\ b # NoValue => <<t[q+1]>> \o b \in V)
          BY <1>2, <3>1
    <3> HIDE DEF V
    <3>3. QED
          BY <1>1, <2>2, <3>2
  <2>3. QED
        BY <1>1, <2>1, <2>2
<1>4. step \in Steps(L + 1, R) /\ init \in R
  <2>1. ASSUME NEW m \in 1..L+1, NEW x \in R PROVE <<Before(L+2-m, x[1], x[2]), x[1]>> \in R
    <3>1. L+2-m \in 1..L+1 /\ x[1] \in V /\ x[2] \in V
          BY <1>1
    <3>2. Before(L+2-m, x[1], x[2]) \in V
          BY <1>3, <3>1
    <3> HIDE DEF Before, V
    <3>3. QED
          BY <3>1, <3>2
  <2> HIDE DEF Before, V
  <2>2. QED
        BY <1>1, <2>1 DEF Steps
<1>5. PICK g : IsLoop(g, L + 1, R, init, step)
  <2> HIDE DEF step, R, init
  <2>1. L + 1 \in Nat
        BY <1>1
  <2>2. QED
        BY <1>4, <2>1, LoopExists
<1>6. /\ g[0][1] = NoValue /\ \A m \in 0..L+1 : g[m] \in R
      /\ \A m \in 1..L+1 : /\ g[m][1] = Before(L+2-m, g[m-1][1], g[m-1][2])
                           /\ g[m][2] = g[m-1][1]
  <2> HIDE DEF Before, V
  <2>1. \A m \in 0..L+1 : g[m] \in R
        BY <1>5 DEF IsLoop
  <2>2. g[0][1] = NoValue
        BY <1>5 DEF IsLoop
  <2>3. ASSUME NEW m \in 1..L+1
        PROVE  g[m][1] = Before(L+2-m, g[m-1][1], g[m-1][2]) /\ g[m][2] = g[m-1][1]
    <3>1. m - 1 \in 0..L+1
          BY <1>1
    <3>2. g[m-1] \in R
          BY <2>1, <3>1
    <3>3. g[m] = step[m][g[m-1]]
          BY <1>5 DEF IsLoop
    <3>4. QED
          BY <3>2, <3>3
  <2>4. QED
        BY <2>1, <2>2, <2>3
<1> DEFINE h == [q \in 1..L+2 |-> g[L+2-q][1]]
<1>7. ASSUME NEW q \in 1..L+2 PROVE h[q] = TailAt(t, h, q)
  <2>1. CASE q = L + 2
    <3>1. h[q] = g[0][1] /\ q > L
          BY <1>1, <2>1
    <3>2. QED
          BY <1>6, <3>1 DEF TailAt, L
  <2>2. CASE q # L + 2
    <3> DEFINE m == L+2-q
    <3>1. m \in 1..L+1 /\ m - 1 = L+2-(q+1) /\ L+2-m = q /\ q + 1 \in 1..L+2
          BY <1>1, <2>2
    <3>2. h[q] = Before(q, g[m-1][1], g[m-1][2]) /\ h[q+1] = g[m-1][1]
      <4>1. h[q] = g[m][1] /\ h[q+1] = g[m-1][1]
            BY <3>1
      <4> HIDE DEF Before, h, m
      <4>2. QED
            BY <1>6, <3>1, <4>1
    <3>3. ASSUME q <= L PROVE h[q+2] = g[m-1][2]
      <4>1. m - 1 \in 1..L+1 /\ (m-1)-1 = L+2-(q+2) /\ q + 2 \in 1..L+2
            BY <1>1, <3>1, <3>3
      <4>2. h[q+2] = g[(m-1)-1][1]
            BY <4>1
      <4> HIDE DEF Before, h, m
      <4>3. g[m-1][2] = g[(m-1)-1][1]
            BY <1>6, <4>1
      <4>4. QED
            BY <4>2, <4>3
    <3> HIDE DEF h, m
    <3>4. CASE q > L
          BY <3>2, <3>4 DEF TailAt, L
    <3>5. CASE q <= L
      <4>1. ~(q > L) /\ (q + 1) + 1 = q + 2
            BY <1>1, <3>5
      <4>2. h[q] = Before(q, h[q+1], h[q+2])
            BY <3>2, <3>3, <3>5
      <4>3. QED
            BY <4>1, <4>2 DEF TailAt, L
    <3>6. QED
          BY <1>1, <3>4, <3>5
  <2>3. QED
        BY <2>1, <2>2
<1>8. h = [q \in 1..L+2 |-> TailAt(t, h, q)]
  <2> DEFINE k == [q \in 1..L+2 |-> TailAt(t, h, q)]
  <2>1. \A q \in 1..L+2 : h[q] = k[q]
    <3> HIDE DEF h
    <3>1. QED
          BY <1>7
  <2>2. QED
        BY <2>1
<1>9. QED
      BY <1>8 DEF L

(***************************************************************************)
(* get_string undoes field_string: behind an opening quote, the escaped    *)
(* text of a value and a closing quote, it reads the value.                *)
(***************************************************************************)
LEMMA ReadBack ==
  ASSUME NEW v \in Seq(Characters), NEW t \in Seq(Symbols), NEW key,
         NEW p \in 1..Len(t), find_value(t, key) = p, t[p] = "quote",
         p + Len(Escaped(v)) + 1 <= Len(t),
         \A i \in 1..Len(Escaped(v)) : t[p+i] = Escaped(v)[i],
         t[p + Len(Escaped(v)) + 1] = "quote",
         \A s \in Seq(Characters) : Len(s) <= Len(v) => s # NoValue
  PROVE  get_string(t, key) = v
<1> DEFINE N == Len(v)
           Loop(f) == [q \in 1..Len(t)+2 |-> TailAt(t, f, q)]
           tail == CHOOSE f : f = Loop(f)
<1>1. get_string(t, key) = tail[p+1]
  <2>1. ~(p > Len(t))
        OBVIOUS
  <2>2. get_string(t, key) =
          IF p > Len(t) THEN NoValue ELSE IF t[p] # "quote" THEN NoValue ELSE tail[p+1]
        BY DEF get_string, TailAt
  <2>3. QED
        BY <2>1, <2>2
<1>2. \A q \in 1..Len(t)+2 : tail[q] = TailAt(t, tail, q)
  <2>1. \E f : f = Loop(f)
        BY TailExists
  <2>2. tail = Loop(tail)
    <3> HIDE DEF Loop
    <3>1. QED
          BY <2>1
  <2> HIDE DEF tail
  <2>3. QED
        BY <2>2
<1> HIDE DEF tail
<1>3. PICK written : Writes(v, written)
      BY EscapedIsWritten
<1>4. N \in Nat /\ Len(t) \in Nat
      OBVIOUS
<1>5. \A n \in 0..N : written[n] \in Seq(Symbols) /\ Len(written[n]) \in Nat
      BY <1>3 DEF Writes
<1> DEFINE At(n) == p + Len(written[n]) + 1
           Rest(n) == SubSeq(v, n + 1, N)
           S == { m \in Nat : m <= N => tail[At(N - m)] = Rest(N - m) }
<1>6. \A n \in 0..N : Rest(n) \in Seq(Characters) /\ Len(Rest(n)) = N - n
  <2>1. ASSUME NEW n \in 0..N PROVE Rest(n) \in Seq(Characters) /\ Len(Rest(n)) = N - n
    <3>1. n + 1 \in Int /\ N \in Int /\ \A i \in n+1..N : v[i] \in Characters
          BY <1>4
    <3>2. /\ Rest(n) \in Seq(Characters)
          /\ Len(Rest(n)) = IF n + 1 <= N THEN N - (n + 1) + 1 ELSE 0
          BY <3>1, SubSeqProperties
    <3>3. QED
          BY <1>4, <3>2
  <2>2. QED
        BY <2>1
<1>7. 0 \in S
  <2>1. N - 0 = N /\ N \in 0..N
        BY <1>4
  <2>2. At(N) = p + Len(Escaped(v)) + 1 /\ At(N) \in 1..Len(t)+2 /\ ~(At(N) > Len(t))
        BY <1>3, <1>4, <1>5, <2>1 DEF Writes
  <2>3. t[At(N)] = "quote"
        BY <2>2
  <2> HIDE DEF At
  <2>4. tail[At(N)] = <<>>
        BY <1>2, <2>2, <2>3 DEF TailAt
  <2>5. Rest(N) = <<>>
        BY <1>4, SubSeqEmpty
  <2>6. QED
        BY <2>1, <2>4, <2>5
<1>8. ASSUME NEW m \in Nat, m \in S PROVE m + 1 \in S
  <2>1. ASSUME m + 1 <= N PROVE tail[At(N - (m + 1))] = Rest(N - (m + 1))
    <3> DEFINE n == N - m
               c == v[n]
               e == EscapedCharacter(c)
               q == At(n - 1)
    <3>1. n \in 1..N /\ n - 1 \in 0..N /\ n \in 0..N /\ n - 1 = N - (m + 1) /\ (n - 1) + 1 = n
          BY <1>4, <2>1
    <3>2. tail[At(n)] = Rest(n)
          BY <1>8, <2>1, <1>4
    <3> HIDE DEF n
    <3>3. c \in Characters /\ written[n] = written[n-1] \o e
      <4>1. c \in Characters
            BY <3>1
      <4>2. written[n] = written[n-1] \o EscapedCharacter(v[n])
            BY <1>3, <3>1 DEF Writes
      <4>3. QED
            BY <4>1, <4>2
    <3> HIDE DEF c
    <3>4. /\ e \in Seq(Symbols) /\ Len(e) \in Nat
          /\ c \in {"quote", "backslash"} => Len(e) = 2 /\ e[1] = "backslash" /\ e[2] = c
          /\ c \notin {"quote", "backslash"} => Len(e) = 1 /\ e[1] = c
          BY <3>3, EscapedCharacterIs
    <3> HIDE DEF e
    <3> DEFINE b == Len(written[n-1])
    <3>5. /\ b \in Nat /\ Len(written[n]) = b + Len(e)
          /\ \A i \in 1..Len(e) : written[n][b + i] = e[i]
          BY <1>5, <3>1, <3>3, <3>4, Joined
    <3>6. /\ Len(written[n]) <= Len(Escaped(v)) /\ Len(Escaped(v)) \in Nat
          /\ \A i \in 1..Len(written[n]) : Escaped(v)[i] = written[n][i]
      <4>1. Len(Escaped(v)) \in Nat
            BY <1>3, <1>4, <1>5 DEF Writes
      <4>2. n \in 0..Len(v)
            BY <3>1
      <4> HIDE DEF N
      <4>3. QED
            BY <1>3, <4>1, <4>2, WrittenStays
    <3>7. q = p + b + 1 /\ At(n) = p + (b + Len(e)) + 1
          BY <3>5
    <3> HIDE DEF b, q, At
    <3>8. ASSUME NEW i \in 1..Len(e) PROVE t[p + (b + i)] = e[i] /\ p + (b + i) < Len(t)
      <4>1. b + i \in 1..Len(written[n]) /\ b + i \in 1..Len(Escaped(v))
            BY <3>4, <3>5, <3>6
      <4>2. t[p + (b + i)] = Escaped(v)[b + i]
            BY <4>1
      <4>3. Escaped(v)[b + i] = e[i]
            BY <3>5, <3>6, <4>1
      <4>4. p + (b + i) < Len(t)
            BY <1>4, <3>5, <3>6, <4>1
      <4>5. QED
            BY <4>2, <4>3, <4>4
    <3>9. Rest(n) # NoValue
      <4>1. Rest(n) \in Seq(Characters) /\ Len(Rest(n)) <= Len(v)
            BY <1>4, <1>6, <3>1
      <4> HIDE DEF Rest
      <4>2. QED
            BY <4>1
    <3>10. Rest(n - 1) = <<c>> \o Rest(n)
      <4>1. n \in 1..Len(v)+1 /\ Len(v) \in n..Len(v)
            BY <1>4, <3>1
      <4>2. SubSeq(v, n, N) = <<v[n]>> \o SubSeq(v, n + 1, N)
            BY <1>4, <3>1, <4>1, SubSeqRecursiveFirst
      <4>3. QED
            BY <3>1, <4>2 DEF c
    <3>11. tail[q] = <<c>> \o tail[At(n)]
      <4>1. 1 \in 1..Len(e) /\ p + (b + 1) = q /\ q \in Nat
            BY <3>4, <3>5, <3>7
      <4>2. t[q] = e[1] /\ q < Len(t) /\ ~(q > Len(t))
            BY <1>4, <3>8, <4>1
      <4>3. q \in 1..Len(t)+2 /\ tail[At(n)] # NoValue
        <5>0. b \in Nat /\ p \in Nat
              BY <1>4, <3>5
        <5>1. q >= 1
              BY <3>7, <5>0
        <5>2. q \in 1..Len(t)+2
              BY <1>4, <4>1, <4>2, <5>1
        <5> HIDE DEF Rest
        <5>3. QED
              BY <3>2, <3>9, <5>2
      <4>4. CASE c \in {"quote", "backslash"}
        <5>0. Len(e) = 2 /\ b \in Nat /\ p \in Nat
              BY <1>4, <3>4, <3>5, <4>4
        <5>1. 2 \in 1..Len(e) /\ p + (b + 2) = q + 1 /\ At(n) = (q + 1) + 1
              BY <3>7, <5>0
        <5>2. t[q] = "backslash" /\ t[q+1] = c
              BY <3>4, <3>8, <4>2, <4>4, <5>1
        <5>3. TailAt(t, tail, q) = <<c>> \o tail[(q + 1) + 1]
              BY <4>2, <4>3, <5>1, <5>2 DEF TailAt
        <5>4. QED
              BY <1>2, <4>3, <5>1, <5>3
      <4>5. CASE c \notin {"quote", "backslash"}
        <5>0. Len(e) = 1 /\ b \in Nat /\ p \in Nat
              BY <1>4, <3>4, <3>5, <4>5
        <5>1. At(n) = q + 1
              BY <3>7, <5>0
        <5>2. t[q] = c
              BY <3>4, <4>2, <4>5
        <5>3. TailAt(t, tail, q) = <<c>> \o tail[q + 1]
              BY <4>2, <4>3, <4>5, <5>1, <5>2 DEF TailAt
        <5>4. QED
              BY <1>2, <4>3, <5>1, <5>3
      <4>6. QED
            BY <4>4, <4>5
    <3>12. QED
      <4> HIDE DEF Rest
      <4>1. tail[q] = Rest(n - 1)
            BY <3>2, <3>10, <3>11
      <4>2. QED
            BY <3>1, <4>1 DEF q
  <2>2. QED
        BY <2>1
<1>9. N \in S
  <2> HIDE DEF S
  <2>1. QED
        BY <1>4, <1>7, <1>8, Induction
<1>10. tail[p+1] = v
  <2>1. N - N = 0 /\ 0 \in 0..N /\ N <= N
        BY <1>4
  <2>2. tail[At(0)] = Rest(0)
        BY <1>9, <2>1
  <2>3. At(0) = p + 1
    <3>1. Len(written[0]) = 0
          BY <1>3 DEF Writes
    <3>2. QED
          BY <3>1
  <2>4. Rest(0) = v
    <3>1. SubSeq(v, 1, Len(v)) = v
          BY SubSeqFull
    <3>2. QED
          BY <3>1
  <2>5. QED
        BY <2>2, <2>3, <2>4
<1>11. QED
      BY <1>1, <1>10

-----------------------------------------------------------------------------
(* The characters of a field, by their places. *)
LEMMA FieldIs ==
  ASSUME NEW key \in {FirstKey, SecondKey}, NEW v \in Seq(Characters)
  PROVE  LET f == field_string(key, v)
             e == Escaped(v)
         IN /\ f \in Seq(Symbols) /\ Len(f) = Len(e) + 6
            /\ f[1] = "quote" /\ f[2] = key /\ f[3] = "quote" /\ f[4] = "colon" /\ f[5] = "quote"
            /\ \A i \in 1..Len(e) : f[5 + i] = e[i]
            /\ f[6 + Len(e)] = "quote"
<1> DEFINE head == <<"quote", key, "quote", "colon", "quote">>
           e == Escaped(v)
           last == <<"quote">>
<1>1. /\ head \in Seq(Symbols) /\ Len(head) = 5 /\ head[1] = "quote" /\ head[2] = key
      /\ head[3] = "quote" /\ head[4] = "colon" /\ head[5] = "quote"
  <2>1. key \in Symbols /\ "quote" \in Symbols /\ "colon" \in Symbols
        BY DEF Symbols
  <2>2. QED
        BY <2>1
<1>2. last \in Seq(Symbols) /\ Len(last) = 1 /\ last[1] = "quote"
      BY DEF Symbols
<1>3. e \in Seq(Symbols) /\ Len(e) \in Nat
  <2>1. e \in Seq(Symbols)
        BY QuotesAreEscaped
  <2> HIDE DEF e
  <2>2. QED
        BY <2>1
<1>4. field_string(key, v) = (head \o e) \o last
      BY DEF field_string
<1> HIDE DEF head, e, last
<1>5. /\ head \o e \in Seq(Symbols) /\ Len(head \o e) = 5 + Len(e)
      /\ \A i \in 1..5 : (head \o e)[i] = head[i]
      /\ \A i \in 1..Len(e) : (head \o e)[5 + i] = e[i]
  <2>1. head \in Seq(Symbols) /\ e \in Seq(Symbols)
        BY <1>1, <1>3
  <2>2. /\ head \o e \in Seq(Symbols) /\ Len(head \o e) = Len(head) + Len(e)
        /\ \A i \in 1..Len(head) : (head \o e)[i] = head[i]
        /\ \A i \in 1..Len(e) : (head \o e)[Len(head) + i] = e[i]
        BY <2>1, Joined
  <2>3. QED
        BY <1>1, <2>2
<1> DEFINE a == head \o e
<1> HIDE DEF a
<1>6. /\ a \o last \in Seq(Symbols) /\ Len(a \o last) = (5 + Len(e)) + 1
      /\ \A i \in 1..5 + Len(e) : (a \o last)[i] = a[i]
      /\ \A i \in 1..1 : (a \o last)[(5 + Len(e)) + i] = last[i]
  <2>1. a \in Seq(Symbols) /\ Len(a) = 5 + Len(e)
        BY <1>5 DEF a
  <2>2. a \in Seq(Symbols) /\ last \in Seq(Symbols)
        BY <1>2, <2>1
  <2>3. /\ a \o last \in Seq(Symbols) /\ Len(a \o last) = Len(a) + Len(last)
        /\ \A i \in 1..Len(a) : (a \o last)[i] = a[i]
        /\ \A i \in 1..Len(last) : (a \o last)[Len(a) + i] = last[i]
        BY <2>2, Joined
  <2>4. QED
        BY <1>2, <2>1, <2>3
<1> DEFINE f == a \o last
<1> HIDE DEF f
<1>7. f[1] = "quote" /\ f[2] = key /\ f[3] = "quote" /\ f[4] = "colon" /\ f[5] = "quote"
  <2>1. \A i \in 1..5 : f[i] = head[i]
    <3>1. \A i \in 1..5 : i \in 1..5 + Len(e)
          BY <1>3
    <3>2. QED
          BY <1>5, <1>6, <3>1 DEF f, a
  <2>2. QED
        BY <1>1, <2>1
<1>8. \A i \in 1..Len(e) : f[5 + i] = e[i]
  <2>1. \A i \in 1..Len(e) : 5 + i \in 1..5 + Len(e)
        BY <1>3
  <2>2. QED
        BY <1>5, <1>6, <2>1 DEF f, a
<1>9. f[6 + Len(e)] = "quote"
  <2>1. 6 + Len(e) = (5 + Len(e)) + 1 /\ 1 \in 1..1
        BY <1>3
  <2>2. QED
        BY <1>2, <1>6, <2>1 DEF f
<1>10. field_string(key, v) = f /\ f \in Seq(Symbols) /\ Len(f) = Len(e) + 6
  <2>1. (5 + Len(e)) + 1 = Len(e) + 6
        BY <1>3
  <2>2. QED
        BY <1>4, <1>6, <2>1 DEF f, a
<1>11. QED
       BY <1>7, <1>8, <1>9, <1>10 DEF e

(***************************************************************************)
(* The characters of an object, by their places, for values whose escaped  *)
(* texts are e and d.                                                      *)
(***************************************************************************)
Layout(t, e, d) ==
  /\ t \in Seq(Symbols) /\ Len(t) = Len(e) + Len(d) + 15
  /\ t[1] = "brace" /\ t[2] = "quote" /\ t[3] = FirstKey /\ t[4] = "quote"
  /\ t[5] = "colon" /\ t[6] = "quote"
  /\ \A i \in 1..Len(e) : t[6 + i] = e[i]
  /\ t[Len(e) + 7] = "quote" /\ t[Len(e) + 8] = "comma"
  /\ t[Len(e) + 9] = "quote" /\ t[Len(e) + 10] = SecondKey /\ t[Len(e) + 11] = "quote"
  /\ t[Len(e) + 12] = "colon" /\ t[Len(e) + 13] = "quote"
  /\ \A i \in 1..Len(d) : t[Len(e) + 13 + i] = d[i]
  /\ t[Len(e) + Len(d) + 14] = "quote"

LEMMA ObjectIs ==
  ASSUME NEW v \in Seq(Characters), NEW w \in Seq(Characters)
  PROVE  Layout(Object(v, w), Escaped(v), Escaped(w))
<1> DEFINE e == Escaped(v)
           d == Escaped(w)
           f == field_string(FirstKey, v)
           g == field_string(SecondKey, w)
           brace == <<"brace">>
           comma == <<"comma">>
<1>1. Len(e) \in Nat /\ Len(d) \in Nat
  <2>1. e \in Seq(Symbols) /\ d \in Seq(Symbols)
        BY QuotesAreEscaped
  <2> HIDE DEF e, d
  <2>2. QED
        BY <2>1
<1>2. /\ f \in Seq(Symbols) /\ Len(f) = Len(e) + 6
      /\ f[1] = "quote" /\ f[2] = FirstKey /\ f[3] = "quote" /\ f[4] = "colon" /\ f[5] = "quote"
      /\ \A i \in 1..Len(e) : f[5 + i] = e[i]
      /\ f[6 + Len(e)] = "quote"
      BY FieldIs
<1>3. /\ g \in Seq(Symbols) /\ Len(g) = Len(d) + 6
      /\ g[1] = "quote" /\ g[2] = SecondKey /\ g[3] = "quote" /\ g[4] = "colon" /\ g[5] = "quote"
      /\ \A i \in 1..Len(d) : g[5 + i] = d[i]
      /\ g[6 + Len(d)] = "quote"
      BY FieldIs
<1>4. /\ brace \in Seq(Symbols) /\ Len(brace) = 1 /\ brace[1] = "brace"
      /\ comma \in Seq(Symbols) /\ Len(comma) = 1 /\ comma[1] = "comma"
      BY DEF Symbols
<1>5. Object(v, w) = (((brace \o f) \o comma) \o g) \o brace
      BY DEF Object
<1> HIDE DEF e, d, f, g, brace, comma
<1> DEFINE t1 == brace \o f
           t2 == t1 \o comma
           t3 == t2 \o g
           t == t3 \o brace
<1>6. /\ t1 \in Seq(Symbols) /\ Len(t1) = Len(e) + 7
      /\ t1[1] = "brace" /\ \A i \in 1..Len(e) + 6 : t1[1 + i] = f[i]
  <2>0. brace \in Seq(Symbols) /\ f \in Seq(Symbols)
        BY <1>2, <1>4
  <2>1. /\ t1 \in Seq(Symbols) /\ Len(t1) = Len(brace) + Len(f)
        /\ \A i \in 1..Len(brace) : t1[i] = brace[i]
        /\ \A i \in 1..Len(f) : t1[Len(brace) + i] = f[i]
        BY <2>0, Joined
  <2> HIDE DEF t1
  <2>2. QED
        BY <1>1, <1>2, <1>4, <2>1
<1> HIDE DEF t1
<1>7. /\ t2 \in Seq(Symbols) /\ Len(t2) = Len(e) + 8
      /\ \A i \in 1..Len(e) + 7 : t2[i] = t1[i]
      /\ t2[Len(e) + 8] = "comma"
  <2>0. t1 \in Seq(Symbols) /\ comma \in Seq(Symbols)
        BY <1>4, <1>6
  <2>1. /\ t2 \in Seq(Symbols) /\ Len(t2) = Len(t1) + Len(comma)
        /\ \A i \in 1..Len(t1) : t2[i] = t1[i]
        /\ \A i \in 1..Len(comma) : t2[Len(t1) + i] = comma[i]
        BY <2>0, Joined
  <2> HIDE DEF t2
  <2>2. (Len(e) + 7) + 1 = Len(e) + 8 /\ 1 \in 1..1
        BY <1>1
  <2>3. QED
        BY <1>4, <1>6, <2>1, <2>2
<1> HIDE DEF t2
<1>8. /\ t3 \in Seq(Symbols) /\ Len(t3) = Len(e) + Len(d) + 14
      /\ \A i \in 1..Len(e) + 8 : t3[i] = t2[i]
      /\ \A i \in 1..Len(d) + 6 : t3[Len(e) + 8 + i] = g[i]
  <2>0. t2 \in Seq(Symbols) /\ g \in Seq(Symbols)
        BY <1>3, <1>7
  <2>1. /\ t3 \in Seq(Symbols) /\ Len(t3) = Len(t2) + Len(g)
        /\ \A i \in 1..Len(t2) : t3[i] = t2[i]
        /\ \A i \in 1..Len(g) : t3[Len(t2) + i] = g[i]
        BY <2>0, Joined
  <2> HIDE DEF t3
  <2>2. QED
        BY <1>1, <1>3, <1>7, <2>1
<1> HIDE DEF t3
<1>9. /\ t \in Seq(Symbols) /\ Len(t) = Len(e) + Len(d) + 15
      /\ \A i \in 1..Len(e) + Len(d) + 14 : t[i] = t3[i]
  <2>0. t3 \in Seq(Symbols) /\ brace \in Seq(Symbols)
        BY <1>4, <1>8
  <2>1. /\ t \in Seq(Symbols) /\ Len(t) = Len(t3) + Len(brace)
        /\ \A i \in 1..Len(t3) : t[i] = t3[i]
        /\ \A i \in 1..Len(brace) : t[Len(t3) + i] = brace[i]
        BY <2>0, Joined
  <2> HIDE DEF t
  <2>2. QED
        BY <1>1, <1>4, <1>8, <2>1
<1> HIDE DEF t
<1>10. t[1] = "brace" /\ \A i \in 1..Len(e) + 6 : t[1 + i] = f[i]
  <2>1. \A i \in 1..Len(e) + 7 : t[i] = t1[i]
    <3>1. \A i \in 1..Len(e) + 7 : i \in 1..Len(e) + 8 /\ i \in 1..Len(e) + Len(d) + 14
          BY <1>1
    <3>2. QED
          BY <1>7, <1>8, <1>9, <3>1
  <2>2. 1 \in 1..Len(e) + 7 /\ \A i \in 1..Len(e) + 6 : 1 + i \in 1..Len(e) + 7
        BY <1>1
  <2>3. QED
        BY <1>6, <2>1, <2>2
<1>11. t[Len(e) + 8] = "comma"
  <2>1. Len(e) + 8 \in 1..Len(e) + 8 /\ Len(e) + 8 \in 1..Len(e) + Len(d) + 14
        BY <1>1
  <2>2. QED
        BY <1>7, <1>8, <1>9, <2>1
<1>12. \A i \in 1..Len(d) + 6 : t[Len(e) + 8 + i] = g[i]
  <2>1. \A i \in 1..Len(d) + 6 : Len(e) + 8 + i \in 1..Len(e) + Len(d) + 14
        BY <1>1
  <2>2. QED
        BY <1>8, <1>9, <2>1
<1>13. /\ t[2] = "quote" /\ t[3] = FirstKey /\ t[4] = "quote" /\ t[5] = "colon" /\ t[6] = "quote"
       /\ \A i \in 1..Len(e) : t[6 + i] = e[i]
       /\ t[Len(e) + 7] = "quote"
  <2>1. t[1 + 1] = f[1] /\ t[1 + 2] = f[2] /\ t[1 + 3] = f[3] /\ t[1 + 4] = f[4] /\ t[1 + 5] = f[5]
        BY <1>1, <1>10
  <2>2. ASSUME NEW i \in 1..Len(e) PROVE t[6 + i] = e[i]
    <3>1. 5 + i \in 1..Len(e) + 6 /\ 1 + (5 + i) = 6 + i
          BY <1>1
    <3>2. t[1 + (5 + i)] = f[5 + i]
          BY <1>10, <3>1
    <3>3. QED
          BY <1>2, <3>1, <3>2
  <2>3. t[Len(e) + 7] = f[6 + Len(e)]
    <3>1. 6 + Len(e) \in 1..Len(e) + 6 /\ 1 + (6 + Len(e)) = Len(e) + 7
          BY <1>1
    <3>2. t[1 + (6 + Len(e))] = f[6 + Len(e)]
          BY <1>10, <3>1
    <3>3. QED
          BY <3>1, <3>2
  <2>4. 1 + 1 = 2 /\ 1 + 2 = 3 /\ 1 + 3 = 4 /\ 1 + 4 = 5 /\ 1 + 5 = 6
        OBVIOUS
  <2>5. QED
        BY <1>2, <2>1, <2>2, <2>3, <2>4
<1>14. /\ t[Len(e) + 9] = "quote" /\ t[Len(e) + 10] = SecondKey /\ t[Len(e) + 11] = "quote"
       /\ t[Len(e) + 12] = "colon" /\ t[Len(e) + 13] = "quote"
       /\ \A i \in 1..Len(d) : t[Len(e) + 13 + i] = d[i]
       /\ t[Len(e) + Len(d) + 14] = "quote"
  <2>1. /\ t[Len(e) + 8 + 1] = g[1] /\ t[Len(e) + 8 + 2] = g[2] /\ t[Len(e) + 8 + 3] = g[3]
        /\ t[Len(e) + 8 + 4] = g[4] /\ t[Len(e) + 8 + 5] = g[5]
        BY <1>1, <1>12
  <2>2. ASSUME NEW i \in 1..Len(d) PROVE t[Len(e) + 13 + i] = d[i]
    <3>1. 5 + i \in 1..Len(d) + 6 /\ Len(e) + 8 + (5 + i) = Len(e) + 13 + i
          BY <1>1
    <3>2. t[Len(e) + 8 + (5 + i)] = g[5 + i]
          BY <1>12, <3>1
    <3>3. QED
          BY <1>3, <3>1, <3>2
  <2>3. t[Len(e) + Len(d) + 14] = g[6 + Len(d)]
    <3>1. 6 + Len(d) \in 1..Len(d) + 6 /\ Len(e) + 8 + (6 + Len(d)) = Len(e) + Len(d) + 14
          BY <1>1
    <3>2. t[Len(e) + 8 + (6 + Len(d))] = g[6 + Len(d)]
          BY <1>12, <3>1
    <3>3. QED
          BY <3>1, <3>2
  <2>4. /\ Len(e) + 8 + 1 = Len(e) + 9 /\ Len(e) + 8 + 2 = Len(e) + 10
        /\ Len(e) + 8 + 3 = Len(e) + 11 /\ Len(e) + 8 + 4 = Len(e) + 12
        /\ Len(e) + 8 + 5 = Len(e) + 13
        BY <1>1
  <2>5. QED
        BY <1>3, <2>1, <2>2, <2>3, <2>4
<1>15. Object(v, w) = t
       BY <1>5 DEF t, t3, t2, t1
<1>16. QED
       BY <1>9, <1>10, <1>11, <1>13, <1>14, <1>15 DEF Layout, e, d

(***************************************************************************)
(* Neither key stands before its own place in an object: a quote within a  *)
(* value has a backslash before it, which no key is, and the quote that    *)
(* ends the value has a comma behind it.                                   *)
(***************************************************************************)
LEMMA KeyStandsOnce ==
  ASSUME NEW v \in Seq(Characters), NEW d, NEW t, Layout(t, Escaped(v), d), Len(d) \in Nat
  PROVE  /\ \A r \in 1..1 : ~KeyAt(t, FirstKey, r)
         /\ \A r \in 1..Len(Escaped(v)) + 8 : ~KeyAt(t, SecondKey, r)
<1> DEFINE e == Escaped(v)
<1>1. /\ e \in Seq(Symbols) /\ Len(e) \in Nat
      /\ \A i \in 1..Len(e) : e[i] = "quote" => i > 1 /\ e[i-1] = "backslash"
  <2>1. /\ e \in Seq(Symbols)
        /\ \A i \in 1..Len(e) : e[i] = "quote" => i > 1 /\ e[i-1] = "backslash"
        BY QuotesAreEscaped
  <2> HIDE DEF e
  <2>2. QED
        BY <2>1
<1>2. SecondKey \notin {"quote", "backslash", "colon", "comma"} /\ SecondKey # FirstKey
      BY KeysArePlain, JsonAssumption
<1>3. Layout(t, e, d)
      OBVIOUS
<1> HIDE DEF e
<1>4. ASSUME NEW key, NEW r \in 1..Len(t), KeyAt(t, key, r)
      PROVE  /\ r + 2 <= Len(t) /\ t[r] = "quote" /\ t[r+1] = key /\ t[r+2] = "quote"
             /\ AfterBlanks(t, r + 3) <= Len(t) /\ t[AfterBlanks(t, r + 3)] = "colon"
  <2>1. /\ r + 2 <= Len(t) /\ SubSeq(t, r, r + 2) = <<"quote", key, "quote">>
        /\ AfterBlanks(t, r + 3) <= Len(t) /\ t[AfterBlanks(t, r + 3)] = "colon"
        BY <1>4 DEF KeyAt
  <2>2. t \in Seq(Symbols) /\ Len(t) \in Nat /\ \A i \in r..r+2 : t[i] \in Symbols
    <3>1. t \in Seq(Symbols)
          BY <1>3 DEF Layout
    <3>2. Len(t) \in Nat /\ \A i \in 1..Len(t) : t[i] \in Symbols
          BY <3>1
    <3>3. QED
          BY <2>1, <3>1, <3>2
  <2>3. \A i \in 1..3 : SubSeq(t, r, r + 2)[i] = t[r + i - 1]
    <3>1. (r + 2) - r + 1 = 3 /\ r \in Int /\ r + 2 \in Int
          BY <2>2
    <3>2. \A i \in 1..(r + 2) - r + 1 : SubSeq(t, r, r + 2)[i] = t[r + i - 1]
          BY <2>2, <3>1, SubSeqProperties
    <3>3. QED
          BY <3>1, <3>2
  <2>4. t[r + 1 - 1] = "quote" /\ t[r + 2 - 1] = key /\ t[r + 3 - 1] = "quote"
    <3> DEFINE u == SubSeq(t, r, r + 2)
    <3>1. u = <<"quote", key, "quote">> /\ \A i \in 1..3 : u[i] = t[r + i - 1]
          BY <2>1, <2>3, Zenon
    <3> HIDE DEF u
    <3>2. u[1] = "quote" /\ u[2] = key /\ u[3] = "quote"
          BY <3>1
    <3>3. QED
          BY <3>1, <3>2
  <2>5. r + 1 - 1 = r /\ r + 2 - 1 = r + 1 /\ r + 3 - 1 = r + 2
        BY <2>2
  <2>6. QED
        BY <2>1, <2>4, <2>5
<1>5. \A r \in 1..1 : ~KeyAt(t, FirstKey, r)
  <2>1. 1 \in 1..Len(t) /\ t[1] # "quote"
        BY <1>1, <1>3 DEF Layout
  <2>2. ~KeyAt(t, FirstKey, 1)
        BY <1>4, <2>1
  <2>3. QED
        BY <2>2
<1>6. ASSUME NEW r \in 1..Len(e) + 8, KeyAt(t, SecondKey, r) PROVE FALSE
  <2>1. r \in 1..Len(t)
        BY <1>1, <1>3, <1>6 DEF Layout
  <2>2. /\ t[r] = "quote" /\ t[r+1] = SecondKey /\ t[r+2] = "quote"
        /\ t[AfterBlanks(t, r + 3)] = "colon"
        BY <1>4, <1>6, <2>1
  <2>3. r >= 6
    <3>1. r # 1 /\ r # 2 /\ r # 3 /\ r # 4 /\ r # 5
      <4>1. /\ t[1] = "brace" /\ t[3] = FirstKey /\ t[4] = "quote" /\ t[5] = "colon"
            BY <1>3 DEF Layout
      <4>2. r # 1
            BY <2>2, <4>1
      <4>3. r # 2
            BY <1>2, <2>2, <4>1
      <4>4. r # 3
            BY <1>2, <2>2, <4>1
      <4>5. r # 4
            BY <1>2, <2>2, <4>1
      <4>6. r # 5
            BY <2>2, <4>1
      <4>7. QED
            BY <4>2, <4>3, <4>4, <4>5, <4>6
    <3>2. QED
          BY <3>1
  <2>4. r <= Len(e) + 5
    <3>1. r # Len(e) + 8
          BY <1>3, <2>2 DEF Layout
    <3>2. r # Len(e) + 7
      <4>1. (Len(e) + 7) + 1 = Len(e) + 8
            BY <1>1
      <4>2. QED
            BY <1>2, <1>3, <2>2, <4>1 DEF Layout
    <3>3. r # Len(e) + 6
      <4>1. (Len(e) + 6) + 1 = Len(e) + 7
            BY <1>1
      <4>2. QED
            BY <1>2, <1>3, <2>2, <4>1 DEF Layout
    <3>4. QED
          BY <1>1, <3>1, <3>2, <3>3
  <2>5. CASE r = Len(e) + 5
    <3>1. r + 3 = Len(e) + 8 /\ r + 3 \in 1..Len(t) /\ t[r + 3] = "comma" /\ t \in Seq(Symbols)
      <4>1. /\ t \in Seq(Symbols) /\ Len(t) = Len(e) + Len(d) + 15
            /\ t[Len(e) + 8] = "comma"
            BY <1>3 DEF Layout
      <4>2. QED
            BY <1>1, <2>5, <4>1
    <3>2. AfterBlanks(t, r + 3) = r + 3
          BY <3>1, NoBlanks
    <3>3. QED
          BY <2>2, <3>1, <3>2
  <2>6. CASE r < Len(e) + 5
    <3> DEFINE i == (r + 2) - 6
    <3>1. i \in 2..Len(e) /\ 6 + i = r + 2 /\ 6 + (i - 1) = r + 1 /\ i - 1 \in 1..Len(e)
          BY <1>1, <2>3, <2>6
    <3> HIDE DEF i
    <3>2. t[6 + i] = e[i] /\ t[6 + (i - 1)] = e[i-1]
      <4>1. \A j \in 1..Len(e) : t[6 + j] = e[j]
            BY <1>3 DEF Layout
      <4>2. QED
            BY <1>1, <3>1, <4>1
    <3>3. e[i] = "quote" /\ e[i-1] = SecondKey
          BY <2>2, <3>1, <3>2
    <3>4. QED
          BY <1>1, <1>2, <3>1, <3>3
  <2>7. QED
        BY <1>1, <2>4, <2>5, <2>6
<1>7. QED
      BY <1>5, <1>6 DEF e

(* The object that the writer writes gives its values back. *)
LEMMA ObjectReadsBack ==
  ASSUME NEW v \in Seq(Characters), NEW w \in Seq(Characters),
         \A s \in Seq(Characters) : Len(s) <= Len(v) \/ Len(s) <= Len(w) => s # NoValue
  PROVE  /\ get_string(Object(v, w), FirstKey) = v
         /\ get_string(Object(v, w), SecondKey) = w
<1> DEFINE t == Object(v, w)
           e == Escaped(v)
           d == Escaped(w)
<1>1. Layout(t, e, d) /\ e \in Seq(Symbols) /\ d \in Seq(Symbols)
      BY ObjectIs, QuotesAreEscaped
<1>2. Len(v) \in Nat /\ Len(w) \in Nat
      OBVIOUS
<1> HIDE DEF t, e, d
<1>3. Len(e) \in Nat /\ Len(d) \in Nat /\ t \in Seq(Symbols) /\ Len(t) = Len(e) + Len(d) + 15
  <2>1. Len(e) \in Nat /\ Len(d) \in Nat
        BY <1>1
  <2>2. t \in Seq(Symbols) /\ Len(t) = Len(e) + Len(d) + 15
        BY <1>1 DEF Layout
  <2>3. QED
        BY <2>1, <2>2
<1>4. /\ \A r \in 1..1 : ~KeyAt(t, FirstKey, r)
      /\ \A r \in 1..Len(e) + 8 : ~KeyAt(t, SecondKey, r)
      BY <1>1, <1>3, KeyStandsOnce DEF e
<1>5. find_value(t, FirstKey) = 6
  <2>1. 2 \in 1..Len(t) /\ 2 + 4 <= Len(t) /\ 2 + 1 = 3 /\ 2 + 2 = 4 /\ 2 + 3 = 5 /\ 2 + 4 = 6 /\ 2 - 1 = 1
        BY <1>3
  <2>2. t[2] = "quote" /\ t[2+1] = FirstKey /\ t[2+2] = "quote" /\ t[2+3] = "colon" /\ t[2+4] = "quote"
        BY <1>1, <2>1 DEF Layout
  <2>3. \A r \in 1..2-1 : ~KeyAt(t, FirstKey, r)
        BY <1>4, <2>1
  <2>4. find_value(t, FirstKey) = 2 + 4
        BY <1>3, <2>1, <2>2, <2>3, FoundValue
  <2>5. QED
        BY <2>1, <2>4
<1>6. find_value(t, SecondKey) = Len(e) + 13
  <2> DEFINE s == Len(e) + 9
  <2>1. /\ s \in 1..Len(t) /\ s + 4 <= Len(t) /\ s + 1 = Len(e) + 10 /\ s + 2 = Len(e) + 11
        /\ s + 3 = Len(e) + 12 /\ s + 4 = Len(e) + 13 /\ s - 1 = Len(e) + 8
        BY <1>3
  <2>2. t[s] = "quote" /\ t[s+1] = SecondKey /\ t[s+2] = "quote" /\ t[s+3] = "colon" /\ t[s+4] = "quote"
        BY <1>1, <2>1 DEF Layout
  <2>3. \A r \in 1..s-1 : ~KeyAt(t, SecondKey, r)
        BY <1>4, <2>1
  <2> HIDE DEF s
  <2>4. find_value(t, SecondKey) = s + 4
        BY <1>3, <2>1, <2>2, <2>3, FoundValue
  <2>5. QED
        BY <2>1, <2>4
<1>7. get_string(t, FirstKey) = v
  <2>1. 6 \in 1..Len(t) /\ 6 + Len(e) + 1 <= Len(t) /\ 6 + Len(e) + 1 = Len(e) + 7
        BY <1>3
  <2>2. t[6] = "quote" /\ (\A i \in 1..Len(e) : t[6+i] = e[i]) /\ t[6 + Len(e) + 1] = "quote"
        BY <1>1, <2>1 DEF Layout
  <2>3. \A s \in Seq(Characters) : Len(s) <= Len(v) => s # NoValue
        OBVIOUS
  <2>4. QED
        BY <1>3, <1>5, <2>1, <2>2, <2>3, ReadBack DEF e
<1>8. get_string(t, SecondKey) = w
  <2> DEFINE p == Len(e) + 13
  <2>1. p \in 1..Len(t) /\ p + Len(d) + 1 <= Len(t) /\ p + Len(d) + 1 = Len(e) + Len(d) + 14
        BY <1>3
  <2>2. t[p] = "quote" /\ (\A i \in 1..Len(d) : t[p+i] = d[i]) /\ t[p + Len(d) + 1] = "quote"
        BY <1>1, <2>1 DEF Layout
  <2>3. \A s \in Seq(Characters) : Len(s) <= Len(w) => s # NoValue
        OBVIOUS
  <2>4. find_value(t, SecondKey) = p
        BY <1>6
  <2> HIDE DEF p
  <2>5. QED
        BY <1>3, <2>1, <2>2, <2>3, <2>4, ReadBack DEF d
<1>9. QED
      BY <1>7, <1>8 DEF t

-----------------------------------------------------------------------------
(* A number is the sum of its digits, each ten times the next. *)
NumberOf(ds, value) ==
  /\ value \in [0..Len(ds) -> Nat]
  /\ value[0] = 0
  /\ \A n \in 1..Len(ds) : value[n] = 10 * value[n-1] + ds[n]

(* One more digit. *)
LEMMA NextDigit ==
  ASSUME NEW x \in Nat, NEW d \in 0..9
  PROVE  10 * x + d \in Nat /\ 10 * x + d >= x
OBVIOUS

(* The test before the multiplication is exact. *)
LEMMA OverflowIsExact ==
  ASSUME NEW parsed \in Nat, NEW digit \in 0..9
  PROVE  Overflows(parsed, digit) <=> parsed * 10 + digit > MaxU32
<1>1. MaxU32 \in Nat /\ MaxU32 - digit \in Nat
      BY JsonAssumption
<1> DEFINE x == MaxU32 - digit
           q == x \div 10
<1>2. q \in Nat /\ 10 * q <= x /\ x < 10 * q + 10
      BY <1>1
<1>3. Overflows(parsed, digit) <=> parsed > q
      BY DEF Overflows
<1> HIDE DEF q
<1>4. parsed > q <=> parsed * 10 > x
      BY <1>1, <1>2
<1>5. QED
      BY <1>1, <1>3, <1>4

(* The definition of a number by its digits has a value. *)
LEMMA NumberExists ==
  ASSUME NEW ds \in Seq(0..9)
  PROVE  \E value : NumberOf(ds, value)
<1> DEFINE N == Len(ds)
           step == [n \in 1..N |-> [x \in Nat |-> 10 * x + ds[n]]]
<1>1. N \in Nat /\ \A n \in 1..N : ds[n] \in 0..9
      OBVIOUS
<1> HIDE DEF N
<1>2. step \in Steps(N, Nat)
  <2>1. ASSUME NEW n \in 1..N, NEW x \in Nat PROVE 10 * x + ds[n] \in Nat
    <3>1. ds[n] \in 0..9
          BY <1>1
    <3>2. QED
          BY <3>1, NextDigit
  <2>2. QED
        BY <2>1 DEF Steps
<1> DEFINE R == Nat
           init == 0
<1>3. init \in R /\ step \in Steps(N, R)
      BY <1>2
<1>4. PICK f : IsLoop(f, N, R, init, step)
  <2> HIDE DEF R, init, step
  <2>1. QED
        BY <1>1, <1>3, LoopExists
<1>5. ASSUME NEW n \in 1..N PROVE f[n] = 10 * f[n-1] + ds[n]
  <2>1. n - 1 \in 0..N
        BY <1>1
  <2>2. f[n-1] \in Nat /\ f[n] = step[n][f[n-1]]
        BY <1>4, <2>1 DEF IsLoop
  <2> HIDE DEF step
  <2>3. step[n][f[n-1]] = 10 * f[n-1] + ds[n]
        BY <2>2 DEF step
  <2>4. QED
        BY <2>2, <2>3
<1>6. f \in [0..N -> Nat] /\ f[0] = 0
      BY <1>4 DEF IsLoop
<1>7. QED
      BY <1>5, <1>6 DEF NumberOf, N

(* get_u32 reads a number that fits, and refuses any other. *)
LEMMA NumberIsRead ==
  ASSUME NEW ds \in Seq(0..9), ds # <<>>, NEW value, NumberOf(ds, value)
  PROVE  get_u32(ds) = IF value[Len(ds)] > MaxU32 THEN NoValue ELSE value[Len(ds)]
<1> DEFINE N == Len(ds)
           Loop(f) == [n \in 0..N |->
                         IF n = 0 THEN 0
                         ELSE IF f[n-1] = NoValue \/ Overflows(f[n-1], ds[n]) THEN NoValue
                         ELSE f[n-1] * 10 + ds[n]]
           parsed == CHOOSE f : f = Loop(f)
           Seen(n) == IF value[n] > MaxU32 THEN NoValue ELSE value[n]
           h == [n \in 0..N |-> Seen(n)]
<1>1. get_u32(ds) = parsed[N]
      BY DEF get_u32
<1>2. /\ N \in Nat /\ \A n \in 1..N : ds[n] \in 0..9 /\ n - 1 \in 0..N
      OBVIOUS
<1>3. MaxU32 \in Nat /\ \A n \in 0..MaxU32 : n # NoValue
      BY JsonAssumption, KeysArePlain
<1>4. /\ \A n \in 0..N : value[n] \in Nat
      /\ value[0] = 0 /\ \A n \in 1..N : value[n] = 10 * value[n-1] + ds[n]
      BY DEF NumberOf
<1> HIDE DEF N
<1>5. ASSUME NEW n \in 1..N
      PROVE  Seen(n) = IF Seen(n-1) = NoValue \/ Overflows(Seen(n-1), ds[n]) THEN NoValue
                       ELSE Seen(n-1) * 10 + ds[n]
  <2>1. /\ n \in 0..N /\ n - 1 \in 0..N /\ value[n-1] \in Nat /\ ds[n] \in 0..9
        /\ value[n] = 10 * value[n-1] + ds[n]
        BY <1>2, <1>4
  <2>2. CASE value[n-1] > MaxU32
    <3>1. value[n] > MaxU32
      <4>1. value[n] >= value[n-1] /\ value[n] \in Nat
            BY <2>1, NextDigit
      <4>2. QED
            BY <1>3, <2>1, <2>2, <4>1
    <3>2. QED
          BY <2>2, <3>1
  <2>3. CASE ~(value[n-1] > MaxU32)
    <3>1. Seen(n-1) = value[n-1] /\ value[n-1] \in 0..MaxU32
          BY <1>3, <2>1, <2>3
    <3>2. Seen(n-1) # NoValue
          BY <1>3, <3>1
    <3>3. Overflows(value[n-1], ds[n]) <=> value[n] > MaxU32
      <4>1. Overflows(value[n-1], ds[n]) <=> value[n-1] * 10 + ds[n] > MaxU32
            BY <2>1, OverflowIsExact
      <4>2. value[n-1] * 10 + ds[n] = value[n]
            BY <2>1
      <4>3. QED
            BY <4>1, <4>2
    <3>4. value[n-1] * 10 + ds[n] = value[n]
          BY <2>1
    <3>5. QED
          BY <3>1, <3>2, <3>3, <3>4
  <2>4. QED
        BY <2>2, <2>3
<1>6. Seen(0) = 0
      BY <1>3, <1>4
<1> HIDE DEF Seen
<1>7. h = Loop(h)
  <2>1. ASSUME NEW n \in 0..N PROVE h[n] = Loop(h)[n]
    <3>1. CASE n = 0
          BY <1>6, <3>1
    <3>2. CASE n # 0
      <4>1. n \in 1..N /\ n - 1 \in 0..N
            BY <1>2, <3>2
      <4>2. h[n] = Seen(n) /\ h[n-1] = Seen(n-1)
            BY <4>1
      <4>3. QED
            BY <1>5, <3>2, <4>1, <4>2
    <3>3. QED
          BY <3>1, <3>2
  <2>2. QED
        BY <2>1
<1>8. parsed = Loop(parsed)
  <2> HIDE DEF Loop, h
  <2>1. QED
        BY <1>7
<1> HIDE DEF parsed, h
<1>9. \A n \in 0..N : parsed[n] = Loop(parsed)[n]
      BY <1>8
<1> DEFINE S == { n \in Nat : n <= N => parsed[n] = Seen(n) }
<1>10. 0 \in S
  <2>1. 0 \in 0..N
        BY <1>2
  <2>2. parsed[0] = 0
        BY <1>9, <2>1
  <2>3. QED
        BY <1>6, <2>2
<1>11. ASSUME NEW n \in Nat, n \in S PROVE n + 1 \in S
  <2>1. ASSUME n + 1 <= N PROVE parsed[n+1] = Seen(n+1)
    <3>1. n + 1 \in 1..N /\ n + 1 \in 0..N /\ n + 1 # 0 /\ (n + 1) - 1 = n /\ parsed[n] = Seen(n)
          BY <1>2, <1>11, <2>1
    <3>2. parsed[n+1] = Loop(parsed)[n+1]
          BY <1>9, <3>1
    <3>3. parsed[n+1] = IF parsed[n] = NoValue \/ Overflows(parsed[n], ds[n+1]) THEN NoValue
                        ELSE parsed[n] * 10 + ds[n+1]
          BY <3>1, <3>2
    <3>4. QED
          BY <1>5, <3>1, <3>3
  <2>2. QED
        BY <2>1
<1>12. N \in S
  <2> HIDE DEF S
  <2>1. QED
        BY <1>2, <1>10, <1>11, Induction
<1>13. parsed[N] = Seen(N)
      BY <1>2, <1>12
<1>14. QED
      BY <1>1, <1>13 DEF Seen, N

-----------------------------------------------------------------------------
(***************************************************************************)
(* The strengthening: what the buffer holds is the object of the values,   *)
(* and it found room.                                                      *)
(***************************************************************************)
JsonInv ==
  /\ text # NoValue =>
       /\ first_value \in Strings(FirstLength) /\ second_value \in Strings(SecondLength)
       /\ text = Object(first_value, second_value) /\ Fits(text)
  /\ digits \in Seq(0..9)

LEMMA JsonStep == JsonInv /\ [JsonNext]_jsonVars => JsonInv'
<1> SUFFICES ASSUME JsonInv, [JsonNext]_jsonVars PROVE JsonInv'
    OBVIOUS
<1>1. CASE JsonInit /\ \E v \in Strings(FirstLength), w \in Strings(SecondLength) : WriteObject(v, w)
  <2>1. PICK v \in Strings(FirstLength), w \in Strings(SecondLength) : WriteObject(v, w)
        BY <1>1
  <2>2. first_value' = v /\ second_value' = w /\ digits' = digits
        BY <2>1 DEF WriteObject
  <2>3. text' # NoValue => text' = Object(v, w) /\ Fits(text')
        BY <2>1 DEF WriteObject
  <2>4. QED
        BY <2>2, <2>3 DEF JsonInv
<1>2. CASE JsonInit /\ \E ds \in UNION { [1..n -> 0..9] : n \in 1..MaxDigits } : ReadNumber(ds)
  <2>1. PICK n \in 1..MaxDigits : \E ds \in [1..n -> 0..9] : ReadNumber(ds)
        BY <1>2
  <2>2. PICK ds \in [1..n -> 0..9] : ReadNumber(ds)
        BY <2>1
  <2>3. text' = NoValue /\ digits' = ds
        BY <1>2, <2>2 DEF ReadNumber, JsonInit
  <2>4. ds \in Seq(0..9)
        BY JsonAssumption
  <2>5. QED
        BY <2>3, <2>4 DEF JsonInv
<1>3. CASE Discard
  <2>1. text' = NoValue /\ digits' = <<>>
        BY <1>3 DEF Discard
  <2>2. QED
        BY <2>1 DEF JsonInv
<1>4. CASE UNCHANGED jsonVars
      BY <1>4 DEF JsonInv, jsonVars, Fits
<1>5. QED
      BY <1>1, <1>2, <1>3, <1>4 DEF JsonNext

LEMMA JsonInvImplies == JsonInv => JsonRoundTrip
<1> SUFFICES ASSUME JsonInv PROVE JsonRoundTrip
    OBVIOUS
<1>1. ASSUME text # NoValue
      PROVE  /\ Len(text) < TextCapacity
             /\ get_string(text, FirstKey) = first_value
             /\ get_string(text, SecondKey) = second_value
  <2> DEFINE v == first_value
             w == second_value
  <2>1. /\ v \in Strings(FirstLength) /\ w \in Strings(SecondLength)
        /\ text = Object(v, w) /\ Fits(text)
        BY <1>1 DEF JsonInv
  <2>2. FirstLength \in Nat /\ SecondLength \in Nat /\ TextCapacity \in Nat
        BY JsonAssumption
  <2>3. \A n \in Nat : \A s \in Seq(Characters) : Len(s) <= n <=> s \in Strings(n)
    <3>1. SUFFICES ASSUME NEW n \in Nat PROVE \A s \in Seq(Characters) : Len(s) <= n <=> s \in Strings(n)
          OBVIOUS
    <3>2. ASSUME NEW s \in Seq(Characters), Len(s) <= n PROVE s \in Strings(n)
      <4>1. Len(s) \in 0..n /\ s \in [1..Len(s) -> Characters]
            BY <3>2
      <4>2. QED
            BY <4>1 DEF Strings
    <3>3. ASSUME NEW s \in Seq(Characters), s \in Strings(n) PROVE Len(s) <= n
      <4>1. PICK k \in 0..n : s \in [1..k -> Characters]
            BY <3>3 DEF Strings
      <4>2. Len(s) = k
            BY <4>1
      <4>3. QED
            BY <4>1, <4>2
    <3>4. QED
          BY <3>2, <3>3
  <2>4. \A n \in Nat : Strings(n) \subseteq Seq(Characters)
    <3>1. ASSUME NEW n \in Nat, NEW s \in Strings(n) PROVE s \in Seq(Characters)
      <4>1. PICK k \in 0..n : s \in [1..k -> Characters]
            BY DEF Strings
      <4>2. QED
            BY <4>1
    <3>2. QED
          BY <3>1
  <2>5. v \in Seq(Characters) /\ w \in Seq(Characters)
        BY <2>1, <2>2, <2>4
  <2>6. Len(v) <= FirstLength /\ Len(w) <= SecondLength /\ Len(v) \in Nat /\ Len(w) \in Nat
        BY <2>1, <2>2, <2>3, <2>5
  <2>7. ASSUME NEW s \in Seq(Characters), Len(s) <= Len(v) \/ Len(s) <= Len(w) PROVE s # NoValue
    <3>1. Len(s) \in Nat
          OBVIOUS
    <3>2. Len(s) <= FirstLength \/ Len(s) <= SecondLength
          BY <2>2, <2>6, <2>7, <3>1
    <3>3. s \in Strings(FirstLength) \cup Strings(SecondLength)
          BY <2>2, <2>3, <3>2
    <3>4. QED
          BY <3>3, KeysArePlain
  <2> HIDE DEF v, w
  <2>8. get_string(Object(v, w), FirstKey) = v /\ get_string(Object(v, w), SecondKey) = w
        BY <2>5, <2>7, ObjectReadsBack
  <2>9. Len(text) < TextCapacity
    <3>1. Len(text) \in Nat
      <4>1. Layout(text, Escaped(v), Escaped(w))
            BY <2>1, <2>5, ObjectIs
      <4>2. text \in Seq(Symbols)
            BY <4>1 DEF Layout
      <4>3. QED
            BY <4>2
    <3>2. QED
          BY <2>1, <2>2, <3>1 DEF Fits
  <2>10. QED
        BY <2>1, <2>8, <2>9 DEF v, w
<1>2. ASSUME digits # <<>>
      PROVE  LET value[n \in 0..Len(digits)] == IF n = 0 THEN 0 ELSE 10 * value[n-1] + digits[n]
             IN get_u32(digits) = IF value[Len(digits)] > MaxU32 THEN NoValue ELSE value[Len(digits)]
  <2> DEFINE N == Len(digits)
             Sum(f) == [n \in 0..N |-> IF n = 0 THEN 0 ELSE 10 * f[n-1] + digits[n]]
             value == CHOOSE f : f = Sum(f)
  <2>1. digits \in Seq(0..9) /\ N \in Nat
        BY DEF JsonInv
  <2>2. PICK f : NumberOf(digits, f)
        BY <2>1, NumberExists
  <2>3. f = Sum(f)
    <3>1. ASSUME NEW n \in 0..N PROVE f[n] = Sum(f)[n]
      <4>1. CASE n = 0
            BY <2>2, <4>1 DEF NumberOf
      <4>2. CASE n # 0
        <5>1. n \in 1..N
              BY <2>1, <4>2
        <5>2. f[n] = 10 * f[n-1] + digits[n]
              BY <2>2, <5>1 DEF NumberOf
        <5>3. QED
              BY <4>2, <5>2
      <4>3. QED
            BY <4>1, <4>2
    <3>2. f \in [0..N -> Nat]
          BY <2>2 DEF NumberOf
    <3>3. QED
          BY <3>1, <3>2
  <2>4. value = Sum(value)
    <3> HIDE DEF Sum
    <3>1. QED
          BY <2>3
  <2> HIDE DEF value
  <2>5. NumberOf(digits, value)
    <3>1. /\ value = [n \in 0..N |-> value[n]] /\ value[0] = 0
          /\ \A n \in 1..N : value[n] = 10 * value[n-1] + digits[n]
      <4>1. value = [n \in 0..N |-> value[n]]
            BY <2>4
      <4>2. \A n \in 0..N : value[n] = Sum(value)[n]
            BY <2>4
      <4>3. value[0] = 0
            BY <2>1, <4>2
      <4>4. ASSUME NEW n \in 1..N PROVE value[n] = 10 * value[n-1] + digits[n]
        <5>1. n \in 0..N /\ n # 0
              BY <2>1
        <5>2. QED
              BY <4>2, <5>1
      <4>5. QED
            BY <4>1, <4>3, <4>4
    <3> DEFINE S == { n \in Nat : n <= N => value[n] \in Nat }
    <3>2. 0 \in S
          BY <3>1
    <3>3. ASSUME NEW n \in Nat, n \in S PROVE n + 1 \in S
      <4>1. ASSUME n + 1 <= N PROVE value[n+1] \in Nat
        <5>1. n + 1 \in 1..N /\ (n + 1) - 1 = n /\ value[n] \in Nat /\ digits[n+1] \in 0..9
              BY <2>1, <3>3, <4>1
        <5>2. value[n+1] = 10 * value[n] + digits[n+1]
              BY <3>1, <5>1
        <5>3. QED
              BY <5>1, <5>2, NextDigit
      <4>2. QED
            BY <4>1
    <3>4. \A n \in Nat : n \in S
      <4> HIDE DEF S
      <4>1. QED
            BY <3>2, <3>3, Induction
    <3>5. \A n \in 0..N : value[n] \in Nat
          BY <2>1, <3>4
    <3>6. QED
          BY <3>1, <3>5 DEF NumberOf
  <2>6. get_u32(digits) = IF value[N] > MaxU32 THEN NoValue ELSE value[N]
        BY <1>2, <2>1, <2>5, NumberIsRead
  <2>7. QED
        BY <2>6 DEF value
<1>3. QED
      BY <1>1, <1>2 DEF JsonRoundTrip

(***************************************************************************)
(* For every pair of keys that are names, all values and all numbers: what *)
(* the writer writes the scanner reads back, and get_u32 is exact.         *)
(***************************************************************************)
THEOREM MessagingJsonRoundTrip == JsonSpec => []JsonRoundTrip
<1>1. JsonInit => JsonInv
  <2>1. <<>> \in Seq(0..9)
        OBVIOUS
  <2>2. QED
        BY <2>1 DEF JsonInit, JsonInv
<1>2. QED
      BY <1>1, JsonStep, JsonInvImplies, PTL DEF JsonSpec

=============================================================================
