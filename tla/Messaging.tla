------------------------------ MODULE Messaging ------------------------------
(***************************************************************************)
(* Telemetry and commands over a transport that comes and goes: the        *)
(* offline queue, the telemetry service that publishes or queues and       *)
(* replays, and the command dispatcher that answers commands and caches    *)
(* its answers.                                                            *)
(*                                                                         *)
(* The three run in one loop, call by call.  What is hard is the broker:   *)
(* publish() may report a failure for a message that arrived, and a        *)
(* command may be delivered again.  Topics and payloads that do not fit    *)
(* are refused before anything changes and are left out.                   *)
(***************************************************************************)
EXTENDS FixedRingBuffer, Sequences, FiniteSets

CONSTANTS
  Depth,                    \* kOfflineQueueDepth
  kIdempotencyWindow,       \* answers the dispatcher remembers
  kCommandHandlerCapacity,  \* handlers it has room for
  Ids,                      \* command identifiers
  Names,                    \* command names
  HandlerStatuses,          \* external: what handlers return
  MaxTelemetry,             \* bound: telemetry records published
  Blank                     \* the empty identifier, entry and status

ASSUME MessagingAssumption ==
  /\ Depth \in Nat \ {0} /\ kIdempotencyWindow \in Nat \ {0}
  /\ kCommandHandlerCapacity \in Nat /\ MaxTelemetry \in Nat
  /\ Blank \notin Ids

VARIABLES
  connected,    \* transport_.is_connected()
  queue,        \* queue_
  dropped,      \* dropped_
  next_seq,     \* sequence_, the next telemetry record's number
  handlers,     \* handlers_, by name
  cache,        \* cache_
  cache_index,  \* cache_index_
  at_broker,    \* external: the telemetry the broker has
  acked,        \* history: the message for which the last step's publish() returned ok
  age,          \* history: answers cached since that of an identifier, up to the window
  reply,        \* history: the last status answered for it within the window
  runs          \* history: parity of the times a handler ran for it within the window

messagingVars == <<connected, queue, dropped, next_seq, handlers, cache, cache_index,
                   at_broker, acked, age, reply, runs>>

commandVars == <<cache, cache_index, age, reply, runs>>

Statuses == HandlerStatuses \cup {"denied", "not_found", "corrupt"}

Telemetry == [seq : 0..MaxTelemetry-1]
Responses == [id : Ids \cup {Blank}, status : Statuses]
Messages  == Telemetry \cup Responses

CacheLines == 0..kIdempotencyWindow-1
EmptyLine  == [id |-> Blank, status |-> Blank]

MessagingInit ==
  /\ connected = FALSE
  /\ queue = NewBuffer(Blank, Depth) /\ dropped = 0
  /\ next_seq = 0
  /\ handlers = <<>>
  /\ cache = [i \in CacheLines |-> EmptyLine] /\ cache_index = 0
  /\ at_broker = {} /\ acked = Blank
  /\ reply = [id \in Ids |-> Blank]
  /\ runs = [id \in Ids |-> FALSE]
  /\ age = [id \in Ids |-> kIdempotencyWindow]

Forgotten(id) == age[id] >= kIdempotencyWindow

-----------------------------------------------------------------------------
Sent(message) == IF message \in Telemetry THEN at_broker \cup {message.seq} ELSE at_broker

(* transport_.publish: a failed one may have reached the broker. *)
PublishOk(message) ==
  connected /\ at_broker' = Sent(message) /\ acked' = message
PublishFails(message) ==
  connected /\ at_broker' \in {at_broker, Sent(message)} /\ acked' = Blank

NotSent(message) == \/ ~connected /\ UNCHANGED at_broker /\ acked' = Blank
                    \/ PublishFails(message)

(* Mutant of enqueue: an answer drops the oldest entry, too. *)
enqueueAlwaysDrops(message, allow_drop) ==
  IF full(queue, Depth)
  THEN /\ queue' = try_push(drop_oldest(queue, Depth), message, Depth)
       /\ dropped' = dropped + 1
  ELSE /\ queue' = try_push(queue, message, Depth)
       /\ UNCHANGED dropped

(* A full queue drops its oldest entry for telemetry, and refuses a response. *)
enqueue(message, allow_drop) ==
  IF full(queue, Depth) /\ allow_drop
  THEN /\ queue' = try_push(drop_oldest(queue, Depth), message, Depth)
       /\ dropped' = dropped + 1
  ELSE /\ queue' = try_push(queue, message, Depth)
       /\ UNCHANGED dropped

(* TelemetryService::publish_bool *)
PublishTelemetry ==
  /\ next_seq < MaxTelemetry
  /\ next_seq' = next_seq + 1
  /\ LET message == [seq |-> next_seq] IN
       \/ PublishOk(message) /\ UNCHANGED <<queue, dropped>>
       \/ NotSent(message) /\ enqueue(message, TRUE)
  /\ UNCHANGED <<connected, handlers, commandVars>>

(* Mutant of ReplayOne: the entry goes whatever publish() returned. *)
ReplayOneCommits ==
  /\ connected /\ ~empty(queue)
  /\ PublishOk(peek(queue)) \/ PublishFails(peek(queue))
  /\ queue' = drop_oldest(queue, Depth)
  /\ UNCHANGED <<connected, dropped, next_seq, handlers, commandVars>>

(* TelemetryService::replay_one *)
ReplayOne ==
  /\ connected /\ ~empty(queue)
  /\ \/ PublishOk(peek(queue)) /\ queue' = drop_oldest(queue, Depth)
     \/ PublishFails(peek(queue)) /\ UNCHANGED queue
  /\ UNCHANGED <<connected, dropped, next_seq, handlers, commandVars>>

-----------------------------------------------------------------------------
(* CommandDispatcher::add_handler *)
AddHandler(name) ==
  /\ Len(handlers) < kCommandHandlerCapacity
  /\ handlers' = Append(handlers, name)
  /\ acked' = Blank
  /\ UNCHANGED <<connected, queue, dropped, next_seq, at_broker, commandVars>>

find_handler(name) == \E i \in 1..Len(handlers) : handlers[i] = name

(* Mutant of find_cached: the last line is not looked at. *)
find_cachedShort(id) == { i \in 0..kIdempotencyWindow-2 : cache[i].id = id }

(* The lines with an answer for the identifier. *)
find_cached(id) == { i \in CacheLines : cache[i].id = id }

(* The answer is published, or queued; what enqueue returns is ignored. *)
respond(id, status) ==
  /\ LET message == [id |-> id, status |-> status] IN
       \/ PublishOk(message) /\ UNCHANGED <<queue, dropped>>
       \/ NotSent(message) /\ enqueue(message, FALSE)
  /\ reply' = [i \in Ids |-> IF i = id THEN status ELSE IF Forgotten(i)' THEN Blank ELSE reply[i]]
  /\ UNCHANGED <<connected, next_seq, handlers>>

(* CommandDispatcher::cache *)
cache_answer(id, status) ==
  /\ age' = [i \in Ids |-> IF i = id THEN 0 ELSE IF Forgotten(i) THEN age[i] ELSE age[i] + 1]
  /\ cache' = [cache EXCEPT ![cache_index] = [id |-> id, status |-> status]]
  /\ cache_index' = (cache_index + 1) % kIdempotencyWindow

(* CommandDispatcher::on_message, of a payload without an id and a name. *)
OnCorruptMessage ==
  /\ UNCHANGED <<cache, cache_index, age, runs>>
  /\ respond(Blank, "corrupt")

(* A command answered before is answered again from the cache. *)
OnRepeatedCommand(id) ==
  /\ find_cached(id) # {}
  /\ UNCHANGED <<cache, cache_index, age, runs>>
  /\ \E i \in find_cached(id) : respond(id, cache[i].status)

(* Any other is authorized, carried out if it has a handler, and cached. *)
Decide(id, status, ran) ==
  /\ find_cached(id) = {}
  /\ cache_answer(id, status)
  /\ runs' = [i \in Ids |-> IF i = id THEN runs[i] # ran ELSE ~Forgotten(i)' /\ runs[i]]
  /\ respond(id, status)

OnDeniedCommand(id)        == Decide(id, "denied", FALSE)
OnUnknownCommand(id, name) == ~find_handler(name) /\ Decide(id, "not_found", FALSE)
OnCommand(id, name)        ==
  find_handler(name) /\ \E status \in HandlerStatuses : Decide(id, status, TRUE)

(* External: the transport connects and disconnects. *)
SetConnected ==
  /\ connected' = ~connected
  /\ acked' = Blank
  /\ UNCHANGED <<queue, dropped, next_seq, handlers, at_broker, commandVars>>

MessagingNext ==
  \/ PublishTelemetry \/ ReplayOne \/ SetConnected \/ OnCorruptMessage
  \/ \E name \in Names : AddHandler(name)
  \/ \E id \in Ids : OnRepeatedCommand(id) \/ OnDeniedCommand(id)
  \/ \E id \in Ids, name \in Names : OnUnknownCommand(id, name) \/ OnCommand(id, name)

MessagingSpec == MessagingInit /\ [][MessagingNext]_messagingVars

-----------------------------------------------------------------------------
Queued == { Contents(queue, Depth)[i] : i \in 1..queue.count }

(***************************************************************************)
(* dropped_count() is honest: however connections, failed publications     *)
(* and replays interleave, a telemetry record that neither reached the     *)
(* broker nor waits in the queue was counted as dropped.                   *)
(***************************************************************************)
NothingVanishes ==
  Cardinality({ s \in 0..next_seq-1 : s \notin at_broker /\ [seq |-> s] \notin Queued }) <= dropped

(***************************************************************************)
(* A command delivered again before kIdempotencyWindow other commands were *)
(* answered neither runs its handler again nor gets another answer than    *)
(* the first time, whatever the authorizer and the handler would say now.  *)
(***************************************************************************)
HandledOnce ==
  [][ \A id \in Ids :
        ~Forgotten(id) /\ ~Forgotten(id)' => runs'[id] = runs[id] /\ reply'[id] = reply[id] ]_messagingVars

(* Telemetry and answers, as the abstract queue sees them. *)
Fifo == INSTANCE StoreAndForward WITH
          Records <- Telemetry, Answers <- Responses, Bound <- Depth, None <- Blank,
          fifo <- Contents(queue, Depth), lost <- dropped, published <- acked

(***************************************************************************)
(* The queue, its two users and the ring buffer implement StoreAndForward: *)
(* an entry leaves, in the order of enqueue, only when publish() returned  *)
(* ok for it or when telemetry finds the queue full; a full queue refuses  *)
(* the answer to a command and keeps what it holds; no telemetry record is *)
(* queued twice or published past its own queued copy.                     *)
(***************************************************************************)
FifoSpec == Fifo!Spec

=============================================================================
