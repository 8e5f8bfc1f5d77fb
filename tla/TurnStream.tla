----------------------------- MODULE TurnStream -----------------------------
(***************************************************************************)
(* The events of one chat turn on their way to the browser: the EventBus,  *)
(* the streaming handlers of GET .../stream, and the busy flag of the chat *)
(* page. Turns do not share bus state, so one turn stands for all.         *)
(*                                                                         *)
(* Everything runs on one event loop. Putting on an unbounded queue never  *)
(* suspends, so subscribe up to its first get, publish and close are each  *)
(* one step; a handler suspends when its queue is empty or while an item   *)
(* is sent.                                                                *)
(***************************************************************************)
EXTENDS Sequences, FiniteSets, SequencesExt

CONSTANTS Client,   \* browser tabs that stream the turn
          Events    \* what this instance lets happen

ASSUME StreamAssumption ==
    Events \subseteq {"heartbeat", "cleanup", "raise", "disconnect"}

Finals == {"turn_complete", "turn_error"}
Item   == Finals \cup {"turn_start"}
End    == "end"     \* the sentinel None of a queue

VARIABLES bus,      \* _turns[turn_id], and whether it is there
          log,      \* everything ever published
          turn,     \* where run_turn_worker is
          cleaner,  \* the clean-up task that close() starts
          handler,  \* Client -> the state of its streaming response
          queue,    \* Client -> the queue of its subscription
          got,      \* Client -> the events it received
          busy      \* Client -> ChatPage's busy flag

vars == <<bus, log, turn, cleaner, handler, queue, got, busy>>

NoState == [there |-> FALSE, closed |-> FALSE, buffer |-> <<>>, subs |-> {}]

Init ==
    /\ bus = NoState
    /\ log = <<>>
    /\ turn = "created"
    /\ cleaner = "none"
    /\ handler = [c \in Client |-> "none"]
    /\ queue = [c \in Client |-> <<>>]
    /\ got = [c \in Client |-> <<>>]
    /\ busy = [c \in Client |-> TRUE]

-----------------------------------------------------------------------------
(* EventBus: publish and close, called by run_turn_worker.                 *)

ToSubscribers(item) ==
    queue' = [c \in Client |-> IF c \in bus.subs THEN Append(queue[c], item) ELSE queue[c]]

Publish(item) ==
    /\ bus' = [bus EXCEPT !.there = TRUE, !.buffer = Append(@, item)]
    /\ log' = Append(log, item)
    /\ ToSubscribers(item)
    /\ UNCHANGED <<cleaner, handler, got, busy>>

TurnStart ==
    /\ turn = "created"
    /\ Publish("turn_start")
    /\ turn' = "running"

(* The job is over, whatever became of it.                                 *)
TurnEnd ==
    /\ turn = "running"
    /\ \E item \in Finals : Publish(item)
    /\ turn' = "closing"

(* An exception, of the database for one, skips the publish.               *)
TurnRaise ==
    /\ "raise" \in Events
    /\ turn = "running"
    /\ turn' = "closing"
    /\ UNCHANGED <<bus, log, cleaner, handler, queue, got, busy>>

(* finally: close, which also starts the clean-up task.                    *)
Close ==
    /\ turn = "closing"
    /\ turn' = "over"
    /\ bus' = [bus EXCEPT !.closed = TRUE]
    /\ ToSubscribers(End)
    /\ cleaner' = "sleeping"
    /\ UNCHANGED <<log, handler, got, busy>>

(* _RETAIN_AFTER_CLOSE_S after the close, and only this once.              *)
Cleanup ==
    /\ "cleanup" \in Events
    /\ cleaner = "sleeping"
    /\ cleaner' = "done"
    /\ bus' = IF bus.subs = {} THEN NoState ELSE bus
    /\ UNCHANGED <<log, turn, handler, queue, got, busy>>

-----------------------------------------------------------------------------
(* The streaming handler of a client.                                      *)

(* Mutant: the buffer is not replayed.                                     *)
SubscribeLate(c) ==
    /\ handler[c] = "none"
    /\ handler' = [handler EXCEPT ![c] = "streaming"]
    /\ queue' = [queue EXCEPT ![c] = IF bus.closed THEN <<End>> ELSE <<>>]
    /\ bus' = [bus EXCEPT !.there = TRUE, !.subs = @ \cup {c}]
    /\ UNCHANGED <<log, turn, cleaner, got, busy>>

(* What closes the queue of a subscription to a turn that is over.         *)
Sentinel == IF bus.closed THEN <<End>> ELSE <<>>

(* The client opens the stream and the generator of subscribe() runs to    *)
(* its first get: replay, sentinel, registration. A turn that is not there *)
(* is created.                                                             *)
Subscribe(c) ==
    /\ handler[c] = "none"
    /\ handler' = [handler EXCEPT ![c] = "streaming"]
    /\ queue' = [queue EXCEPT ![c] = bus.buffer \o Sentinel]
    /\ bus' = [bus EXCEPT !.there = TRUE, !.subs = @ \cup {c}]
    /\ UNCHANGED <<log, turn, cleaner, got, busy>>

(* An item reaches the browser. After turn_complete or turn_error the      *)
(* handler returns, and the page is no longer busy.                        *)
Deliver(c) ==
    /\ handler[c] = "streaming"
    /\ queue[c] # <<>>
    /\ Head(queue[c]) # End
    /\ got' = [got EXCEPT ![c] = Append(@, Head(queue[c]))]
    /\ queue' = [queue EXCEPT ![c] = Tail(@)]
    /\ \/ /\ Head(queue[c]) \in Finals
          /\ handler' = [handler EXCEPT ![c] = "returned"]
          /\ busy' = [busy EXCEPT ![c] = FALSE]
       \/ /\ Head(queue[c]) \notin Finals
          /\ UNCHANGED <<handler, busy>>
    /\ UNCHANGED <<bus, log, turn, cleaner>>

(* The generator ends: its finally clause unsubscribes.                    *)
Unsubscribe(c, next) ==
    /\ bus' = [bus EXCEPT !.subs = @ \ {c}]
    /\ handler' = [handler EXCEPT ![c] = next]
    /\ UNCHANGED <<log, turn, cleaner, queue, got, busy>>

EndOfStream(c) ==
    /\ handler[c] = "streaming"
    /\ queue[c] # <<>>
    /\ Head(queue[c]) = End
    /\ Unsubscribe(c, "ended")

(* The generator that the handler abandoned is closed by the event loop.   *)
Finalize(c) ==
    /\ handler[c] = "returned"
    /\ Unsubscribe(c, "ended")

(* Mutant: the wait for the next item survives the heartbeat.              *)
HeartbeatShielded(c) ==
    /\ "heartbeat" \in Events
    /\ handler[c] = "streaming"
    /\ queue[c] = <<>>
    /\ UNCHANGED vars

(* Nothing for chat_sse_heartbeat_s: wait_for cancels the __anext__ it     *)
(* awaits, and the CancelledError ends the generator.                      *)
Heartbeat(c) ==
    /\ "heartbeat" \in Events
    /\ handler[c] = "streaming"
    /\ queue[c] = <<>>
    /\ Unsubscribe(c, "exhausted")

(* The next __anext__ raises StopAsyncIteration: the response ends, and    *)
(* the page closes its EventSource on the error without asking again.      *)
Exhausted(c) ==
    /\ handler[c] = "exhausted"
    /\ handler' = [handler EXCEPT ![c] = "ended"]
    /\ UNCHANGED <<bus, log, turn, cleaner, queue, got, busy>>

(* The tab is closed: the server cancels the response.                     *)
Disconnect(c) ==
    /\ "disconnect" \in Events
    /\ handler[c] = "streaming"
    /\ Unsubscribe(c, "ended")

-----------------------------------------------------------------------------
Worker == TurnStart \/ TurnEnd \/ Close

Stream(c) == \/ Subscribe(c) \/ Deliver(c) \/ EndOfStream(c) \/ Finalize(c)
             \/ Heartbeat(c) \/ Exhausted(c)

Over ==
    /\ turn = "over"
    /\ \A c \in Client : handler[c] = "ended"
    /\ UNCHANGED vars

Next == \/ Worker \/ TurnRaise \/ Cleanup \/ Over
        \/ \E c \in Client : Stream(c) \/ Disconnect(c)

Spec == Init /\ [][Next]_vars

(* The job of the turn ends (it has a wall clock), sleeps end, the page    *)
(* opens its stream, and handlers run.                                     *)
FairSpec == /\ Spec
            /\ WF_vars(Worker)
            /\ WF_vars(Cleanup)
            /\ \A c \in Client : WF_vars(Stream(c))

-----------------------------------------------------------------------------
(* Properties.                                                             *)

TypeOK ==
    /\ bus \in [there : BOOLEAN, closed : BOOLEAN, buffer : Seq(Item), subs : SUBSET Client]
    /\ log \in Seq(Item)
    /\ turn \in {"created", "running", "closing", "over"}
    /\ cleaner \in {"none", "sleeping", "done"}
    /\ handler \in [Client -> {"none", "streaming", "returned", "exhausted", "ended"}]
    /\ queue \in [Client -> Seq(Item \cup {End})]
    /\ got \in [Client -> Seq(Item)]
    /\ busy \in [Client -> BOOLEAN]
    /\ \A c \in Client : ~busy[c] => handler[c] # "streaming"
    /\ \A c \in bus.subs : handler[c] \in {"streaming", "returned"}

(* Nothing is lost, doubled or reordered between the replay and the live   *)
(* events: what a subscriber received and what waits for it is exactly     *)
(* what was published, with the sentinel last once the turn is closed,     *)
(* whenever it subscribed.                                                 *)
SubscribersMissNothing ==
    \A c \in bus.subs : cleaner # "done" => got[c] \o queue[c] = log \o Sentinel

(* No browser sees events out of order or twice, also across heartbeats,   *)
(* clean-up and late subscriptions.                                        *)
ReceivedInOrder == TypeOK /\ \A c \in Client : IsPrefix(got[c], log)

(* Every streaming response ends, also one that subscribed to a turn that  *)
(* was already cleaned up, or whose worker raised.                         *)
StreamsEnd == \A c \in Client : handler[c] = "streaming" ~> handler[c] = "ended"
=============================================================================
