------------------------------ MODULE Realtime ------------------------------
(***************************************************************************)
(* WebSocket connections to one conversation (realtime:                    *)
(* connection_manager.py, pubsub.py, api.py, events.py).                   *)
(*                                                                         *)
(* Everything runs on one event loop: a coroutine is interrupted only      *)
(* where it sends.  Every handler of the broker is a coroutine function    *)
(* made for one call: no later function equals it, so none is ever taken   *)
(* out again, and the broker calls it without awaiting what it returns, so *)
(* a broadcast, which no code asks for, changes nothing here.              *)
(***************************************************************************)
EXTENDS Integers, Sequences, FiniteSets

CONSTANTS Connections, Events,
          CacheSize,        \* MAX_DEDUP_CACHE_SIZE, 1000
          MaxFrames         \* no frame is sent on a connection beyond this number

CacheSizeAssumption == CacheSize \in Nat \ {0}
MaxFramesAssumption == MaxFrames \in Nat
EventsAssumption == "control" \notin Events

VARIABLES conn,         \* the connections the manager knows, and their clients
          member,       \* connections whose user takes part in the conversation
          sequence,     \* ConnectionInfo.sequence
          subscribed,   \* connections with the conversation in subscriptions
          handlers,     \* handlers of the conversation's channel, per connection
          cache,        \* EventDedupCache, oldest first
          frames        \* what each client has received

vars == <<conn, member, sequence, subscribed, handlers, cache, frames>>

Control == "control"
Frame == [sequence : Nat, event : Events \cup {Control}]

Init ==
    /\ conn = [c \in Connections |-> "none"]
    /\ member \in SUBSET Connections
    /\ sequence = [c \in Connections |-> 0]
    /\ subscribed = {}
    /\ handlers = [c \in Connections |-> 0]
    /\ cache = [c \in Connections |-> <<>>]
    /\ frames = [c \in Connections |-> <<>>]

Receives(c) == conn[c] = "open" /\ sequence[c] < MaxFrames

(* next_sequence and the envelope (build_server_event) *)
Send(c, event) ==
    /\ sequence' = [sequence EXCEPT ![c] = @ + 1]
    /\ frames' = [frames EXCEPT ![c] =
                     Append(@, [sequence |-> sequence[c] + 1, event |-> event])]

(* connect: a client that is gone before it is greeted stays registered,   *)
(* since nothing cleans up yet.                                            *)
Connect(c) ==
    /\ conn[c] = "none"
    /\ \/ /\ conn' = [conn EXCEPT ![c] = "open"]
          /\ Send(c, Control)
       \/ /\ conn' = [conn EXCEPT ![c] = "leaked"]
          /\ UNCHANGED <<sequence, frames>>
    /\ UNCHANGED <<member, subscribed, handlers, cache>>

(* disconnect: the handlers stay, no other one is equal to them *)
Disconnect(c) ==
    /\ conn[c] = "open"
    /\ conn' = [conn EXCEPT ![c] = "closed"]
    /\ subscribed' = subscribed \ {c}
    /\ UNCHANGED <<member, sequence, handlers, cache, frames>>

(* handle_subscribe: one more handler each time *)
HandleSubscribe(c) ==
    /\ Receives(c)
    /\ IF c \in member
       THEN /\ subscribed' = subscribed \cup {c}
            /\ handlers' = [handlers EXCEPT ![c] = @ + 1]
       ELSE UNCHANGED <<subscribed, handlers>>
    /\ Send(c, Control)
    /\ UNCHANGED <<conn, member, cache>>

HandleUnsubscribe(c) ==
    /\ Receives(c)
    /\ subscribed' = subscribed \ {c}
    /\ Send(c, Control)
    /\ UNCHANGED <<conn, member, handlers, cache>>

(* A ping, or a command that is refused. *)
HandlePing(c) ==
    /\ Receives(c)
    /\ Send(c, Control)
    /\ UNCHANGED <<conn, member, subscribed, handlers, cache>>

(* Mutant: the cache is one entry short. *)
RememberOneLess(c, event) ==
    LET longer == Append(cache[c], event) IN
    IF Len(longer) >= CacheSize THEN Tail(longer) ELSE longer

(* EventDedupCache.add of an event that is not in the cache *)
Remember(c, event) ==
    LET longer == Append(cache[c], event) IN
    IF Len(longer) > CacheSize THEN Tail(longer) ELSE longer

(* send_event_to_connection, which a handler would call if it ran.  When   *)
(* the client is gone, the event has been remembered and numbered.         *)
SendEvent(c, event) ==
    /\ Receives(c)
    /\ \A i \in DOMAIN cache[c] : cache[c][i] # event
    /\ cache' = [cache EXCEPT ![c] = Remember(c, event)]
    /\ \/ /\ Send(c, event)
          /\ UNCHANGED <<conn, subscribed>>
       \/ /\ sequence' = [sequence EXCEPT ![c] = @ + 1]
          /\ conn' = [conn EXCEPT ![c] = "closed"]
          /\ subscribed' = subscribed \ {c}
          /\ UNCHANGED frames
    /\ UNCHANGED <<member, handlers>>

(* A user joins or leaves the conversation: nobody tells the manager. *)
ChangeMember(c) ==
    /\ member' = IF c \in member THEN member \ {c} ELSE member \cup {c}
    /\ UNCHANGED <<conn, sequence, subscribed, handlers, cache, frames>>

Next ==
    \/ \E c \in Connections :
          \/ Connect(c) \/ Disconnect(c) \/ ChangeMember(c)
          \/ HandleSubscribe(c) \/ HandleUnsubscribe(c) \/ HandlePing(c)
          \/ \E event \in Events : SendEvent(c, event)

Spec == Init /\ [][Next]_vars

(***************************************************************************)
(* Properties                                                              *)
(***************************************************************************)
(* Connections are well typed. *)
TypeOK ==
    /\ conn \in [Connections -> {"none", "open", "leaked", "closed"}]
    /\ member \subseteq Connections /\ subscribed \subseteq Connections
    /\ sequence \in [Connections -> Nat] /\ handlers \in [Connections -> Nat]
    /\ cache \in [Connections -> Seq(Events)]
    /\ frames \in [Connections -> Seq(Frame)]

(* A client sees 1, 2, 3, ... without a gap, whatever mixture of answers,  *)
(* errors and pushes it gets: a jump makes it fetch the history again      *)
(* (WEBSOCKET_CONTRACT 2.3).                                               *)
NumberedFromOne ==
    \A c \in Connections : \A i \in DOMAIN frames[c] : frames[c][i].sequence = i

(* The same event reaches a client twice only with a whole cache of other  *)
(* events in between (EventDedupCache).                                    *)
DeliveredOnce ==
    \A c \in Connections : \A i, j \in DOMAIN frames[c] :
        i < j /\ frames[c][i].event = frames[c][j].event /\ frames[c][i].event # Control
        => Cardinality({k \in (i + 1)..(j - 1) : frames[c][k].event # Control}) >= CacheSize
=============================================================================
