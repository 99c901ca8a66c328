--------------------------- MODULE RealtimeClient ---------------------------
(***************************************************************************)
(* The browser's end of the WebSocket (apps/web: lib/realtime.ts) and the  *)
(* effect of the conversation page that drives it.                         *)
(*                                                                         *)
(* The browser runs one handler at a time.  Commands travel to the server  *)
(* and may be lost with the connection; a frame of the server is modelled  *)
(* at the moment it arrives, since frames in flight are lost exactly when  *)
(* the connection closes.  disconnect and reset are called by no code.     *)
(***************************************************************************)
EXTENDS Integers, Sequences, FiniteSets

CONSTANTS Pages,            \* the conversations whose page may be on screen
          Pushes,           \* event_id of the events the server may push
          MaxFailures,      \* MAX_CONSECUTIVE_FAILURES, 10
          MaxMissed,        \* MAX_MISSED_PONGS, 2
          CacheLimit,       \* MAX_DEDUP_CACHE, 1000
          MaxCommands,      \* bound: commands under way to the server
          MaxSent,          \* bound: frames of the server on one connection
          MaxClicks         \* bound: retries by the user or the browser

Nobody == "nobody"

ClientAssumption ==
    /\ MaxFailures \in Nat \ {0} /\ MaxMissed \in Nat
    /\ CacheLimit \in Nat \ {0} /\ MaxClicks \in Nat
    /\ Nobody \notin Pages

VARIABLES state,            \* WsState
          ws,               \* the WebSocket and its readyState
          alive,            \* the server still answers on this connection
          valid_url,        \* new WebSocket(url) does not throw
          timers,           \* pending reconnect timers
          failCount, missedPongs,
          subscriptions, page,
          commands,         \* commands under way, oldest first
          subscribed,       \* what the server has subscribed this connection to
          sent,             \* frames the server has numbered on this connection
          lastSequence, dedup,
          behind,           \* the page has not been fetched since a connection was lost
          clicks

connection == <<state, ws, timers, failCount, missedPongs>>
server == <<alive, commands, subscribed, sent>>
reading == <<lastSequence, dedup>>
vars == <<connection, valid_url, subscriptions, page, server, reading, behind, clicks>>

Init ==
    /\ state = "IDLE" /\ ws = "none" /\ timers = 0 /\ failCount = 0 /\ missedPongs = 0
    /\ alive = FALSE /\ commands = <<>> /\ subscribed = {} /\ sent = 0
    /\ valid_url \in BOOLEAN
    /\ subscriptions = {} /\ page = Nobody
    /\ lastSequence = 0 /\ dedup = <<>> /\ behind = FALSE
    /\ clicks = 0

Command(kind, p) == [event |-> kind, page |-> p]
Room == Len(commands) < MaxCommands

(* handleConnectFailure and the retrying branches of handleClose, with     *)
(* left timers pending after fails failures                                *)
Fail(left, fails) ==
    /\ failCount' = fails + 1
    /\ IF fails + 1 >= MaxFailures
       THEN state' = "PAUSED" /\ timers' = left
       ELSE state' = "RECONNECTING" /\ timers' = left + 1

Busy == ws # "none" /\ state \in {"OPEN", "CONNECTING"}

(* Mutant: the attempt, not its success, clears the failures. *)
ConnectForgiving(left, fails) ==
    \/ Busy /\ timers' = left /\ failCount' = fails /\ UNCHANGED <<state, ws, missedPongs>>
    \/ /\ ~ Busy /\ missedPongs' = 0 /\ valid_url
       /\ state' = "CONNECTING" /\ ws' = "connecting" /\ timers' = left /\ failCount' = 0
    \/ ~ Busy /\ missedPongs' = 0 /\ ~ valid_url /\ UNCHANGED ws /\ Fail(left, fails)

Connect(left, fails) ==
    \/ Busy /\ timers' = left /\ failCount' = fails /\ UNCHANGED <<state, ws, missedPongs>>
    \/ /\ ~ Busy /\ missedPongs' = 0 /\ valid_url
       /\ state' = "CONNECTING" /\ ws' = "connecting" /\ timers' = left /\ failCount' = fails
    \/ ~ Busy /\ missedPongs' = 0 /\ ~ valid_url /\ UNCHANGED ws /\ Fail(left, fails)

(* sendCommand: nothing is sent on a socket that is not open. *)
SendCommand(command) ==
    IF state = "OPEN" /\ ws = "open" /\ alive
    THEN Room /\ commands' = Append(commands, command)
    ELSE UNCHANGED commands

(* The page of p opens, fetches its messages, connects if need be and      *)
(* subscribes.                                                             *)
ShowPage(p) ==
    /\ page = Nobody /\ page' = p /\ behind' = FALSE
    /\ subscriptions' = subscriptions \cup {p}
    /\ IF state \in {"IDLE", "CLOSED"}
       THEN Connect(timers, failCount) /\ UNCHANGED commands
       ELSE UNCHANGED connection /\ SendCommand(Command("subscribe", p))
    /\ UNCHANGED <<valid_url, alive, subscribed, sent, reading, clicks>>

(* The cleanup of the effect: unsubscribe. *)
LeavePage ==
    /\ page # Nobody /\ page' = Nobody /\ behind' = FALSE
    /\ subscriptions' = subscriptions \ {page}
    /\ SendCommand(Command("unsubscribe", page))
    /\ UNCHANGED <<connection, valid_url, alive, subscribed, sent, reading, clicks>>

(* retry: the button, or the browser's online event *)
Retry ==
    /\ clicks < MaxClicks /\ clicks' = clicks + 1
    /\ Connect(0, 0)
    /\ UNCHANGED <<valid_url, subscriptions, page, server, reading, behind>>

TimerFires ==
    /\ timers > 0
    /\ Connect(timers - 1, failCount)
    /\ UNCHANGED <<valid_url, subscriptions, page, server, reading, behind, clicks>>

(* Mutant: subscriptions made before are not sent again. *)
OnOpenForgetful ==
    /\ ws = "connecting"
    /\ ws' = "open" /\ state' = "OPEN" /\ failCount' = 0 /\ missedPongs' = 0
    /\ commands' = <<>>
    /\ alive' = TRUE /\ subscribed' = {} /\ sent' = 0
    /\ UNCHANGED <<timers, valid_url, subscriptions, page, reading, behind, clicks>>

(* onopen and restoreSubscriptions *)
OnOpen ==
    /\ ws = "connecting"
    /\ ws' = "open" /\ state' = "OPEN" /\ failCount' = 0 /\ missedPongs' = 0
    /\ \E order \in [1..Cardinality(subscriptions) -> subscriptions] :
          /\ \A p \in subscriptions : \E i \in DOMAIN order : order[i] = p
          /\ commands' = [i \in DOMAIN order |-> Command("subscribe", order[i])]
    /\ alive' = TRUE /\ subscribed' = {} /\ sent' = 0
    /\ UNCHANGED <<timers, valid_url, subscriptions, page, reading, behind, clicks>>

Codes == {1000, 1006, 1008, 1011, 4401, 4403, 4406, 4408}
StateFor(code) ==
    CASE code \in {1000, 4406} -> "CLOSED"
      [] code \in {1008, 4403} -> "FORBIDDEN"
      [] OTHER -> "RECONNECTING"

(* onclose and handleClose: a handshake that fails shows as 1006, and so   *)
(* may a connection of a peer that is gone.  A code of no list, 4401 too,  *)
(* counts as a network error.                                              *)
OnClose ==
    /\ ws # "none" /\ ws' = "none"
    /\ \E code \in IF ws = "open" /\ alive THEN Codes ELSE {1006} :
          IF StateFor(code) = "RECONNECTING"
          THEN Fail(timers, failCount)
          ELSE state' = StateFor(code) /\ UNCHANGED <<timers, failCount>>
    /\ behind' = (behind \/ (ws # "connecting" /\ page # Nobody))
    /\ alive' = FALSE /\ commands' = <<>> /\ subscribed' = {} /\ sent' = 0
    /\ UNCHANGED <<missedPongs, valid_url, subscriptions, page, reading, clicks>>

(* The interval of startHeartbeat.  It goes on counting while the socket   *)
(* closes; the count is capped where it no longer matters.                 *)
Heartbeat ==
    /\ ws \in {"open", "closing"} /\ state = "OPEN"
    /\ IF missedPongs + 1 > MaxMissed
       THEN ws' = "closing" /\ missedPongs' = MaxMissed + 1 /\ UNCHANGED commands
       ELSE /\ SendCommand(Command("ping", Nobody))
            /\ missedPongs' = missedPongs + 1 /\ UNCHANGED ws
    /\ UNCHANGED <<state, timers, failCount, valid_url, subscriptions, page, alive,
                   subscribed, sent, reading, behind, clicks>>

(* The network drops the connection without telling the browser. *)
PeerVanishes ==
    /\ ws = "open" /\ alive
    /\ alive' = FALSE /\ commands' = <<>> /\ subscribed' = {}
    /\ UNCHANGED <<connection, valid_url, subscriptions, page, sent, reading, behind, clicks>>

Gap(number) == lastSequence > 0 /\ number > lastSequence + 1

Shortened(cache) == IF Len(cache) > CacheLimit THEN Tail(cache) ELSE cache

(* handleMessage of the next frame: a duplicate is dropped before its      *)
(* number is read.  Answers and pongs have an event_id of their own.  A    *)
(* jump asks for a backfill (if the frame names its conversation), and a   *)
(* pushed message makes the page fetch its first page.                     *)
HandleMessage(event_id) ==
    /\ ws = "open" /\ alive /\ sent < MaxSent
    /\ sent' = sent + 1
    /\ IF event_id # Nobody /\ \E i \in DOMAIN dedup : dedup[i] = event_id
       THEN UNCHANGED <<missedPongs, reading, behind>>
       ELSE /\ missedPongs' = 0
            /\ dedup' = Shortened(Append(dedup, event_id))
            /\ lastSequence' = sent + 1
            /\ behind' = (behind /\ event_id = Nobody /\ ~ (sent > 0 /\ Gap(sent + 1)))
    /\ UNCHANGED <<state, ws, timers, failCount, valid_url, subscriptions, page, alive, clicks>>

(* connection.established is the first frame of a connection. *)
Established ==
    /\ sent = 0 /\ HandleMessage(Nobody) /\ UNCHANGED <<commands, subscribed>>

(* The server answers a command; the user takes part in every conversation *)
(* whose page can be opened.                                               *)
Answer ==
    /\ sent > 0 /\ commands # <<>> /\ commands' = Tail(commands)
    /\ LET c == Head(commands) IN
       subscribed' = CASE c.event = "subscribe" -> subscribed \cup {c.page}
                       [] c.event = "unsubscribe" -> subscribed \ {c.page}
                       [] OTHER -> subscribed
    /\ HandleMessage(Nobody)

Push(event_id) ==
    /\ sent > 0 /\ subscribed # {} /\ HandleMessage(event_id)
    /\ UNCHANGED <<commands, subscribed>>

Next ==
    \/ \E p \in Pages : ShowPage(p)
    \/ LeavePage \/ Retry \/ TimerFires \/ OnOpen \/ OnClose \/ Heartbeat
    \/ PeerVanishes \/ Established \/ Answer
    \/ \E e \in Pushes : Push(e)

(* Timers fire, and the browser ends every handshake and every closing.    *)
Spec ==
    /\ Init /\ [][Next]_vars
    /\ WF_vars(TimerFires) /\ WF_vars(Heartbeat)
    /\ WF_vars(ws # "open" /\ (OnOpen \/ OnClose))

(***************************************************************************)
(* Properties                                                              *)
(***************************************************************************)
(* The client is well typed. *)
TypeOK ==
    /\ state \in {"IDLE", "CONNECTING", "OPEN", "RECONNECTING", "PAUSED", "CLOSED",
                  "FORBIDDEN"}
    /\ ws \in {"none", "connecting", "open", "closing"}
    /\ alive \in BOOLEAN /\ valid_url \in BOOLEAN
    /\ timers \in Nat /\ failCount \in 0..MaxFailures /\ missedPongs \in 0..(MaxMissed + 1)
    /\ subscriptions \subseteq Pages /\ page \in Pages \cup {Nobody}
    /\ subscribed \subseteq Pages /\ sent \in Nat
    /\ lastSequence \in Nat /\ behind \in BOOLEAN
    /\ clicks \in 0..MaxClicks

(* Exactly one thing drives the client on: a socket while it connects or   *)
(* is open, one timer while it waits to reconnect, and otherwise neither,  *)
(* through any mixture of retries, failures and closing codes.             *)
OneDriver ==
    /\ (ws # "none") <=> (state \in {"CONNECTING", "OPEN"})
    /\ timers = IF state = "RECONNECTING" THEN 1 ELSE 0

(* On an open connection without commands under way the server pushes the  *)
(* conversation on screen and no other, whenever the page was changed:     *)
(* while connecting, reconnecting, or open.                                *)
FollowsPage ==
    ws = "open" /\ alive /\ commands = <<>> => subscribed = {page} \ {Nobody}

(* What realtime.ts says of itself, "HTTP backfill on reconnect": once a   *)
(* new connection is established and its subscriptions are answered, the   *)
(* page has fetched what it missed while there was none.                   *)
BackfillsOnReconnect ==
    ws = "open" /\ alive /\ sent > 0 /\ commands = <<>> => ~ behind

(* A peer that went silent is noticed by the heartbeat. *)
DeadPeerNoticed == (ws = "open" /\ ~ alive) ~> (ws # "open")

(* A client that reconnects gets through, or gives up after the allowed    *)
(* failures, if the user does not go on asking for ever.                   *)
ReconnectSettles == (state = "RECONNECTING") ~> (state \notin {"RECONNECTING", "CONNECTING"})
=============================================================================
