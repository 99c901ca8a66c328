-------------------------------- MODULE MCWeb --------------------------------
(* The demo page and the hub of scenes, and three parts of the web client  *)
(* that share no state with them, each on a small instance: a behaviour is *)
(* one of the part that the variable of that name says, and the others     *)
(* rest.                                                                   *)
EXTENDS ScenePage

CONSTANTS Pages, Pushes, MaxFailures, MaxMissed, CacheLimit, MaxCommands, MaxSent, MaxClicks,
          Requests, PageSize, MaxMessages,
          People, Admins, MaxOrgs, Clubs, ListPage, Limit, MaxDepth

VARIABLES part,
          state, ws, alive, valid_url, timers, failCount, missedPongs, subscriptions,
          open_page, commands, subscribed, sent, lastSequence, dedup, behind, clicks,
          stored, shown, processed, page, asked, overlap,
          status, visibility, parent, member, walk

C == INSTANCE RealtimeClient WITH page <- open_page
L == INSTANCE ChatPage
D == INSTANCE Directory WITH Users <- People, PageSize <- ListPage

ASSUME PageParameters == PageAssumption
ASSUME TwoUsers == Cardinality(Users) = 2
ASSUME ClientParameters == C!ClientAssumption
ASSUME ListingParameters == L!PageSizeAssumption /\ D!DirectoryAssumption

pvars == <<scene, worker, crashes>>
cvars == <<state, ws, alive, valid_url, timers, failCount, missedPongs, subscriptions,
           open_page, commands, subscribed, sent, lastSequence, dedup, behind, clicks>>
lvars == <<stored, shown, processed, page, asked, overlap>>
dvars == <<status, visibility, parent, member, walk>>
webVars == <<part, pvars, cvars, lvars, dvars>>

WebInit ==
    /\ part \in {"retry", "open", "choose", "client", "chat", "directory", "walk"}
    /\ Init /\ C!Init /\ L!Init /\ D!Init
    /\ part # "client" => valid_url
    /\ part # "chat" => stored = 0 /\ overlap

(* The scenes in three parts: one request at a time, of one user who may   *)
(* retry; pages, tabs and the hub of one user that overlap while scenes    *)
(* are opened; and two users, of whom the first votes and the other        *)
(* confirms, with the candidates of one scene and requests that differ.    *)
Busy == {w \in Workers : worker'[w].at # "idle"}
First == Idle.user
Asks(users, goals) ==
    \A w \in Busy : worker'[w].user \in users /\ worker'[w].goal \in goals
Phases(set) == \A i \in DOMAIN scene' : scene'[i].status \in set
SameParticipants == \A i \in DOMAIN scene : scene'[i].part = scene[i].part

RetryPart ==
    /\ \A v, w \in Busy : v = w
    /\ Asks({First}, {"status", "submit", "create", "hub"})
    /\ Phases({"DRAFT", "INVITING", "COLLECTING_PRIVATE_INPUT", "CANCELLED"})
    /\ Len(scene') = 2 => SameParticipants /\ \A u \in Users : scene'[2].part[u] # "INVITED"

OpenPart ==
    /\ Asks({First}, {"status", "hub"}) /\ crashes' = 0 /\ SameParticipants
    /\ \A i \in DOMAIN scene', u \in Users \ {First} : scene'[i].part[u] = Nothing
    /\ Phases({"DRAFT", "INVITING", "COLLECTING_PRIVATE_INPUT", "VOTING", "CANCELLED"})

ChoosePart ==
    /\ \A w \in Busy :
          IF worker'[w].goal = "confirm" THEN worker'[w].user # First
          ELSE /\ worker'[w].user = First
               /\ worker'[w].goal \in {"create", "hub", "list", "vote", "unvote"}
    /\ Cardinality({worker'[w].goal : w \in Busy}) = Cardinality(Busy)
    /\ Len(scene') <= 1 /\ crashes' = 0 /\ SameParticipants
    /\ Phases(ActiveStates \ {"CONFIRMING"})
    /\ (\E i \in DOMAIN scene' : scene'[i].status \in {"DRAFT", "INVITING"})
           => Cardinality(Busy) <= 1

SceneStep ==
    /\ Next
    /\ \/ part = "retry" /\ RetryPart
       \/ part = "open" /\ OpenPart
       \/ part = "choose" /\ ChoosePart
    /\ UNCHANGED <<part, cvars, lvars, dvars>>

ClientStep(A) == part = "client" /\ A /\ UNCHANGED <<part, pvars, lvars, dvars>>
ChatStep == part = "chat" /\ L!Next /\ UNCHANGED <<part, pvars, cvars, dvars>>

(* The tree is examined without a walk, and the walk without a tree, where *)
(* only those who create an organization are in it.                        *)
DirectoryStep ==
    /\ D!Next
    /\ \/ part = "directory" /\ walk' = walk
       \/ /\ part = "walk" /\ \A o \in D!Orgs : parent'[o] = 0
          /\ member' = member \/ status' # status
    /\ UNCHANGED <<part, pvars, cvars, lvars>>

WebNext == SceneStep \/ ClientStep(C!Next) \/ ChatStep \/ DirectoryStep

WebSpec ==
    /\ WebInit /\ [][WebNext]_webVars
    /\ WF_webVars(ClientStep(C!TimerFires)) /\ WF_webVars(ClientStep(C!Heartbeat))
    /\ WF_webVars(ClientStep(ws # "open" /\ (C!OnOpen \/ C!OnClose)))

(* A request that is sent again, after its answer or after a crash,        *)
(* creates no second scene (create_scene_instance, one request at a time). *)
OneScenePerKeyInTurn == part = "retry" => OneScenePerKey

(* The client is driven by one socket or one timer, and the server pushes  *)
(* the conversation on screen and no other (realtime.ts).                  *)
ClientInStep == C!TypeOK /\ C!OneDriver /\ C!FollowsPage

(* A client that reconnects gets through or gives up, and a peer that went *)
(* silent is noticed by the heartbeat (realtime.ts).                       *)
ReconnectSettles == C!ReconnectSettles /\ C!DeadPeerNoticed

(* Until older pages are asked for, the message list is newest first and   *)
(* repeats no message, whatever the order of overlapping answers; and with *)
(* one request at a time it hides no processed message.  (Where requests   *)
(* overlap, a first page that was read before another answer and arrives   *)
(* after it does hide one.)  Every listing of organizations shows what its *)
(* viewer may open and nothing else, to the last page (the conversation    *)
(* page; directory and organizations).                                     *)
ListingsSound ==
    /\ L!TypeOK /\ L!ListInOrder /\ L!NothingHidden
    /\ D!TypeOK /\ D!ShownCanBeOpened /\ D!TreeFollowsAncestors
    /\ D!RecommendsOthers /\ D!WalkComplete
=============================================================================
