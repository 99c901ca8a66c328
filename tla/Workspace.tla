----------------------------- MODULE Workspace -----------------------------
(***************************************************************************)
(* One user's personal agent: its model profiles and one task conversation *)
(* (modules/agents: service.py, repository.py, handlers.py, models.py).    *)
(*                                                                         *)
(* An agent's profiles are one encrypted column, read and written whole.   *)
(* A question is committed before the model is called, the answer after    *)
(* it; created_at is the time of the flush, not of the commit.  Nothing    *)
(* forbids two personal agents of one user, and without an ORDER BY a      *)
(* query for the agent may find either.                                    *)
(***************************************************************************)
EXTENDS Integers, Sequences, FiniteSets

CONSTANTS Profiles,         \* identifiers of profiles: uuid4().hex is never repeated
          MaxProfiles,      \* 10 in update_agent_model_route
          Window,           \* 20 in chat_with_personal_agent
          MaxMessages,      \* no message is flushed beyond this number
          Workers

SizesAssumption ==
    MaxProfiles \in Nat \ {0} /\ Window \in Nat \ {0} /\ MaxMessages \in Nat
ProfilesAssumption == Profiles \cap {"platform", "rule", "user"} = {}

VARIABLES agent,        \* the routes of the user's personal agents
          issued,       \* identifiers given to profiles so far
          deleted,      \* profiles that were deleted
          thread,       \* the committed messages of the conversation
          clock,        \* the number of messages flushed so far
          worker

vars == <<agent, issued, deleted, thread, clock, worker>>

Platform == "platform"
Route == [active : Profiles \cup {Platform}, profiles : SUBSET Profiles]
NewRoute == [active |-> Platform, profiles |-> {}]

(* A question answers nothing; via names the model behind an answer.       *)
Message == [at : Nat, answers : Nat, via : Profiles \cup {Platform, "rule", "user"}]
NoMessage == [at |-> 0, answers |-> 0, via |-> "user"]

Op == {"idle", "create", "update", "delete", "question", "ask", "answer"}
Request == [op : Op, index : Nat, route : Route, gone : SUBSET Profiles,
            message : Message, prompt : SUBSET Message]
Idle == [op |-> "idle", index |-> 0, route |-> NewRoute, gone |-> {},
         message |-> NoMessage, prompt |-> {}]

Init ==
    /\ agent = <<>>
    /\ issued = {} /\ deleted = {}
    /\ thread = {}
    /\ clock = 0
    /\ worker = [w \in Workers |-> Idle]

Begin(w, request) ==
    /\ worker[w] = Idle
    /\ worker' = [worker EXCEPT ![w] = request]
    /\ UNCHANGED <<agent, deleted, thread>>

(***************************************************************************)
(* The agent and its profiles                                              *)
(***************************************************************************)
(* By the handler of UserRegistered, whose failure nobody sees, and by any *)
(* request that finds no agent.                                            *)
CreatePersonalAgent(w) ==
    /\ agent = <<>>
    /\ Begin(w, [Idle EXCEPT !.op = "create"])
    /\ UNCHANGED <<issued, clock>>

Saving(i, op, route) == [Idle EXCEPT !.op = op, !.index = i, !.route = route]

UsePlatform(w, i) ==
    /\ Begin(w, Saving(i, "update", [agent[i] EXCEPT !.active = Platform]))
    /\ UNCHANGED <<issued, clock>>

(* update_agent_model_route: changes a profile or adds one, and uses it *)
UpdateAgentModelRoute(w, i, p) ==
    /\ p \in agent[i].profiles \/
          (p \notin issued /\ Cardinality(agent[i].profiles) < MaxProfiles)
    /\ Begin(w, Saving(i, "update", [active |-> p, profiles |-> agent[i].profiles \cup {p}]))
    /\ issued' = issued \cup {p}
    /\ UNCHANGED clock

(* delete_agent_model_route_profile *)
DeleteProfile(w, i, p) ==
    /\ p \in agent[i].profiles
    /\ Begin(w, [Saving(i, "delete",
                        [active |-> IF agent[i].active = p THEN Platform ELSE agent[i].active,
                         profiles |-> agent[i].profiles \ {p}]) EXCEPT !.gone = {p}])
    /\ UNCHANGED <<issued, clock>>

(* _save_model_route and the commit: the whole column. *)
Commit(w) ==
    LET r == worker[w] IN
    /\ \/ r.op = "create" /\ agent' = Append(agent, NewRoute)
       \/ r.op \in {"update", "delete"} /\ agent' = [agent EXCEPT ![r.index] = r.route]
    /\ deleted' = deleted \cup r.gone
    /\ worker' = [worker EXCEPT ![w] = Idle]
    /\ UNCHANGED <<issued, thread, clock>>

(***************************************************************************)
(* The conversation                                                        *)
(***************************************************************************)
(* chat_with_personal_agent, up to its first commit.  The messages that    *)
(* were loaded are not loaded again: what others commit in the meantime is *)
(* not in the prompt.                                                      *)
Ask(w, i) ==
    /\ clock < MaxMessages
    /\ Begin(w, [Idle EXCEPT !.op = "question", !.index = i, !.route = agent[i],
                             !.message = [NoMessage EXCEPT !.at = clock + 1],
                             !.prompt = thread])
    /\ clock' = clock + 1
    /\ UNCHANGED issued

Latest(messages) ==
    {m \in messages : Cardinality({n \in messages : n.at > m.at}) < Window}

(* Mutant: the question is saved with its answer. *)
SaveLater(w) ==
    LET r == worker[w] IN
    /\ r.op = "question"
    /\ worker' = [worker EXCEPT ![w].op = "ask",
                                ![w].prompt = Latest(r.prompt \cup {r.message})]
    /\ UNCHANGED <<agent, issued, deleted, thread, clock>>

SaveQuestion(w) ==
    LET r == worker[w] IN
    /\ r.op = "question"
    /\ thread' = thread \cup {r.message}
    /\ worker' = [worker EXCEPT ![w].op = "ask",
                                ![w].prompt = Latest(r.prompt \cup {r.message})]
    /\ UNCHANGED <<agent, issued, deleted, clock>>

(* The model that the route named when the request began. *)
TakeAnswer(w) ==
    LET r == worker[w] IN
    /\ r.op = "ask" /\ clock < MaxMessages
    /\ clock' = clock + 1
    /\ worker' = [worker EXCEPT ![w].op = "answer",
                     ![w].message = [at |-> clock + 1, answers |-> r.message.at,
                                     via |-> r.route.active]]
    /\ UNCHANGED <<agent, issued, deleted, thread>>

SaveAnswer(w) ==
    LET r == worker[w] IN
    /\ r.op = "answer"
    /\ thread' = thread \cup {r.message}
    /\ worker' = [worker EXCEPT ![w] = Idle]
    /\ UNCHANGED <<agent, issued, deleted, clock>>

(* The worker dies, the model fails, or somebody else than the provider of *)
(* the route answers (the gateway's fallback): what is not committed is    *)
(* rolled back.                                                            *)
Fail(w) ==
    /\ worker[w] # Idle
    /\ worker' = [worker EXCEPT ![w] = Idle]
    /\ UNCHANGED <<agent, issued, deleted, thread, clock>>

Serve(w) ==
    \/ CreatePersonalAgent(w)
    \/ \E i \in DOMAIN agent :
          \/ UsePlatform(w, i) \/ Ask(w, i)
          \/ \E p \in Profiles : UpdateAgentModelRoute(w, i, p) \/ DeleteProfile(w, i, p)

Next ==
    \E w \in Workers :
        \/ Serve(w) \/ Commit(w)
        \/ SaveQuestion(w) \/ TakeAnswer(w) \/ SaveAnswer(w) \/ Fail(w)

Spec == Init /\ [][Next]_vars

(***************************************************************************)
(* Properties                                                              *)
(***************************************************************************)
(* Rows and requests are well typed. *)
TypeOK ==
    /\ agent \in Seq(Route)
    /\ issued \subseteq Profiles /\ deleted \subseteq Profiles
    /\ thread \subseteq Message /\ clock \in Nat
    /\ worker \in [Workers -> Request]

(* Requests in turn.  A user has one personal agent, whether the event or  *)
(* a request made it (create_personal_agent: "idempotent").                *)
OnePersonalAgent == Len(agent) <= 1

(* Requests in turn.  A profile that was deleted, and with it its API key, *)
(* is not written back by a later change of another profile.               *)
DeletedProfileGone == \A i \in DOMAIN agent : agent[i].profiles \cap deleted = {}

(* With any interleaving: the profile in use is one that is stored, and no *)
(* more are stored than the limit allows, although each request checks     *)
(* them in a copy that may be old.                                         *)
RouteSound ==
    \A i \in DOMAIN agent :
        /\ agent[i].active \in agent[i].profiles \cup {Platform}
        /\ Cardinality(agent[i].profiles) <= MaxProfiles

(* Whatever fails afterwards: when the model is called, the question is    *)
(* committed ("save the student's input even if the upstream model is      *)
(* temporarily unavailable") and it is in the prompt, however long the     *)
(* conversation has become.                                                *)
QuestionKept ==
    \A w \in Workers :
        worker[w].op = "ask" => worker[w].message \in thread \cap worker[w].prompt

(* With any interleaving: an answer stands after a question that is there, *)
(* a question has one answer, and no answer is from a fallback.            *)
AnswersAttributed ==
    \A m \in thread : m.answers # 0 =>
        /\ m.via # "rule"
        /\ \E q \in thread : q.at = m.answers /\ q.answers = 0 /\ q.at < m.at
        /\ \A n \in thread : n.answers = m.answers => n = m
=============================================================================
