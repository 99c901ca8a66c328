---------------------------- MODULE SceneStates ----------------------------
(***************************************************************************)
(* The legal-transition table of a scene instance, as                      *)
(* scenes/state_machine.py defines it.  A transition is <<from, action,    *)
(* to>>; the table is the normal flow, processing_failed, and cancel and   *)
(* expire from every state that is not terminal.                           *)
(***************************************************************************)

NormalFlow ==
    { <<"DRAFT", "publish", "INVITING">>,
      <<"INVITING", "start_collecting", "COLLECTING_PRIVATE_INPUT">>,
      <<"COLLECTING_PRIVATE_INPUT", "start_processing", "GENERATING_CANDIDATES">>,
      <<"GENERATING_CANDIDATES", "candidates_ready", "VOTING">>,
      <<"VOTING", "voting_complete", "CONFIRMING">>,
      <<"CONFIRMING", "confirm", "COMPLETED">> }

TerminalStates == {"COMPLETED", "CANCELLED", "EXPIRED", "FAILED"}

ActiveStates == {"DRAFT", "INVITING", "COLLECTING_PRIVATE_INPUT",
                 "GENERATING_CANDIDATES", "VOTING", "CONFIRMING"}

SceneState == ActiveStates \cup TerminalStates

LegalTransitions ==
    NormalFlow
      \cup { <<"GENERATING_CANDIDATES", "processing_failed", "FAILED">> }
      \cup { <<s, "cancel", "CANCELLED">> : s \in ActiveStates }
      \cup { <<s, "expire", "EXPIRED">> : s \in ActiveStates }

SceneActions == {"publish", "start_collecting", "start_processing",
                 "candidates_ready", "voting_complete", "confirm",
                 "processing_failed", "cancel", "expire"}

(* get_target_state as a set: the target, or {} where the code returns None *)
Targets(from, action) ==
    IF from \in TerminalStates
    THEN {}
    ELSE {to \in SceneState : <<from, action, to>> \in LegalTransitions}
=============================================================================
