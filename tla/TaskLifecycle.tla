--------------------------- MODULE TaskLifecycle ---------------------------
(***************************************************************************)
(* What the task coordinator promises about tasks, whatever it keeps to    *)
(* get there: stages in order, one running task per node, and nothing left *)
(* alive that needs a dead satellite.  One step may move many tasks: a     *)
(* fault batch fails all of its victims at once, and a completion starts   *)
(* the next task of the queue.                                             *)
(***************************************************************************)
CONSTANTS Task, Sat,
          SourceNode, HostNode, ResultNode  \* the three satellites of a task

VARIABLES state,  \* the stage of each task
          dead    \* satellites that have failed

Stage == {"PENDING", "INPUT_TRANSFERRING", "QUEUED", "RUNNING",
          "RESULT_TRANSFERRING", "COMPLETED", "FAILED"}

TerminalStage == {"COMPLETED", "FAILED"}

\* IsNextTaskState without recovery, and FailIfActive.
NextStage ==
    {<<"PENDING", "INPUT_TRANSFERRING">>, <<"INPUT_TRANSFERRING", "QUEUED">>,
     <<"QUEUED", "RUNNING">>, <<"RUNNING", "RESULT_TRANSFERRING">>,
     <<"RESULT_TRANSFERRING", "COMPLETED">>}
    \cup {<<s, "FAILED">> : s \in Stage \ TerminalStage}

\* The satellites a task in stage s still needs.
Needed(t, s) ==
    CASE s \in {"PENDING", "INPUT_TRANSFERRING"} ->
            {SourceNode[t], HostNode[t], ResultNode[t]}
      [] s \in {"QUEUED", "RUNNING", "RESULT_TRANSFERRING"} ->
            {HostNode[t], ResultNode[t]}
      [] s \in TerminalStage -> {}

\* A task that has arrived fails at the latest when a satellite it needs does.
Alive(t, s, down) == s = "PENDING" \/ Needed(t, s) \cap down = {}

Init == state = [t \in Task |-> "PENDING"] /\ dead = {}

Next ==
    /\ dead \subseteq dead' /\ dead' \subseteq Sat
    /\ DOMAIN state' = Task
    /\ \A t \in Task :
         /\ state'[t] # state[t] => <<state[t], state'[t]>> \in NextStage
         /\ Alive(t, state'[t], dead')
    /\ \A t, u \in Task :
         state'[t] = "RUNNING" /\ state'[u] = "RUNNING" /\ HostNode[t] = HostNode[u]
         => t = u

Spec == Init /\ [][Next]_<<state, dead>>
=============================================================================
