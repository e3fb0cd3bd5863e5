----------------------------- MODULE VoiceSession -----------------------------
(***************************************************************************)
(* A websocket session: the endpoint, its two tasks, and the queue to the  *)
(* agent.  The tasks run on the event loop; a tool that the agent calls    *)
(* runs in a thread, and the task that streams from the agent waits for it.*)
(***************************************************************************)
CONSTANTS
    Sessions,   \* websockets, each of which may be connected again
    Workers,    \* threads that tools run in
    NoWorker

ASSUME SessionAssumption == NoWorker \notin Workers

VARIABLE session

TaskStates == {"none", "running", "cancelling", "over"}

\* receiver and sender: _client_to_agent and _agent_to_client; calling: the
\* thread whose answer the sender awaits.
Session ==
    [socket: {"none", "open", "gone"},
     endpoint: {"none", "starting", "waiting", "over"},
     receiver: TaskStates, sender: TaskStates,
     queue: {"none", "open", "closed"},
     calling: Workers \cup {NoWorker}]

NoSession ==
    [socket |-> "none", endpoint |-> "none", receiver |-> "none", sender |-> "none",
     queue |-> "none", calling |-> NoWorker]

SessionInit == session = [v \in Sessions |-> NoSession]

Running(task) == task = "running"
Over(task) == task = "over"

Becomes(v, record) == session' = [session EXCEPT ![v] = record]

\* Nothing of the last connection is left.
Finished(s) ==
    /\ s.endpoint \in {"none", "over"}
    /\ {s.receiver, s.sender} \subseteq {"none", "over"}
-----------------------------------------------------------------------------
(* The browser *)

Connect(v) ==
    /\ Finished(session[v])
    /\ Becomes(v, [NoSession EXCEPT !.socket = "open", !.endpoint = "starting"])

Disconnect(v) ==
    /\ session[v].socket = "open"
    /\ Becomes(v, [session[v] EXCEPT !.socket = "gone"])

(* The endpoint *)

SessionCreated(v) ==
    /\ session[v].endpoint = "starting"
    /\ Becomes(v, [session[v] EXCEPT !.endpoint = "waiting", !.queue = "open",
                                     !.receiver = "running", !.sender = "running"])

SessionFails(v) ==
    /\ session[v].endpoint = "starting"
    /\ Becomes(v, [session[v] EXCEPT !.endpoint = "over", !.socket = "gone"])

Cancelled(task) == IF Running(task) THEN "cancelling" ELSE task

\* Slip: ALL_COMPLETED.
EndpointWaitsForBoth(v) ==
    LET s == session[v] IN
    /\ s.endpoint = "waiting"
    /\ Over(s.receiver) /\ Over(s.sender)
    /\ Becomes(v, [s EXCEPT !.endpoint = "over", !.queue = "closed", !.socket = "gone"])

\* FIRST_COMPLETED: the other task is cancelled and the queue closed, before
\* the loop runs anything else; the server then closes the socket.
EndpointEnds(v) ==
    LET s == session[v] IN
    /\ s.endpoint = "waiting"
    /\ Over(s.receiver) \/ Over(s.sender)
    /\ Becomes(v, [s EXCEPT !.endpoint = "over", !.queue = "closed", !.socket = "gone",
                            !.receiver = Cancelled(@), !.sender = Cancelled(@)])

(* The tasks *)

\* receive_json raises: the client is gone, or sent what is no JSON.
ReceiverSeesClose(v) ==
    /\ Running(session[v].receiver)
    /\ session[v].socket = "gone"
    /\ Becomes(v, [session[v] EXCEPT !.receiver = "over"])

BadFrame(v) ==
    /\ Running(session[v].receiver)
    /\ session[v].socket = "open"
    /\ Becomes(v, [session[v] EXCEPT !.receiver = "over"])

\* The agent's stream ends or fails, or nobody is there to send to.
SenderEnds(v) ==
    /\ Running(session[v].sender)
    /\ session[v].calling = NoWorker
    /\ Becomes(v, [session[v] EXCEPT !.sender = "over"])

ReceiverCancelled(v) ==
    /\ session[v].receiver = "cancelling"
    /\ Becomes(v, [session[v] EXCEPT !.receiver = "over"])

\* The thread of a tool is not cancelled with the task that awaits it.
SenderCancelled(v) ==
    /\ session[v].sender = "cancelling"
    /\ Becomes(v, [session[v] EXCEPT !.sender = "over", !.calling = NoWorker])

CallsTool(v, t) ==
    /\ Running(session[v].sender)
    /\ session[v].calling = NoWorker
    /\ Becomes(v, [session[v] EXCEPT !.calling = t])

\* The sessions once thread t has answered.
AnsweredBy(t) ==
    [v \in Sessions |->
        IF session[v].calling = t THEN [session[v] EXCEPT !.calling = NoWorker]
        ELSE session[v]]

\* Steps the loop takes by itself, and steps of others.
LoopStep(v) ==
    \/ SessionCreated(v) \/ SessionFails(v) \/ EndpointEnds(v)
    \/ ReceiverSeesClose(v) \/ ReceiverCancelled(v) \/ SenderCancelled(v)

SessionTypeOK == session \in [Sessions -> Session]
=============================================================================
