---------------------------- MODULE ServerProcess ----------------------------
(***************************************************************************)
(* A server process: voice sessions on one event loop, threads for their   *)
(* tools and for webhook deliveries, and the connection pool they share.   *)
(* The handlers of the admin desk are coroutines that await nothing: their *)
(* jobs run on the event loop, where they hold up every session.           *)
(***************************************************************************)
EXTENDS ConnectionPool, VoiceSession

CONSTANT Loop   \* the thread of the event loop

ASSUME LoopAssumption == Workers \cup {Loop} = Threads /\ Loop \notin Workers

serverVars == <<poolVars, session>>

ServerInit == PoolInit /\ SessionInit

LoopFree == job[Loop].pc = "resting"

OnLoop(v) == LoopFree /\ LoopStep(v) /\ UNCHANGED poolVars

Environment(v) ==
    /\ \/ Disconnect(v)
       \/ LoopFree /\ (Connect(v) \/ BadFrame(v) \/ SenderEnds(v))
    /\ UNCHANGED poolVars

\* A tool, a webhook delivery and an admin request start their jobs.
ToolStarts(v, t) ==
    /\ LoopFree
    /\ CallsTool(v, t)
    /\ \E n \in 1..Transactions : JobStarts(t, n)

WebhookStarts(t) ==
    /\ LoopFree
    /\ \E n \in 1..Transactions : JobStarts(t, n)
    /\ UNCHANGED session

AdminStarts ==
    /\ LoopFree
    /\ \E n \in 1..Transactions : JobStarts(Loop, n)
    /\ UNCHANGED session

\* A job's step; its last one is the answer its session awaits, if it still does.
JobStep(t) ==
    /\ JobNext(t)
    /\ session' = IF job'[t].pc = "resting" THEN AnsweredBy(t) ELSE session

ServerNext ==
    \/ \E v \in Sessions : OnLoop(v) \/ Environment(v)
    \/ \E v \in Sessions, t \in Workers : ToolStarts(v, t)
    \/ \E t \in Workers : WebhookStarts(t)
    \/ AdminStarts
    \/ \E t \in Threads : JobStep(t) \/ (Executes(t) /\ UNCHANGED session)

\* Threads run, and all they wait for has a timeout.  A step the loop can take
\* keeps its place in the loop's queue, whatever handlers run before it.
ServerSpec ==
    /\ ServerInit /\ [][ServerNext]_serverVars
    /\ \A t \in Threads : WF_serverVars(JobStep(t))
    /\ \A v \in Sessions : SF_serverVars(OnLoop(v))
-----------------------------------------------------------------------------
ServerTypeOK == PoolTypeOK /\ SessionTypeOK

(***************************************************************************)
(* When the browser is gone the session ends, whatever its tasks were      *)
(* doing and even while a tool still runs: both tasks are over, the        *)
(* endpoint has returned and the agent's queue is closed.                  *)
(* (websocket_endpoint)                                                    *)
(***************************************************************************)
GoneIsNoticed ==
    \A v \in Sessions :
        session[v].socket = "gone" ~> Finished(session[v]) /\ session[v].queue # "open"

(***************************************************************************)
(* A job that started ends, with or without its session, the loop's among  *)
(* them: no thread waits for a connection, not even for one whose slot was *)
(* lost.  (get_db_connection, release_db_connection)                       *)
(***************************************************************************)
ThreadsReturn == \A t \in Threads : job[t].pc # "resting" ~> job[t].pc = "resting"
=============================================================================
