---------------------------- MODULE DurableHost ----------------------------
(***************************************************************************)
(* One conversation of glass-core's durable host                           *)
(* (crates/glass-core/src/durable_runtime.rs over durable.rs): requests    *)
(* are submitted, run one by one as generations that stream text and call  *)
(* tools, and settle; the process may die between any two commits, and a   *)
(* restart recovers the tasks and repairs the transcript.                  *)
(*                                                                         *)
(* A commit is one step here: DurableTasks shows what a batch does to the  *)
(* tasks, DurableJournal that it is in the journal entirely or not at all. *)
(* A commit that fails poisons the store, which then accepts no commit     *)
(* until the process is restarted, so it is a Crash before or after the    *)
(* step.                                                                   *)
(*                                                                         *)
(* gen, order, tool, transcript and live are in the journal; host and run  *)
(* are the memory of the process; chunk, executed and shown record what    *)
(* the outside world has done and seen.                                    *)
(***************************************************************************)
EXTENDS Sequences, Naturals, FiniteSets

CONSTANTS
    Request,   \* the request IDs of the client's submissions
    Call,      \* the call IDs that the model provider hands out
    CallIds,   \* those that it may hand out in each generation
    MaxChunk,  \* bound on the pieces of text that are streamed
    MaxLive,   \* the pieces that fit into the 64 KiB of the live document
    MaxInput,  \* bound on the inputs, submissions and corrections together
    NoRequest  \* no generation

ASSUME HostConstantsOK ==
    /\ NoRequest \notin Request
    /\ CallIds \in [Request -> SUBSET Call]
    /\ MaxChunk \in Nat
    /\ MaxLive \in Nat \ {0}
    /\ MaxInput \in Nat

VARIABLES
    gen,         \* the generation task of each request
    order,       \* the requests in the order of their tasks' creation
    tool,        \* the tool tasks, by generation and call ID
    transcript,  \* the records of the conversation
    live,        \* the gc.live document
    host,        \* where the process is
    run,         \* the run of the active generation
    chunk,       \* the pieces of text streamed so far
    executed,    \* how often each call's tool was dispatched
    shown        \* the text each generation has sent to the client

journal == <<gen, order, tool, transcript, live>>
world == <<chunk, executed, shown>>
vars == <<journal, host, run, world>>

Chunk == 1..MaxChunk
Over == {"completed", "failed", "aborted"}
Gen == [status : {"absent", "pending", "running", "completing"} \cup Over,
        admitted : BOOLEAN, abort : BOOLEAN, decided : Over \cup {"none"}]
Tool == [status : {"absent", "running"} \cup Over, abort : BOOLEAN]

User(r) == [kind |-> "user", of |-> r, text |-> {}]
Correction(r) == [kind |-> "correction", of |-> r, text |-> {}]
Assistant(t) == [kind |-> "assistant", of |-> NoRequest, text |-> t]
ToolCall(c) == [kind |-> "call", of |-> c, text |-> {}]
ToolResult(c) == [kind |-> "result", of |-> c, text |-> {}]

Index == 1..Len(transcript)
IsA(i, kind) == transcript[i].kind = kind
Inputs == Len(order) + Cardinality({i \in Index : IsA(i, "correction")})

(* The memory of a run: the generation, the calls of the last response    *)
(* that are to be recorded (batch), that are recorded and not dealt with   *)
(* (issued) and whose tools are running (flight), what told it to stop,    *)
(* how its last turn ended, whether its session refuses further records,   *)
(* the text since the last answer and the part that is not yet sent.       *)
NoRun == [of |-> NoRequest, batch |-> {}, issued |-> {}, flight |-> {}, stop |-> "no",
          reason |-> "none", broken |-> FALSE, partial |-> {}, unsent |-> {}]

-----------------------------------------------------------------------------
(* The task graph of a generation: its tool tasks are its children.        *)

Working(T, r) == \E c \in Call : T[r, c].status = "running"

\* abort_tree, for a generation: running tools are told to stop.
StopTools(r) ==
    [k \in Request \X Call |->
        IF k[1] = r /\ tool[k].status = "running" THEN [tool[k] EXCEPT !.abort = TRUE] ELSE tool[k]]

\* A generation that is over settles, or waits for its running tools.
SettleAs(g, s, T, r) ==
    IF Working(T, r) THEN [g EXCEPT !.status = "completing", !.decided = s]
                     ELSE [g EXCEPT !.status = s]

\* reconcile: the generations whose last running tool has settled, settle.
Reconciled(G, T) ==
    [r \in Request |->
        IF G[r].status = "completing" /\ ~Working(T, r)
        THEN [G[r] EXCEPT !.status = G[r].decided] ELSE G[r]]

-----------------------------------------------------------------------------
Init ==
    /\ gen = [r \in Request |->
                [status |-> "absent", admitted |-> FALSE, abort |-> FALSE, decided |-> "none"]]
    /\ order = <<>>
    /\ tool = [k \in Request \X Call |-> [status |-> "absent", abort |-> FALSE]]
    /\ transcript = <<>>
    /\ live = [request |-> NoRequest, text |-> {}]
    /\ host = "down"
    /\ run = NoRun
    /\ chunk = 0
    /\ executed = [k \in Request \X Call |-> 0]
    /\ shown = [r \in Request |-> {}]

\* The process dies, or its store is poisoned and it is restarted.
Crash ==
    /\ host # "down"
    /\ host' = "down"
    /\ run' = NoRun
    /\ UNCHANGED <<journal, world>>

-----------------------------------------------------------------------------
(* Host::open: two commits, one for the tasks and one for the transcript.  *)

\* Mutant of RecoveredAs: every safe task is started again.
RecoveredAsPending(g) == "pending"

\* Generations are safe to replay, unless they are to be aborted.
RecoveredAs(g) == IF g.abort THEN "aborted" ELSE "pending"

\* Store::recover, the tools before the generations that own them.
Recover ==
    LET T == [k \in Request \X Call |->
                IF tool[k].status # "running" THEN tool[k]
                ELSE [tool[k] EXCEPT !.status = IF tool[k].abort THEN "aborted" ELSE "failed"]]
        G == [r \in Request |->
                IF gen[r].status # "running" THEN gen[r]
                ELSE [gen[r] EXCEPT !.status = RecoveredAs(gen[r])]]
    IN  /\ host = "down"
        /\ host' = "repair"
        /\ tool' = T
        /\ gen' = Reconciled(G, T)
        /\ UNCHANGED <<order, transcript, live, run, world>>

\* Mutant of Unanswered: only the last call is looked at.
UnansweredLast ==
    LET calls == {i \in Index : IsA(i, "call")}
        last == {i \in calls : \A j \in calls : j <= i}
    IN  {transcript[i].of : i \in last} \ {transcript[i].of : i \in {j \in Index : IsA(j, "result")}}

\* The calls without a result.  Calls and results are matched by call ID.
Unanswered ==
    {transcript[i].of : i \in {j \in Index : IsA(j, "call")}}
        \ {transcript[i].of : i \in {j \in Index : IsA(j, "result")}}

\* The results of a set of calls, in some order.
Results(calls) ==
    LET n == Cardinality(calls)
    IN  {[i \in 1..n |-> ToolResult(f[i])] :
            f \in {g \in [1..n -> calls] : \A i, j \in 1..n : g[i] = g[j] => i = j}}

\* The live text belongs to an unsettled generation, and no answer since the
\* last input contains it.  A correction is an input too.
LastUser ==
    LET users == {i \in Index : IsA(i, "user") \/ IsA(i, "correction")}
    IN  IF users = {} THEN 1 ELSE CHOOSE i \in users : \A j \in users : j <= i

LostText ==
    /\ live.request # NoRequest
    /\ gen[live.request].status \notin Over
    /\ live.text # {}
    /\ \A i \in LastUser..Len(transcript) :
          ~(IsA(i, "assistant") /\ live.text \subseteq transcript[i].text)

Repair ==
    /\ host = "repair"
    /\ host' = "idle"
    /\ \E results \in Results(Unanswered) :
          transcript' = transcript \o results
                            \o (IF LostText THEN <<Assistant(live.text)>> ELSE <<>>)
    /\ UNCHANGED <<gen, order, tool, live, run, world>>

-----------------------------------------------------------------------------
(* The client's requests.                                                  *)

\* durable/submit; a repeated one only returns the existing task.
Submit(r) ==
    /\ host = "idle"
    /\ gen[r].status = "absent"
    /\ Inputs < MaxInput
    /\ gen' = [gen EXCEPT ![r].status = "pending"]
    /\ order' = Append(order, r)
    /\ UNCHANGED <<tool, transcript, live, host, run, world>>

Before(q, r) ==
    \E i, j \in 1..Len(order) : i < j /\ order[i] = q /\ order[j] = r

\* Mutant of Eligible: an earlier generation that is completing is not waited for.
EligibleEarly(r) ==
    /\ gen[r].status = "pending"
    /\ ~gen[r].abort
    /\ \A q \in Request \ {r} :
          gen[q].status # "running" /\ (gen[q].status = "pending" => ~Before(q, r))

Eligible(r) ==
    /\ gen[r].status = "pending"
    /\ ~gen[r].abort
    /\ ~Working(tool, r)
    /\ \A q \in Request \ {r} :
          /\ gen[q].status \notin {"running", "completing"}
          /\ gen[q].status = "pending" => ~Before(q, r)

\* Mutant of Admission: the input is recorded again by every run.
AdmissionAgain(r) == <<User(r)>>

\* The input becomes a record when the generation first runs.
Admission(r) == IF gen[r].admitted THEN <<>> ELSE <<User(r)>>

\* durable/run and durable/resume: the commit that starts a generation.
Admit(r) ==
    /\ host = "idle"
    /\ Eligible(r)
    /\ host' = "start"
    /\ run' = [NoRun EXCEPT !.of = r]
    /\ gen' = [gen EXCEPT ![r].status = "running", ![r].admitted = TRUE]
    /\ transcript' = transcript \o Admission(r)
    /\ UNCHANGED <<order, tool, live, world>>

\* The projection is written and opened as a session, which answers the
\* calls that still have no result, and the run starts.
OpenSession ==
    /\ host = "start"
    /\ host' = "stream"
    /\ \E results \in Results(Unanswered) : transcript' = transcript \o results
    /\ UNCHANGED <<gen, order, tool, live, run, world>>

\* Mutant of FailStart: the run is left behind as if it were still active.
FailStartOpen ==
    /\ host = "start"
    /\ host' = "idle"
    /\ gen' = [gen EXCEPT ![run.of].status = "failed", ![run.of].abort = TRUE]
    /\ UNCHANGED <<order, tool, transcript, live, run, world>>

\* It cannot be written or opened: durable/run marks the generation failed.
FailStart ==
    /\ host = "start"
    /\ host' = "idle"
    /\ gen' = [gen EXCEPT ![run.of].status = "failed", ![run.of].abort = TRUE]
    /\ run' = NoRun
    /\ UNCHANGED <<order, tool, transcript, live, world>>

\* durable/abort of a generation, also while one runs.
Abort(r) ==
    LET g == [gen[r] EXCEPT !.abort = TRUE]
    IN  /\ host \in {"idle", "stream", "tools"}
        /\ gen[r].status \in {"pending", "running", "completing"}
        /\ ~gen[r].abort
        /\ tool' = StopTools(r)
        /\ gen' = [gen EXCEPT ![r] = IF g.status = "running" THEN g
                                      ELSE SettleAs(g, "aborted", tool, r)]
        /\ UNCHANGED <<order, transcript, live, host, run, world>>

\* durable/abort of a tool.
AbortTool(r, c) ==
    /\ host \in {"idle", "stream", "tools"}
    /\ tool[r, c].status = "running"
    /\ ~tool[r, c].abort
    /\ tool' = [tool EXCEPT ![<<r, c>>].abort = TRUE]
    /\ UNCHANGED <<gen, order, transcript, live, host, run, world>>

\* durable/reset: the transcript starts anew.
Reset ==
    /\ host = "idle"
    /\ \A r \in Request : gen[r].status \in Over \cup {"absent"}
    /\ \A k \in Request \X Call : tool[k].status # "running"
    /\ transcript # <<>>
    /\ transcript' = <<>>
    /\ UNCHANGED <<gen, order, tool, live, host, run, world>>

-----------------------------------------------------------------------------
(* The running generation.  The host reads the client's messages while it  *)
(* streams and while tools run: an abort of the generation, a cancelled    *)
(* turn, a closed connection and a correction all stop it at its next      *)
(* step; only after a correction it goes on.                               *)

Stopping == run.stop # "no" \/ gen[run.of].abort
Steering == run.stop = "steer" /\ ~gen[run.of].abort

\* turn/cancel, turn/steer and the end of the connection.  Between two tools
\* a later message replaces an earlier one.
Stop ==
    /\ host \in {"stream", "tools"}
    /\ run.stop # "disconnect"
    /\ \E s \in {"cancel", "steer", "disconnect"} \ {run.stop} :
          /\ run.stop = "no" \/ s = "disconnect" \/ host = "tools"
          /\ s = "steer" => Inputs < MaxInput
          /\ run' = [run EXCEPT !.stop = s]
    /\ UNCHANGED <<journal, host, world>>

\* A write of the projection fails, or it was changed by someone else: the
\* session drops or refuses every later record.
BreakSession ==
    /\ host \in {"stream", "record", "tools", "steer", "steered"}
    /\ ~run.broken
    /\ run' = [run EXCEPT !.broken = TRUE]
    /\ UNCHANGED <<journal, host, world>>

\* Text arrives.  Within 100 ms of the last update it is only buffered.
Stream ==
    /\ host = "stream"
    /\ ~Stopping
    /\ chunk < MaxChunk
    /\ chunk' = chunk + 1
    /\ run' = [run EXCEPT !.partial = @ \cup {chunk'}, !.unsent = @ \cup {chunk'}]
    /\ UNCHANGED <<journal, host, executed, shown>>

\* trim_tail: of a longer text only its end is kept.
TrimTail(text) == {c \in text : Cardinality({d \in text : d > c}) < MaxLive}

\* Mutant of LiveText: only the new text is committed.
LiveTextNew == TrimTail(run.unsent)

\* What the live document holds: the end of the text that was streamed since
\* the last recorded answer.  The answer itself is recorded in full.
LiveText == TrimTail(run.partial)

\* The live document is committed, and then the client is sent the text.
Publish ==
    /\ host \in {"stream", "tools"}
    /\ live' = [request |-> run.of, text |-> LiveText]
    /\ shown' = [shown EXCEPT ![run.of] = @ \cup run.unsent]
    /\ run' = [run EXCEPT !.unsent = {}]
    /\ UNCHANGED <<gen, order, tool, transcript, host, chunk, executed>>

\* The streamed text becomes an answer, unless the session drops it.
Answer == IF run.broken \/ run.partial = {} THEN <<>> ELSE <<Assistant(run.partial)>>
Unrecorded == IF run.broken THEN run.partial ELSE {}

\* The response is complete; its calls, if any, are to be executed.
EndResponse ==
    /\ host = "stream"
    /\ ~Stopping
    /\ \E calls \in SUBSET CallIds[run.of] :
          /\ host' = IF calls = {} THEN "settle" ELSE "record"
          /\ run' = [run EXCEPT !.partial = Unrecorded, !.batch = calls,
                                !.reason = IF calls = {} THEN "completed" ELSE "none"]
    /\ transcript' = transcript \o Answer
    /\ UNCHANGED <<gen, order, tool, live, world>>

\* The response is cut off: it was stopped, or the provider failed.
CutResponse ==
    /\ host = "stream"
    /\ ~Steering
    /\ host' = "settle"
    /\ run' = [run EXCEPT !.partial = Unrecorded,
                          !.reason = IF Stopping THEN "cancelled" ELSE "failed"]
    /\ transcript' = transcript \o Answer
    /\ UNCHANGED <<gen, order, tool, live, world>>

\* The response is cut off by a correction, and its calls are dropped.
SteerResponse ==
    /\ host = "stream"
    /\ Steering
    /\ host' = "steer"
    /\ run' = [run EXCEPT !.partial = Unrecorded]
    /\ transcript' = transcript \o Answer
    /\ UNCHANGED <<gen, order, tool, live, world>>

\* The correction becomes a record.
Steer ==
    /\ host = "steer"
    /\ host' = "steered"
    /\ run' = [run EXCEPT !.stop = "no"]
    /\ transcript' = IF run.broken THEN transcript ELSE Append(transcript, Correction(run.of))
    /\ UNCHANGED <<gen, order, tool, live, world>>

\* The client is told, as by Publish, and the next request is made, unless
\* the session is broken.
Continue ==
    /\ host = "steered"
    /\ host' = IF run.broken THEN "settle" ELSE "stream"
    /\ live' = [request |-> run.of, text |-> LiveText]
    /\ shown' = [shown EXCEPT ![run.of] = @ \cup run.unsent]
    /\ run' = [run EXCEPT !.unsent = {}, !.reason = IF run.broken THEN "failed" ELSE "none"]
    /\ UNCHANGED <<gen, order, tool, transcript, chunk, executed>>

\* Mutant of MayCall: nothing notices that the task exists.
MayCallAgain(c) == ~gen[run.of].abort

\* The commit that records a call also creates its tool task.
MayCall(c) == tool[run.of, c].status = "absent" /\ ~gen[run.of].abort

\* The calls are recorded one by one before any is executed.  A record that
\* is refused fails the turn.
RecordCall(c) ==
    /\ host = "record"
    /\ c \in run.batch
    /\ IF MayCall(c) /\ ~run.broken
       THEN /\ transcript' = Append(transcript, ToolCall(c))
            /\ tool' = [tool EXCEPT ![<<run.of, c>>] = [status |-> "running", abort |-> FALSE]]
            /\ run' = [run EXCEPT !.batch = @ \ {c}, !.issued = @ \cup {c}]
            /\ host' = IF run.batch = {c} THEN "tools" ELSE "record"
       ELSE /\ run' = [run EXCEPT !.broken = TRUE, !.reason = "failed"]
            /\ host' = "settle"
            /\ UNCHANGED <<transcript, tool>>
    /\ UNCHANGED <<gen, order, live, world>>

\* A tool is dispatched.  From here on its effect may have happened.
Execute(c) ==
    /\ host = "tools"
    /\ ~Stopping
    /\ c \in run.issued \ run.flight
    /\ executed' = [executed EXCEPT ![<<run.of, c>>] = @ + 1]
    /\ run' = [run EXCEPT !.flight = @ \cup {c}]
    /\ UNCHANGED <<journal, host, chunk, shown>>

\* A result of call c is recorded, which settles its task.
RecordResult(c, statuses) ==
    IF run.broken THEN UNCHANGED <<transcript, tool>>
    ELSE /\ transcript' = Append(transcript, ToolResult(c))
         /\ \E s \in IF tool[run.of, c].abort THEN {"aborted"} ELSE statuses :
               tool' = [tool EXCEPT ![<<run.of, c>>].status = s]

\* The tool has answered, or will not.
FinishTool(c) ==
    /\ host = "tools"
    /\ c \in run.flight
    /\ RecordResult(c, {"completed", "failed"})
    /\ run' = [run EXCEPT !.issued = @ \ {c}, !.flight = @ \ {c}]
    /\ UNCHANGED <<gen, order, live, host, world>>

\* The turn was stopped before the tool was dispatched.
SkipTool(c) ==
    /\ host = "tools"
    /\ Stopping
    /\ run.flight = {}
    /\ c \in run.issued
    /\ IF \E i \in Index : transcript[i] = ToolResult(c)
       THEN UNCHANGED <<transcript, tool>>
       ELSE RecordResult(c, {"completed"})
    /\ run' = [run EXCEPT !.issued = @ \ {c}]
    /\ UNCHANGED <<gen, order, live, host, world>>

\* The batch is done and the next request is made, unless the turn was
\* stopped or the session is broken; a correction is recorded first.
EndBatch ==
    /\ host = "tools"
    /\ run.issued = {}
    /\ host' = IF Steering THEN "steer" ELSE IF Stopping \/ run.broken THEN "settle" ELSE "stream"
    /\ run' = [run EXCEPT !.reason = IF Steering THEN "none" ELSE IF Stopping THEN "cancelled"
                                     ELSE IF run.broken THEN "failed" ELSE "none"]
    /\ UNCHANGED <<journal, world>>

\* How the generation ends.  Recording the usage of a turn that did not fail
\* fails it if the session is broken.
Outcomes ==
    IF gen[run.of].abort THEN {"aborted"}
    ELSE IF run.reason = "failed" THEN {"failed"}
    ELSE IF run.stop = "disconnect" THEN {"pending"}
    ELSE {IF run.reason = "cancelled" THEN "aborted" ELSE "completed"}
             \cup (IF run.broken THEN {"failed"} ELSE {})

\* The live document keeps the text only for a generation that stays pending.
KeptText(s) == IF s = "pending" THEN LiveText ELSE {}

\* Context::finish: the task and the live document in one commit, and then
\* the client is sent the rest.  A disconnected process exits.
Finish ==
    LET r == run.of
    IN  /\ host = "settle"
        /\ host' = IF run.stop = "disconnect" THEN "down" ELSE "idle"
        /\ \E s \in Outcomes :
              /\ tool' = IF s \in {"failed", "aborted"} THEN StopTools(r) ELSE tool
              /\ gen' = [gen EXCEPT ![r] =
                           IF s = "pending" THEN [@ EXCEPT !.status = s]
                           ELSE SettleAs([@ EXCEPT !.abort = s # "completed"], s, tool, r)]
              /\ live' = [request |-> r, text |-> KeptText(s)]
        /\ shown' = [shown EXCEPT ![r] = @ \cup run.unsent]
        /\ run' = NoRun
        /\ UNCHANGED <<order, transcript, chunk, executed>>

-----------------------------------------------------------------------------
Client == \E r \in Request : Submit(r) \/ Admit(r) \/ Abort(r) \/ \E c \in Call : AbortTool(r, c)
Tools == \E c \in Call : RecordCall(c) \/ Execute(c) \/ FinishTool(c) \/ SkipTool(c)

Next ==
    \/ Crash \/ Recover \/ Repair
    \/ Client \/ Reset
    \/ OpenSession \/ FailStart
    \/ Stop \/ BreakSession
    \/ Stream \/ Publish \/ EndResponse \/ CutResponse
    \/ SteerResponse \/ Steer \/ Continue
    \/ Tools \/ EndBatch
    \/ Finish

Spec == Init /\ [][Next]_vars

-----------------------------------------------------------------------------
(* Properties.                                                             *)

RunType ==
    [of : Request \cup {NoRequest}, batch : SUBSET Call, issued : SUBSET Call,
     flight : SUBSET Call, stop : {"no", "cancel", "steer", "disconnect"},
     reason : {"none", "completed", "cancelled", "failed"}, broken : BOOLEAN,
     partial : SUBSET Chunk, unsent : SUBSET Chunk]
RecordType ==
    [kind : {"user", "correction", "assistant", "call", "result"},
     of : Request \cup Call \cup {NoRequest}, text : SUBSET Chunk]

(* The variables have their types, and a generation is active exactly from *)
(* its admission (run_task) to its settlement (finish).                    *)
TypeOK ==
    /\ gen \in [Request -> Gen]
    /\ order \in Seq(Request)
    /\ tool \in [Request \X Call -> Tool]
    /\ transcript \in Seq(RecordType)
    /\ live \in [request : Request \cup {NoRequest}, text : SUBSET Chunk]
    /\ host \in {"down", "repair", "idle", "start", "stream", "record", "tools",
                "steer", "steered", "settle"}
    /\ run \in RunType
    /\ chunk \in 0..MaxChunk
    /\ executed \in [Request \X Call -> Nat]
    /\ shown \in [Request -> SUBSET Chunk]
    /\ (run.of # NoRequest) = (host \notin {"down", "repair", "idle"})

(* "Generations within a conversation run in submission order", and the    *)
(* input of each becomes a record at most once, however often run_task     *)
(* starts it again after a crash or a lost connection.                     *)
UsersInOrder ==
    \A i, j \in Index :
        i < j /\ IsA(i, "user") /\ IsA(j, "user") => Before(transcript[i].of, transcript[j].of)

(* The transcript that the provider is sent is well formed: each call of   *)
(* an earlier turn, also of one that died half way, is followed by exactly *)
(* one result (Host::open and Session::open answer what a crash left open; *)
(* "`tool_use` always paired with `tool_result`").                         *)
ResultsOf(i) ==
    {k \in Index : /\ i < k
                   /\ transcript[k] = ToolResult(transcript[i].of)
                   /\ \A m \in i+1..k : transcript[m] # transcript[i]}

TranscriptPaired ==
    host = "stream" /\ ~run.broken =>
        \A i \in Index : IsA(i, "call") => Cardinality(ResultsOf(i)) = 1

(* "At-most-once automatic dispatch": no tool is dispatched twice, across  *)
(* turns and restarts, and none whose task is not in the journal.          *)
EffectOnce ==
    \A k \in Request \X Call :
        executed[k] <= 1 /\ (executed[k] = 1 => tool[k].status # "absent")

(* What was sent to the client and would survive a crash: the live         *)
(* document, once Host::open has made it an answer, and the answers.       *)
Survives(r) ==
    (IF live.request = r THEN live.text ELSE {}) \cup UNION {transcript[i].text : i \in Index}

(* The end of the text that the client was sent by a generation that is    *)
(* not over can be recovered, at every point of the run, of a crash and of *)
(* the recovery: a piece that is lost is older than the MaxLive pieces of  *)
(* the live document, all of them sent and all of them kept.  (Not all of  *)
(* a longer text is: its start, which trim_tail cuts off, is in an answer  *)
(* only once the response has ended.)                                      *)
RecoverableText ==
    \A r \in Request : gen[r].status \in {"pending", "running"} =>
        \A c \in shown[r] \ Survives(r) :
            Cardinality({d \in shown[r] \cap Survives(r) : d > c}) >= MaxLive

(* A generation never runs beside another one or beside the tools of an    *)
(* earlier one.                                                            *)
RunsAlone ==
    \A r, q \in Request : r # q /\ gen[r].status = "running" =>
        gen[q].status # "running" /\ ~Working(tool, q)

(* "Explicit abort remains abort across restart": an aborted generation    *)
(* is never pending again and never completes.                             *)
AbortSticks ==
    [][\A r \in Request : gen[r].abort =>
          gen'[r].abort /\ gen'[r].status \notin {"pending", "completed"}]_vars

(* "Calling it again continues the queue": whenever the host is idle and a *)
(* generation is pending, durable/resume finds one to run.                 *)
QueueContinues ==
    host = "idle" /\ (\E r \in Request : gen[r].status = "pending") =>
        \E r \in Request : Eligible(r)
=============================================================================
