------------------------- MODULE DurableHostProofs -------------------------
(***************************************************************************)
(* Theorems about DurableHost, for every set of requests and of calls:     *)
(* a tool is dispatched at most once, an aborted generation stays so, no   *)
(* two generations work side by side, text that was shown can be           *)
(* recovered, inputs become records in the order of submission, and, if no *)
(* ID is given to two generations, each call has one result.               *)
(***************************************************************************)
EXTENDS DurableHost, FiniteSetTheorems, SequenceTheorems, WellFoundedInduction, TLAPS

Busy == {"start", "stream", "record", "tools", "steer", "steered", "settle"}

RunShape ==
    [of : Request \cup {NoRequest}, batch : SUBSET Call, issued : SUBSET Call,
     flight : SUBSET Call, stop : {"no", "cancel", "steer", "disconnect"},
     reason : {"none", "completed", "cancelled", "failed"}, broken : BOOLEAN,
     partial : SUBSET Nat, unsent : SUBSET Nat]

\* The part of the type invariant that the theorems rest on.
HostType ==
    /\ gen \in [Request -> Gen]
    /\ tool \in [Request \X Call -> Tool]
    /\ executed \in [Request \X Call -> Nat]
    /\ chunk \in Nat
    /\ run \in RunShape
    /\ host \in Busy => run.of \in Request

\* A call that waits to be dispatched has a task and was never dispatched.
Undispatched ==
    \A c \in run.issued \ run.flight :
        /\ run.of \in Request
        /\ executed[run.of, c] = 0
        /\ tool[run.of, c].status # "absent"

\* An aborted generation is running, or is settled or about to settle as
\* something other than completed.
Aborting ==
    \A r \in Request :
        /\ gen[r].status = "completing" => gen[r].decided \in Over
        /\ gen[r].abort => /\ gen[r].status \notin {"absent", "pending", "completed"}
                           /\ gen[r].status = "completing" => gen[r].decided # "completed"

LEMMA NoRunShape == NoRun \in RunShape /\ NoRun.issued = {}
BY DEF NoRun, RunShape

LEMMA StopToolsType ==
    ASSUME tool \in [Request \X Call -> Tool], NEW r
    PROVE  /\ StopTools(r) \in [Request \X Call -> Tool]
           /\ \A k \in Request \X Call : StopTools(r)[k].status = tool[k].status
<1>1. ASSUME NEW k \in Request \X Call
      PROVE  LET u == IF k[1] = r /\ tool[k].status = "running"
                      THEN [tool[k] EXCEPT !.abort = TRUE] ELSE tool[k]
             IN  u \in Tool /\ u.status = tool[k].status
  BY DEF Tool, Over
<1> QED
  BY <1>1 DEF StopTools

LEMMA SettleAsType ==
    ASSUME NEW g \in Gen, NEW s \in Over, NEW T, NEW r
    PROVE  LET h == SettleAs(g, s, T, r)
           IN  /\ h \in Gen
               /\ h.abort = g.abort
               /\ \/ h.status = s
                  \/ h.status = "completing" /\ h.decided = s
BY DEF SettleAs, Gen, Over

LEMMA ReconciledType ==
    ASSUME NEW G \in [Request -> Gen], NEW T,
           \A r \in Request : G[r].status = "completing" => G[r].decided \in Over
    PROVE  /\ Reconciled(G, T) \in [Request -> Gen]
           /\ \A r \in Request :
                 /\ Reconciled(G, T)[r].abort = G[r].abort
                 /\ Reconciled(G, T)[r].decided = G[r].decided
                 /\ \/ Reconciled(G, T)[r].status = G[r].status
                    \/ G[r].status = "completing" /\ Reconciled(G, T)[r].status = G[r].decided
<1>1. ASSUME NEW r \in Request
      PROVE  LET h == IF G[r].status = "completing" /\ ~Working(T, r)
                      THEN [G[r] EXCEPT !.status = G[r].decided] ELSE G[r]
             IN  /\ h \in Gen
                 /\ h.abort = G[r].abort
                 /\ h.decided = G[r].decided
                 /\ \/ h.status = G[r].status
                    \/ G[r].status = "completing" /\ h.status = G[r].decided
  BY DEF Gen, Over
<1> QED
  BY <1>1 DEF Reconciled

-----------------------------------------------------------------------------
(* What a step does to the generations.                                    *)

\* One generation changes, and keeps to the rules.
GenStep(r, g) ==
    /\ gen' = [gen EXCEPT ![r] = g]
    /\ g \in Gen
    /\ gen[r].abort => g.abort /\ g.status \notin {"absent", "pending", "completed"}
    /\ g.status = "completing" => g.decided \in Over
    /\ g.abort => /\ g.status \notin {"absent", "pending", "completed"}
                  /\ g.status = "completing" => g.decided # "completed"

LEMMA OneGeneration ==
    ASSUME gen \in [Request -> Gen], Aborting, NEW r \in Request, NEW g, GenStep(r, g)
    PROVE  /\ gen' \in [Request -> Gen]
           /\ Aborting'
           /\ \A q \in Request : gen[q].abort =>
                 gen'[q].abort /\ gen'[q].status \notin {"pending", "completed"}
BY DEF GenStep, Aborting

\* What every step promises about the generations.
GensKept ==
    /\ gen' \in [Request -> Gen]
    /\ Aborting'
    /\ \A q \in Request : gen[q].abort =>
          gen'[q].abort /\ gen'[q].status \notin {"pending", "completed"}

LEMMA GenerationsKept ==
    ASSUME HostType, Aborting, [Next]_vars
    PROVE  GensKept
<1>1. ASSUME gen' = gen PROVE GensKept
  BY <1>1 DEF GensKept, HostType, Aborting
<1>2. CASE Recover
  <2> DEFINE T == [k \in Request \X Call |->
                IF tool[k].status # "running" THEN tool[k]
                ELSE [tool[k] EXCEPT !.status = IF tool[k].abort THEN "aborted" ELSE "failed"]]
             h(r) == IF gen[r].status # "running" THEN gen[r]
                     ELSE [gen[r] EXCEPT !.status = RecoveredAs(gen[r])]
             G == [r \in Request |-> h(r)]
  <2>1. ASSUME NEW r \in Request
        PROVE  /\ h(r) \in Gen
               /\ h(r).abort = gen[r].abort
               /\ h(r).decided = gen[r].decided
               /\ h(r).status = IF gen[r].status # "running" THEN gen[r].status
                                ELSE IF gen[r].abort THEN "aborted" ELSE "pending"
    BY DEF RecoveredAs, HostType, Gen, Over
  <2> HIDE DEF h
  <2>2. /\ G \in [Request -> Gen]
        /\ \A r \in Request : G[r].status = "completing" => G[r].decided \in Over
    BY <2>1 DEF Aborting
  <2>3. gen' = Reconciled(G, T)
    BY <1>2 DEF Recover, h
  <2> HIDE DEF T
  <2>4. \A r \in Request : G[r] = h(r)
    OBVIOUS
  <2> HIDE DEF G
  <2>5. /\ gen' \in [Request -> Gen]
        /\ \A r \in Request :
              /\ gen'[r].abort = G[r].abort
              /\ gen'[r].decided = G[r].decided
              /\ \/ gen'[r].status = G[r].status
                 \/ G[r].status = "completing" /\ gen'[r].status = G[r].decided
    BY <2>2, <2>3, ReconciledType
  <2>6. ASSUME NEW r \in Request
        PROVE  /\ gen'[r].status = "completing" => gen'[r].decided \in Over
               /\ gen[r].abort => /\ gen'[r].abort
                                  /\ gen'[r].status \notin {"absent", "pending", "completed"}
                                  /\ gen'[r].status = "completing" => gen'[r].decided # "completed"
               /\ gen'[r].abort => gen[r].abort
    BY <2>1, <2>2, <2>4, <2>5 DEF Aborting, Over
  <2> QED
    BY <2>5, <2>6 DEF GensKept, Aborting
<1>3. ASSUME NEW r \in Request, NEW g, GenStep(r, g) PROVE GensKept
  BY <1>3, OneGeneration DEF GensKept, HostType
<1>4. ASSUME NEW r \in Request, Submit(r) PROVE GensKept
  <2>1. GenStep(r, [gen[r] EXCEPT !.status = "pending"])
    BY <1>4 DEF Submit, GenStep, HostType, Aborting, Gen, Over
  <2> QED
    BY <2>1, <1>3
<1>5. ASSUME NEW r \in Request, Admit(r) PROVE GensKept
  <2>1. GenStep(r, [gen[r] EXCEPT !.status = "running", !.admitted = TRUE])
    BY <1>5 DEF Admit, Eligible, GenStep, HostType, Aborting, Gen, Over
  <2> QED
    BY <2>1, <1>3
<1>6. ASSUME NEW r \in Request, Abort(r) PROVE GensKept
  <2> DEFINE a == [gen[r] EXCEPT !.abort = TRUE]
             g == IF a.status = "running" THEN a ELSE SettleAs(a, "aborted", tool, r)
  <2>1. a \in Gen /\ a.abort /\ a.status = gen[r].status
    BY DEF HostType, Gen
  <2>2. gen' = [gen EXCEPT ![r] = g]
    BY <1>6 DEF Abort
  <2> HIDE DEF a
  <2>3. /\ g \in Gen
        /\ g.abort
        /\ \/ g.status = "running"
           \/ g.status = "aborted"
           \/ g.status = "completing" /\ g.decided = "aborted"
    BY <2>1, SettleAsType DEF Over
  <2> HIDE DEF g
  <2>4. GenStep(r, g)
    BY <2>2, <2>3 DEF GenStep, Over
  <2> QED
    BY <2>4, <1>3
<1>7. CASE FailStart
  <2>1. GenStep(run.of, [gen[run.of] EXCEPT !.status = "failed", !.abort = TRUE])
    BY <1>7 DEF FailStart, GenStep, HostType, Busy, Gen, Over
  <2> QED
    BY <2>1, <1>3, <1>7 DEF FailStart, HostType, Busy
<1>8. CASE Finish
  <2> DEFINE r == run.of
  <2>1. r \in Request /\ gen[r] \in Gen
    BY <1>8 DEF Finish, HostType, Busy
  <2>2. PICK s \in Outcomes :
           gen' = [gen EXCEPT ![r] =
                     IF s = "pending" THEN [@ EXCEPT !.status = s]
                     ELSE SettleAs([@ EXCEPT !.abort = s # "completed"], s, tool, r)]
    BY <1>8 DEF Finish
  <2>3. /\ s \in Over \cup {"pending"}
        /\ gen[r].abort => s = "aborted"
    BY DEF Outcomes, Over
  <2> HIDE DEF r
  <2>4. CASE s = "pending"
    <3>1. GenStep(r, [gen[r] EXCEPT !.status = s])
      BY <2>1, <2>2, <2>3, <2>4 DEF GenStep, HostType, Gen, Over
    <3> QED
      BY <3>1, <1>3, <2>1
  <2>5. CASE s # "pending"
    <3> DEFINE b == [gen[r] EXCEPT !.abort = s # "completed"]
               g == SettleAs(b, s, tool, r)
    <3>1. b \in Gen /\ b.abort = (s # "completed")
      BY <2>1 DEF Gen
    <3>2. gen' = [gen EXCEPT ![r] = g]
      BY <2>2, <2>5, <2>1
    <3> HIDE DEF b
    <3>3. /\ g \in Gen
          /\ g.abort = (s # "completed")
          /\ \/ g.status = s
             \/ g.status = "completing" /\ g.decided = s
      BY <3>1, <2>3, <2>5, SettleAsType
    <3> HIDE DEF g
    <3>4. GenStep(r, g)
      BY <3>2, <3>3, <2>3, <2>5 DEF GenStep, Over
    <3> QED
      BY <3>4, <1>3, <2>1
  <2> QED
    BY <2>4, <2>5
<1>9. gen' = gen \/ Recover \/ FailStart \/ Finish
      \/ \E r \in Request : Submit(r) \/ Admit(r) \/ Abort(r)
  BY DEF Next, vars, journal, Client, Tools, Crash, Repair, Reset, OpenSession, Stop,
         BreakSession, Stream, Publish, EndResponse, CutResponse, SteerResponse, Steer,
         Continue, EndBatch, AbortTool,
         RecordCall, Execute, FinishTool, SkipTool
<1> QED
  BY <1>1, <1>2, <1>4, <1>5, <1>6, <1>7, <1>8, <1>9

-----------------------------------------------------------------------------
(* What a step does to the tools.                                          *)

\* No task disappears and nothing is dispatched.
ToolsSettle ==
    /\ executed' = executed
    /\ tool' \in [Request \X Call -> Tool]
    /\ \A k \in Request \X Call : tool[k].status # "absent" => tool'[k].status # "absent"

\* No call is added to the ones that wait to be dispatched.
FewerWait ==
    /\ run' \in RunShape
    /\ run'.issued \ run'.flight \subseteq run.issued \ run.flight
    /\ run'.issued # {} => run'.of = run.of

RunKept ==
    /\ tool' \in [Request \X Call -> Tool]
    /\ executed' \in [Request \X Call -> Nat]
    /\ chunk' \in Nat
    /\ run' \in RunShape
    /\ host' \in Busy => run'.of \in Request
    /\ EffectOnce'
    /\ Undispatched'

LEMMA QuietStep ==
    ASSUME HostType, EffectOnce, Undispatched, ToolsSettle, FewerWait,
           chunk' \in Nat, host' \in Busy => run'.of \in Request
    PROVE  RunKept
<1>1. EffectOnce'
  BY DEF EffectOnce, ToolsSettle, HostType
<1>2. Undispatched'
  <2> SUFFICES ASSUME NEW c \in run'.issued \ run'.flight
               PROVE  /\ run'.of \in Request
                      /\ executed'[run'.of, c] = 0
                      /\ tool'[run'.of, c].status # "absent"
    BY DEF Undispatched
  <2>1. c \in run.issued \ run.flight /\ run'.of = run.of /\ c \in Call
    BY DEF FewerWait, RunShape
  <2> DEFINE k == <<run.of, c>>
  <2>2. run.of \in Request /\ executed[k] = 0 /\ tool[k].status # "absent"
    BY <2>1 DEF Undispatched
  <2>3. k \in Request \X Call
    BY <2>1, <2>2
  <2>4. executed'[k] = 0 /\ tool'[k].status # "absent"
    BY <2>2, <2>3 DEF ToolsSettle
  <2> QED
    BY <2>1, <2>2, <2>4
<1> QED
  BY <1>1, <1>2 DEF RunKept, ToolsSettle, FewerWait, HostType

\* The steps that leave the tools alone.
LEMMA ToolsUnchanged ==
    ASSUME HostType, tool' = tool, executed' = executed
    PROVE  ToolsSettle
BY DEF ToolsSettle, HostType

\* The steps that end a run.
LEMMA RunEnds ==
    ASSUME HostType, run' = NoRun
    PROVE  FewerWait
BY NoRunShape DEF FewerWait

\* The steps that change nothing but the progress of the response.
LEMMA RunGoesOn ==
    ASSUME HostType, run' \in RunShape, run'.of = run.of,
           run'.issued \ run'.flight \subseteq run.issued \ run.flight
    PROVE  FewerWait
BY DEF FewerWait

\* The task of one tool settles.
LEMMA OneToolSettles ==
    ASSUME HostType, NEW k \in Request \X Call, NEW s \in Over,
           tool' = [tool EXCEPT ![k].status = s], executed' = executed
    PROVE  ToolsSettle
<1>1. [tool[k] EXCEPT !.status = s] \in Tool /\ s # "absent"
  BY DEF HostType, Tool, Over
<1>2. \A j \in Request \X Call :
         tool'[j] = IF j = k THEN [tool[k] EXCEPT !.status = s] ELSE tool[j]
  BY DEF HostType
<1>3. tool' \in [Request \X Call -> Tool]
  BY <1>1 DEF HostType
<1>4. [tool[k] EXCEPT !.status = s].status = s
  BY DEF HostType, Tool
<1> QED
  BY <1>1, <1>2, <1>3, <1>4 DEF ToolsSettle

LEMMA RecordedResult ==
    ASSUME HostType, host = "tools", NEW c \in Call, NEW statuses \in SUBSET Over,
           RecordResult(c, statuses), executed' = executed
    PROVE  ToolsSettle
<1>1. <<run.of, c>> \in Request \X Call
  BY DEF HostType, RunShape, Busy
<1>2. CASE run.broken
  BY <1>2, ToolsUnchanged DEF RecordResult
<1>3. CASE ~run.broken
  <2>1. PICK s \in IF tool[<<run.of, c>>].abort THEN {"aborted"} ELSE statuses :
           tool' = [tool EXCEPT ![<<run.of, c>>].status = s]
    BY <1>3 DEF RecordResult
  <2>2. s \in Over
    BY DEF Over
  <2> QED
    BY <1>1, <2>1, <2>2, OneToolSettles
<1> QED
  BY <1>2, <1>3

LEMMA NotYet == ASSUME NEW n \in Nat, n <= 1, n # 1 PROVE n = 0
OBVIOUS

LEMMA ToolsKept ==
    ASSUME HostType, EffectOnce, Undispatched, [Next]_vars
    PROVE  RunKept
<1> USE DEF HostType
<1>1. CASE UNCHANGED vars
  BY <1>1, ToolsUnchanged, RunGoesOn, QuietStep DEF vars, journal, world
<1>2. CASE Crash
  BY <1>2, ToolsUnchanged, RunEnds, QuietStep DEF Crash, journal, world, Busy
<1>3. CASE Recover
  <2> DEFINE u(k) == IF tool[k].status # "running" THEN tool[k]
                     ELSE [tool[k] EXCEPT !.status = IF tool[k].abort THEN "aborted" ELSE "failed"]
  <2>1. ASSUME NEW k \in Request \X Call
        PROVE  u(k) \in Tool /\ (tool[k].status # "absent" => u(k).status # "absent")
    BY DEF Tool, Over
  <2>2. tool' = [k \in Request \X Call |-> u(k)]
    BY <1>3 DEF Recover
  <2> HIDE DEF u
  <2>3. ToolsSettle
    BY <1>3, <2>1, <2>2 DEF ToolsSettle, Recover, world
  <2> QED
    BY <1>3, <2>3, RunGoesOn, QuietStep DEF Recover, world, Busy
<1>4. CASE Repair \/ Reset
  BY <1>4, ToolsUnchanged, RunGoesOn, QuietStep DEF Repair, Reset, world, Busy
<1>5. CASE OpenSession
  BY <1>5, ToolsUnchanged, RunGoesOn, QuietStep DEF OpenSession, world, Busy
<1>6. CASE FailStart
  BY <1>6, ToolsUnchanged, RunEnds, QuietStep DEF FailStart, world, Busy
<1>7. ASSUME NEW r \in Request, Submit(r) PROVE RunKept
  BY <1>7, ToolsUnchanged, RunGoesOn, QuietStep DEF Submit, world, Busy
<1>8. ASSUME NEW r \in Request, Admit(r) PROVE RunKept
  <2>1. run' \in RunShape /\ run'.issued = {} /\ run'.of = r
    BY <1>8 DEF Admit, NoRun, RunShape
  <2>2. FewerWait
    BY <2>1 DEF FewerWait
  <2> QED
    BY <1>8, <2>1, <2>2, ToolsUnchanged, QuietStep DEF Admit, world
<1>9. ASSUME NEW r \in Request, Abort(r) PROVE RunKept
  <2>1. ToolsSettle
    BY <1>9, StopToolsType DEF Abort, world, ToolsSettle
  <2> QED
    BY <1>9, <2>1, RunGoesOn, QuietStep DEF Abort, world
<1>10. ASSUME NEW r \in Request, NEW c \in Call, AbortTool(r, c) PROVE RunKept
  <2> DEFINE k == <<r, c>>
             u == [tool[k] EXCEPT !.abort = TRUE]
  <2>1. k \in Request \X Call
    OBVIOUS
  <2>2. u \in Tool /\ u.status = tool[k].status
    BY <2>1 DEF Tool
  <2>3. tool' = [tool EXCEPT ![k] = u]
    BY <1>10 DEF AbortTool
  <2> HIDE DEF k, u
  <2>4. ToolsSettle
    BY <1>10, <2>1, <2>2, <2>3 DEF ToolsSettle, AbortTool, world
  <2> QED
    BY <1>10, <2>4, RunGoesOn, QuietStep DEF AbortTool, world
<1>11. CASE Stop
  <2>1. run' \in RunShape /\ run'.of = run.of /\ run'.issued = run.issued /\ run'.flight = run.flight
    BY <1>11 DEF Stop, RunShape
  <2> QED
    BY <1>11, <2>1, ToolsUnchanged, RunGoesOn, QuietStep DEF Stop, journal, world
<1>12. CASE BreakSession
  <2>1. run' \in RunShape /\ run'.of = run.of /\ run'.issued = run.issued /\ run'.flight = run.flight
    BY <1>12 DEF BreakSession, RunShape
  <2> QED
    BY <1>12, <2>1, ToolsUnchanged, RunGoesOn, QuietStep DEF BreakSession, journal, world
<1>13. CASE Stream
  <2>1. chunk' \in Nat
    BY <1>13 DEF Stream
  <2>2. run' \in RunShape /\ run'.of = run.of /\ run'.issued = run.issued /\ run'.flight = run.flight
    BY <1>13, <2>1 DEF Stream, RunShape
  <2> QED
    BY <1>13, <2>1, <2>2, ToolsUnchanged, RunGoesOn, QuietStep DEF Stream, journal
<1>14. CASE Publish
  <2>1. run' \in RunShape /\ run'.of = run.of /\ run'.issued = run.issued /\ run'.flight = run.flight
    BY <1>14 DEF Publish, RunShape
  <2> QED
    BY <1>14, <2>1, ToolsUnchanged, RunGoesOn, QuietStep DEF Publish
<1>15. CASE EndResponse
  <2>1. run.of \in Request
    BY <1>15 DEF EndResponse, Busy
  <2>2. CallIds[run.of] \subseteq Call
    BY <2>1, HostConstantsOK
  <2>3. run' \in RunShape /\ run'.of = run.of /\ run'.issued = run.issued /\ run'.flight = run.flight
    BY <1>15, <2>2 DEF EndResponse, RunShape, Unrecorded
  <2> QED
    BY <1>15, <2>1, <2>3, ToolsUnchanged, RunGoesOn, QuietStep DEF EndResponse, world
<1>16. CASE CutResponse
  <2>1. run' \in RunShape /\ run'.of = run.of /\ run'.issued = run.issued /\ run'.flight = run.flight
    BY <1>16 DEF CutResponse, RunShape, Unrecorded
  <2> QED
    BY <1>16, <2>1, ToolsUnchanged, RunGoesOn, QuietStep DEF CutResponse, world, Busy
<1>17. CASE EndBatch
  <2>1. run' \in RunShape /\ run'.of = run.of /\ run'.issued = run.issued /\ run'.flight = run.flight
    BY <1>17 DEF EndBatch, RunShape
  <2> QED
    BY <1>17, <2>1, ToolsUnchanged, RunGoesOn, QuietStep DEF EndBatch, journal, world, Busy
<1>18. CASE Finish
  <2>1. ToolsSettle
    BY <1>18, StopToolsType DEF Finish, ToolsSettle
  <2> QED
    BY <1>18, <2>1, RunEnds, QuietStep DEF Finish, Busy
<1>19. ASSUME NEW c \in Call, FinishTool(c) PROVE RunKept
  <2>1. /\ run' \in RunShape
        /\ run'.of = run.of
        /\ run'.issued \ run'.flight \subseteq run.issued \ run.flight
    BY <1>19 DEF FinishTool, RunShape
  <2>2. ToolsSettle
    BY <1>19, RecordedResult DEF FinishTool, world, Over
  <2> QED
    BY <1>19, <2>1, <2>2, RunGoesOn, QuietStep DEF FinishTool, world
<1>20. ASSUME NEW c \in Call, SkipTool(c) PROVE RunKept
  <2>1. /\ run' \in RunShape
        /\ run'.of = run.of
        /\ run'.issued \ run'.flight \subseteq run.issued \ run.flight
    BY <1>20 DEF SkipTool, RunShape
  <2>2. ToolsSettle
    BY <1>20, ToolsUnchanged, RecordedResult DEF SkipTool, world, Over
  <2> QED
    BY <1>20, <2>1, <2>2, RunGoesOn, QuietStep DEF SkipTool, world
<1>21. ASSUME NEW c \in Call, RecordCall(c) PROVE RunKept
  <2> DEFINE k == <<run.of, c>>
             t == [status |-> "running", abort |-> FALSE]
  <2>1. run.of \in Request /\ k \in Request \X Call
    BY <1>21 DEF RecordCall, Busy
  <2>2. executed' = executed /\ chunk' = chunk
    BY <1>21 DEF RecordCall, world
  <2>3. CASE MayCall(c) /\ ~run.broken
    <3>1. /\ tool[k].status = "absent"
          /\ tool' = [tool EXCEPT ![k] = t]
          /\ run' = [run EXCEPT !.batch = @ \ {c}, !.issued = @ \cup {c}]
      BY <1>21, <2>3 DEF RecordCall, MayCall
    <3>2. executed[k] = 0
      <4>1. executed[k] <= 1 /\ (executed[k] = 1 => tool[k].status # "absent")
        BY <2>1 DEF EffectOnce
      <4>2. executed[k] \in Nat
        BY <2>1
      <4>3. executed[k] # 1
        BY <4>1, <3>1
      <4> QED
        BY <4>1, <4>2, <4>3, NotYet
    <3>3. t \in Tool /\ t.status = "running"
      BY DEF Tool
    <3> HIDE DEF t
    <3>4. ToolsSettle /\ tool'[k].status = "running"
      BY <2>1, <2>2, <3>1, <3>3 DEF ToolsSettle
    <3>5. EffectOnce'
      BY <2>2, <3>4 DEF EffectOnce, ToolsSettle
    <3>6. run' \in RunShape
      BY <3>1 DEF RunShape
    <3>7. run'.of = run.of /\ run'.issued = run.issued \cup {c} /\ run'.flight = run.flight
      BY <3>1 DEF RunShape
    <3>8. Undispatched'
      <4> SUFFICES ASSUME NEW d \in run'.issued \ run'.flight
                   PROVE  /\ run'.of \in Request
                          /\ executed'[run'.of, d] = 0
                          /\ tool'[run'.of, d].status # "absent"
        BY DEF Undispatched
      <4>1. CASE d = c
        BY <4>1, <2>1, <2>2, <3>2, <3>4, <3>7
      <4>2. CASE d # c
        <5> DEFINE j == <<run.of, d>>
        <5>1. d \in run.issued \ run.flight /\ d \in Call
          BY <4>2, <3>7 DEF RunShape
        <5>2. executed[j] = 0 /\ tool[j].status # "absent" /\ j \in Request \X Call
          BY <5>1, <2>1 DEF Undispatched
        <5>3. executed'[j] = 0 /\ tool'[j].status # "absent"
          BY <5>2, <2>2, <3>4 DEF ToolsSettle
        <5> QED
          BY <5>3, <3>7, <2>1
      <4> QED
        BY <4>1, <4>2
    <3> QED
      BY <2>1, <2>2, <3>4, <3>5, <3>6, <3>7, <3>8 DEF RunKept, ToolsSettle
  <2>4. CASE ~(MayCall(c) /\ ~run.broken)
    <3>1. /\ tool' = tool
          /\ run' = [run EXCEPT !.broken = TRUE, !.reason = "failed"]
      BY <1>21, <2>4 DEF RecordCall
    <3>2. run' \in RunShape /\ run'.of = run.of /\ run'.issued = run.issued /\ run'.flight = run.flight
      BY <3>1 DEF RunShape
    <3> QED
      BY <2>1, <2>2, <3>1, <3>2, ToolsUnchanged, RunGoesOn, QuietStep
  <2> QED
    BY <2>3, <2>4
<1>22. ASSUME NEW c \in Call, Execute(c) PROVE RunKept
  <2> DEFINE k == <<run.of, c>>
  <2>1. /\ tool' = tool
        /\ chunk' = chunk
        /\ executed' = [executed EXCEPT ![k] = @ + 1]
        /\ run' = [run EXCEPT !.flight = @ \cup {c}]
    BY <1>22 DEF Execute, journal
  <2>2. /\ run.of \in Request
        /\ k \in Request \X Call
        /\ executed[k] = 0
        /\ tool[k].status # "absent"
    BY <1>22 DEF Execute, Undispatched
  <2>3. run' \in RunShape
    BY <2>1 DEF RunShape
  <2>4. run'.of = run.of /\ run'.issued = run.issued /\ run'.flight = run.flight \cup {c}
    BY <2>1 DEF RunShape
  <2>5. \A j \in Request \X Call : executed'[j] = IF j = k THEN 1 ELSE executed[j]
    BY <2>1, <2>2
  <2>6. executed' \in [Request \X Call -> Nat]
    BY <2>1, <2>2
  <2>7. EffectOnce'
    BY <2>1, <2>2, <2>5 DEF EffectOnce
  <2>8. Undispatched'
    <3> SUFFICES ASSUME NEW d \in run'.issued \ run'.flight
                 PROVE  /\ run'.of \in Request
                        /\ executed'[run'.of, d] = 0
                        /\ tool'[run'.of, d].status # "absent"
      BY DEF Undispatched
    <3> DEFINE j == <<run.of, d>>
    <3>1. d # c /\ d \in run.issued \ run.flight /\ d \in Call
      BY <2>4 DEF RunShape
    <3>2. executed[j] = 0 /\ tool[j].status # "absent" /\ j \in Request \X Call /\ j # k
      BY <3>1, <2>2 DEF Undispatched
    <3>3. executed'[j] = 0 /\ tool'[j].status # "absent"
      BY <3>2, <2>1, <2>5
    <3> QED
      BY <3>3, <2>2, <2>4
  <2> QED
    BY <2>1, <2>2, <2>3, <2>4, <2>6, <2>7, <2>8 DEF RunKept
<1>23. CASE SteerResponse \/ Steer
  <2>1. run' \in RunShape /\ run'.of = run.of /\ run'.issued = run.issued /\ run'.flight = run.flight
    BY <1>23 DEF SteerResponse, Steer, RunShape, Unrecorded
  <2> QED
    BY <1>23, <2>1, ToolsUnchanged, RunGoesOn, QuietStep DEF SteerResponse, Steer, world, Busy
<1>24. CASE Continue
  <2>1. run' \in RunShape /\ run'.of = run.of /\ run'.issued = run.issued /\ run'.flight = run.flight
    BY <1>24 DEF Continue, RunShape
  <2> QED
    BY <1>24, <2>1, ToolsUnchanged, RunGoesOn, QuietStep DEF Continue, Busy
<1> QED
  BY <1>1, <1>2, <1>3, <1>4, <1>5, <1>6, <1>7, <1>8, <1>9, <1>10, <1>11, <1>12, <1>13,
     <1>14, <1>15, <1>16, <1>17, <1>18, <1>19, <1>20, <1>21, <1>22, <1>23, <1>24
  DEF Next, Client, Tools

-----------------------------------------------------------------------------
(* The theorems.                                                           *)

HostInv == HostType /\ Aborting /\ EffectOnce /\ Undispatched

LEMMA HostInvHolds == Spec => []HostInv
<1>1. Init => HostInv
  <2> SUFFICES ASSUME Init PROVE HostInv
    OBVIOUS
  <2>1. HostType
    BY NoRunShape DEF Init, HostType, Gen, Tool, Over, Busy
  <2>2. Aborting
    BY DEF Init, Aborting
  <2>3. EffectOnce
    BY DEF Init, EffectOnce
  <2>4. Undispatched
    BY NoRunShape DEF Init, Undispatched
  <2> QED
    BY <2>1, <2>2, <2>3, <2>4 DEF HostInv
<1>2. HostInv /\ [Next]_vars => HostInv'
  BY GenerationsKept, ToolsKept DEF HostInv, GensKept, RunKept, HostType
<1> QED
  BY <1>1, <1>2, PTL DEF Spec

\* "At-most-once automatic dispatch": whatever the requests, the call IDs that
\* the provider reuses and the points at which the process dies, no tool is
\* dispatched twice and none without a task in the journal.
THEOREM DispatchedOnce == Spec => []EffectOnce
<1>1. HostInv => EffectOnce
  BY DEF HostInv
<1> QED
  BY <1>1, HostInvHolds, PTL

\* "Explicit abort remains abort across restart": no step of the host, of a
\* recovery or of a client makes an aborted generation pending or completed.
THEOREM AbortsStick == Spec => AbortSticks
<1>1. HostInv /\ [Next]_vars =>
         [\A r \in Request : gen[r].abort =>
             gen'[r].abort /\ gen'[r].status \notin {"pending", "completed"}]_vars
  BY GenerationsKept DEF HostInv, GensKept
<1> QED
  BY <1>1, HostInvHolds, PTL DEF Spec, AbortSticks

-----------------------------------------------------------------------------
(* What the steps that settle or restart generations do to each of them.   *)

\* One generation changes, and not to a new one.
OneChanges(r, g) ==
    /\ gen' = [gen EXCEPT ![r] = g]
    /\ g \in Gen
    /\ g.admitted = gen[r].admitted
    /\ g.status # "absent"

\* No tool starts to run.
NoneStarts == \A k \in Request \X Call : tool'[k].status = "running" => tool[k].status = "running"

LEMMA SettleAsStatus ==
    ASSUME NEW g \in Gen, NEW s \in Over, NEW T, NEW r
    PROVE  /\ SettleAs(g, s, T, r).admitted = g.admitted
           /\ SettleAs(g, s, T, r).status = IF Working(T, r) THEN "completing" ELSE s
BY DEF SettleAs, Gen, Over

LEMMA RecoverEffect ==
    ASSUME HostType, Aborting, Recover
    PROVE  /\ \A k \in Request \X Call : tool'[k].status # "running"
           /\ \A r \in Request :
                 /\ gen'[r].admitted = gen[r].admitted
                 /\ (gen'[r].status = "absent") = (gen[r].status = "absent")
                 /\ gen'[r].status # "running"
                 /\ gen'[r].status = "pending" => gen[r].status \in {"pending", "running"}
<1> DEFINE u(k) == IF tool[k].status # "running" THEN tool[k]
                   ELSE [tool[k] EXCEPT !.status = IF tool[k].abort THEN "aborted" ELSE "failed"]
           T == [k \in Request \X Call |-> u(k)]
           h(r) == IF gen[r].status # "running" THEN gen[r]
                   ELSE [gen[r] EXCEPT !.status = RecoveredAs(gen[r])]
           G == [r \in Request |-> h(r)]
<1>1. ASSUME NEW k \in Request \X Call PROVE u(k).status # "running"
  BY DEF HostType, Tool, Over
<1>2. ASSUME NEW r \in Request
      PROVE  /\ h(r) \in Gen
             /\ h(r).admitted = gen[r].admitted
             /\ h(r).decided = gen[r].decided
             /\ h(r).status = IF gen[r].status # "running" THEN gen[r].status
                              ELSE IF gen[r].abort THEN "aborted" ELSE "pending"
  BY DEF RecoveredAs, HostType, Gen, Over
<1>3. tool' = T /\ gen' = Reconciled(G, T)
  BY DEF Recover
<1> HIDE DEF u, h
<1>4. \A k \in Request \X Call : tool'[k].status # "running"
  BY <1>1, <1>3
<1>5. ASSUME NEW r \in Request
      PROVE  gen'[r] = IF h(r).status = "completing" /\ ~Working(T, r)
                       THEN [h(r) EXCEPT !.status = h(r).decided] ELSE h(r)
  BY <1>3 DEF Reconciled
<1> HIDE DEF T, G
<1>6. ASSUME NEW r \in Request
      PROVE  /\ gen'[r].admitted = gen[r].admitted
             /\ (gen'[r].status = "absent") = (gen[r].status = "absent")
             /\ gen'[r].status # "running"
             /\ gen'[r].status = "pending" => gen[r].status \in {"pending", "running"}
  <2>1. CASE h(r).status = "completing" /\ ~Working(T, r)
    <3>1. gen[r].status = "completing" /\ gen[r].decided \in Over
      BY <1>2, <2>1 DEF Aborting
    <3>2. gen'[r].admitted = gen[r].admitted /\ gen'[r].status = gen[r].decided
      BY <1>2, <1>5, <2>1 DEF Gen
    <3> QED
      BY <3>1, <3>2 DEF Over
  <2>2. CASE ~(h(r).status = "completing" /\ ~Working(T, r))
    BY <1>2, <1>5, <2>2
  <2> QED
    BY <2>1, <2>2
<1> QED
  BY <1>4, <1>6

LEMMA AbortEffect ==
    ASSUME HostType, NEW r \in Request, Abort(r)
    PROVE  /\ \A k \in Request \X Call : tool'[k].status = tool[k].status
           /\ \E g : /\ OneChanges(r, g)
                     /\ gen[r].status # "absent"
                     /\ g.status = IF gen[r].status = "running" THEN "running"
                                   ELSE IF Working(tool, r) THEN "completing" ELSE "aborted"
<1> DEFINE a == [gen[r] EXCEPT !.abort = TRUE]
           g == IF a.status = "running" THEN a ELSE SettleAs(a, "aborted", tool, r)
<1>1. a \in Gen /\ a.admitted = gen[r].admitted /\ a.status = gen[r].status
  BY DEF HostType, Gen
<1>2. gen' = [gen EXCEPT ![r] = g] /\ tool' = StopTools(r) /\ gen[r].status # "absent"
  BY DEF Abort
<1> HIDE DEF a
<1>3. /\ g \in Gen
      /\ g.admitted = gen[r].admitted
      /\ g.status = IF gen[r].status = "running" THEN "running"
                    ELSE IF Working(tool, r) THEN "completing" ELSE "aborted"
  BY <1>1, SettleAsType, SettleAsStatus DEF Over
<1> HIDE DEF g
<1>4. OneChanges(r, g)
  BY <1>2, <1>3 DEF OneChanges
<1> QED
  BY <1>2, <1>3, <1>4, StopToolsType DEF HostType

LEMMA FailStartEffect ==
    ASSUME HostType, FailStart
    PROVE  run.of \in Request /\ \E g : OneChanges(run.of, g) /\ g.status = "failed"
<1> DEFINE r == run.of
           g == [gen[r] EXCEPT !.status = "failed", !.abort = TRUE]
<1>1. r \in Request /\ gen' = [gen EXCEPT ![r] = g]
  BY DEF FailStart, HostType, Busy
<1>2. g \in Gen /\ g.admitted = gen[r].admitted /\ g.status = "failed"
  BY <1>1 DEF HostType, Gen, Over
<1> QED
  BY <1>1, <1>2 DEF OneChanges

LEMMA FinishEffect ==
    ASSUME HostType, Finish
    PROVE  /\ run.of \in Request
           /\ \A k \in Request \X Call : tool'[k].status = tool[k].status
           /\ \E g : /\ OneChanges(run.of, g)
                     /\ \/ g.status = "pending" /\ host' = "down" /\ live'.text = LiveText
                        \/ g.status \in Over /\ ~Working(tool, run.of)
                        \/ g.status = "completing"
<1> DEFINE r == run.of
<1>1. r \in Request /\ gen[r] \in Gen
  BY DEF Finish, HostType, Busy
<1>2. PICK s \in Outcomes :
         /\ tool' = IF s \in {"failed", "aborted"} THEN StopTools(r) ELSE tool
         /\ gen' = [gen EXCEPT ![r] =
                      IF s = "pending" THEN [@ EXCEPT !.status = s]
                      ELSE SettleAs([@ EXCEPT !.abort = s # "completed"], s, tool, r)]
         /\ live' = [request |-> r, text |-> KeptText(s)]
  BY DEF Finish
<1>3. /\ s \in Over \cup {"pending"}
      /\ s = "pending" => run.stop = "disconnect"
  BY DEF Outcomes, Over
<1>4. \A k \in Request \X Call : tool'[k].status = tool[k].status
  BY <1>2, StopToolsType DEF HostType
<1> HIDE DEF r
<1>5. CASE s = "pending"
  <2> DEFINE g == [gen[r] EXCEPT !.status = s]
  <2>1. g \in Gen /\ g.admitted = gen[r].admitted /\ g.status = "pending"
    BY <1>1, <1>5 DEF Gen
  <2>2. gen' = [gen EXCEPT ![r] = g]
    BY <1>2, <1>5
  <2>3. host' = "down" /\ live'.text = LiveText
    BY <1>2, <1>3, <1>5 DEF Finish, KeptText
  <2> QED
    BY <1>1, <1>4, <2>1, <2>2, <2>3 DEF OneChanges, r
<1>6. CASE s # "pending"
  <2> DEFINE b == [gen[r] EXCEPT !.abort = s # "completed"]
             g == SettleAs(b, s, tool, r)
  <2>1. b \in Gen /\ b.admitted = gen[r].admitted
    BY <1>1 DEF Gen
  <2>2. gen' = [gen EXCEPT ![r] = g]
    BY <1>1, <1>2, <1>6
  <2> HIDE DEF b
  <2>3. /\ g \in Gen
        /\ g.admitted = gen[r].admitted
        /\ g.status = IF Working(tool, r) THEN "completing" ELSE s
    BY <1>3, <1>6, <2>1, SettleAsType, SettleAsStatus
  <2> HIDE DEF g
  <2> QED
    BY <1>1, <1>3, <1>4, <1>6, <2>2, <2>3 DEF OneChanges, Over, r
<1> QED
  BY <1>5, <1>6

-----------------------------------------------------------------------------
(* Generations run alone.                                                  *)

\* RunsAlone with what it takes to keep it: exactly the generation of the run
\* is running, and in a live process only running and completing generations
\* have running tools, none when a run begins.
AloneInv ==
    /\ host \in Busy => gen[run.of].status = "running"
    /\ host \in {"repair", "idle"} => \A r \in Request : gen[r].status # "running"
    /\ host # "down" => \A q \in Request :
          Working(tool, q) => gen[q].status \in {"running", "completing"}
    /\ host = "start" => ~Working(tool, run.of)
    /\ RunsAlone

\* Only the tools of the run start.
OwnStart ==
    \A k \in Request \X Call : tool'[k].status = "running" =>
        tool[k].status = "running" \/ (host \in Busy \ {"start"} /\ k[1] = run.of)

LEMMA WorkingBefore ==
    ASSUME NEW q \in Request, Working(tool', q), OwnStart
    PROVE  Working(tool, q) \/ (host \in Busy \ {"start"} /\ q = run.of)
<1>1. PICK c \in Call : tool'[q, c].status = "running"
  BY DEF Working
<1> DEFINE k == <<q, c>>
<1>2. k \in Request \X Call /\ k[1] = q /\ tool'[k].status = "running"
  BY <1>1
<1>3. tool[k].status = "running" \/ (host \in Busy \ {"start"} /\ k[1] = run.of)
  BY <1>2 DEF OwnStart
<1> QED
  BY <1>2, <1>3 DEF Working

\* The host goes on with the same run, or waits as before.
GoesOn ==
    /\ run'.of = run.of
    /\ host' = host \/ (host \in Busy /\ host' \in Busy \ {"start"})

LEMMA AloneQuiet ==
    ASSUME HostType, AloneInv, gen' = gen, OwnStart, GoesOn
    PROVE  AloneInv'
<1>1. \A q \in Request : Working(tool', q) =>
         Working(tool, q) \/ (host \in Busy \ {"start"} /\ q = run.of)
  BY WorkingBefore
<1>2. RunsAlone'
  <2> SUFFICES ASSUME NEW r \in Request, NEW q \in Request, r # q, gen[r].status = "running"
               PROVE  gen[q].status # "running" /\ ~Working(tool', q)
    BY DEF RunsAlone
  <2>1. gen[q].status # "running" /\ ~Working(tool, q)
    BY DEF AloneInv, RunsAlone
  <2>2. host \in Busy => q # run.of
    BY <2>1 DEF AloneInv
  <2> QED
    BY <1>1, <2>1, <2>2
<1>3. host' # "down" => \A q \in Request :
         Working(tool', q) => gen'[q].status \in {"running", "completing"}
  BY <1>1 DEF AloneInv, GoesOn, Busy
<1>4. host' = "start" => ~Working(tool', run'.of)
  BY <1>1 DEF AloneInv, GoesOn, HostType, Busy
<1> QED
  BY <1>2, <1>3, <1>4 DEF AloneInv, GoesOn, Busy

\* The steps in which no tool starts.
LEMMA NoStart ==
    ASSUME \A k \in Request \X Call : tool'[k].status = "running" => tool[k].status = "running"
    PROVE  OwnStart
BY DEF OwnStart

\* The steps that leave the generations alone and neither begin nor end a run.
Quiet ==
    \/ UNCHANGED vars \/ Reset \/ OpenSession \/ Stop \/ BreakSession \/ Stream \/ Publish
    \/ EndResponse \/ CutResponse \/ SteerResponse \/ Steer \/ Continue \/ EndBatch
    \/ \E r \in Request, c \in Call : AbortTool(r, c)
    \/ \E c \in Call : RecordCall(c) \/ Execute(c) \/ FinishTool(c) \/ SkipTool(c)

LEMMA QuietRest ==
    ASSUME [Next]_vars
    PROVE  Quiet \/ Crash \/ Recover \/ Repair \/ FailStart \/ Finish
                 \/ \E r \in Request : Submit(r) \/ Admit(r) \/ Abort(r)
BY DEF Quiet, Next, Client, Tools

LEMMA RecordedStatus ==
    ASSUME HostType, host = "tools", NEW c \in Call, NEW statuses \in SUBSET Over,
           RecordResult(c, statuses)
    PROVE  \A k \in Request \X Call : tool'[k].status = "running" => tool[k].status = "running"
<1>1. <<run.of, c>> \in Request \X Call
  BY DEF HostType, RunShape, Busy
<1>2. CASE run.broken
  BY <1>2 DEF RecordResult
<1>3. CASE ~run.broken
  <2> DEFINE j == <<run.of, c>>
  <2>1. PICK s \in IF tool[j].abort THEN {"aborted"} ELSE statuses :
           tool' = [tool EXCEPT ![j].status = s]
    BY <1>3 DEF RecordResult
  <2>2. s \in Over
    BY DEF Over
  <2>3. j \in Request \X Call
    BY <1>1
  <2> HIDE DEF j
  <2>4. [tool[j] EXCEPT !.status = s].status = s
    BY <2>3 DEF HostType, Tool
  <2>5. \A k \in Request \X Call :
           tool'[k] = IF k = j THEN [tool[j] EXCEPT !.status = s] ELSE tool[k]
    BY <2>1, <2>3 DEF HostType
  <2> QED
    BY <2>2, <2>4, <2>5 DEF Over
<1> QED
  BY <1>2, <1>3

LEMMA QuietKeeps ==
    ASSUME HostType, Quiet
    PROVE  gen' = gen /\ OwnStart /\ GoesOn
<1>1. gen' = gen
  BY DEF Quiet, vars, journal, AbortTool, Reset, OpenSession, Stop, BreakSession, Stream, Publish,
         EndResponse, CutResponse, SteerResponse, Steer, Continue, EndBatch,
         RecordCall, Execute, FinishTool, SkipTool
<1>2. CASE UNCHANGED vars \/ Reset
  BY <1>2, NoStart DEF vars, journal, Reset, GoesOn
<1>3. CASE OpenSession
  BY <1>3, NoStart DEF OpenSession, GoesOn, Busy
<1>4. CASE Stop \/ BreakSession \/ Stream \/ Publish
  <2>1. tool' = tool /\ host' = host
    BY <1>4 DEF Stop, BreakSession, Stream, Publish, journal
  <2>2. run'.of = run.of
    BY <1>4 DEF Stop, BreakSession, Stream, Publish, HostType, RunShape
  <2> QED
    BY <2>1, <2>2, <1>1, NoStart DEF GoesOn
<1>5. CASE EndResponse \/ CutResponse \/ SteerResponse \/ Steer \/ Continue \/ EndBatch
  <2>1. tool' = tool /\ host \in Busy /\ host' \in Busy \ {"start"}
    BY <1>5 DEF EndResponse, CutResponse, SteerResponse, Steer, Continue, EndBatch, journal, Busy
  <2>2. run'.of = run.of
    BY <1>5 DEF EndResponse, CutResponse, SteerResponse, Steer, Continue, EndBatch, HostType, RunShape
  <2> QED
    BY <2>1, <2>2, <1>1, NoStart DEF GoesOn
<1>6. ASSUME NEW r \in Request, NEW c \in Call, AbortTool(r, c)
      PROVE  OwnStart /\ GoesOn
  <2> DEFINE j == <<r, c>>
  <2>1. j \in Request \X Call /\ tool' = [tool EXCEPT ![j].abort = TRUE]
    BY <1>6 DEF AbortTool
  <2> HIDE DEF j
  <2>2. [tool[j] EXCEPT !.abort = TRUE].status = tool[j].status
    BY <2>1 DEF HostType, Tool
  <2>3. \A k \in Request \X Call :
           tool'[k] = IF k = j THEN [tool[j] EXCEPT !.abort = TRUE] ELSE tool[k]
    BY <2>1 DEF HostType
  <2>4. OwnStart
    BY <2>2, <2>3, NoStart
  <2> QED
    BY <1>6, <2>4 DEF AbortTool, GoesOn
<1>7. ASSUME NEW c \in Call, RecordCall(c) PROVE OwnStart /\ GoesOn
  <2> DEFINE j == <<run.of, c>>
             t == [status |-> "running", abort |-> FALSE]
  <2>1. host = "record" /\ host' \in {"tools", "record", "settle"}
    BY <1>7 DEF RecordCall
  <2>2. run'.of = run.of
    BY <1>7 DEF RecordCall, HostType, RunShape
  <2>3. tool' = tool \/ tool' = [tool EXCEPT ![j] = t]
    BY <1>7 DEF RecordCall
  <2>4. j[1] = run.of
    OBVIOUS
  <2> HIDE DEF j, t
  <2>5. \A k \in Request \X Call : tool'[k] = tool[k] \/ k = j
    BY <2>3 DEF HostType
  <2>6. OwnStart
    BY <2>1, <2>4, <2>5 DEF OwnStart, Busy
  <2> QED
    BY <2>1, <2>2, <2>6 DEF GoesOn, Busy
<1>8. ASSUME NEW c \in Call, Execute(c) PROVE OwnStart /\ GoesOn
  <2>1. tool' = tool /\ host' = host
    BY <1>8 DEF Execute, journal
  <2>2. run'.of = run.of
    BY <1>8 DEF Execute, HostType, RunShape
  <2> QED
    BY <2>1, <2>2, NoStart DEF GoesOn
<1>9. ASSUME NEW c \in Call, FinishTool(c) \/ SkipTool(c) PROVE OwnStart /\ GoesOn
  <2>1. host = "tools" /\ host' = host
    BY <1>9 DEF FinishTool, SkipTool
  <2>2. run'.of = run.of
    BY <1>9 DEF FinishTool, SkipTool, HostType, RunShape
  <2>3. \/ RecordResult(c, {"completed", "failed"})
        \/ RecordResult(c, {"completed"})
        \/ tool' = tool
    BY <1>9 DEF FinishTool, SkipTool
  <2>4. OwnStart
    BY <2>1, <2>3, RecordedStatus, NoStart DEF Over
  <2> QED
    BY <2>1, <2>2, <2>4 DEF GoesOn
<1> QED
  BY <1>1, <1>2, <1>3, <1>4, <1>5, <1>6, <1>7, <1>8, <1>9 DEF Quiet

LEMMA SameTools ==
    ASSUME \A k \in Request \X Call : tool'[k].status = "running" => tool[k].status = "running",
           NEW q \in Request, Working(tool', q)
    PROVE  Working(tool, q)
BY DEF Working

LEMMA NextAlone ==
    ASSUME HostInv, AloneInv, [Next]_vars
    PROVE  AloneInv'
<1> USE DEF HostInv
<1>1. CASE Quiet
  BY <1>1, QuietKeeps, AloneQuiet
<1>2. CASE Crash
  BY <1>2 DEF Crash, journal, AloneInv, RunsAlone, Busy, Working
<1>3. CASE Recover
  <2>1. /\ \A q \in Request : ~Working(tool', q)
        /\ \A r \in Request : gen'[r].status # "running"
    BY <1>3, RecoverEffect DEF Working
  <2> QED
    BY <1>3, <2>1 DEF Recover, AloneInv, RunsAlone, Busy
<1>4. CASE Repair
  <2>1. gen' = gen /\ tool' = tool /\ host = "repair" /\ host' = "idle"
    BY <1>4 DEF Repair
  <2> QED
    BY <2>1 DEF AloneInv, RunsAlone, Busy, Working
<1>5. ASSUME NEW r \in Request, Submit(r) PROVE AloneInv'
  <2> DEFINE g == [gen[r] EXCEPT !.status = "pending"]
  <2>1. /\ gen' = [gen EXCEPT ![r] = g]
        /\ host = "idle" /\ host' = "idle" /\ tool' = tool
        /\ gen[r].status = "absent"
    BY <1>5 DEF Submit
  <2>2. g.status = "pending"
    BY DEF HostType, Gen
  <2> HIDE DEF g
  <2>3. \A q \in Request : gen'[q] = IF q = r THEN g ELSE gen[q]
    BY <2>1 DEF HostType
  <2>4. \A q \in Request : Working(tool', q) => Working(tool, q) /\ q # r
    BY <2>1 DEF AloneInv
  <2> QED
    BY <2>1, <2>2, <2>3, <2>4 DEF AloneInv, RunsAlone, Busy
<1>6. ASSUME NEW r \in Request, Admit(r) PROVE AloneInv'
  <2> DEFINE g == [gen[r] EXCEPT !.status = "running", !.admitted = TRUE]
  <2>1. /\ gen' = [gen EXCEPT ![r] = g]
        /\ host = "idle" /\ host' = "start" /\ tool' = tool
        /\ Eligible(r)
    BY <1>6 DEF Admit
  <2>2. g.status = "running"
    BY DEF HostType, Gen
  <2>3. run'.of = r
    BY <1>6 DEF Admit, NoRun
  <2> HIDE DEF g
  <2>4. \A q \in Request : gen'[q] = IF q = r THEN g ELSE gen[q]
    BY <2>1 DEF HostType
  <2>5. \A q \in Request : ~Working(tool', q) /\ (q # r => gen'[q].status # "running")
    BY <2>1, <2>4 DEF Eligible, AloneInv
  <2> QED
    BY <2>1, <2>2, <2>3, <2>4, <2>5 DEF AloneInv, RunsAlone, Busy
<1>7. ASSUME NEW r \in Request, Abort(r) PROVE AloneInv'
  <2>1. PICK g : /\ OneChanges(r, g)
                 /\ g.status = IF gen[r].status = "running" THEN "running"
                               ELSE IF Working(tool, r) THEN "completing" ELSE "aborted"
    BY <1>7, AbortEffect
  <2>2. \A q \in Request : gen'[q] = IF q = r THEN g ELSE gen[q]
    BY <2>1 DEF OneChanges, HostType
  <2>3. \A q \in Request : Working(tool', q) => Working(tool, q)
    BY <1>7, AbortEffect, SameTools
  <2>4. host' = host /\ run' = run /\ host \in {"idle", "stream", "tools"}
    BY <1>7 DEF Abort
  <2>5. \A q \in Request : gen'[q].status = "running" <=> gen[q].status = "running"
    BY <2>1, <2>2
  <2>6. RunsAlone'
    BY <2>3, <2>5 DEF AloneInv, RunsAlone
  <2>7. \A q \in Request : Working(tool', q) => gen'[q].status \in {"running", "completing"}
    BY <2>1, <2>2, <2>3, <2>4 DEF AloneInv
  <2>8. host \in Busy => run.of \in Request
    BY DEF HostType
  <2> QED
    BY <2>4, <2>5, <2>6, <2>7, <2>8 DEF AloneInv, Busy
<1>8. CASE FailStart
  <2>1. PICK g : OneChanges(run.of, g) /\ g.status = "failed"
    BY <1>8, FailStartEffect
  <2>2. run.of \in Request /\ host = "start" /\ host' = "idle" /\ tool' = tool
    BY <1>8, FailStartEffect DEF FailStart
  <2>3. \A q \in Request : gen'[q] = IF q = run.of THEN g ELSE gen[q]
    BY <2>1, <2>2 DEF OneChanges, HostType
  <2>4. \A q \in Request : ~Working(tool', q)
    BY <2>2 DEF AloneInv, RunsAlone, Busy
  <2>5. \A q \in Request : gen'[q].status # "running"
    BY <2>1, <2>2, <2>3 DEF AloneInv, RunsAlone, Busy
  <2> QED
    BY <2>2, <2>4, <2>5 DEF AloneInv, RunsAlone, Busy
<1>9. CASE Finish
  <2>1. run.of \in Request /\ host = "settle" /\ host' \in {"down", "idle"}
    BY <1>9, FinishEffect DEF Finish
  <2>2. PICK g : /\ OneChanges(run.of, g)
                 /\ \/ g.status = "pending" /\ host' = "down"
                    \/ g.status \in Over /\ ~Working(tool, run.of)
                    \/ g.status = "completing"
    BY <1>9, FinishEffect
  <2>3. \A q \in Request : gen'[q] = IF q = run.of THEN g ELSE gen[q]
    BY <2>1, <2>2 DEF OneChanges, HostType
  <2>4. \A q \in Request : Working(tool', q) => Working(tool, q)
    BY <1>9, FinishEffect, SameTools
  <2>5. \A q \in Request : q # run.of => gen[q].status # "running" /\ ~Working(tool, q)
    BY <2>1 DEF AloneInv, RunsAlone, Busy
  <2>6. \A q \in Request : gen'[q].status # "running"
    BY <2>2, <2>3, <2>5 DEF Over
  <2>7. host' # "down" => \A q \in Request : Working(tool', q) => gen'[q].status = "completing"
    BY <2>2, <2>3, <2>4, <2>5
  <2> QED
    BY <2>1, <2>6, <2>7 DEF AloneInv, RunsAlone, Busy
<1> QED
  BY <1>1, <1>2, <1>3, <1>4, <1>5, <1>6, <1>7, <1>8, <1>9, QuietRest

LEMMA AloneHolds == Spec => []AloneInv
<1>1. Init => AloneInv
  <2> SUFFICES ASSUME Init PROVE AloneInv
    OBVIOUS
  <2>1. host = "down" /\ \A r \in Request : gen[r].status = "absent"
    BY DEF Init
  <2> QED
    BY <2>1 DEF AloneInv, RunsAlone, Busy
<1>2. HostInv /\ AloneInv /\ [Next]_vars => AloneInv'
  BY NextAlone
<1> QED
  BY <1>1, <1>2, HostInvHolds, PTL DEF Spec

\* durable/run never starts a generation beside another one, or beside tools
\* that an earlier one has left running, whatever was aborted, lost or repaired.
THEOREM AlwaysAlone == Spec => []RunsAlone
<1>1. AloneInv => RunsAlone
  BY DEF AloneInv
<1> QED
  BY <1>1, AloneHolds, PTL

-----------------------------------------------------------------------------
(* The transcript.                                                         *)

Subject == Request \cup Call \cup {NoRequest}
Text(s) == UNION {s[i].text : i \in 1..Len(s)}

\* No record of t is the input of a submission.
NoUser(t) == \A i \in 1..Len(t) : t[i].kind # "user"

LEMMA RecordTypes ==
    /\ \A r \in Request : User(r) \in RecordType /\ Correction(r) \in RecordType
    /\ \A c \in Subject : ToolCall(c) \in RecordType /\ ToolResult(c) \in RecordType
    /\ \A t \in SUBSET Chunk : Assistant(t) \in RecordType /\ Assistant(t).text = t
    /\ \A r : User(r).kind = "user" /\ User(r).of = r
    /\ \A x : /\ Correction(x).kind # "user" /\ Assistant(x).kind # "user"
              /\ ToolCall(x).kind # "user" /\ ToolResult(x).kind # "user"
BY DEF RecordType, User, Correction, Assistant, ToolCall, ToolResult, Subject

LEMMA NothingAdded ==
    /\ <<>> \in Seq(RecordType)
    /\ NoUser(<<>>)
    /\ transcript \in Seq(RecordType) => transcript \o <<>> = transcript
<1>1. Len(<<>>) = 0
  BY Zenon, EmptySeq
<1> QED
  BY <1>1, EmptySeq, ConcatEmptySeq DEF NoUser

LEMMA OneAdded ==
    ASSUME NEW e \in RecordType
    PROVE  /\ <<e>> \in Seq(RecordType)
           /\ Len(<<e>>) = 1
           /\ <<e>>[1] = e
           /\ Text(<<e>>) = e.text
           /\ e.kind # "user" => NoUser(<<e>>)
<1>1. <<e>> \in Seq(RecordType) /\ Len(<<e>>) = 1 /\ <<e>>[1] = e
  OBVIOUS
<1>2. 1..Len(<<e>>) = {1}
  BY <1>1
<1>3. Text(<<e>>) = e.text
  BY <1>1, <1>2 DEF Text
<1>4. e.kind # "user" => NoUser(<<e>>)
  BY <1>1, <1>2 DEF NoUser
<1> QED
  BY <1>1, <1>3, <1>4

LEMMA TextGrows ==
    ASSUME NEW s \in Seq(RecordType), NEW t \in Seq(RecordType)
    PROVE  /\ s \o t \in Seq(RecordType)
           /\ Text(s) \subseteq Text(s \o t)
           /\ Text(t) \subseteq Text(s \o t)
           /\ NoUser(s) /\ NoUser(t) => NoUser(s \o t)
<1>1. /\ s \o t \in Seq(RecordType)
      /\ Len(s \o t) = Len(s) + Len(t)
      /\ \A i \in 1 .. Len(s) + Len(t) :
            (s \o t)[i] = IF i <= Len(s) THEN s[i] ELSE t[i - Len(s)]
  BY ConcatProperties
<1>2. Len(s) \in Nat /\ Len(t) \in Nat
  OBVIOUS
<1> DEFINE u == s \o t
<1> HIDE DEF u
<1>3. ASSUME NEW i \in 1..Len(s) PROVE i \in 1..Len(u) /\ u[i] = s[i]
  BY <1>1, <1>2 DEF u
<1>4. ASSUME NEW i \in 1..Len(t) PROVE i + Len(s) \in 1..Len(u) /\ u[i + Len(s)] = t[i]
  <2>1. i + Len(s) \in 1..Len(s) + Len(t) /\ ~(i + Len(s) <= Len(s)) /\ (i + Len(s)) - Len(s) = i
    BY <1>2
  <2> QED
    BY <1>1, <2>1 DEF u
<1>5. ASSUME NEW i \in 1..Len(u)
      PROVE  \/ i \in 1..Len(s) /\ u[i] = s[i]
             \/ i - Len(s) \in 1..Len(t) /\ u[i] = t[i - Len(s)]
  BY <1>1, <1>2 DEF u
<1>6. Text(s) \subseteq Text(u)
  BY <1>3 DEF Text
<1>7. Text(t) \subseteq Text(u)
  <2> SUFFICES ASSUME NEW x, NEW i \in 1..Len(t), x \in t[i].text PROVE x \in Text(u)
    BY DEF Text
  <2>1. i + Len(s) \in 1..Len(u) /\ u[i + Len(s)] = t[i]
    BY <1>4
  <2> QED
    BY <2>1, Zenon DEF Text
<1>8. NoUser(s) /\ NoUser(t) => NoUser(u)
  BY <1>5 DEF NoUser
<1> QED
  BY <1>1, <1>6, <1>7, <1>8 DEF u

\* Host::open and Session::open add nothing but results.
LEMMA ResultsAdded ==
    ASSUME transcript \in Seq(RecordType), NEW t \in Results(Unanswered)
    PROVE  t \in Seq(RecordType) /\ NoUser(t)
<1> DEFINE calls == {j \in Index : IsA(j, "call")}
           of == [i \in calls |-> transcript[i].of]
           called == {transcript[i].of : i \in calls}
<1>1. Len(transcript) \in Nat /\ \A i \in Index : transcript[i] \in RecordType
  BY DEF Index
<1>2. IsFiniteSet(calls)
  <2>1. IsFiniteSet(Index)
    <3>1. 1 \in Int /\ Len(transcript) \in Int
      BY <1>1
    <3> QED
      BY <3>1, FS_Interval DEF Index
  <2>2. calls \in SUBSET Index
    OBVIOUS
  <2> QED
    BY <2>1, <2>2, FS_Subset
<1>3. of \in Surjection(calls, called)
  BY DEF Surjection
<1>4. IsFiniteSet(called)
  BY <1>2, <1>3, FS_Surjection
<1>5. Unanswered \subseteq called
  BY DEF Unanswered
<1>6. called \subseteq Subject
  BY <1>1 DEF RecordType, Subject
<1> DEFINE n == Cardinality(Unanswered)
<1>7. n \in Nat
  BY <1>4, <1>5, FS_Subset, FS_CardinalityType
<1>8. PICK f \in [1..n -> Unanswered] : t = [i \in 1..n |-> ToolResult(f[i])]
  BY DEF Results
<1> HIDE DEF n, called
<1>9. \A i \in 1..n : t[i] \in RecordType /\ t[i].kind # "user"
  <2> SUFFICES ASSUME NEW i \in 1..n PROVE t[i] \in RecordType /\ t[i].kind # "user"
    OBVIOUS
  <2>1. f[i] \in Subject /\ t[i] = ToolResult(f[i])
    BY <1>5, <1>6, <1>8
  <2> QED
    BY <2>1, RecordTypes
<1>10. t \in [1..n -> RecordType]
  BY <1>8, <1>9
<1>11. t \in Seq(RecordType) /\ Len(t) = n
  BY <1>7, <1>10
<1> QED
  BY <1>9, <1>11 DEF NoUser

Extended(t) == t \in Seq(RecordType) /\ transcript' = transcript \o t

\* What a step of a run adds: no input, and the text that it drops.
Recording == \E t : Extended(t) /\ NoUser(t) /\ run.partial \subseteq run'.partial \cup Text(t)

LEMMA AnswerAdded ==
    ASSUME run.partial \in SUBSET Chunk
    PROVE  /\ Answer \in Seq(RecordType)
           /\ NoUser(Answer)
           /\ run.partial \subseteq Unrecorded \cup Text(Answer)
<1>1. CASE run.broken \/ run.partial = {}
  BY <1>1, NothingAdded DEF Answer, Unrecorded
<1>2. CASE ~(run.broken \/ run.partial = {})
  <2>1. Answer = <<Assistant(run.partial)>>
    BY <1>2 DEF Answer
  <2>2. /\ Assistant(run.partial) \in RecordType
        /\ Assistant(run.partial).text = run.partial
        /\ Assistant(run.partial).kind # "user"
    BY RecordTypes
  <2> QED
    BY <2>1, <2>2, OneAdded
<1> QED
  BY <1>1, <1>2

LEMMA OneRecorded ==
    ASSUME transcript \in Seq(RecordType), NEW e \in RecordType, e.kind # "user",
           transcript' = Append(transcript, e), run'.partial = run.partial
    PROVE  Recording
<1>1. transcript' = transcript \o <<e>>
  BY AppendIsConcat
<1> QED
  BY <1>1, OneAdded DEF Recording, Extended

LEMMA QuietRecords ==
    ASSUME HostType, TypeOK, Quiet, ~Reset
    PROVE  Recording
<1>1. transcript \in Seq(RecordType) /\ run.partial \in SUBSET Chunk
  BY DEF TypeOK, RunType
<1>2. ASSUME transcript' = transcript, run.partial \subseteq run'.partial PROVE Recording
  BY <1>1, <1>2, NothingAdded DEF Recording, Extended
<1>3. CASE UNCHANGED vars
  BY <1>2, <1>3 DEF vars, journal
<1>4. CASE OpenSession
  <2>1. PICK t \in Results(Unanswered) : transcript' = transcript \o t
    BY <1>4 DEF OpenSession
  <2>2. run' = run
    BY <1>4 DEF OpenSession
  <2> QED
    BY <1>1, <2>1, <2>2, ResultsAdded DEF Recording, Extended
<1>5. CASE Stop \/ BreakSession \/ Stream \/ Publish \/ Continue \/ EndBatch
  <2>1. transcript' = transcript
    BY <1>5 DEF Stop, BreakSession, Stream, Publish, Continue, EndBatch, journal
  <2>2. run.partial \subseteq run'.partial
    BY <1>5 DEF Stop, BreakSession, Stream, Publish, Continue, EndBatch, HostType, RunShape
  <2> QED
    BY <1>2, <2>1, <2>2
<1>6. CASE EndResponse \/ CutResponse \/ SteerResponse
  <2>1. transcript' = transcript \o Answer
    BY <1>6 DEF EndResponse, CutResponse, SteerResponse
  <2>2. run'.partial = Unrecorded
    BY <1>6 DEF EndResponse, CutResponse, SteerResponse, HostType, RunShape
  <2> QED
    BY <1>1, <2>1, <2>2, AnswerAdded DEF Recording, Extended
<1>7. CASE Steer
  <2>1. run'.partial = run.partial
    BY <1>7 DEF Steer, HostType, RunShape
  <2>2. run.of \in Request
    BY <1>7 DEF Steer, HostType, Busy
  <2>3. Correction(run.of) \in RecordType /\ Correction(run.of).kind # "user"
    BY <2>2, RecordTypes
  <2>4. transcript' = transcript \/ transcript' = Append(transcript, Correction(run.of))
    BY <1>7 DEF Steer
  <2> QED
    BY <1>1, <1>2, <2>1, <2>3, <2>4, OneRecorded
<1>8. ASSUME NEW r \in Request, NEW c \in Call, AbortTool(r, c) PROVE Recording
  BY <1>2, <1>8 DEF AbortTool
<1>9. ASSUME NEW c \in Call, Execute(c) PROVE Recording
  <2>1. transcript' = transcript /\ run'.partial = run.partial
    BY <1>9 DEF Execute, journal, HostType, RunShape
  <2> QED
    BY <1>2, <2>1
<1>10. ASSUME NEW c \in Call, RecordCall(c) \/ FinishTool(c) \/ SkipTool(c) PROVE Recording
  <2>1. run'.partial = run.partial
    BY <1>10 DEF RecordCall, FinishTool, SkipTool, HostType, RunShape
  <2>2. \/ transcript' = transcript
        \/ transcript' = Append(transcript, ToolCall(c))
        \/ transcript' = Append(transcript, ToolResult(c))
    BY <1>10 DEF RecordCall, FinishTool, SkipTool, RecordResult
  <2>3. /\ ToolCall(c) \in RecordType /\ ToolResult(c) \in RecordType
        /\ ToolCall(c).kind # "user" /\ ToolResult(c).kind # "user"
    BY RecordTypes DEF Subject
  <2> QED
    BY <1>1, <1>2, <2>1, <2>2, <2>3, OneRecorded
<1> QED
  BY <1>3, <1>4, <1>5, <1>6, <1>7, <1>8, <1>9, <1>10 DEF Quiet

\* What Repair adds: results, and the live text if no answer contains it.
LEMMA RepairRecords ==
    ASSUME TypeOK, Repair
    PROVE  \E t : Extended(t) /\ NoUser(t) /\ (LostText => live.text \subseteq Text(t))
<1> DEFINE answer == IF LostText THEN <<Assistant(live.text)>> ELSE <<>>
<1>1. PICK t \in Results(Unanswered) : transcript' = transcript \o t \o answer
  BY DEF Repair
<1>2. transcript \in Seq(RecordType) /\ live.text \in SUBSET Chunk
  BY DEF TypeOK
<1>3. t \in Seq(RecordType) /\ NoUser(t)
  BY <1>2, ResultsAdded
<1>4. /\ Assistant(live.text) \in RecordType
      /\ Assistant(live.text).text = live.text
      /\ Assistant(live.text).kind # "user"
  BY <1>2, RecordTypes
<1>5. /\ answer \in Seq(RecordType)
      /\ NoUser(answer)
      /\ LostText => live.text \subseteq Text(answer)
  <2>1. CASE LostText
    BY <2>1, <1>4, OneAdded
  <2>2. CASE ~LostText
    BY <2>2, NothingAdded
  <2> QED
    BY <2>1, <2>2
<1> HIDE DEF answer
<1>6. transcript' = transcript \o (t \o answer)
  BY <1>1, <1>2, <1>3, <1>5, ConcatAssociative
<1> QED
  BY <1>3, <1>5, <1>6, TextGrows DEF Extended

-----------------------------------------------------------------------------
(* The types.                                                              *)

\* TypeOK without what HostType says already.
TextType ==
    /\ transcript \in Seq(RecordType)
    /\ live \in [request : Request \cup {NoRequest}, text : SUBSET Chunk]
    /\ run.partial \in SUBSET Chunk
    /\ run.unsent \in SUBSET Chunk
    /\ chunk \in 0..MaxChunk
    /\ shown \in [Request -> SUBSET Chunk]

HostStates == {"down", "repair", "idle"} \cup Busy

\* Where the host is, and whether it has a run.
PlaceType ==
    /\ order \in Seq(Request)
    /\ host \in HostStates
    /\ (run.of # NoRequest) = (host \in Busy)

LEMMA TypeParts == HostType => (TypeOK <=> TextType /\ PlaceType)
<1> SUFFICES ASSUME HostType PROVE TypeOK <=> TextType /\ PlaceType
  OBVIOUS
<1>1. run \in RunType <=> run.partial \in SUBSET Chunk /\ run.unsent \in SUBSET Chunk
  <2>1. run \in RunShape
    BY DEF HostType
  <2>2. Chunk \subseteq Nat
    BY HostConstantsOK DEF Chunk
  <2> QED
    BY <2>1, <2>2 DEF RunShape, RunType
<1>2. host \in HostStates =>
         ((run.of # NoRequest) = (host \in Busy)
            <=> (run.of # NoRequest) = (host \notin {"down", "repair", "idle"}))
  BY DEF HostStates, Busy
<1>3. host \in HostStates <=>
         host \in {"down", "repair", "idle", "start", "stream", "record", "tools",
                "steer", "steered", "settle"}
  BY DEF HostStates, Busy
<1> QED
  BY <1>1, <1>2, <1>3 DEF TypeOK, TextType, PlaceType, HostType

\* The steps that send text to the client.
LEMMA SentType ==
    ASSUME shown \in [Request -> SUBSET Chunk], run.unsent \in SUBSET Chunk,
           shown' = [shown EXCEPT ![run.of] = @ \cup run.unsent]
    PROVE  shown' \in [Request -> SUBSET Chunk]
OBVIOUS

LEMMA TrimPart == ASSUME NEW P PROVE TrimTail(P) \subseteq P
BY DEF TrimTail

LEMMA RecordingType ==
    ASSUME transcript \in Seq(RecordType), NEW t, Extended(t)
    PROVE  transcript' \in Seq(RecordType) /\ Text(transcript) \cup Text(t) \subseteq Text(transcript')
BY TextGrows DEF Extended

\* The part of the text that a step adds to nothing.
LEMMA TextQuiet ==
    ASSUME HostType, TypeOK, Quiet
    PROVE  TextType'
<1> USE DEF TextType
<1>1. /\ transcript \in Seq(RecordType)
      /\ live \in [request : Request \cup {NoRequest}, text : SUBSET Chunk]
      /\ run.partial \in SUBSET Chunk
      /\ run.unsent \in SUBSET Chunk
      /\ chunk \in 0..MaxChunk
      /\ shown \in [Request -> SUBSET Chunk]
  BY DEF TypeOK, RunType
<1>2. transcript' \in Seq(RecordType)
  BY <1>1, QuietRecords, RecordingType, NothingAdded DEF Recording, Reset
<1>3. CASE UNCHANGED vars \/ Reset \/ OpenSession
  BY <1>1, <1>2, <1>3 DEF vars, journal, world, Reset, OpenSession
<1>4. CASE Stop \/ BreakSession \/ EndBatch
  <2>1. run'.partial = run.partial /\ run'.unsent = run.unsent
    BY <1>4 DEF Stop, BreakSession, EndBatch, HostType, RunShape
  <2> QED
    BY <1>1, <1>2, <1>4, <2>1 DEF Stop, BreakSession, EndBatch, journal, world
<1>5. CASE Stream
  <2>1. chunk' \in 0..MaxChunk /\ chunk' \in Chunk
    BY <1>1, <1>5, HostConstantsOK DEF Stream, Chunk
  <2>2. run'.partial = run.partial \cup {chunk'} /\ run'.unsent = run.unsent \cup {chunk'}
    BY <1>5 DEF Stream, HostType, RunShape
  <2> QED
    BY <1>1, <1>2, <1>5, <2>1, <2>2 DEF Stream, journal
<1>6. CASE Publish \/ Continue
  <2>1. run'.partial = run.partial /\ run'.unsent = {}
    BY <1>6 DEF Publish, Continue, HostType, RunShape
  <2>2. run.of \in Request
    BY <1>6 DEF Publish, Continue, HostType, Busy
  <2>3. live' \in [request : Request \cup {NoRequest}, text : SUBSET Chunk]
    BY <1>1, <1>6, <2>2, TrimPart DEF Publish, Continue, LiveText
  <2>4. shown' \in [Request -> SUBSET Chunk]
    BY <1>1, <1>6, SentType DEF Publish, Continue
  <2> QED
    BY <1>1, <1>2, <1>6, <2>1, <2>3, <2>4 DEF Publish, Continue
<1>7. CASE EndResponse \/ CutResponse \/ SteerResponse \/ Steer
  <2>1. run'.partial \in {Unrecorded, run.partial} /\ run'.unsent = run.unsent
    BY <1>7 DEF EndResponse, CutResponse, SteerResponse, Steer, HostType, RunShape
  <2>2. run'.partial \in SUBSET Chunk
    BY <1>1, <2>1 DEF Unrecorded
  <2> QED
    BY <1>1, <1>2, <1>7, <2>1, <2>2 DEF EndResponse, CutResponse, SteerResponse, Steer, world
<1>8. ASSUME NEW r \in Request, NEW c \in Call, AbortTool(r, c) PROVE TextType'
  BY <1>1, <1>2, <1>8 DEF AbortTool, world
<1>9. ASSUME NEW c \in Call, RecordCall(c) \/ Execute(c) \/ FinishTool(c) \/ SkipTool(c)
      PROVE  TextType'
  <2>1. run'.partial = run.partial /\ run'.unsent = run.unsent
    BY <1>9 DEF RecordCall, Execute, FinishTool, SkipTool, HostType, RunShape
  <2>2. live' = live /\ chunk' = chunk /\ shown' = shown
    BY <1>9 DEF RecordCall, Execute, FinishTool, SkipTool, journal, world
  <2> QED
    BY <1>1, <1>2, <2>1, <2>2
<1> QED
  BY <1>3, <1>4, <1>5, <1>6, <1>7, <1>8, <1>9 DEF Quiet

LEMMA TextTyped ==
    ASSUME HostType, TypeOK, [Next]_vars
    PROVE  TextType'
<1>1. /\ transcript \in Seq(RecordType)
      /\ live \in [request : Request \cup {NoRequest}, text : SUBSET Chunk]
      /\ run.partial \in SUBSET Chunk
      /\ run.unsent \in SUBSET Chunk
      /\ chunk \in 0..MaxChunk
      /\ shown \in [Request -> SUBSET Chunk]
  BY DEF TypeOK, RunType
<1>2. NoRun.partial = {} /\ NoRun.unsent = {}
  BY DEF NoRun
<1>3. CASE Quiet
  BY <1>3, TextQuiet
<1>4. CASE Crash \/ FailStart
  BY <1>1, <1>2, <1>4 DEF Crash, FailStart, journal, world, TextType
<1>5. CASE Recover
  BY <1>1, <1>5 DEF Recover, world, TextType
<1>6. CASE Repair
  BY <1>1, <1>6, RepairRecords, RecordingType DEF Repair, world, TextType
<1>7. ASSUME NEW r \in Request, Submit(r) \/ Abort(r) PROVE TextType'
  BY <1>1, <1>7 DEF Submit, Abort, world, TextType
<1>8. ASSUME NEW r \in Request, Admit(r) PROVE TextType'
  <2>1. run'.partial = {} /\ run'.unsent = {}
    BY <1>8 DEF Admit, NoRun
  <2>2. User(r) \in RecordType
    BY RecordTypes
  <2>3. Admission(r) \in Seq(RecordType)
    BY <2>2, NothingAdded, OneAdded DEF Admission
  <2>4. transcript' \in Seq(RecordType)
    BY <1>1, <1>8, <2>3, TextGrows DEF Admit
  <2> QED
    BY <1>1, <1>8, <2>1, <2>4 DEF Admit, world, TextType
<1>9. CASE Finish
  <2>1. run.of \in Request
    BY <1>9 DEF Finish, HostType, Busy
  <2>2. PICK s \in Outcomes : live' = [request |-> run.of, text |-> KeptText(s)]
    BY <1>9 DEF Finish
  <2>3. live' \in [request : Request \cup {NoRequest}, text : SUBSET Chunk]
    BY <1>1, <2>1, <2>2, TrimPart DEF KeptText, LiveText
  <2>4. shown' \in [Request -> SUBSET Chunk]
    BY <1>1, <1>9, SentType DEF Finish
  <2> QED
    BY <1>1, <1>2, <1>9, <2>3, <2>4 DEF Finish, TextType
<1> QED
  BY <1>3, <1>4, <1>5, <1>6, <1>7, <1>8, <1>9, QuietRest

LEMMA PlaceTyped ==
    ASSUME HostType, TypeOK, [Next]_vars
    PROVE  PlaceType'
<1> USE DEF PlaceType
<1>1. /\ order \in Seq(Request)
      /\ host \in HostStates
      /\ (run.of # NoRequest) = (host \in Busy)
  BY TypeParts
<1>2. NoRun.of = NoRequest
  BY DEF NoRun
<1>3. CASE Quiet
  <2>1. order' = order
    BY <1>3 DEF Quiet, vars, journal, AbortTool, Reset, OpenSession, Stop, BreakSession, Stream,
           Publish, EndResponse, CutResponse, SteerResponse, Steer, Continue, EndBatch,
           RecordCall, Execute, FinishTool, SkipTool
  <2> QED
    BY <1>1, <1>3, <2>1, QuietKeeps DEF GoesOn, HostStates, Busy
<1>4. CASE Crash \/ FailStart
  BY <1>1, <1>2, <1>4 DEF Crash, FailStart, journal, HostStates, Busy
<1>5. CASE Recover \/ Repair
  BY <1>1, <1>5 DEF Recover, Repair, HostStates, Busy
<1>6. ASSUME NEW r \in Request, Submit(r) PROVE order' \in Seq(Request) /\ host' = host /\ run' = run
  BY <1>1, <1>6 DEF Submit
<1>7. ASSUME NEW r \in Request, Admit(r)
      PROVE  order' \in Seq(Request) /\ host' = "start" /\ run'.of # NoRequest
  BY <1>1, <1>7, HostConstantsOK DEF Admit, NoRun
<1>8. ASSUME NEW r \in Request, Abort(r) PROVE order' = order /\ host' = host /\ run' = run
  BY <1>8 DEF Abort
<1>9. CASE Finish
  BY <1>1, <1>2, <1>9 DEF Finish, HostStates, Busy
<1> QED
  BY <1>1, <1>3, <1>4, <1>5, <1>6, <1>7, <1>8, <1>9, QuietRest DEF HostStates, Busy

\* The variables of the host keep their types, and a generation is active
\* exactly from its admission to its settlement.
THEOREM TypeCorrect == Spec => []TypeOK
<1>1. Init => TypeOK
  <2> SUFFICES ASSUME Init PROVE TypeOK
    OBVIOUS
  <2>1. HostType
    BY NoRunShape DEF Init, HostType, Gen, Tool, Over, Busy
  <2>2. TextType
    BY HostConstantsOK, NothingAdded DEF Init, TextType, NoRun
  <2>3. order \in Seq(Request) /\ host \in HostStates /\ (run.of # NoRequest) = (host \in Busy)
    BY DEF Init, NoRun, HostStates, Busy
  <2> QED
    BY <2>1, <2>2, <2>3, TypeParts DEF PlaceType
<1>2. HostInv /\ HostInv' /\ TypeOK /\ [Next]_vars => TypeOK'
  <2>1. HostInv => HostType
    BY DEF HostInv
  <2>2. HostInv' => HostType'
    BY DEF HostInv
  <2>3. HostType' => (TypeOK' <=> TextType' /\ PlaceType')
    BY TypeParts, PTL
  <2> QED
    BY <2>1, <2>2, <2>3, TextTyped, PlaceTyped
<1> QED
  BY <1>1, <1>2, HostInvHolds, PTL DEF Spec

-----------------------------------------------------------------------------
(* Text that was sent can be recovered.                                    *)

\* A set of positions has a last one.
LEMMA LastExists ==
    ASSUME NEW n \in Nat, NEW S \in SUBSET (1..n), S # {}
    PROVE  \E i \in S : \A j \in S : j <= i
<1> DEFINE T == {n - i : i \in S}
<1>1. T \subseteq Nat /\ T # {}
  <2>1. \A i \in S : n - i \in Nat
    OBVIOUS
  <2>2. PICK i \in S : TRUE
    OBVIOUS
  <2>3. n - i \in T
    BY <2>2
  <2> QED
    BY <2>1, <2>3
<1>2. PICK x \in T : \A y \in T : ~(<<y, x>> \in OpToRel(<, Nat))
  BY <1>1, NatLessThanWellFounded, WFMin
<1>3. \A y \in T : ~(y < x)
  BY <1>1, <1>2 DEF OpToRel
<1>4. PICK i \in S : x = n - i
  OBVIOUS
<1>5. ASSUME NEW j \in S PROVE j <= i
  <2>1. n - j \in T
    OBVIOUS
  <2>2. ~(n - j < n - i)
    BY <1>3, <1>4, <2>1
  <2> QED
    BY <2>2
<1> QED
  BY <1>5

\* Every piece of A is in B, or is older than MaxLive pieces of A that are.
Secured(A, B) ==
    \A c \in A \ B : Cardinality({d \in A \cap B : d > c}) >= MaxLive

LEMMA PiecesCounted ==
    ASSUME NEW S \in SUBSET Chunk, NEW T \in SUBSET S
    PROVE  Cardinality(S) \in Nat /\ Cardinality(T) \in Nat /\ Cardinality(T) <= Cardinality(S)
<1>1. IsFiniteSet(Chunk)
  BY HostConstantsOK, FS_Interval DEF Chunk
<1> QED
  BY <1>1, FS_Subset, FS_CardinalityType

\* More text is kept, and pieces are sent that are kept.
LEMMA MoreSecured ==
    ASSUME NEW A1 \in SUBSET Chunk, NEW A2 \in SUBSET Chunk, NEW B1, NEW B2,
           Secured(A1, B1), A1 \subseteq A2, A2 \subseteq A1 \cup B2, B1 \subseteq B2
    PROVE  Secured(A2, B2)
<1> SUFFICES ASSUME NEW c \in A2 \ B2
             PROVE  Cardinality({d \in A2 \cap B2 : d > c}) >= MaxLive
  BY DEF Secured
<1> DEFINE T == {d \in A1 \cap B1 : d > c}
           S == {d \in A2 \cap B2 : d > c}
<1>1. Cardinality(T) >= MaxLive
  BY DEF Secured
<1>2. T \in SUBSET S /\ S \in SUBSET Chunk
  OBVIOUS
<1> HIDE DEF S, T
<1>3. Cardinality(S) \in Nat /\ Cardinality(T) \in Nat /\ Cardinality(T) <= Cardinality(S)
  BY <1>2, PiecesCounted
<1>4. Cardinality(S) >= MaxLive
  BY <1>1, <1>3, HostConstantsOK
<1> QED
  BY <1>4 DEF S

\* A piece that trim_tail cuts off is older than MaxLive pieces that it keeps:
\* those behind the last one that it cuts off.
LEMMA TrimKeeps ==
    ASSUME NEW P \in SUBSET Chunk, NEW c \in P \ TrimTail(P)
    PROVE  Cardinality({d \in TrimTail(P) : d > c}) >= MaxLive
<1> DEFINE cut == P \ TrimTail(P)
<1>1. MaxChunk \in Nat /\ cut \in SUBSET (1..MaxChunk) /\ cut # {}
  BY HostConstantsOK DEF Chunk
<1>2. PICK x \in cut : \A y \in cut : y <= x
  <2> HIDE DEF cut
  <2> QED
    BY <1>1, LastExists
<1> DEFINE T == {d \in P : d > x}
           S == {d \in TrimTail(P) : d > c}
<1>3. T \in SUBSET Chunk /\ S \in SUBSET Chunk
  BY DEF TrimTail
<1>4. T \in SUBSET S
  <2> SUFFICES ASSUME NEW d \in P, d > x PROVE d \in TrimTail(P) /\ d > c
    OBVIOUS
  <2>1. d \in Nat /\ x \in Nat /\ c \in Nat
    BY HostConstantsOK DEF Chunk
  <2>2. c <= x /\ (d \in cut => d <= x)
    BY <1>2
  <2> QED
    BY <2>1, <2>2
<1>5. ~(Cardinality(T) < MaxLive)
  BY <1>2 DEF TrimTail
<1> HIDE DEF S, T
<1>6. Cardinality(S) \in Nat /\ Cardinality(T) \in Nat /\ Cardinality(T) <= Cardinality(S)
  BY <1>3, <1>4, PiecesCounted
<1>7. Cardinality(S) >= MaxLive
  BY <1>5, <1>6, HostConstantsOK
<1> QED
  BY <1>7 DEF S

\* So the end of a text is as good as the text.
LEMMA TrimSecured ==
    ASSUME NEW A \in SUBSET Chunk, NEW P \in SUBSET A, NEW R, Secured(A, P \cup R)
    PROVE  Secured(A, TrimTail(P) \cup R)
<1> DEFINE B == TrimTail(P) \cup R
<1>0. Chunk \subseteq Nat
  BY HostConstantsOK DEF Chunk
<1>1. TrimTail(P) \subseteq P
  BY TrimPart
<1> SUFFICES ASSUME NEW c \in A \ B
             PROVE  Cardinality({d \in A \cap B : d > c}) >= MaxLive
  BY DEF Secured
<1> DEFINE S == {d \in A \cap B : d > c}
<1>2. S \in SUBSET Chunk /\ MaxLive \in Nat
  BY HostConstantsOK
<1>3. ASSUME NEW x \in P \ TrimTail(P), c <= x PROVE Cardinality(S) >= MaxLive
  <2> DEFINE T == {d \in TrimTail(P) : d > x}
  <2>1. Cardinality(T) >= MaxLive
    BY TrimKeeps
  <2>2. T \in SUBSET S
    <3> SUFFICES ASSUME NEW d \in TrimTail(P), d > x PROVE d \in A \cap B /\ d > c
      OBVIOUS
    <3>1. d \in Nat /\ x \in Nat /\ c \in Nat
      BY <1>0, <1>1
    <3> QED
      BY <1>1, <1>3, <3>1
  <2> HIDE DEF S, T
  <2> QED
    BY <1>2, <2>1, <2>2, PiecesCounted
<1>4. CASE c \in P
  BY <1>0, <1>3, <1>4
<1>5. CASE c \notin P
  <2> DEFINE T == {d \in A \cap (P \cup R) : d > c}
  <2>1. Cardinality(T) >= MaxLive
    BY <1>5 DEF Secured
  <2>2. CASE T \subseteq S
    <3> HIDE DEF S, T
    <3>1. Cardinality(S) >= MaxLive
      BY <1>2, <2>1, <2>2, PiecesCounted
    <3> QED
      BY <3>1 DEF S
  <2>3. CASE ~(T \subseteq S)
    <3>1. PICK x \in T : x \notin S
      BY <2>3
    <3>2. x \in P \ TrimTail(P) /\ c <= x
      BY <1>0, <3>1
    <3> HIDE DEF S, T
    <3>3. Cardinality(S) >= MaxLive
      BY <1>3, <3>2
    <3> QED
      BY <3>3 DEF S
  <2> QED
    BY <2>2, <2>3
<1> QED
  BY <1>4, <1>5

Unsettled(r) == gen[r].status \in {"pending", "running"}
LiveOf(r) == IF live.request = r THEN live.text ELSE {}

\* What the run has sent, or is to send.
Sent == shown[run.of] \cup run.unsent

\* RecoverableText with what it takes to keep it.  In a live process only the
\* text of the run is in need of the live document, and what the run has sent
\* or is to send is secured by the transcript and by its memory, which holds
\* nothing else.
TextInv ==
    /\ \A r \in Request : gen[r].status = "absent" => shown[r] = {}
    /\ host \notin {"down", "repair"} => \A r \in Request :
          r # run.of /\ Unsettled(r) => Secured(shown[r], Text(transcript))
    /\ host \in Busy => /\ run.partial \subseteq Sent
                        /\ Secured(Sent, run.partial \cup Text(transcript))
    /\ \A r \in Request : Unsettled(r) => Secured(shown[r], LiveOf(r) \cup Text(transcript))

\* No generation starts anew.
NoRevival ==
    \A r \in Request :
        /\ Unsettled(r)' => Unsettled(r)
        /\ gen'[r].status = "absent" => gen[r].status = "absent"

\* The transcript grows, and no more is sent.
LEMMA MoreText ==
    ASSUME TypeOK, shown' = shown, live' = live, Text(transcript) \subseteq Text(transcript')
    PROVE  \A r \in Request :
              /\ Secured(shown[r], Text(transcript)) => Secured(shown'[r], Text(transcript'))
              /\ Secured(shown[r], LiveOf(r) \cup Text(transcript)) =>
                    Secured(shown'[r], LiveOf(r)' \cup Text(transcript'))
<1> TAKE r \in Request
<1>1. shown[r] \in SUBSET Chunk
  BY DEF TypeOK
<1>2. LiveOf(r)' = LiveOf(r)
  BY DEF LiveOf
<1>3. LiveOf(r) \cup Text(transcript) \subseteq LiveOf(r) \cup Text(transcript')
  OBVIOUS
<1>4. ASSUME NEW A \in SUBSET Chunk, NEW B1, NEW B2, Secured(A, B1), B1 \subseteq B2
      PROVE  Secured(A, B2)
  BY <1>4, MoreSecured
<1> QED
  BY <1>1, <1>2, <1>3, <1>4

LEMMA TextKept ==
    ASSUME TypeOK, TextType', TextInv, NoRevival, GoesOn, shown' = shown, live' = live,
           Text(transcript) \subseteq Text(transcript'),
           host \in Busy => /\ run.partial \subseteq run'.partial \cup Text(transcript')
                            /\ run'.partial \subseteq run.partial \cup run'.unsent
                            /\ run.unsent \subseteq run'.unsent
                            /\ run'.unsent \subseteq run.unsent \cup run'.partial
    PROVE  TextInv'
<1>1. host' \in Busy <=> host \in Busy
  BY DEF GoesOn
<1>2. host' \notin {"down", "repair"} => host \notin {"down", "repair"}
  BY DEF GoesOn, Busy
<1>3. run'.of = run.of
  BY DEF GoesOn
<1>4. host \in Busy => run'.partial \subseteq Sent' /\ Secured(Sent', run'.partial \cup Text(transcript'))
  <2> SUFFICES ASSUME host \in Busy
               PROVE  run'.partial \subseteq Sent' /\ Secured(Sent', run'.partial \cup Text(transcript'))
    OBVIOUS
  <2>1. run.of \in Request
    BY HostConstantsOK DEF TypeOK, RunType, Busy
  <2>2. Sent \in SUBSET Chunk /\ Sent' \in SUBSET Chunk
    BY <1>3, <2>1 DEF Sent, TypeOK, TextType, RunType
  <2>3. run.partial \subseteq Sent /\ Secured(Sent, run.partial \cup Text(transcript))
    BY DEF TextInv
  <2>4. Sent \subseteq Sent' /\ Sent' \subseteq Sent \cup run'.partial /\ run'.partial \subseteq Sent'
    BY <1>3, <2>3 DEF Sent
  <2>5. run.partial \cup Text(transcript) \subseteq run'.partial \cup Text(transcript')
    OBVIOUS
  <2>6. Sent' \subseteq Sent \cup (run'.partial \cup Text(transcript'))
    BY <2>4
  <2> QED
    BY <2>2, <2>3, <2>4, <2>5, <2>6, MoreSecured
<1> QED
  BY <1>1, <1>2, <1>3, <1>4, MoreText DEF TextInv, NoRevival

LEMMA TextQuietKept ==
    ASSUME HostType, TypeOK, TextType', AloneInv, TextInv, Quiet
    PROVE  TextInv'
<1>1. gen' = gen /\ GoesOn
  BY QuietKeeps
<1>2. NoRevival
  BY <1>1 DEF NoRevival, Unsettled
<1>3. CASE Reset
  <2>1. \A r \in Request : ~Unsettled(r)' /\ (gen'[r].status = "absent" => gen[r].status = "absent")
    BY <1>3 DEF Reset, Unsettled, Over
  <2>2. host' = "idle" /\ shown' = shown
    BY <1>3 DEF Reset, world
  <2> QED
    BY <2>1, <2>2 DEF TextInv, Busy
<1>4. CASE Publish \/ Continue
  <2> DEFINE q == run.of
  <2>1. /\ q \in Request /\ host \in Busy /\ host' \in Busy
        /\ transcript' = transcript
        /\ live' = [request |-> q, text |-> LiveText]
        /\ shown' = [shown EXCEPT ![q] = @ \cup run.unsent]
    BY <1>4 DEF Publish, Continue, Busy, HostType
  <2>2. run'.partial = run.partial /\ run'.unsent = {} /\ run'.of = q
    BY <1>4 DEF Publish, Continue, HostType, RunShape
  <2>3. run.partial \subseteq Sent /\ Secured(Sent, run.partial \cup Text(transcript))
    BY <2>1 DEF TextInv
  <2>4. Sent \in SUBSET Chunk
    BY <2>1 DEF Sent, TypeOK, RunType
  <2>5. Secured(Sent, LiveText \cup Text(transcript))
    BY <2>3, <2>4, TrimSecured DEF LiveText
  <2>6. \A r \in Request : r # q /\ Unsettled(r) => Secured(shown[r], Text(transcript))
    BY <2>1 DEF TextInv, Busy
  <2>7. gen[q].status = "running"
    BY <2>1 DEF AloneInv
  <2>8. \A r \in Request : shown'[r] = IF r = q THEN Sent ELSE shown[r]
    BY <2>1 DEF TypeOK, Sent
  <2>9. Sent' = Sent
    BY <2>1, <2>2, <2>8 DEF Sent
  <2> HIDE DEF q
  <2>10. \A r \in Request : LiveOf(r)' = IF r = q THEN LiveText ELSE {}
    BY <2>1 DEF LiveOf
  <2>11. \A r \in Request : gen'[r].status = "absent" => r # q /\ shown'[r] = {}
    BY <1>1, <2>7, <2>8 DEF TextInv
  <2>12. ASSUME NEW r \in Request, Unsettled(r)'
         PROVE  Secured(shown'[r], LiveOf(r)' \cup Text(transcript'))
    <3>1. CASE r = q
      BY <3>1, <2>1, <2>5, <2>8, <2>10
    <3>2. CASE r # q
      <4>1. {} \cup Text(transcript) = Text(transcript)
        OBVIOUS
      <4> QED
        BY <3>2, <4>1, <2>1, <2>6, <2>8, <2>10, <2>12, <1>2 DEF NoRevival
    <3> QED
      BY <3>1, <3>2
  <2> QED
    BY <2>1, <2>2, <2>3, <2>6, <2>8, <2>9, <2>11, <2>12, <1>2 DEF TextInv, NoRevival
<1>5. CASE ~(Reset \/ Publish \/ Continue)
  <2>1. PICK t : Extended(t) /\ NoUser(t) /\ run.partial \subseteq run'.partial \cup Text(t)
    BY <1>5, QuietRecords DEF Recording
  <2>2. Text(transcript) \cup Text(t) \subseteq Text(transcript')
    BY <2>1, RecordingType DEF TypeOK
  <2>3. shown' = shown /\ live' = live
    BY <1>5 DEF Quiet, vars, journal, world, AbortTool, OpenSession, Stop, BreakSession, Stream,
           EndResponse, CutResponse, SteerResponse, Steer, EndBatch,
           RecordCall, Execute, FinishTool, SkipTool
  <2>4. /\ run'.partial \subseteq run.partial \cup run'.unsent
        /\ run.unsent \subseteq run'.unsent
        /\ run'.unsent \subseteq run.unsent \cup run'.partial
    BY <1>5 DEF Quiet, vars, AbortTool, OpenSession, Stop, BreakSession, Stream,
           EndResponse, CutResponse, SteerResponse, Steer, EndBatch, Unrecorded,
           RecordCall, Execute, FinishTool, SkipTool, HostType, RunShape
  <2> QED
    BY <1>1, <1>2, <2>1, <2>2, <2>3, <2>4, TextKept
<1> QED
  BY <1>3, <1>4, <1>5

LEMMA LastUserIndex ==
    ASSUME transcript \in Seq(RecordType)
    PROVE  LastUser \in Nat /\ 1 <= LastUser
<1> DEFINE users == {i \in Index : IsA(i, "user") \/ IsA(i, "correction")}
<1>1. Len(transcript) \in Nat /\ users \in SUBSET (1..Len(transcript))
  BY DEF Index
<1>2. LastUser = IF users = {} THEN 1 ELSE CHOOSE i \in users : \A j \in users : j <= i
  BY DEF LastUser
<1> HIDE DEF users
<1>3. CASE users = {}
  BY <1>2, <1>3
<1>4. CASE users # {}
  <2>1. LastUser \in users
    BY <1>1, <1>2, <1>4, LastExists
  <2> QED
    BY <1>1, <2>1
<1> QED
  BY <1>3, <1>4

LEMMA NextText ==
    ASSUME HostInv, TypeOK, AloneInv, TextInv, [Next]_vars
    PROVE  TextInv'
<1> USE DEF HostInv
<1>1. transcript \in Seq(RecordType) /\ NoRequest \notin Request
  BY HostConstantsOK DEF TypeOK
<1>2. NoRun.of = NoRequest
  BY DEF NoRun
<1>0. TextType'
  BY TextTyped
<1>3. CASE Quiet
  BY <1>0, <1>3, TextQuietKept
<1>4. CASE Crash
  <2>1. /\ gen' = gen /\ shown' = shown /\ transcript' = transcript /\ live' = live
        /\ host' = "down"
    BY <1>4 DEF Crash, journal, world
  <2> QED
    BY <2>1 DEF TextInv, Unsettled, LiveOf, Busy
<1>5. CASE Recover
  <2>1. NoRevival
    BY <1>5, RecoverEffect DEF NoRevival, Unsettled
  <2>2. /\ shown' = shown /\ transcript' = transcript /\ live' = live
        /\ host' = "repair"
    BY <1>5 DEF Recover, world
  <2>3. \A r \in Request : LiveOf(r)' = LiveOf(r)
    BY <2>2 DEF LiveOf
  <2> QED
    BY <2>1, <2>2, <2>3 DEF TextInv, NoRevival, Busy
<1>6. CASE Repair
  <2>1. PICK t : Extended(t) /\ (LostText => live.text \subseteq Text(t))
    BY <1>6, RepairRecords
  <2>2. Text(transcript) \cup Text(t) \subseteq Text(transcript')
    BY <1>1, <2>1, RecordingType
  <2>3. /\ gen' = gen /\ shown' = shown /\ live' = live
        /\ host' = "idle"
    BY <1>6 DEF Repair, world
  <2>4. ASSUME NEW r \in Request, Unsettled(r) PROVE LiveOf(r) \subseteq Text(transcript')
    <3>1. CASE live.request # r \/ live.text = {}
      BY <3>1 DEF LiveOf
    <3>2. CASE live.request = r /\ live.text # {} /\ LostText
      BY <3>2, <2>1, <2>2 DEF LiveOf
    <3>3. CASE live.request = r /\ live.text # {} /\ ~LostText
      <4>1. PICK i \in LastUser..Len(transcript) : live.text \subseteq transcript[i].text
        BY <1>1, <2>4, <3>3 DEF LostText, Unsettled, Over
      <4>2. i \in 1..Len(transcript)
        BY <1>1, <4>1, LastUserIndex
      <4>3. transcript[i].text \subseteq Text(transcript)
        BY <4>2 DEF Text
      <4> QED
        BY <3>3, <4>1, <4>3, <2>2 DEF LiveOf
    <3> QED
      BY <3>1, <3>2, <3>3
  <2>5. ASSUME NEW r \in Request, Unsettled(r)
        PROVE  /\ Secured(shown'[r], Text(transcript'))
               /\ Secured(shown'[r], LiveOf(r)' \cup Text(transcript'))
    <3>1. shown[r] \in SUBSET Chunk
      BY DEF TypeOK
    <3>2. Secured(shown[r], LiveOf(r) \cup Text(transcript))
      BY <2>5 DEF TextInv
    <3>3. LiveOf(r) \cup Text(transcript) \subseteq Text(transcript')
      BY <2>2, <2>4, <2>5
    <3>4. Secured(shown[r], Text(transcript'))
      BY <3>1, <3>2, <3>3, MoreSecured
    <3>5. LiveOf(r)' \cup Text(transcript') = Text(transcript')
      BY <2>3, <3>3 DEF LiveOf
    <3> QED
      BY <2>3, <3>4, <3>5
  <2> QED
    BY <2>3, <2>5 DEF TextInv, Busy, Unsettled
<1>7. ASSUME NEW r \in Request, Submit(r) PROVE TextInv'
  <2> DEFINE g == [gen[r] EXCEPT !.status = "pending"]
  <2>1. /\ gen' = [gen EXCEPT ![r] = g]
        /\ gen[r].status = "absent"
        /\ host = "idle" /\ host' = "idle"
        /\ run' = run /\ shown' = shown /\ live' = live /\ transcript' = transcript
    BY <1>7 DEF Submit, world
  <2>2. g.status = "pending"
    BY DEF HostType, Gen
  <2> HIDE DEF g
  <2>3. \A q \in Request : gen'[q] = IF q = r THEN g ELSE gen[q]
    BY <2>1 DEF HostType
  <2>4. shown[r] = {}
    BY <2>1 DEF TextInv
  <2>5. \A q \in Request : q = r \/ (Unsettled(q)' => Unsettled(q))
    BY <2>3 DEF Unsettled
  <2>6. \A q \in Request : LiveOf(q)' = LiveOf(q)
    BY <2>1 DEF LiveOf
  <2>7. \A B : Secured({}, B)
    BY DEF Secured
  <2> QED
    BY <2>1, <2>2, <2>3, <2>4, <2>5, <2>6, <2>7 DEF TextInv, Busy
<1>8. ASSUME NEW r \in Request, Admit(r) PROVE TextInv'
  <2> DEFINE g == [gen[r] EXCEPT !.status = "running", !.admitted = TRUE]
  <2>1. /\ gen' = [gen EXCEPT ![r] = g]
        /\ gen[r].status = "pending"
        /\ host = "idle" /\ host' = "start"
        /\ shown' = shown /\ live' = live
    BY <1>8 DEF Admit, Eligible, world
  <2>2. run'.of = r /\ run'.unsent = {} /\ run'.partial = {}
    BY <1>8 DEF Admit, NoRun
  <2>3. g.status = "running"
    BY DEF HostType, Gen
  <2> HIDE DEF g
  <2>4. \A q \in Request : gen'[q] = IF q = r THEN g ELSE gen[q]
    BY <2>1 DEF HostType
  <2>5. User(r) \in RecordType
    BY RecordTypes
  <2>6. Admission(r) \in Seq(RecordType)
    BY <2>5, NothingAdded, OneAdded DEF Admission
  <2>7. Text(transcript) \subseteq Text(transcript')
    BY <1>1, <1>8, <2>6, TextGrows DEF Admit
  <2>8. \A q \in Request : Unsettled(q)' => Unsettled(q)
    BY <2>1, <2>4 DEF Unsettled
  <2>9. \A q \in Request :
           /\ Secured(shown[q], Text(transcript)) => Secured(shown'[q], Text(transcript'))
           /\ Secured(shown[q], LiveOf(q) \cup Text(transcript)) =>
                 Secured(shown'[q], LiveOf(q)' \cup Text(transcript'))
    BY <2>1, <2>7, MoreText
  <2>10. \A q \in Request : Unsettled(q) => Secured(shown[q], Text(transcript))
    <3>1. run.of = NoRequest
      BY <2>1 DEF TypeOK
    <3> QED
      BY <3>1, <2>1, <1>1 DEF TextInv
  <2>11. run'.partial \subseteq Sent' /\ Secured(Sent', run'.partial \cup Text(transcript'))
    <3>1. Sent' = shown'[r] /\ run'.partial \cup Text(transcript') = Text(transcript')
      BY <2>2 DEF Sent
    <3>2. Secured(shown'[r], Text(transcript'))
      BY <2>1, <2>9, <2>10 DEF Unsettled
    <3> QED
      BY <2>2, <3>1, <3>2
  <2>12. \A q \in Request : gen'[q].status = "absent" => gen[q].status = "absent"
    BY <2>3, <2>4
  <2> QED
    BY <2>1, <2>8, <2>9, <2>10, <2>11, <2>12 DEF TextInv
<1>9. ASSUME NEW r \in Request, Abort(r) PROVE TextInv'
  <2>1. PICK g : /\ OneChanges(r, g)
                 /\ gen[r].status # "absent"
                 /\ g.status = IF gen[r].status = "running" THEN "running"
                               ELSE IF Working(tool, r) THEN "completing" ELSE "aborted"
    BY <1>9, AbortEffect
  <2>2. \A q \in Request : gen'[q] = IF q = r THEN g ELSE gen[q]
    BY <2>1 DEF OneChanges, HostType
  <2>3. NoRevival
    BY <2>1, <2>2 DEF NoRevival, Unsettled
  <2>4. /\ host' = host /\ run' = run
        /\ shown' = shown /\ live' = live /\ transcript' = transcript
    BY <1>9 DEF Abort, world
  <2> QED
    BY <1>0, <2>3, <2>4, TextKept DEF GoesOn
<1>10. CASE FailStart
  <2> DEFINE r == run.of
  <2>1. PICK g : OneChanges(r, g) /\ g.status = "failed"
    BY <1>10, FailStartEffect
  <2>2. /\ r \in Request /\ host = "start" /\ host' = "idle"
        /\ shown' = shown /\ live' = live /\ transcript' = transcript
    BY <1>10, FailStartEffect DEF FailStart, world
  <2>3. \A q \in Request : gen'[q] = IF q = r THEN g ELSE gen[q]
    BY <2>1, <2>2 DEF OneChanges, HostType
  <2>4. \A q \in Request : Unsettled(q)' => q # r /\ Unsettled(q)
    BY <2>1, <2>3 DEF Unsettled
  <2>5. \A q \in Request : Unsettled(q)' =>
           /\ Secured(shown'[q], Text(transcript'))
           /\ Secured(shown'[q], LiveOf(q)' \cup Text(transcript'))
    BY <2>2, <2>4, MoreText DEF TextInv, Busy
  <2>6. \A q \in Request : gen'[q].status = "absent" => gen[q].status = "absent"
    BY <2>1, <2>3
  <2> QED
    BY <2>2, <2>5, <2>6 DEF TextInv, Busy
<1>11. CASE Finish
  <2>0. PICK r \in Request : r = run.of
    BY <1>11, FinishEffect
  <2>1. PICK g : /\ OneChanges(r, g)
                 /\ \/ g.status = "pending" /\ host' = "down" /\ live'.text = LiveText
                    \/ g.status \in Over \cup {"completing"}
    BY <1>11, <2>0, FinishEffect
  <2>2. /\ host \in Busy /\ host' \in {"down", "idle"}
        /\ shown' = [shown EXCEPT ![r] = @ \cup run.unsent]
        /\ live'.request = r /\ transcript' = transcript
    BY <1>11, <2>0 DEF Finish, Busy
  <2>3. /\ run.partial \in SUBSET Sent /\ Sent \in SUBSET Chunk
        /\ Secured(Sent, run.partial \cup Text(transcript))
    BY <2>0, <2>2 DEF TextInv, Sent, TypeOK, RunType
  <2>4. \A q \in Request : q # r /\ Unsettled(q) => Secured(shown[q], Text(transcript))
    BY <2>0, <2>2 DEF TextInv, Busy
  <2>5. \A q \in Request : gen'[q] = IF q = r THEN g ELSE gen[q]
    BY <2>1, <2>2 DEF OneChanges, HostType
  <2>6. \A q \in Request : shown'[q] = IF q = r THEN Sent ELSE shown[q]
    BY <2>0, <2>2 DEF TypeOK, Sent
  <2>7. ASSUME NEW q \in Request, q # r, Unsettled(q)'
        PROVE  /\ Secured(shown'[q], Text(transcript'))
               /\ Secured(shown'[q], LiveOf(q)' \cup Text(transcript'))
    <3>1. LiveOf(q)' \cup Text(transcript') = Text(transcript')
      BY <2>2, <2>7 DEF LiveOf
    <3>2. Unsettled(q)
      BY <2>5, <2>7 DEF Unsettled
    <3>3. Secured(shown[q], Text(transcript))
      BY <2>4, <2>7, <3>2
    <3>4. shown'[q] = shown[q] /\ transcript' = transcript
      BY <2>2, <2>6, <2>7
    <3> QED
      BY <3>1, <3>3, <3>4
  <2>8. ASSUME Unsettled(r)'
        PROVE  host' = "down" /\ Secured(shown'[r], LiveOf(r)' \cup Text(transcript'))
    <3>1. host' = "down" /\ live'.text = LiveText
      BY <2>1, <2>5, <2>8 DEF Unsettled, Over
    <3>2. Secured(Sent, LiveText \cup Text(transcript))
      BY <2>3, TrimSecured DEF LiveText
    <3>3. LiveOf(r)' = LiveText
      BY <2>2, <3>1 DEF LiveOf
    <3> QED
      BY <2>2, <2>6, <3>1, <3>2, <3>3
  <2>9. \A q \in Request : gen'[q].status = "absent" => q # r /\ gen[q].status = "absent"
    BY <2>1, <2>5 DEF OneChanges
  <2> QED
    BY <2>2, <2>6, <2>7, <2>8, <2>9 DEF TextInv, Busy
<1> QED
  BY <1>3, <1>4, <1>5, <1>6, <1>7, <1>8, <1>9, <1>10, <1>11, QuietRest

\* Text that the client was sent by a generation that is not over is in the
\* live document or in the transcript, wherever the process dies, unless
\* trim_tail cut it off, and then the MaxLive pieces behind it are.
THEOREM TextAlwaysRecoverable == Spec => []RecoverableText
<1>1. Init => TextInv
  BY DEF Init, TextInv, Unsettled, Busy
<1>2. HostInv /\ TypeOK /\ AloneInv /\ TextInv /\ [Next]_vars => TextInv'
  BY NextText
<1>3. TextInv => RecoverableText
  BY DEF TextInv, RecoverableText, Survives, Unsettled, LiveOf, Text, Index, Secured
<1> QED
  BY <1>1, <1>2, <1>3, HostInvHolds, TypeCorrect, AloneHolds, PTL DEF Spec

-----------------------------------------------------------------------------
(* Inputs become records in the order of their submission.                 *)

\* UsersInOrder with what it takes to keep it: order holds the generations
\* that exist, the inputs in the transcript are of admitted ones, and one that
\* was not yet admitted is not before one that was.
OrderInv ==
    /\ \A i \in 1..Len(order) : gen[order[i]].status # "absent"
    /\ \A r \in Request : gen[r].status # "absent" => \E i \in 1..Len(order) : order[i] = r
    /\ \A r \in Request : gen[r].admitted => gen[r].status # "absent"
    /\ \A r \in Request : gen[r].status = "running" => gen[r].admitted
    /\ \A i \in Index : IsA(i, "user") =>
          transcript[i].of \in Request /\ gen[transcript[i].of].admitted
    /\ \A q, r \in Request :
          gen[q].admitted /\ gen[r].status = "pending" /\ ~gen[r].admitted => ~Before(r, q)
    /\ UsersInOrder

\* The order and the admissions stay, and what runs again was admitted.
SameAdmissions ==
    /\ order' = order
    /\ \A r \in Request :
          /\ gen'[r].admitted = gen[r].admitted
          /\ (gen'[r].status = "absent") = (gen[r].status = "absent")
          /\ gen'[r].status = "pending" => gen[r].status = "pending" \/ gen[r].admitted
          /\ gen'[r].status = "running" => gen[r].admitted

\* The inputs in the transcript are those before, or it starts anew.
SameInputs ==
    \A i \in 1..Len(transcript') : transcript'[i].kind = "user" =>
        i \in Index /\ transcript'[i] = transcript[i]

LEMMA ExtendedInputs ==
    ASSUME transcript \in Seq(RecordType), NEW t, Extended(t), NoUser(t)
    PROVE  SameInputs
<1>1. /\ Len(transcript') = Len(transcript) + Len(t)
      /\ \A i \in 1 .. Len(transcript) + Len(t) :
            transcript'[i] = IF i <= Len(transcript) THEN transcript[i] ELSE t[i - Len(transcript)]
  BY ConcatProperties DEF Extended
<1>2. Len(transcript) \in Nat /\ Len(t) \in Nat
  BY DEF Extended
<1>3. ASSUME NEW i \in 1..Len(transcript'), transcript'[i].kind = "user"
      PROVE  i \in Index /\ transcript'[i] = transcript[i]
  <2>1. CASE i <= Len(transcript)
    BY <1>1, <1>2, <2>1 DEF Index
  <2>2. CASE ~(i <= Len(transcript))
    <3>1. i - Len(transcript) \in 1..Len(t) /\ transcript'[i] = t[i - Len(transcript)]
      BY <1>1, <1>2, <2>2
    <3> QED
      BY <3>1, <1>3 DEF NoUser
  <2> QED
    BY <2>1, <2>2
<1> QED
  BY <1>3 DEF SameInputs

LEMMA SameTranscript ==
    ASSUME transcript' = transcript
    PROVE  SameInputs
BY DEF SameInputs, Index

LEMMA OrderQuiet ==
    ASSUME TypeOK, OrderInv, SameAdmissions, SameInputs
    PROVE  OrderInv'
<1>1. \A q, r : Before(q, r)' = Before(q, r)
  BY DEF SameAdmissions, Before
<1>2. \A i \in 1..Len(order) : order[i] \in Request
  BY DEF TypeOK
<1>3. \A i \in Index' : IsA(i, "user")' => i \in Index /\ IsA(i, "user") /\ transcript'[i] = transcript[i]
  BY DEF SameInputs, Index, IsA
<1>4. UsersInOrder'
  BY <1>1, <1>3 DEF OrderInv, UsersInOrder
<1>5. \A q, r \in Request :
         gen'[q].admitted /\ gen'[r].status = "pending" /\ ~gen'[r].admitted => ~Before(r, q)'
  BY <1>1 DEF OrderInv, SameAdmissions
<1>6. \A i \in Index' : IsA(i, "user")' =>
         transcript'[i].of \in Request /\ gen'[transcript'[i].of].admitted
  BY <1>3 DEF OrderInv, SameAdmissions
<1>7. /\ \A i \in 1..Len(order') : gen'[order'[i]].status # "absent"
      /\ \A r \in Request : gen'[r].status # "absent" => \E i \in 1..Len(order') : order'[i] = r
  BY <1>2 DEF OrderInv, SameAdmissions
<1>8. \A r \in Request : /\ gen'[r].admitted => gen'[r].status # "absent"
                         /\ gen'[r].status = "running" => gen'[r].admitted
  BY DEF OrderInv, SameAdmissions
<1> QED
  BY <1>4, <1>5, <1>6, <1>7, <1>8 DEF OrderInv

\* One generation changes that was admitted, or not to pending or running.
LEMMA OneAdmission ==
    ASSUME HostType, OrderInv, order' = order, NEW r \in Request, NEW g, OneChanges(r, g),
           gen[r].status # "absent",
           g.status \in {"pending", "running"} => gen[r].admitted
    PROVE  SameAdmissions
<1>1. \A q \in Request : gen'[q] = IF q = r THEN g ELSE gen[q]
  BY DEF OneChanges, HostType
<1> QED
  BY <1>1 DEF SameAdmissions, OneChanges, OrderInv

LEMMA SubmitOrder ==
    ASSUME HostType, TypeOK, OrderInv, NEW r \in Request, Submit(r)
    PROVE  OrderInv'
<1> DEFINE g == [gen[r] EXCEPT !.status = "pending"]
           n == Len(order)
<1>1. /\ gen' = [gen EXCEPT ![r] = g]
      /\ gen[r].status = "absent"
      /\ order' = Append(order, r)
      /\ transcript' = transcript
  BY DEF Submit
<1>2. g.status = "pending" /\ g.admitted = gen[r].admitted
  BY DEF HostType, Gen
<1> HIDE DEF g
<1>3. \A q \in Request : gen'[q] = IF q = r THEN g ELSE gen[q]
  BY <1>1 DEF HostType
<1>4. order \in Seq(Request) /\ n \in Nat /\ \A i \in 1..n : order[i] \in Request
  BY DEF TypeOK
<1>5. /\ Len(order') = n + 1
      /\ \A i \in 1..n : order'[i] = order[i]
      /\ order'[n + 1] = r
  BY <1>1, <1>4, AppendProperties
<1> HIDE DEF n
<1>6. \A i \in 1..n : order[i] # r
  BY <1>1 DEF OrderInv, n
<1>7. ASSUME NEW q, NEW p, Before(q, p) PROVE Before(q, p)'
  <2>1. PICK i \in 1..n, j \in 1..n : i < j /\ order[i] = q /\ order[j] = p
    BY <1>7 DEF Before, n
  <2>2. i \in 1..Len(order') /\ j \in 1..Len(order') /\ order'[i] = q /\ order'[j] = p
    BY <1>4, <1>5, <2>1
  <2> QED
    BY <2>1, <2>2 DEF Before
<1>8. ASSUME NEW q, NEW p, Before(q, p)', p # r PROVE Before(q, p)
  <2>1. PICK i \in 1..(n + 1), j \in 1..(n + 1) : i < j /\ order'[i] = q /\ order'[j] = p
    BY <1>5, <1>8 DEF Before
  <2>2. j \in 1..n
    BY <1>4, <1>5, <1>8, <2>1
  <2>3. i \in 1..n
    BY <1>4, <2>1, <2>2
  <2> QED
    BY <1>5, <2>1, <2>2, <2>3 DEF Before, n
<1>9. ASSUME NEW p PROVE ~Before(r, p)'
  <2> SUFFICES ASSUME Before(r, p)' PROVE FALSE
    OBVIOUS
  <2>1. PICK i \in 1..(n + 1), j \in 1..(n + 1) : i < j /\ order'[i] = r
    BY <1>5 DEF Before
  <2>2. i \in 1..n
    BY <1>4, <2>1
  <2> QED
    BY <1>5, <1>6, <2>1, <2>2
<1>10. ~gen[r].admitted
  BY <1>1 DEF OrderInv
<1>11. \A i \in 1..Len(order') : gen'[order'[i]].status # "absent"
  <2> SUFFICES ASSUME NEW i \in 1..(n + 1) PROVE gen'[order'[i]].status # "absent"
    BY <1>5
  <2>1. CASE i \in 1..n
    BY <1>2, <1>3, <1>4, <1>5, <2>1 DEF OrderInv, n
  <2>2. CASE i = n + 1
    BY <1>2, <1>3, <1>5, <2>2
  <2> QED
    BY <1>4, <2>1, <2>2
<1>12. \A q \in Request : gen'[q].status # "absent" => \E i \in 1..Len(order') : order'[i] = q
  <2> SUFFICES ASSUME NEW q \in Request, gen'[q].status # "absent"
               PROVE  \E i \in 1..(n + 1) : order'[i] = q
    BY <1>5
  <2>1. CASE q = r
    BY <1>4, <1>5, <2>1
  <2>2. CASE q # r
    <3>1. PICK i \in 1..n : order[i] = q
      BY <1>3, <2>2 DEF OrderInv, n
    <3>2. i \in 1..(n + 1)
      BY <1>4
    <3> QED
      BY <1>5, <3>1, <3>2
  <2> QED
    BY <2>1, <2>2
<1>13. UsersInOrder'
  BY <1>1, <1>7 DEF OrderInv, UsersInOrder, Index, IsA
<1>14. \A q, p \in Request :
          gen'[q].admitted /\ gen'[p].status = "pending" /\ ~gen'[p].admitted => ~Before(p, q)'
  <2> SUFFICES ASSUME NEW q \in Request, NEW p \in Request,
                      gen'[q].admitted, gen'[p].status = "pending", ~gen'[p].admitted
               PROVE  ~Before(p, q)'
    OBVIOUS
  <2>1. q # r /\ gen[q].admitted
    BY <1>2, <1>3, <1>10
  <2>2. CASE p = r
    BY <2>2, <1>9
  <2>3. CASE p # r
    BY <1>3, <1>8, <2>1, <2>3 DEF OrderInv
  <2> QED
    BY <2>2, <2>3
<1>15. \A i \in Index' : IsA(i, "user")' =>
          transcript'[i].of \in Request /\ gen'[transcript'[i].of].admitted
  BY <1>1, <1>3, <1>10 DEF OrderInv, Index, IsA
<1>16. \A q \in Request : /\ gen'[q].admitted => gen'[q].status # "absent"
                          /\ gen'[q].status = "running" => gen'[q].admitted
  BY <1>2, <1>3 DEF OrderInv
<1> QED
  BY <1>11, <1>12, <1>13, <1>14, <1>15, <1>16 DEF OrderInv

\* durable/run appends the input of a generation behind those of all earlier
\* ones: the later ones were not admitted before it.
LEMMA AdmitOrder ==
    ASSUME HostType, TypeOK, OrderInv, NEW r \in Request, Admit(r)
    PROVE  OrderInv'
<1> DEFINE g == [gen[r] EXCEPT !.status = "running", !.admitted = TRUE]
           n == Len(transcript)
<1>1. /\ gen' = [gen EXCEPT ![r] = g]
      /\ Eligible(r)
      /\ order' = order
      /\ transcript' = transcript \o Admission(r)
  BY DEF Admit
<1>2. g.status = "running" /\ g.admitted = TRUE
  BY DEF HostType, Gen
<1> HIDE DEF g
<1>3. \A q \in Request : gen'[q] = IF q = r THEN g ELSE gen[q]
  BY <1>1 DEF HostType
<1>4. \A q, p : Before(q, p)' = Before(q, p)
  BY <1>1 DEF Before
<1>5. \A i \in 1..Len(order) : order[i] \in Request
  BY DEF TypeOK
<1>6. gen[r].status = "pending"
  BY <1>1 DEF Eligible
<1>7. transcript \in Seq(RecordType) /\ n \in Nat
  BY DEF TypeOK
<1>8. \A q \in Request : gen[q].admitted => gen'[q].admitted
  BY <1>2, <1>3
<1>9. /\ \A i \in Index' : IsA(i, "user")' =>
            transcript'[i].of \in Request /\ gen'[transcript'[i].of].admitted
      /\ UsersInOrder'
  <2>1. CASE gen[r].admitted
    <3>1. transcript' = transcript
      BY <1>1, <1>7, <2>1, NothingAdded DEF Admission
    <3> QED
      BY <1>4, <1>8, <3>1 DEF OrderInv, UsersInOrder, Index, IsA
  <2>2. CASE ~gen[r].admitted
    <3>1. transcript' = transcript \o <<User(r)>>
      BY <1>1, <2>2 DEF Admission
    <3>2. User(r) \in RecordType /\ User(r).of = r
      BY RecordTypes
    <3>3. transcript' = Append(transcript, User(r))
      BY <1>7, <3>1, <3>2, AppendIsConcat
    <3>4. /\ Len(transcript') = n + 1
          /\ \A i \in 1..n : transcript'[i] = transcript[i]
          /\ transcript'[n + 1] = User(r)
      BY <1>7, <3>2, <3>3, AppendProperties
    <3> HIDE DEF n
    <3>5. ASSUME NEW i \in Index', IsA(i, "user")'
          PROVE  \/ i = n + 1 /\ transcript'[i].of = r
                 \/ /\ i \in Index /\ IsA(i, "user") /\ i \in 1..n
                    /\ transcript'[i] = transcript[i]
      BY <1>7, <3>2, <3>4, <3>5 DEF Index, IsA, n
    <3>6. ASSUME NEW q \in Request, gen[q].admitted PROVE Before(q, r)
      <4>1. q # r
        BY <2>2, <3>6
      <4>2. PICK i \in 1..Len(order) : order[i] = q
        BY <3>6 DEF OrderInv
      <4>3. PICK j \in 1..Len(order) : order[j] = r
        BY <1>6 DEF OrderInv
      <4>4. i # j /\ i \in Int /\ j \in Int
        BY <4>1, <4>2, <4>3
      <4>5. ~(j < i)
        BY <1>6, <2>2, <3>6, <4>2, <4>3 DEF OrderInv, Before
      <4>6. i < j
        BY <4>4, <4>5
      <4> QED
        BY <4>2, <4>3, <4>6 DEF Before
    <3>7. \A i \in Index' : IsA(i, "user")' =>
             transcript'[i].of \in Request /\ gen'[transcript'[i].of].admitted
      BY <1>2, <1>3, <1>8, <3>5 DEF OrderInv
    <3>8. UsersInOrder'
      <4> SUFFICES ASSUME NEW i \in Index', NEW j \in Index', i < j,
                          IsA(i, "user")', IsA(j, "user")'
                   PROVE  Before(transcript'[i].of, transcript'[j].of)
        BY <1>4 DEF UsersInOrder
      <4>1. i \in 1..(n + 1) /\ j \in 1..(n + 1)
        BY <3>4 DEF Index
      <4>2. i # n + 1
        BY <1>7, <4>1
      <4>3. i \in Index /\ IsA(i, "user") /\ transcript'[i] = transcript[i]
        BY <3>5, <4>2
      <4>4. CASE j = n + 1 /\ transcript'[j].of = r
        <5>1. transcript[i].of \in Request /\ gen[transcript[i].of].admitted
          BY <4>3 DEF OrderInv
        <5> QED
          BY <3>6, <4>3, <4>4, <5>1
      <4>5. CASE j \in Index /\ IsA(j, "user") /\ transcript'[j] = transcript[j]
        BY <4>3, <4>5 DEF OrderInv, UsersInOrder
      <4> QED
        BY <3>5, <4>4, <4>5
    <3> QED
      BY <3>7, <3>8
  <2> QED
    BY <2>1, <2>2
<1>10. \A q, p \in Request :
          gen'[q].admitted /\ gen'[p].status = "pending" /\ ~gen'[p].admitted => ~Before(p, q)'
  <2> SUFFICES ASSUME NEW q \in Request, NEW p \in Request,
                      gen'[q].admitted, gen'[p].status = "pending", ~gen'[p].admitted
               PROVE  ~Before(p, q)
    BY <1>4
  <2>1. p # r /\ gen[p].status = "pending" /\ ~gen[p].admitted
    BY <1>2, <1>3
  <2>2. CASE q = r
    BY <1>1, <2>1, <2>2 DEF Eligible
  <2>3. CASE q # r
    BY <1>3, <2>1, <2>3 DEF OrderInv
  <2> QED
    BY <2>2, <2>3
<1>11. \A q \in Request : (gen'[q].status = "absent") = (gen[q].status = "absent")
  BY <1>2, <1>3, <1>6
<1>12. /\ \A i \in 1..Len(order') : gen'[order'[i]].status # "absent"
       /\ \A q \in Request : gen'[q].status # "absent" => \E i \in 1..Len(order') : order'[i] = q
  BY <1>1, <1>5, <1>11 DEF OrderInv
<1>13. \A q \in Request : /\ gen'[q].admitted => gen'[q].status # "absent"
                          /\ gen'[q].status = "running" => gen'[q].admitted
  BY <1>2, <1>3 DEF OrderInv
<1> QED
  BY <1>9, <1>10, <1>12, <1>13 DEF OrderInv

LEMMA NextOrder ==
    ASSUME HostInv, TypeOK, AloneInv, OrderInv, [Next]_vars
    PROVE  OrderInv'
<1> USE DEF HostInv
<1>1. transcript \in Seq(RecordType)
  BY DEF TypeOK
<1>2. CASE Quiet
  <2>1. gen' = gen
    BY <1>2, QuietKeeps
  <2>2. order' = order
    BY <1>2 DEF Quiet, vars, journal, AbortTool, Reset, OpenSession, Stop, BreakSession, Stream,
           Publish, EndResponse, CutResponse, SteerResponse, Steer, Continue, EndBatch,
           RecordCall, Execute, FinishTool, SkipTool
  <2>3. SameAdmissions
    BY <2>1, <2>2 DEF SameAdmissions, OrderInv
  <2>4. CASE Reset
    <3>1. transcript' = <<>> /\ Len(transcript') = 0
      BY <2>4, EmptySeq, Zenon DEF Reset
    <3>2. SameInputs
      BY <3>1 DEF SameInputs
    <3> QED
      BY <2>3, <3>2, OrderQuiet
  <2>5. CASE ~Reset
    BY <1>1, <1>2, <2>3, <2>5, QuietRecords, ExtendedInputs, OrderQuiet DEF Recording
  <2> QED
    BY <2>4, <2>5
<1>3. CASE Crash
  <2>1. gen' = gen /\ order' = order /\ transcript' = transcript
    BY <1>3 DEF Crash, journal
  <2>2. SameAdmissions
    BY <2>1 DEF SameAdmissions, OrderInv
  <2> QED
    BY <2>1, <2>2, SameTranscript, OrderQuiet
<1>4. CASE Recover
  <2>1. order' = order /\ transcript' = transcript
    BY <1>4 DEF Recover
  <2>2. SameAdmissions
    BY <1>4, <2>1, RecoverEffect DEF SameAdmissions, OrderInv
  <2> QED
    BY <2>1, <2>2, SameTranscript, OrderQuiet
<1>5. CASE Repair
  <2>1. gen' = gen /\ order' = order
    BY <1>5 DEF Repair
  <2>2. SameAdmissions
    BY <2>1 DEF SameAdmissions, OrderInv
  <2> QED
    BY <1>1, <1>5, <2>2, RepairRecords, ExtendedInputs, OrderQuiet
<1>6. ASSUME NEW r \in Request, Submit(r) PROVE OrderInv'
  BY <1>6, SubmitOrder
<1>7. ASSUME NEW r \in Request, Admit(r) PROVE OrderInv'
  BY <1>7, AdmitOrder
<1>8. ASSUME NEW r \in Request, Abort(r) PROVE OrderInv'
  <2>1. order' = order /\ transcript' = transcript
    BY <1>8 DEF Abort
  <2>2. SameAdmissions
    BY <1>8, <2>1, AbortEffect, OneAdmission DEF OrderInv
  <2> QED
    BY <2>1, <2>2, SameTranscript, OrderQuiet
<1>9. CASE FailStart \/ Finish
  <2>1. order' = order /\ transcript' = transcript /\ host \in Busy
    BY <1>9 DEF FailStart, Finish, Busy
  <2>2. run.of \in Request /\ \E g : OneChanges(run.of, g)
    BY <1>9, FailStartEffect, FinishEffect
  <2>3. gen[run.of].status = "running" /\ gen[run.of].admitted
    BY <2>1, <2>2 DEF AloneInv, OrderInv
  <2>4. SameAdmissions
    BY <2>1, <2>2, <2>3, OneAdmission
  <2> QED
    BY <2>1, <2>4, SameTranscript, OrderQuiet
<1> QED
  BY <1>2, <1>3, <1>4, <1>5, <1>6, <1>7, <1>8, <1>9, QuietRest

\* "Generations within a conversation run in submission order": their inputs
\* are recorded once, in that order, however often they are started again.
THEOREM UsersAlwaysInOrder == Spec => []UsersInOrder
<1>1. Init => OrderInv
  <2> SUFFICES ASSUME Init PROVE OrderInv
    OBVIOUS
  <2>1. order = <<>> /\ transcript = <<>> /\ Len(order) = 0 /\ Len(transcript) = 0
    BY EmptySeq, Zenon DEF Init
  <2>2. \A r \in Request : gen[r].status = "absent" /\ ~gen[r].admitted
    BY DEF Init
  <2> QED
    BY <2>1, <2>2 DEF OrderInv, UsersInOrder, Index
<1>2. HostInv /\ TypeOK /\ AloneInv /\ OrderInv /\ [Next]_vars => OrderInv'
  BY NextOrder
<1>3. OrderInv => UsersInOrder
  BY DEF OrderInv
<1> QED
  BY <1>1, <1>2, <1>3, HostInvHolds, TypeCorrect, AloneHolds, PTL DEF Spec
-----------------------------------------------------------------------------
(* The transcript.  Calls and results are matched by ID alone, so the      *)
(* provider must not give one ID to two generations.                       *)

UniqueIds == \A q, r \in Request : q # r => CallIds[q] \cap CallIds[r] = {}

CallsAt(L) == {i \in 1..Len(L) : L[i].kind = "call"}
ResultsAt(L) == {i \in 1..Len(L) : L[i].kind = "result"}
Called(L) == {L[i].of : i \in CallsAt(L)}
Answered(L) == {L[i].of : i \in ResultsAt(L)}
Open(L) == Called(L) \ Answered(L)

\* No ID is called or answered twice, and an answer comes after its call.
Paired(L) ==
    /\ \A i, j \in CallsAt(L) : L[i].of = L[j].of => i = j
    /\ \A i, j \in ResultsAt(L) : L[i].of = L[j].of => i = j
    /\ \A j \in ResultsAt(L) :
          L[j] = ToolResult(L[j].of) /\ \E i \in CallsAt(L) : i < j /\ L[i].of = L[j].of

\* Tasks have the IDs of their generation, and a recorded call has its task.
TaskInv ==
    /\ \A r \in Request, c \in Call : tool[r, c].status # "absent" => c \in CallIds[r]
    /\ \A c \in Called(transcript) : c \in Call /\ \E r \in Request : tool[r, c].status # "absent"

\* Once its session is open, the calls without an answer are those that the
\* run has recorded and not dealt with, unless it can record nothing.
OpenCalls ==
    host \in Busy =>
        /\ run.batch \cup run.issued \subseteq CallIds[run.of]
        /\ run.flight \subseteq run.issued
        /\ run.issued \subseteq Open(transcript)
        /\ host # "start" /\ ~run.broken => Open(transcript) \subseteq run.issued
        /\ host \in {"start", "stream", "steer", "steered"} => run.issued = {}

PairInv == Paired(transcript) /\ TaskInv /\ OpenCalls

LEMMA RecordKinds ==
    /\ \A x : /\ User(x).kind = "user" /\ Correction(x).kind = "correction"
              /\ Assistant(x).kind = "assistant"
    /\ \A x : ToolCall(x).kind = "call" /\ ToolCall(x).of = x
    /\ \A x : ToolResult(x).kind = "result" /\ ToolResult(x).of = x
BY DEF User, Correction, Assistant, ToolCall, ToolResult

\* A record more, at the end.
LEMMA AppendAt ==
    ASSUME NEW L \in Seq(RecordType), NEW e \in RecordType
    PROVE  /\ Len(L) \in Nat
           /\ \A i \in 1..Len(L) : Append(L, e)[i] = L[i]
           /\ Append(L, e)[Len(L) + 1] = e
           /\ CallsAt(L) \subseteq 1..Len(L) /\ ResultsAt(L) \subseteq 1..Len(L)
           /\ CallsAt(Append(L, e)) =
                 IF e.kind = "call" THEN CallsAt(L) \cup {Len(L) + 1} ELSE CallsAt(L)
           /\ ResultsAt(Append(L, e)) =
                 IF e.kind = "result" THEN ResultsAt(L) \cup {Len(L) + 1} ELSE ResultsAt(L)
<1> DEFINE n == Len(L)
           M == Append(L, e)
<1>1. n \in Nat /\ Len(M) = n + 1 /\ M[n + 1] = e /\ \A i \in 1..n : M[i] = L[i]
  OBVIOUS
<1> HIDE DEF M
<1>2. 1..Len(M) = (1..n) \cup {n + 1}
  BY <1>1
<1>3. CallsAt(M) = IF e.kind = "call" THEN CallsAt(L) \cup {n + 1} ELSE CallsAt(L)
  BY <1>1, <1>2 DEF CallsAt
<1>4. ResultsAt(M) = IF e.kind = "result" THEN ResultsAt(L) \cup {n + 1} ELSE ResultsAt(L)
  BY <1>1, <1>2 DEF ResultsAt
<1>5. CallsAt(L) \subseteq 1..n /\ ResultsAt(L) \subseteq 1..n
  BY DEF CallsAt, ResultsAt
<1> QED
  BY <1>1, <1>3, <1>4, <1>5 DEF M

LEMMA AppendOther ==
    ASSUME NEW L \in Seq(RecordType), Paired(L), NEW e \in RecordType,
           e.kind # "call", e.kind # "result"
    PROVE  /\ Paired(Append(L, e))
           /\ Called(Append(L, e)) = Called(L) /\ Open(Append(L, e)) = Open(L)
<1> DEFINE n == Len(L)
           M == Append(L, e)
<1>1. /\ \A i \in 1..n : M[i] = L[i]
      /\ CallsAt(L) \subseteq 1..n /\ ResultsAt(L) \subseteq 1..n
      /\ CallsAt(M) = CallsAt(L) /\ ResultsAt(M) = ResultsAt(L)
  BY AppendAt
<1> HIDE DEF M, n
<1>2. /\ \A i \in CallsAt(M) : i \in CallsAt(L) /\ M[i] = L[i]
      /\ \A i \in ResultsAt(M) : i \in ResultsAt(L) /\ M[i] = L[i]
  BY <1>1
<1>3. Paired(M)
  BY <1>1, <1>2 DEF Paired
<1>4. Called(M) = Called(L) /\ Answered(M) = Answered(L)
  BY <1>1, <1>2 DEF Called, Answered
<1> QED
  BY <1>3, <1>4 DEF Open, M

LEMMA AppendCall ==
    ASSUME NEW L \in Seq(RecordType), Paired(L), NEW c \in Call, c \notin Called(L)
    PROVE  /\ Paired(Append(L, ToolCall(c)))
           /\ Called(Append(L, ToolCall(c))) = Called(L) \cup {c}
           /\ Open(Append(L, ToolCall(c))) = Open(L) \cup {c}
<1> DEFINE n == Len(L)
           M == Append(L, ToolCall(c))
<1>0. ToolCall(c) \in RecordType
  BY RecordTypes DEF Subject
<1>1. /\ n \in Nat
      /\ \A i \in 1..n : M[i] = L[i]
      /\ CallsAt(L) \subseteq 1..n /\ ResultsAt(L) \subseteq 1..n
      /\ M[n + 1] = ToolCall(c)
      /\ CallsAt(M) = CallsAt(L) \cup {n + 1} /\ ResultsAt(M) = ResultsAt(L)
  BY <1>0, AppendAt, RecordKinds
<1>2. M[n + 1].of = c
  BY <1>1, RecordKinds
<1> HIDE DEF M, n
<1>3. /\ \A i \in CallsAt(L) : M[i] = L[i] /\ L[i].of # c
      /\ \A i \in ResultsAt(L) : M[i] = L[i]
  BY <1>1 DEF Called
<1>4. \A i, j \in CallsAt(M) : M[i].of = M[j].of => i = j
  <2>1. \A i, j \in CallsAt(L) : M[i].of = M[j].of => i = j
    BY <1>3 DEF Paired
  <2> QED
    BY <1>1, <1>2, <1>3, <2>1
<1>5. \A i, j \in ResultsAt(M) : M[i].of = M[j].of => i = j
  BY <1>1, <1>3 DEF Paired
<1>6. \A j \in ResultsAt(M) :
         M[j] = ToolResult(M[j].of) /\ \E i \in CallsAt(M) : i < j /\ M[i].of = M[j].of
  BY <1>1, <1>3 DEF Paired
<1>7. Called(M) = Called(L) \cup {c} /\ Answered(M) = Answered(L)
  BY <1>1, <1>2, <1>3 DEF Called, Answered
<1>8. c \notin Answered(L)
  BY DEF Answered, Called, Paired
<1>9. Paired(M)
  BY <1>4, <1>5, <1>6 DEF Paired
<1> QED
  BY <1>7, <1>8, <1>9 DEF Open, M

LEMMA AppendResult ==
    ASSUME NEW L \in Seq(RecordType), Paired(L), NEW c \in Subject, c \in Open(L)
    PROVE  /\ Paired(Append(L, ToolResult(c)))
           /\ Called(Append(L, ToolResult(c))) = Called(L)
           /\ Open(Append(L, ToolResult(c))) = Open(L) \ {c}
<1> DEFINE n == Len(L)
           M == Append(L, ToolResult(c))
<1>0. ToolResult(c) \in RecordType
  BY RecordTypes
<1>1. /\ n \in Nat
      /\ \A i \in 1..n : M[i] = L[i]
      /\ CallsAt(L) \subseteq 1..n /\ ResultsAt(L) \subseteq 1..n
      /\ M[n + 1] = ToolResult(c)
      /\ CallsAt(M) = CallsAt(L) /\ ResultsAt(M) = ResultsAt(L) \cup {n + 1}
  BY <1>0, AppendAt, RecordKinds
<1>2. M[n + 1].of = c
  BY <1>1, RecordKinds
<1> HIDE DEF M, n
<1>3. /\ \A i \in CallsAt(L) : M[i] = L[i]
      /\ \A i \in ResultsAt(L) : M[i] = L[i] /\ L[i].of # c
  BY <1>1 DEF Open, Answered
<1>4. \A i, j \in CallsAt(M) : M[i].of = M[j].of => i = j
  BY <1>1, <1>3 DEF Paired
<1>5. \A i, j \in ResultsAt(M) : M[i].of = M[j].of => i = j
  <2>1. \A i, j \in ResultsAt(L) : M[i].of = M[j].of => i = j
    BY <1>3 DEF Paired
  <2> QED
    BY <1>1, <1>2, <1>3, <2>1
<1>6. PICK a \in CallsAt(L) : L[a].of = c
  BY DEF Open, Called
<1>7. a < n + 1 /\ M[a].of = c
  BY <1>1, <1>3, <1>6
<1>8. \A j \in ResultsAt(L) :
         M[j] = ToolResult(M[j].of) /\ \E i \in CallsAt(M) : i < j /\ M[i].of = M[j].of
  BY <1>1, <1>3 DEF Paired
<1>9. \A j \in ResultsAt(M) :
         M[j] = ToolResult(M[j].of) /\ \E i \in CallsAt(M) : i < j /\ M[i].of = M[j].of
  BY <1>1, <1>2, <1>6, <1>7, <1>8
<1>10. Called(M) = Called(L) /\ Answered(M) = Answered(L) \cup {c}
  BY <1>1, <1>2, <1>3 DEF Called, Answered
<1>11. Paired(M)
  BY <1>4, <1>5, <1>9 DEF Paired
<1> QED
  BY <1>10, <1>11 DEF Open, M

\* Host::open and Session::open answer all calls that have no answer.
LEMMA AnswerAll ==
    ASSUME transcript \in Seq(RecordType), Paired(transcript), NEW t \in Results(Unanswered)
    PROVE  /\ t \in Seq(RecordType)
           /\ transcript \o t \in Seq(RecordType)
           /\ Paired(transcript \o t)
           /\ Called(transcript \o t) = Called(transcript)
           /\ Open(transcript \o t) = {}
<1> DEFINE L == transcript
           n == Len(L)
           calls == Open(L)
           m == Cardinality(calls)
           M == L \o t
<1>1. Unanswered = calls
  BY DEF Unanswered, Open, Called, Answered, CallsAt, ResultsAt, Index, IsA
<1>2. L \in Seq(RecordType) /\ Paired(L) /\ n \in Nat
  OBVIOUS
<1>3. IsFiniteSet(calls)
  <2> DEFINE of == [i \in CallsAt(L) |-> L[i].of]
  <2>1. IsFiniteSet(1..n)
    <3>1. 1 \in Int /\ n \in Int
      BY <1>2
    <3> QED
      BY <3>1, FS_Interval
  <2>2. IsFiniteSet(CallsAt(L))
    BY <2>1, FS_Subset DEF CallsAt
  <2>3. of \in Surjection(CallsAt(L), Called(L))
    BY DEF Surjection, Called
  <2>4. IsFiniteSet(Called(L))
    BY <2>2, <2>3, FS_Surjection
  <2> QED
    BY <2>4, FS_Subset DEF Open
<1>4. m \in Nat
  BY <1>3, FS_CardinalityType
<1>5. PICK f \in [1..m -> calls] :
         /\ \A i, j \in 1..m : f[i] = f[j] => i = j
         /\ t = [i \in 1..m |-> ToolResult(f[i])]
  BY <1>1 DEF Results
<1>6. t \in Seq(RecordType)
  BY ResultsAdded
<1> HIDE DEF L, m, calls
<1>7. f \in Injection(1..m, calls)
  BY <1>5 DEF Injection, IsInjective
<1>8. Cardinality(1..m) = Cardinality(calls)
  <2>1. Cardinality(1..m) = IF 1 > m THEN 0 ELSE m - 1 + 1
    <3>1. 1 \in Int /\ m \in Int
      BY <1>4
    <3> QED
      BY <3>1, FS_Interval
  <2>2. Cardinality(1..m) = m
    BY <1>4, <2>1
  <2> QED
    BY <2>2 DEF m
<1>9. \A c \in calls : \E i \in 1..m : f[i] = c
  <2>1. f \in Surjection(1..m, calls)
    BY <1>3, <1>7, <1>8, FS_Injection
  <2> QED
    BY <2>1 DEF Surjection
<1>10. Len(t) = m
  BY <1>4, <1>5, <1>6
<1>11. /\ M \in Seq(RecordType)
       /\ Len(M) = n + m
       /\ \A i \in 1..n + m : M[i] = IF i <= n THEN L[i] ELSE t[i - n]
  BY <1>2, <1>6, <1>10, ConcatProperties
<1> HIDE DEF M, n
<1>12. ASSUME NEW i \in 1..n PROVE i \in 1..Len(M) /\ M[i] = L[i]
  BY <1>2, <1>4, <1>11
<1>13. ASSUME NEW i \in 1..m
       PROVE  n + i \in 1..Len(M) /\ n + i \notin 1..n /\ M[n + i] = ToolResult(f[i])
  <2>1. n + i \in 1..n + m /\ ~(n + i <= n) /\ (n + i) - n = i
    BY <1>2, <1>4
  <2> QED
    BY <1>2, <1>5, <1>11, <2>1
<1>14. \A i \in 1..Len(M) : i \in 1..n \/ \E j \in 1..m : i = n + j
  <2> SUFFICES ASSUME NEW i \in 1..n + m, i \notin 1..n PROVE \E j \in 1..m : i = n + j
    BY <1>11
  <2>1. i - n \in 1..m /\ i = n + (i - n)
    BY <1>2, <1>4
  <2> QED
    BY <2>1
<1>15. CallsAt(L) \subseteq 1..n /\ ResultsAt(L) \subseteq 1..n
  BY DEF CallsAt, ResultsAt, n
<1>16. \A i \in 1..m : M[n + i].kind = "result" /\ M[n + i].of = f[i]
  BY <1>13, RecordKinds
<1>17. \A i : i \in CallsAt(M) <=> i \in CallsAt(L)
  <2>1. ASSUME NEW i \in CallsAt(L) PROVE i \in CallsAt(M)
    BY <1>12, <1>15 DEF CallsAt
  <2>2. ASSUME NEW i \in CallsAt(M) PROVE i \in CallsAt(L)
    <3>1. i \in 1..Len(M) /\ M[i].kind = "call"
      BY DEF CallsAt
    <3>2. i \in 1..n
      BY <1>14, <1>16, <3>1
    <3> QED
      BY <1>12, <3>1, <3>2 DEF CallsAt, n
  <2> QED
    BY <2>1, <2>2
<1>18. \A i \in ResultsAt(L) : i \in ResultsAt(M)
  BY <1>12, <1>15 DEF ResultsAt
<1>19. \A i \in 1..m : n + i \in ResultsAt(M)
  BY <1>13, <1>16 DEF ResultsAt
<1>20. ASSUME NEW i \in ResultsAt(M) PROVE i \in ResultsAt(L) \/ \E j \in 1..m : i = n + j
  <2>1. i \in 1..Len(M) /\ M[i].kind = "result"
    BY DEF ResultsAt
  <2>2. CASE i \in 1..n
    BY <1>12, <2>1, <2>2 DEF ResultsAt, n
  <2> QED
    BY <1>14, <2>1, <2>2
<1>21. /\ \A i \in CallsAt(L) : M[i] = L[i]
       /\ \A i \in ResultsAt(L) : M[i] = L[i]
  BY <1>12, <1>15
<1>22. \A i \in 1..m : f[i] \in Called(L) /\ f[i] \notin Answered(L)
  BY <1>5 DEF calls, Open
<1>23. \A i, j \in CallsAt(M) : M[i].of = M[j].of => i = j
  BY <1>2, <1>17, <1>21 DEF Paired
<1>24. \A i, j \in ResultsAt(M) : M[i].of = M[j].of => i = j
  <2>1. \A i, j \in ResultsAt(L) : M[i].of = M[j].of => i = j
    BY <1>2, <1>21 DEF Paired
  <2>2. \A i \in ResultsAt(L), j \in 1..m : M[i].of # M[n + j].of
    BY <1>16, <1>21, <1>22 DEF Answered
  <2>3. \A i, j \in 1..m : M[n + i].of = M[n + j].of => i = j
    BY <1>5, <1>16
  <2> QED
    BY <1>20, <2>1, <2>2, <2>3
<1>25. ASSUME NEW j \in ResultsAt(M)
       PROVE  M[j] = ToolResult(M[j].of) /\ \E i \in CallsAt(M) : i < j /\ M[i].of = M[j].of
  <2>1. CASE j \in ResultsAt(L)
    <3>1. L[j] = ToolResult(L[j].of) /\ \E i \in CallsAt(L) : i < j /\ L[i].of = L[j].of
      BY <1>2, <2>1 DEF Paired
    <3> QED
      BY <1>17, <1>21, <2>1, <3>1
  <2>2. ASSUME NEW k \in 1..m, j = n + k
        PROVE  M[j] = ToolResult(M[j].of) /\ \E i \in CallsAt(M) : i < j /\ M[i].of = M[j].of
    <3>1. M[j] = ToolResult(f[k]) /\ M[j].of = f[k]
      BY <1>13, <1>16, <2>2
    <3>2. PICK i \in CallsAt(L) : L[i].of = f[k]
      BY <1>22 DEF Called
    <3>3. i \in 1..n /\ k \in 1..m
      BY <1>15
    <3>4. i < j
      BY <1>2, <1>4, <2>2, <3>3
    <3> QED
      BY <1>17, <1>21, <3>1, <3>2, <3>4
  <2> QED
    BY <1>20, <2>1, <2>2
<1>26. Paired(M)
  BY <1>23, <1>24, <1>25 DEF Paired
<1>27. Called(M) = Called(L)
  BY <1>17, <1>21 DEF Called
<1>28. Open(M) = {}
  <2> SUFFICES ASSUME NEW c \in Called(L) PROVE c \in Answered(M)
    BY <1>27 DEF Open
  <2>1. CASE c \in Answered(L)
    BY <1>18, <1>21, <2>1 DEF Answered
  <2>2. CASE c \notin Answered(L)
    <3>1. PICK i \in 1..m : f[i] = c
      BY <1>9, <2>2 DEF calls, Open
    <3> QED
      BY <1>16, <1>19, <3>1 DEF Answered
  <2> QED
    BY <2>1, <2>2
<1> QED
  BY <1>6, <1>11, <1>26, <1>27, <1>28 DEF M, L

\* The tasks that exist are the same, and no call is recorded.
LEMMA TasksStay ==
    ASSUME TaskInv, Called(transcript') \subseteq Called(transcript),
           \A k \in Request \X Call : (tool'[k].status = "absent") = (tool[k].status = "absent")
    PROVE  TaskInv'
<1>1. \A r \in Request, c \in Call : (tool'[r, c].status = "absent") = (tool[r, c].status = "absent")
  OBVIOUS
<1> QED
  BY <1>1 DEF TaskInv

\* A step that leaves the transcript and what the run knows of its calls.
SameCalls ==
    /\ run'.batch = run.batch /\ run'.issued = run.issued /\ run'.of = run.of
    /\ run'.flight \subseteq run'.issued
    /\ run.broken => run'.broken

\* Nothing is recorded that is a call or a result.
SameRecords ==
    /\ Paired(transcript')
    /\ Called(transcript') = Called(transcript) /\ Open(transcript') = Open(transcript)

LEMMA OpenStay ==
    ASSUME OpenCalls, SameCalls, SameRecords, host \in Busy, host # "start", host' # "start",
           host' \in {"stream", "steer", "steered"} =>
                 run.issued = {} \/ host \in {"stream", "steer", "steered"}
    PROVE  OpenCalls'
BY DEF OpenCalls, SameCalls, SameRecords

LEMMA AnswerRecords ==
    ASSUME TypeOK, Paired(transcript), transcript' = transcript \o Answer
    PROVE  SameRecords
<1>1. transcript \in Seq(RecordType) /\ run.partial \in SUBSET Chunk
  BY DEF TypeOK, RunType
<1>2. CASE Answer = <<>>
  BY <1>1, <1>2, NothingAdded DEF SameRecords
<1>3. CASE Answer = <<Assistant(run.partial)>>
  <2>1. Assistant(run.partial) \in RecordType
    BY <1>1, RecordTypes
  <2>2. Append(transcript, Assistant(run.partial)) = transcript \o <<Assistant(run.partial)>>
    BY <1>1, <2>1, AppendIsConcat
  <2> QED
    BY <1>1, <1>3, <2>1, <2>2, AppendOther, RecordKinds DEF SameRecords
<1> QED
  BY <1>2, <1>3 DEF Answer

LEMMA RecordedTasks ==
    ASSUME HostType, run.of \in Request, NEW c \in Call, tool[run.of, c].status # "absent",
           NEW statuses \in SUBSET Over, RecordResult(c, statuses)
    PROVE  \A k \in Request \X Call : (tool'[k].status = "absent") = (tool[k].status = "absent")
<1>1. CASE run.broken
  BY <1>1 DEF RecordResult
<1>2. CASE ~run.broken
  <2>1. PICK s \in Over : tool' = [tool EXCEPT ![<<run.of, c>>].status = s]
    BY <1>2 DEF RecordResult, Over
  <2>2. s # "absent"
    BY DEF Over
  <2>3. \A k \in Request \X Call :
           tool'[k] = IF k = <<run.of, c>> THEN [tool[k] EXCEPT !.status = s] ELSE tool[k]
    BY <2>1 DEF HostType
  <2>4. \A k \in Request \X Call : tool[k] \in Tool
    BY DEF HostType
  <2> QED
    BY <2>2, <2>3, <2>4 DEF Tool
<1> QED
  BY <1>1, <1>2

\* The steps of the run that deal with no call.
LEMMA StreamPairs ==
    ASSUME HostType, TypeOK, PairInv,
           \/ Stop \/ BreakSession \/ Stream \/ Publish \/ EndResponse \/ CutResponse
           \/ SteerResponse \/ Steer \/ Continue \/ EndBatch
    PROVE  PairInv'
<1>1. /\ transcript \in Seq(RecordType) /\ Paired(transcript) /\ TaskInv /\ OpenCalls
      /\ run \in RunShape
  BY DEF TypeOK, PairInv, HostType
<1>2. host \in Busy /\ host # "start" /\ host' # "start"
  BY DEF Stop, BreakSession, Stream, Publish, EndResponse, CutResponse, SteerResponse, Steer,
         Continue, EndBatch, Busy
<1>3. run.of \in Request /\ run.flight \subseteq run.issued
  BY <1>1, <1>2 DEF HostType, OpenCalls
<1>4. tool' = tool
  BY DEF Stop, BreakSession, Stream, Publish, EndResponse, CutResponse, SteerResponse, Steer,
         Continue, EndBatch, journal
<1>5. SameRecords
  <2>1. CASE Stop \/ BreakSession \/ Stream \/ Publish \/ Continue \/ EndBatch
    BY <1>1, <2>1 DEF Stop, BreakSession, Stream, Publish, Continue, EndBatch, journal, SameRecords
  <2>2. CASE EndResponse \/ CutResponse \/ SteerResponse
    BY <1>1, <2>2, AnswerRecords DEF EndResponse, CutResponse, SteerResponse
  <2>3. CASE Steer
    <3>1. CASE transcript' = transcript
      BY <1>1, <3>1 DEF SameRecords
    <3>2. CASE transcript' = Append(transcript, Correction(run.of))
      <4>1. Correction(run.of) \in RecordType
        BY <1>3, RecordTypes
      <4> QED
        BY <1>1, <3>2, <4>1, AppendOther, RecordKinds DEF SameRecords
    <3> QED
      BY <2>3, <3>1, <3>2 DEF Steer
  <2> QED
    BY <2>1, <2>2, <2>3
<1>6. TaskInv'
  BY <1>1, <1>4, <1>5, TasksStay DEF SameRecords
<1>7. OpenCalls'
  <2>1. CASE EndResponse
    <3>1. PICK calls \in SUBSET CallIds[run.of] : run'.batch = calls
      BY <1>1, <2>1 DEF EndResponse, RunShape
    <3>2. /\ run'.of = run.of /\ run'.issued = run.issued /\ run'.flight = run.flight
          /\ run'.broken = run.broken
      BY <1>1, <2>1 DEF EndResponse, RunShape
    <3>3. host = "stream"
      BY <2>1 DEF EndResponse
    <3> QED
      BY <1>1, <1>2, <1>5, <3>1, <3>2, <3>3 DEF OpenCalls, SameRecords
  <2>2. CASE ~EndResponse
    <3>1. SameCalls
      BY <1>1, <1>3, <2>2 DEF Stop, BreakSession, Stream, Publish, CutResponse, SteerResponse,
             Steer, Continue, EndBatch, RunShape, SameCalls
    <3>2. host' \in {"stream", "steer", "steered"} =>
             run.issued = {} \/ host \in {"stream", "steer", "steered"}
      BY <2>2 DEF Stop, BreakSession, Stream, Publish, CutResponse, SteerResponse, Steer, Continue,
             EndBatch
    <3> QED
      BY <1>1, <1>2, <1>5, <3>1, <3>2, OpenStay
  <2> QED
    BY <2>1, <2>2
<1> QED
  BY <1>5, <1>6, <1>7 DEF PairInv, SameRecords

LEMMA RecordCallPairs ==
    ASSUME UniqueIds, HostType, TypeOK, PairInv, NEW c \in Call, RecordCall(c)
    PROVE  PairInv'
<1>1. /\ transcript \in Seq(RecordType) /\ Paired(transcript) /\ TaskInv /\ OpenCalls
      /\ run \in RunShape
  BY DEF TypeOK, PairInv, HostType
<1>2. host = "record" /\ host \in Busy /\ run.of \in Request /\ c \in run.batch
  BY DEF RecordCall, Busy, HostType
<1>3. run.flight \subseteq run.issued /\ c \in CallIds[run.of]
  BY <1>1, <1>2 DEF OpenCalls
<1>4. CASE MayCall(c) /\ ~run.broken
  <2>1. /\ transcript' = Append(transcript, ToolCall(c))
        /\ tool' = [tool EXCEPT ![<<run.of, c>>] = [status |-> "running", abort |-> FALSE]]
        /\ host' \in {"tools", "record"}
    BY <1>4 DEF RecordCall
  <2>2. /\ run'.of = run.of /\ run'.batch = run.batch \ {c} /\ run'.issued = run.issued \cup {c}
        /\ run'.flight = run.flight /\ run'.broken = run.broken
    BY <1>1, <1>4 DEF RecordCall, RunShape
  <2>3. c \notin Called(transcript)
    <3> SUFFICES ASSUME c \in Called(transcript) PROVE FALSE
      OBVIOUS
    <3>1. PICK r \in Request : tool[r, c].status # "absent"
      BY <1>1 DEF TaskInv
    <3>2. c \in CallIds[r]
      BY <1>1, <3>1 DEF TaskInv
    <3>3. r = run.of
      BY <1>2, <1>3, <3>2 DEF UniqueIds
    <3> QED
      BY <1>4, <3>1, <3>3 DEF MayCall
  <2>4. /\ Paired(transcript')
        /\ Called(transcript') = Called(transcript) \cup {c}
        /\ Open(transcript') = Open(transcript) \cup {c}
    BY <1>1, <2>1, <2>3, AppendCall
  <2>5. \A r \in Request, d \in Call :
           tool'[r, d] = IF r = run.of /\ d = c THEN [status |-> "running", abort |-> FALSE]
                         ELSE tool[r, d]
    BY <2>1 DEF HostType
  <2>6. TaskInv'
    <3>1. ASSUME NEW r \in Request, NEW d \in Call, tool'[r, d].status # "absent"
          PROVE  d \in CallIds[r]
      <4>1. CASE r = run.of /\ d = c
        BY <1>3, <4>1
      <4>2. CASE ~(r = run.of /\ d = c)
        <5>1. tool'[r, d] = tool[r, d]
          BY <2>5, <4>2
        <5> QED
          BY <1>1, <3>1, <5>1 DEF TaskInv
      <4> QED
        BY <4>1, <4>2
    <3>2. tool'[run.of, c].status # "absent"
      <4>1. tool'[run.of, c] = [status |-> "running", abort |-> FALSE]
        BY <1>2, <2>5
      <4>2. [status |-> "running", abort |-> FALSE].status # "absent"
        BY SMT
      <4> QED
        BY <4>1, <4>2
    <3>3. ASSUME NEW d \in Called(transcript')
          PROVE  d \in Call /\ \E r \in Request : tool'[r, d].status # "absent"
      <4>1. CASE d = c
        BY <1>2, <3>2, <4>1
      <4>2. CASE d # c
        <5>1. d \in Called(transcript)
          BY <2>4, <4>2
        <5>2. d \in Call
          BY <1>1, <5>1 DEF TaskInv
        <5>3. PICK r \in Request : tool[r, d].status # "absent"
          BY <1>1, <5>1 DEF TaskInv
        <5>4. tool'[r, d] = tool[r, d]
          BY <2>5, <4>2, <5>2
        <5> QED
          BY <5>2, <5>3, <5>4
      <4> QED
        BY <4>1, <4>2
    <3> QED
      BY <3>1, <3>3 DEF TaskInv
  <2>7. OpenCalls'
    BY <1>1, <1>2, <1>3, <1>4, <2>1, <2>2, <2>4 DEF OpenCalls, Busy
  <2> QED
    BY <2>4, <2>6, <2>7 DEF PairInv
<1>5. CASE ~(MayCall(c) /\ ~run.broken)
  <2>1. transcript' = transcript /\ tool' = tool /\ host' = "settle"
    BY <1>5 DEF RecordCall
  <2>2. SameCalls
    BY <1>1, <1>3, <1>5 DEF RecordCall, RunShape, SameCalls
  <2>3. SameRecords
    BY <1>1, <2>1 DEF SameRecords
  <2>4. OpenCalls'
    BY <1>1, <1>2, <2>1, <2>2, <2>3, OpenStay
  <2>5. TaskInv'
    BY <1>1, <2>1, TasksStay
  <2> QED
    BY <2>3, <2>4, <2>5 DEF PairInv, SameRecords
<1> QED
  BY <1>4, <1>5

\* A call that is dealt with gets its result, if records are accepted.
LEMMA ResultPairs ==
    ASSUME UniqueIds, HostType, TypeOK, PairInv, NEW c \in Call, FinishTool(c) \/ SkipTool(c)
    PROVE  PairInv'
<1>1. /\ transcript \in Seq(RecordType) /\ Paired(transcript) /\ TaskInv /\ OpenCalls
      /\ run \in RunShape
  BY DEF TypeOK, PairInv, HostType
<1>2. host = "tools" /\ host' = "tools" /\ host \in Busy /\ run.of \in Request
  BY DEF FinishTool, SkipTool, Busy, HostType
<1>3. c \in run.issued /\ run.flight \subseteq run.issued
  BY <1>1, <1>2 DEF OpenCalls, FinishTool, SkipTool
<1>4. c \in Open(transcript)
  BY <1>1, <1>2, <1>3 DEF OpenCalls
<1>5. \A i \in Index : transcript[i] # ToolResult(c)
  BY <1>4, RecordKinds DEF Open, Answered, ResultsAt, Index
<1>6. PICK statuses \in SUBSET Over : RecordResult(c, statuses)
  <2>1. {"completed", "failed"} \in SUBSET Over /\ {"completed"} \in SUBSET Over
    BY DEF Over
  <2> QED
    BY <1>5, <2>1 DEF FinishTool, SkipTool
<1>7. /\ run'.of = run.of /\ run'.batch = run.batch /\ run'.issued = run.issued \ {c}
      /\ run'.flight \subseteq run.flight \ {c} /\ run'.broken = run.broken
  BY <1>1 DEF FinishTool, SkipTool, RunShape
<1>8. TaskInv' /\ Paired(transcript') /\ run'.issued \subseteq Open(transcript')
      /\ (~run.broken => Open(transcript') = Open(transcript) \ {c})
  <2>1. tool[run.of, c].status # "absent"
    <3>1. c \in CallIds[run.of]
      BY <1>1, <1>2, <1>3 DEF OpenCalls
    <3>2. PICK r \in Request : tool[r, c].status # "absent"
      BY <1>1, <1>4 DEF TaskInv, Open
    <3>3. c \in CallIds[r]
      BY <1>1, <3>2 DEF TaskInv
    <3>4. r = run.of
      BY <1>2, <3>1, <3>3 DEF UniqueIds
    <3> QED
      BY <3>2, <3>4
  <2>2. \A k \in Request \X Call : (tool'[k].status = "absent") = (tool[k].status = "absent")
    BY <1>2, <1>6, <2>1, RecordedTasks
  <2>3. CASE run.broken
    <3>1. transcript' = transcript
      BY <1>6, <2>3 DEF RecordResult
    <3>2. run'.issued \subseteq Open(transcript')
      BY <1>1, <1>2, <1>7, <3>1 DEF OpenCalls
    <3> QED
      BY <1>1, <2>2, <2>3, <3>1, <3>2, TasksStay
  <2>4. CASE ~run.broken
    <3>1. transcript' = Append(transcript, ToolResult(c))
      BY <1>6, <2>4 DEF RecordResult
    <3>2. c \in Subject
      BY DEF Subject
    <3>3. /\ Paired(transcript') /\ Called(transcript') = Called(transcript)
          /\ Open(transcript') = Open(transcript) \ {c}
      BY <1>1, <1>4, <3>1, <3>2, AppendResult
    <3>4. run'.issued \subseteq Open(transcript')
      BY <1>1, <1>2, <1>7, <3>3 DEF OpenCalls
    <3> QED
      BY <1>1, <2>2, <3>3, <3>4, TasksStay
  <2> QED
    BY <2>3, <2>4
<1>9. OpenCalls'
  BY <1>1, <1>2, <1>3, <1>7, <1>8 DEF OpenCalls
<1> QED
  BY <1>8, <1>9 DEF PairInv

LEMMA NextPairs ==
    ASSUME UniqueIds, HostInv, TypeOK, PairInv, [Next]_vars
    PROVE  PairInv'
<1> USE DEF HostInv
<1>1. /\ transcript \in Seq(RecordType) /\ Paired(transcript) /\ TaskInv /\ OpenCalls
      /\ run \in RunShape
  BY DEF TypeOK, PairInv, HostType
<1>2. NoRun.batch = {} /\ NoRun.issued = {} /\ NoRun.flight = {}
  BY DEF NoRun
<1>3. ASSUME transcript' = transcript,
             \A k \in Request \X Call : (tool'[k].status = "absent") = (tool[k].status = "absent")
      PROVE  TaskInv'
  BY <1>1, <1>3, TasksStay
<1>4. CASE UNCHANGED vars
  BY <1>1, <1>4 DEF vars, journal, PairInv, TaskInv, OpenCalls
<1>5. CASE Crash \/ FailStart
  <2>1. transcript' = transcript /\ tool' = tool /\ host' \notin Busy
    BY <1>5 DEF Crash, FailStart, journal, Busy
  <2> QED
    BY <1>1, <1>3, <2>1 DEF PairInv, OpenCalls
<1>6. CASE Recover
  <2>1. transcript' = transcript /\ host' \notin Busy
    BY <1>6 DEF Recover, Busy
  <2>2. tool' = [k \in Request \X Call |->
                   IF tool[k].status # "running" THEN tool[k]
                   ELSE [tool[k] EXCEPT !.status = IF tool[k].abort THEN "aborted" ELSE "failed"]]
    BY <1>6 DEF Recover
  <2>3. \A k \in Request \X Call : tool[k] \in Tool
    BY DEF HostType
  <2>4. \A k \in Request \X Call : (tool'[k].status = "absent") = (tool[k].status = "absent")
    BY <2>2, <2>3 DEF Tool
  <2> QED
    BY <1>1, <1>3, <2>1, <2>4 DEF PairInv, OpenCalls
<1>7. CASE Repair
  <2>1. PICK t \in Results(Unanswered) :
           transcript' = transcript \o t \o (IF LostText THEN <<Assistant(live.text)>> ELSE <<>>)
    BY <1>7 DEF Repair
  <2> DEFINE L == transcript \o t
             a == Assistant(live.text)
  <2>2. L \in Seq(RecordType) /\ Paired(L) /\ Called(L) = Called(transcript)
    BY <1>1, AnswerAll
  <2>3. a \in RecordType /\ a.kind = "assistant"
    BY RecordTypes, RecordKinds DEF TypeOK
  <2>4. transcript' = L \/ transcript' = Append(L, a)
    <3>1. L \o <<>> = L
      BY <2>2, ConcatEmptySeq
    <3>2. L \o <<a>> = Append(L, a)
      BY <2>2, <2>3, AppendIsConcat
    <3> QED
      BY <2>1, <3>1, <3>2
  <2> HIDE DEF L, a
  <2>5. Paired(transcript') /\ Called(transcript') = Called(transcript)
    BY <2>2, <2>3, <2>4, AppendOther
  <2>6. tool' = tool /\ host' \notin Busy
    BY <1>7 DEF Repair, Busy
  <2>7. TaskInv'
    BY <1>1, <2>5, <2>6, TasksStay
  <2> QED
    BY <2>5, <2>6, <2>7 DEF PairInv, OpenCalls
<1>8. ASSUME NEW r \in Request, Submit(r) PROVE PairInv'
  <2>1. transcript' = transcript /\ tool' = tool /\ host' = host /\ run' = run
    BY <1>8 DEF Submit
  <2> QED
    BY <1>1, <2>1 DEF PairInv, TaskInv, OpenCalls
<1>9. ASSUME NEW r \in Request, Admit(r) PROVE PairInv'
  <2>1. transcript' = transcript \o Admission(r) /\ tool' = tool /\ host' = "start"
    BY <1>9 DEF Admit
  <2>2. run'.batch = {} /\ run'.issued = {} /\ run'.flight = {}
    BY <1>9 DEF Admit, NoRun
  <2>3. User(r) \in RecordType /\ User(r).kind = "user"
    BY RecordTypes, RecordKinds
  <2>4. transcript' = transcript \/ transcript' = Append(transcript, User(r))
    <3>1. transcript \o <<>> = transcript
      BY <1>1, ConcatEmptySeq
    <3>2. transcript \o <<User(r)>> = Append(transcript, User(r))
      BY <1>1, <2>3, AppendIsConcat
    <3> QED
      BY <2>1, <3>1, <3>2 DEF Admission
  <2>5. Paired(transcript') /\ Called(transcript') = Called(transcript)
    BY <1>1, <2>3, <2>4, AppendOther
  <2>6. TaskInv'
    BY <1>1, <2>1, <2>5, TasksStay
  <2>7. OpenCalls'
    BY <2>1, <2>2 DEF OpenCalls
  <2> QED
    BY <2>5, <2>6, <2>7 DEF PairInv
<1>10. ASSUME NEW r \in Request, Abort(r) PROVE PairInv'
  <2>1. transcript' = transcript /\ host' = host /\ run' = run
    BY <1>10 DEF Abort
  <2>2. \A k \in Request \X Call : tool'[k].status = tool[k].status
    BY <1>10, AbortEffect
  <2> QED
    BY <1>1, <1>3, <2>1, <2>2 DEF PairInv, OpenCalls
<1>11. ASSUME NEW r \in Request, NEW c \in Call, AbortTool(r, c) PROVE PairInv'
  <2>1. transcript' = transcript /\ host' = host /\ run' = run
    BY <1>11 DEF AbortTool
  <2>2. tool' = [tool EXCEPT ![<<r, c>>].abort = TRUE]
    BY <1>11 DEF AbortTool
  <2>3. \A k \in Request \X Call :
           tool'[k] = IF k = <<r, c>> THEN [tool[k] EXCEPT !.abort = TRUE] ELSE tool[k]
    BY <2>2 DEF HostType
  <2>4. \A k \in Request \X Call : tool[k] \in Tool
    BY DEF HostType
  <2>5. \A k \in Request \X Call : tool'[k].status = tool[k].status
    BY <2>3, <2>4 DEF Tool
  <2> QED
    BY <1>1, <1>3, <2>1, <2>5 DEF PairInv, OpenCalls
<1>12. CASE Reset
  <2>1. transcript' = <<>> /\ tool' = tool /\ host' \notin Busy /\ Len(transcript') = 0
    BY <1>12, EmptySeq, Zenon DEF Reset, Busy
  <2>2. CallsAt(transcript') = {} /\ ResultsAt(transcript') = {}
    BY <2>1 DEF CallsAt, ResultsAt
  <2>3. Paired(transcript') /\ Called(transcript') = {}
    BY <2>2 DEF Paired, Called
  <2>4. TaskInv'
    BY <1>1, <2>1, <2>3, TasksStay
  <2> QED
    BY <2>1, <2>3, <2>4 DEF PairInv, OpenCalls
<1>13. CASE OpenSession
  <2>1. PICK t \in Results(Unanswered) : transcript' = transcript \o t
    BY <1>13 DEF OpenSession
  <2>2. /\ Paired(transcript') /\ Called(transcript') = Called(transcript)
        /\ Open(transcript') = {}
    BY <1>1, <2>1, AnswerAll
  <2>3. tool' = tool /\ run' = run /\ host = "start" /\ host' = "stream"
    BY <1>13 DEF OpenSession
  <2>4. TaskInv'
    BY <1>1, <2>2, <2>3, TasksStay
  <2>5. OpenCalls'
    BY <1>1, <2>2, <2>3 DEF OpenCalls, Busy
  <2> QED
    BY <2>2, <2>4, <2>5 DEF PairInv
<1>14. CASE \/ Stop \/ BreakSession \/ Stream \/ Publish \/ EndResponse \/ CutResponse
            \/ SteerResponse \/ Steer \/ Continue \/ EndBatch
  BY <1>14, StreamPairs
<1>15. ASSUME NEW c \in Call, RecordCall(c) PROVE PairInv'
  BY <1>15, RecordCallPairs
<1>16. ASSUME NEW c \in Call, Execute(c) PROVE PairInv'
  <2>1. transcript' = transcript /\ tool' = tool /\ host' = host /\ host = "tools"
    BY <1>16 DEF Execute, journal
  <2>2. SameCalls
    <3>1. host \in Busy
      BY <2>1 DEF Busy
    <3>2. run.flight \subseteq run.issued /\ c \in run.issued
      BY <1>1, <1>16, <3>1 DEF Execute, OpenCalls
    <3> QED
      BY <1>1, <1>16, <3>2 DEF Execute, RunShape, SameCalls
  <2>3. SameRecords
    BY <1>1, <2>1 DEF SameRecords
  <2>4. OpenCalls'
    BY <1>1, <2>1, <2>2, <2>3, OpenStay DEF Busy
  <2> QED
    BY <1>1, <1>3, <2>1, <2>4 DEF PairInv
<1>17. ASSUME NEW c \in Call, FinishTool(c) \/ SkipTool(c) PROVE PairInv'
  BY <1>17, ResultPairs
<1>18. CASE Finish
  <2>1. transcript' = transcript /\ host' \notin Busy
    BY <1>18 DEF Finish, Busy
  <2>2. \A k \in Request \X Call : tool'[k].status = tool[k].status
    BY <1>18, FinishEffect
  <2> QED
    BY <1>1, <1>3, <2>1, <2>2 DEF PairInv, OpenCalls
<1> QED
  BY <1>4, <1>5, <1>6, <1>7, <1>8, <1>9, <1>10, <1>11, <1>12, <1>13, <1>14, <1>15, <1>16, <1>17,
     <1>18 DEF Next, Client, Tools

\* In the transcript that the provider is sent, each call of an earlier turn is
\* followed by exactly one result, whatever a crash left open: Host::open and
\* Session::open answer all of it, and a run deals with each call it records.
\* The provider must not give one ID to two generations.
THEOREM TranscriptAlwaysPaired ==
    ASSUME UniqueIds
    PROVE  Spec => []TranscriptPaired
<1>1. Init => PairInv
  <2> SUFFICES ASSUME Init PROVE PairInv
    OBVIOUS
  <2>1. transcript = <<>> /\ Len(transcript) = 0 /\ host \notin Busy
    BY EmptySeq, Zenon DEF Init, Busy
  <2>2. CallsAt(transcript) = {} /\ ResultsAt(transcript) = {}
    BY <2>1 DEF CallsAt, ResultsAt
  <2>3. Paired(transcript) /\ Called(transcript) = {}
    BY <2>2 DEF Paired, Called
  <2>4. \A k \in Request \X Call : tool[k].status = "absent"
    BY DEF Init
  <2>5. \A r \in Request, c \in Call : tool[r, c].status = "absent"
    BY <2>4
  <2> QED
    BY <2>1, <2>3, <2>5 DEF PairInv, TaskInv, OpenCalls
<1>2. HostInv /\ TypeOK /\ PairInv /\ [Next]_vars => PairInv'
  BY NextPairs
<1>3. TypeOK /\ PairInv => TranscriptPaired
  <2> SUFFICES ASSUME TypeOK, PairInv, host = "stream", ~run.broken,
                      NEW i \in Index, IsA(i, "call")
               PROVE  Cardinality(ResultsOf(i)) = 1
    BY DEF TranscriptPaired
  <2>1. Open(transcript) = {}
    BY DEF PairInv, OpenCalls, Busy
  <2>2. i \in CallsAt(transcript) /\ Paired(transcript) /\ Len(transcript) \in Nat
    BY DEF CallsAt, Index, IsA, PairInv, TypeOK
  <2>3. PICK j \in ResultsAt(transcript) : transcript[j].of = transcript[i].of
    BY <2>1, <2>2 DEF Open, Called, Answered
  <2>4. i < j /\ transcript[j] = ToolResult(transcript[i].of)
    BY <2>2, <2>3 DEF Paired
  <2>5. j \in ResultsOf(i)
    <3>1. ASSUME NEW m \in i+1..j PROVE transcript[m] # transcript[i]
      <4> SUFFICES ASSUME transcript[m] = transcript[i] PROVE FALSE
        OBVIOUS
      <4>1. i \in 1..Len(transcript) /\ j \in 1..Len(transcript)
        BY <2>2, <2>3 DEF CallsAt, ResultsAt
      <4>2. m \in 1..Len(transcript) /\ m # i
        BY <2>2, <4>1
      <4>3. m \in CallsAt(transcript)
        BY <2>2, <4>2 DEF CallsAt
      <4> QED
        BY <2>2, <4>2, <4>3 DEF Paired
    <3> QED
      BY <2>3, <2>4, <3>1 DEF ResultsOf, ResultsAt, Index
  <2>6. ASSUME NEW k \in ResultsOf(i) PROVE k = j
    <3>1. k \in ResultsAt(transcript) /\ transcript[k].of = transcript[i].of
      BY RecordKinds DEF ResultsOf, ResultsAt, Index
    <3> QED
      BY <2>2, <2>3, <3>1 DEF Paired
  <2>7. ResultsOf(i) = {j}
    BY <2>5, <2>6
  <2> QED
    BY <2>7, FS_Singleton
<1> QED
  BY <1>1, <1>2, <1>3, HostInvHolds, TypeCorrect, PTL DEF Spec
=============================================================================
