--------------------------------- MODULE Agent ---------------------------------
(***************************************************************************)
(* One conversation with an AI agent (internal/agent). A request writes an *)
(* empty answer and starts a generation, detached from it, that fills the  *)
(* answer; a member may stop it, ask again, delete the thread or just look *)
(* on; streams refetch the thread when they are woken. Statements fail,    *)
(* clients leave and the process dies in between.                          *)
(***************************************************************************)
EXTENDS Integers, Sequences, FiniteSets

CONSTANTS
  Requests,  \* goroutines that serve PostSend, PostRegenerate, PostDelete
  Viewers,   \* goroutines that serve GetStream
  MaxRows,   \* bound: answers of the thread
  MaxRuns,   \* bound: generations
  MaxFaults  \* bound: statements and lookups that fail, and restarts, together

ASSUME AgentConstants ==
  /\ IsFiniteSet(Requests)
  /\ MaxRows \in Nat \ {0} /\ MaxRuns \in Nat /\ MaxFaults \in Nat

VARIABLES
  gone,     \* the thread is deleted
  rows,     \* its assistant rows of ai_messages, by order of insertion
  made,     \* rows inserted so far
  runs,     \* the generations so far
  active,   \* Runner.active: the generation of this thread, 0 for none
  req,      \* what each request is about to do
  viewer,   \* the SSE streams with their Bus subscriptions
  faults,   \* faults so far
  orphaned, \* history: generating rows that a request or a generation gave up
  stopped   \* history: generations stopped before their last turn had ended

vars == <<gone, rows, made, runs, active, req, viewer, faults, orphaned, stopped>>

RowIds   == 1 .. MaxRows
RunIds   == 1 .. MaxRuns
Statuses == {"generating", "done", "interrupted", "error"}
\* by: the generation whose text the row holds.
Row == [status : Statuses, by : RunIds \cup {0}]
\* end: the status that the last flush will write.
Run == [row : RowIds, step : {"turn", "tools", "finish", "close", "over"},
        end : Statuses, cancelled : BOOLEAN]
Request == [step : {"idle", "insert", "pick", "reset", "start", "delete"},
            row : RowIds \cup {0}]
\* fresh: the browser shows the rows as they are; missed: the last read failed.
Viewer  == [step : {"off", "read", "wait"}, ping : BOOLEAN, fresh : BOOLEAN, missed : BOOLEAN]

Idle == [step |-> "idle", row |-> 0]
Off  == [step |-> "off", ping |-> FALSE, fresh |-> FALSE, missed |-> FALSE]
\* What is left of a generation that has ended.
Over(m) == [row |-> m, step |-> "over", end |-> "generating", cancelled |-> FALSE]

TypeOK ==
  /\ gone \in BOOLEAN /\ (gone => DOMAIN rows = {})
  /\ made \in 0 .. MaxRows
  /\ DOMAIN rows \subseteq 1 .. made /\ \A m \in DOMAIN rows : rows[m] \in Row
  /\ runs \in Seq(Run) /\ Len(runs) <= MaxRuns
  /\ active \in 0 .. Len(runs)
  /\ req \in [Requests -> Request]
  /\ \A q \in Requests : req[q].step \in {"reset", "start"} => req[q].row \in 1 .. made
  /\ viewer \in [Viewers -> Viewer]
  /\ faults \in 0 .. MaxFaults
  /\ orphaned \subseteq DOMAIN rows
  /\ stopped \subseteq DOMAIN runs

Init ==
  /\ gone = FALSE /\ rows = [m \in {} |-> 0] /\ made = 0
  /\ runs = <<>> /\ active = 0
  /\ req = [q \in Requests |-> Idle]
  /\ viewer = [v \in Viewers |-> Off]
  /\ faults = 0 /\ orphaned = {} /\ stopped = {}

Fault == faults < MaxFaults /\ faults' = faults + 1
Well  == UNCHANGED faults

table == <<gone, rows, made, orphaned>>
IsRunning == active # 0
View == [m \in DOMAIN rows |-> rows[m].status]

\* What a step on the rows does to the streams.
Streams(told) ==
  viewer' = [v \in Viewers |->
               IF viewer[v].step = "off" THEN Off
               ELSE [viewer[v] EXCEPT !.ping = @ \/ told, !.fresh = @ /\ View' = View]]

\* Bus.Broadcast: a subscriber that is already woken stays so.
Broadcast == Streams(TRUE)
Silence   == Streams(FALSE)

Goto(q, s) == req' = [req EXCEPT ![q].step = s]
End(q)     == req' = [req EXCEPT ![q] = Idle]

-----------------------------------------------------------------------------
(* Requests. A client that leaves cancels the statement its request is at. *)

\* The requests that may yet start a generation, within the bound.
Asking == {q \in Requests : req[q].step \in {"insert", "pick", "reset", "start"}}
Spare  == Len(runs) + Cardinality(Asking) < MaxRuns
Inserting == {q \in Requests : req[q].step = "insert"}

\* The thread is loaded and IsRunning is asked before anything is written.
PostSend(q) ==
  /\ req[q] = Idle /\ ~gone /\ ~IsRunning /\ Spare
  /\ made + Cardinality(Inserting) < MaxRows
  /\ Goto(q, "insert")
  /\ Well /\ UNCHANGED <<table, runs, active, viewer, stopped>>

\* Mutant: a message is written to a thread that is gone.
PlaceholderStray ==
  /\ made' = made + 1
  /\ rows' = [m \in DOMAIN rows \cup {made + 1} |->
                IF m = made + 1 THEN [status |-> "generating", by |-> 0] ELSE rows[m]]

\* The user's message and the empty answer; the foreign key wants the thread.
Placeholder ==
  /\ ~gone
  /\ made' = made + 1
  /\ rows' = [m \in DOMAIN rows \cup {made + 1} |->
                IF m = made + 1 THEN [status |-> "generating", by |-> 0] ELSE rows[m]]

\* Service.Send and the broadcast after it; what fails before the placeholder
\* leaves nothing, what fails after it leaves a placeholder nobody will fill.
Insert(q) ==
  /\ req[q].step = "insert"
  /\ \/ /\ Placeholder
        /\ req' = [req EXCEPT ![q] = [step |-> "start", row |-> made + 1]]
        /\ Broadcast
        /\ Well /\ UNCHANGED orphaned
     \/ /\ Fault /\ Placeholder
        /\ orphaned' = orphaned \cup {made + 1}
        /\ End(q)
        /\ Silence
     \/ /\ Fault \/ (gone /\ Well)
        /\ End(q)
        /\ UNCHANGED <<rows, made, orphaned, viewer>>
  /\ UNCHANGED <<gone, runs, active, stopped>>

PostRegenerate(q) ==
  /\ req[q] = Idle /\ ~gone /\ ~IsRunning /\ Spare
  /\ Goto(q, "pick")
  /\ Well /\ UNCHANGED <<table, runs, active, viewer, stopped>>

\* Service.Regenerate reads the thread and takes its last answer. (The order of two
\* answers of one second is that of their random ids; here it is that of insertion.)
PickAnswer(q) ==
  /\ req[q].step = "pick"
  /\ \/ \E m \in DOMAIN rows :
          /\ \A n \in DOMAIN rows : n <= m
          /\ req' = [req EXCEPT ![q] = [step |-> "reset", row |-> m]]
          /\ Well
     \/ (Fault \/ (DOMAIN rows = {} /\ Well)) /\ End(q)
  /\ UNCHANGED <<table, runs, active, viewer, stopped>>

\* ... and empties it, without a broadcast.
ResetAnswer(q) ==
  /\ req[q].step = "reset"
  /\ \/ /\ rows' = [m \in DOMAIN rows |->
                      IF m = req[q].row
                      THEN [rows[m] EXCEPT !.status = "generating", !.by = 0] ELSE rows[m]]
        /\ Goto(q, "start")
        /\ Well
     \/ Fault /\ End(q) /\ UNCHANGED rows
  /\ Silence
  /\ UNCHANGED <<gone, made, runs, active, orphaned, stopped>>

\* Mutant: IsRunning was asked before.
MayStartAlways == TRUE

\* Runner.Start looks again, under the lock that registers the generation.
MayStart == active = 0

\* It refuses too when no provider can be resolved.
Start(q) ==
  /\ req[q].step = "start"
  /\ \/ /\ MayStart
        /\ runs' = Append(runs, [row |-> req[q].row, step |-> "turn", end |-> "generating",
                                 cancelled |-> FALSE])
        /\ active' = Len(runs) + 1
        /\ orphaned' = orphaned \ {req[q].row}
        /\ Well
     \/ /\ Fault \/ (~MayStart /\ Well)
        /\ orphaned' = orphaned \cup ({req[q].row} \cap DOMAIN rows)
        /\ UNCHANGED <<runs, active>>
  /\ End(q)
  /\ UNCHANGED <<gone, rows, made, viewer, stopped>>

\* Mutant: a generation that is stopped no longer counts as running.
AfterStopFree == 0

\* Runner.Stop cancels the context; the entry stays until the generation ends.
AfterStop == active

Cancel ==
  /\ runs' = [g \in DOMAIN runs |-> IF g = active THEN [runs[g] EXCEPT !.cancelled = TRUE]
                                    ELSE runs[g]]
  /\ stopped' = stopped \cup {g \in DOMAIN runs : g = active /\ runs[g].step \in {"turn", "tools"}}
  /\ active' = AfterStop

PostStop ==
  /\ ~gone /\ IsRunning
  /\ Cancel
  /\ Well /\ UNCHANGED <<table, req, viewer>>

\* Stop, then the row of the thread, with which its messages go.
PostDelete(q) ==
  /\ req[q] = Idle /\ ~gone
  /\ Cancel
  /\ Goto(q, "delete")
  /\ Well /\ UNCHANGED <<table, viewer>>

DeleteThread(q) ==
  /\ req[q].step = "delete"
  /\ \/ Well /\ gone' = TRUE /\ rows' = [m \in {} |-> 0] /\ orphaned' = {}
     \/ Fault /\ UNCHANGED <<gone, rows, orphaned>>
  /\ End(q)
  /\ Silence
  /\ UNCHANGED <<made, runs, active, stopped>>

-----------------------------------------------------------------------------
(* Generations.                                                            *)

\* UpdateAssistantBody: no row is found once the thread is gone.
Write(g, s) ==
  rows' = [m \in DOMAIN rows |-> IF m = runs[g].row
                                 THEN [rows[m] EXCEPT !.status = s, !.by = g] ELSE rows[m]]

Move(g, s) == runs' = [runs EXCEPT ![g].step = s]

\* The ticker flushes what has come in; a flush that fails is logged.
Flush(g) ==
  /\ runs[g].step = "turn"
  /\ (Write(g, "generating") /\ Well) \/ (UNCHANGED rows /\ Fault)
  /\ Broadcast
  /\ UNCHANGED <<gone, made, runs, active, req, orphaned, stopped>>

\* Mutant: the error of the turn is looked at before the context.
OutcomesErrorFirst(g) == {"error", "done"}

\* A stopped turn is interrupted, whatever the provider returned.
Outcomes(g) == IF runs[g].cancelled THEN {"interrupted"} ELSE {"error", "done"}

\* The provider returns: with an error, an answer or calls of tools.
TurnEnd(g) ==
  /\ runs[g].step = "turn"
  /\ \/ \E s \in Outcomes(g) : runs' = [runs EXCEPT ![g].step = "finish", ![g].end = s]
     \/ ~runs[g].cancelled /\ Move(g, "tools")
  /\ Well /\ UNCHANGED <<table, active, req, viewer, stopped>>

\* The tools have run: their trace is flushed and the next turn begins.
CallTools(g) ==
  /\ runs[g].step = "tools"
  /\ (Write(g, "generating") /\ Well) \/ (UNCHANGED rows /\ Fault)
  /\ Move(g, "turn")
  /\ Broadcast
  /\ UNCHANGED <<gone, made, active, req, orphaned, stopped>>

\* Mutant: the streams are not told of the last flush.
LastWakeDropped == Silence

LastWake == Broadcast

\* The last flush: a row it does not reach stays generating.
Finish(g) ==
  /\ runs[g].step = "finish"
  /\ \/ Well /\ Write(g, runs[g].end) /\ orphaned' = orphaned \ {runs[g].row}
     \/ Fault /\ UNCHANGED rows /\ orphaned' = orphaned \cup ({runs[g].row} \cap DOMAIN rows)
  /\ Move(g, "close")
  /\ LastWake
  /\ UNCHANGED <<gone, made, active, req, stopped>>

\* The deferred calls: the tools are closed and the entry goes.
Close(g) ==
  /\ runs[g].step = "close"
  /\ runs' = [runs EXCEPT ![g] = Over(@.row)]
  /\ active' = 0
  /\ Well /\ UNCHANGED <<table, req, viewer, stopped>>

-----------------------------------------------------------------------------
(* Streams.                                                                *)

\* The subscription comes before the first read.
Connect(v) ==
  /\ viewer[v] = Off /\ ~gone
  /\ viewer' = [viewer EXCEPT ![v].step = "read"]
  /\ Well /\ UNCHANGED <<table, runs, active, req, stopped>>

\* streamMorph reads the thread and sends it; a read that fails is passed over until
\* the next wake.
Morph(v) ==
  /\ viewer[v].step = "read"
  /\ \/ /\ viewer' = [viewer EXCEPT ![v].step = "wait", ![v].fresh = TRUE, ![v].missed = FALSE]
        /\ Well
     \/ Fault /\ viewer' = [viewer EXCEPT ![v].step = "wait", ![v].missed = TRUE]
  /\ UNCHANGED <<table, runs, active, req, stopped>>

\* Woken by the bus, or by the resync ticker while a generation is in flight.
Wake(v) ==
  /\ viewer[v].step = "wait"
  /\ \/ viewer[v].ping /\ viewer' = [viewer EXCEPT ![v].step = "read", ![v].ping = FALSE]
     \/ IsRunning /\ viewer' = [viewer EXCEPT ![v].step = "read"]
  /\ Well /\ UNCHANGED <<table, runs, active, req, stopped>>

Disconnect(v) ==
  /\ viewer[v].step # "off"
  /\ viewer' = [viewer EXCEPT ![v] = Off]
  /\ Well /\ UNCHANGED <<table, runs, active, req, stopped>>

-----------------------------------------------------------------------------

Unfinished == {m \in DOMAIN rows : rows[m].status = "generating"}

\* Mutant: what the dead process was writing stays as it is.
HealedNone == rows

\* MarkGeneratingInterrupted
Healed == [m \in DOMAIN rows |-> IF m \in Unfinished
                                 THEN [rows[m] EXCEPT !.status = "interrupted"] ELSE rows[m]]

\* The process dies and starts again; a boot whose statement fails goes on.
Restart ==
  /\ Fault
  /\ \/ rows' = Healed /\ orphaned' = {}
     \/ UNCHANGED rows /\ orphaned' = Unfinished
  /\ runs' = [g \in DOMAIN runs |-> Over(runs[g].row)]
  /\ active' = 0
  /\ req' = [q \in Requests |-> Idle]
  /\ viewer' = [v \in Viewers |-> Off]
  /\ UNCHANGED <<gone, made, stopped>>

Serve(q) == Insert(q) \/ PickAnswer(q) \/ ResetAnswer(q) \/ Start(q) \/ DeleteThread(q)
Ask(q)   == PostSend(q) \/ PostRegenerate(q) \/ PostDelete(q)
\* What a generation does without its provider or its tools.
Settle(g) == (runs[g].cancelled /\ (TurnEnd(g) \/ CallTools(g))) \/ Finish(g) \/ Close(g)
Watch(v) == Morph(v) \/ Wake(v)

Next ==
  \/ \E q \in Requests : Serve(q) \/ Ask(q)
  \/ PostStop
  \/ \E g \in DOMAIN runs : Flush(g) \/ TurnEnd(g) \/ CallTools(g) \/ Finish(g) \/ Close(g)
  \/ \E v \in Viewers : Connect(v) \/ Watch(v) \/ Disconnect(v)
  \/ Restart

Spec == Init /\ [][Next]_vars

\* Goroutines run on and tickers fire; a provider or a tool may hang until the
\* generation is stopped, so only a stopped turn must end.
FairSpec ==
  /\ Spec
  /\ \A q \in Requests : WF_vars(Serve(q))
  /\ \A g \in RunIds : WF_vars(g \in DOMAIN runs /\ Settle(g))
  /\ \A v \in Viewers : WF_vars(Watch(v))

-----------------------------------------------------------------------------
(* Correctness.                                                            *)

Live == {g \in DOMAIN runs : runs[g].step # "over"}
Filling(g) == g \in Live /\ runs[g].step # "close"

\* One generation at a time fills the thread, and Stop reaches it.
OneGeneration == \A g \in Live : g = active

\* A generating row has a generation that will settle it, or a request that is
\* about to start one, unless one of them failed.
GeneratingIsOwned ==
  \A m \in Unfinished \ orphaned :
    \/ \E g \in Live : Filling(g) /\ runs[g].row = m
    \/ \E q \in Requests : req[q].step = "start" /\ req[q].row = m

\* A generation that was stopped is never recorded as an answer or as an error.
StopIsObeyed ==
  \A m \in DOMAIN rows :
    rows[m].by \in stopped => rows[m].status \in {"generating", "interrupted"}

LastFor(m) == {g \in DOMAIN runs : runs[g].row = m /\ \A h \in DOMAIN runs : runs[h].row = m => h <= g}

\* The text of a row is that of the last generation started for it, which writes no
\* more once it has settled the row.
NoLateWrite ==
  [][\A m \in DOMAIN rows \cap DOMAIN rows' :
       rows'[m] # rows[m] =>
         \/ rows'[m].by = 0 /\ rows'[m].status = "generating"
         \/ rows'[m].by = rows[m].by /\ rows[m].status = "generating"
         \/ rows'[m].by \in LastFor(m) /\ rows'[m].by # rows[m].by]_vars

\* A stream that reads comes to show the thread as it is, unless the thread or one
\* of its rows was given up.
StreamCatchesUp ==
  \A v \in Viewers :
    viewer[v].step # "off" /\ ~viewer[v].fresh ~>
      \/ viewer[v].step = "off" \/ viewer[v].fresh
      \/ viewer[v].missed \/ gone \/ orphaned # {}
=============================================================================
