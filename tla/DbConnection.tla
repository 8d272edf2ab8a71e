---------------------------- MODULE DbConnection ----------------------------
(***************************************************************************)
(* Query runs, result pages, cancellation and teardown of one database     *)
(* connection of the host (host/src/db_connection_actor.rs, the workers of *)
(* host/src/db_service.rs) and, for PostgreSQL and MSSQL, the helper       *)
(* process that holds the driver (host/src/db_query_worker.rs and          *)
(* query_worker_loop).                                                     *)
(*                                                                         *)
(* The actor's mutex is never held across an await, so one critical        *)
(* section is one step.  The worker of a run, the calls that cancel it,    *)
(* the teardown, the requests for pages and the helper interleave.  Rows,  *)
(* columns, errors and the cached pages are left out: a read of the stream *)
(* finds more than a page, reaches a limit, or finds how the query ended.  *)
(* A helper's answer is read in order; the request pipe is a queue.        *)
(***************************************************************************)
EXTENDS Integers, Sequences

CONSTANTS
  Runs,       \* query run ids, each used once
  Engines,    \* the engines the connection may have
  Modes,      \* QueryRunMode: "primary" and "script"
  NoRun,      \* no run
  MaxUnits,   \* bound: statements of a script
  MaxPages,   \* bound: requests for pages
  MaxCloses   \* bound: attempts to close the connection

ASSUME EnginesKnown == Engines \subseteq {"sqlite", "postgres", "mssql"}
ASSUME ModesKnown == Modes \subseteq {"primary", "script"}
ASSUME NoRunIsNone == NoRun \notin Runs
ASSUME BoundsNatural == MaxUnits \in Nat \ {0} /\ MaxPages \in Nat /\ MaxCloses \in Nat

VARIABLES
  engine,   \* of the connection's DbHandle
  actor,    \* ConnectionActor
  mode,     \* Runs -> mode of the run, "unused" before it starts
  worker,   \* the task that runs the query of the active run
  inbox,    \* commands in the channel of the result continuation
  cont,     \* the continuation of the active run is installed
  chan,     \* its cancel channel is installed
  rx,       \* a request waits in that channel
  helper,   \* the helper process and its pipes
  calls,    \* Runs -> where the call that cancels the run stands
  answer,   \* Runs -> what the last such call answered
  closer,   \* where the teardown stands
  hits,     \* [by, on]: a cancellation of run `by` took effect on `on`
  pages, closes   \* counters of the bounds

actorVars == <<actor, inbox, cont, chan, rx>>
vars == <<engine, actorVars, mode, worker, helper, calls, answer, closer, hits, pages, closes>>

Network == engine # "sqlite"
Terminates == engine = "mssql"     \* terminate_on_cancel
Run == actor.active

(* Answers of a helper to a query: RowMeta (helper.meta), rows, then one of *)
Final == {"done", "cancelled", "error"}
Idle == [stage |-> "idle", units |-> 0]

Stages == {"idle", "leased", "spawned", "starting", "reading", "limit", "ready", "parked",
           "paging", "confirm", "draining", "unit", "refused"}
CallStages ==
  {"none", "dispatch", "notify", "complete", "failed", "signal", "wait", "already"}

Requests == [kind : {"query", "cancel", "stop"}, run : Runs]

Actors == [active : Runs \cup {NoRun}, cancel : BOOLEAN, release : BOOLEAN, term : BOOLEAN,
           pending : Runs \cup {NoRun}, meta : BOOLEAN, closed : BOOLEAN]
Helpers == [queue : Seq(Requests), run : Runs \cup {NoRun}, rows : BOOLEAN, meta : BOOLEAN,
            reply : Final \cup {"none"}, latched : Runs \cup {NoRun}, dead : BOOLEAN]

TypeOK ==
  /\ engine \in Engines
  /\ actor \in Actors
  /\ mode \in [Runs -> Modes \cup {"unused"}]
  /\ worker \in [stage : Stages, units : 0..MaxUnits]
  /\ worker.stage = "idle" <=> actor.active = NoRun
  /\ inbox \in Seq({"next", "release", "cancel"})
  /\ cont \in BOOLEAN /\ chan \in BOOLEAN /\ rx \in BOOLEAN
  /\ helper \in Helpers
  /\ calls \in [Runs -> CallStages]
  /\ answer \in [Runs -> {"none", "cancelled", "terminated", "already", "error"}]
  /\ closer \in {"none", "busy", "idle"}
  /\ hits \subseteq [by : Runs, on : Runs \cup {"metadata"}]
  /\ pages \in 0..MaxPages /\ closes \in 0..MaxCloses

Init ==
  /\ engine \in Engines
  /\ actor = [active |-> NoRun, cancel |-> FALSE, release |-> FALSE, term |-> FALSE,
              pending |-> NoRun, meta |-> FALSE, closed |-> FALSE]
  /\ mode = [r \in Runs |-> "unused"]
  /\ worker = Idle
  /\ inbox = <<>> /\ cont = FALSE /\ chan = FALSE /\ rx = FALSE
  /\ helper = [queue |-> <<>>, run |-> NoRun, rows |-> FALSE, meta |-> FALSE,
               reply |-> "none", latched |-> NoRun, dead |-> FALSE]
  /\ calls = [r \in Runs |-> "none"]
  /\ answer = [r \in Runs |-> "none"]
  /\ closer = "none"
  /\ hits = {}
  /\ pages = 0 /\ closes = 0

-----------------------------------------------------------------------------
(* The helper's pipes, as the host sees them.                              *)

\* NetworkQueryWorker::send: nothing is written once the worker is closed.
Sent(h, kind, r) ==
  IF h.dead THEN h ELSE [h EXCEPT !.queue = Append(@, [kind |-> kind, run |-> r])]

\* NetworkQueryWorker::abort and reap.
Aborted(h) ==
  [queue |-> <<>>, run |-> NoRun, rows |-> FALSE, meta |-> FALSE, reply |-> "none",
   latched |-> NoRun, dead |-> TRUE]

\* NetworkQueryWorker::read_response: the terminal answer, "none" while there
\* is none; a closed worker answers with an error.
Frame == IF helper.dead THEN "error" ELSE helper.reply

\* The terminal answer has been read.
Consumed(h) == [h EXCEPT !.reply = "none", !.meta = FALSE]

-----------------------------------------------------------------------------
(* The core: ConnectionActor.                                              *)

\* Mutant: a cancellation whose dispatch is pending does not occupy the actor.
BusyWithLease == actor.active # NoRun \/ actor.meta

\* is_busy
Busy == actor.active # NoRun \/ actor.pending # NoRun \/ actor.meta

\* owner_is_busy
OwnerBusy(r) == actor.active = r \/ actor.pending = r

\* settle_execution_with_policy
Settled(terminateIfCancelled) ==
  [actor EXCEPT !.active = NoRun, !.cancel = FALSE, !.release = FALSE, !.term = FALSE,
                !.closed = @ \/ (terminateIfCancelled /\ actor.cancel)]

\* connection_termination_required of the Settlement
TerminationRequired(terminateIfCancelled) ==
  actor.term \/ (terminateIfCancelled /\ actor.cancel)

\* ProductionConnectionActor::settle_execution_with_policy by the worker, which
\* ends.  The continuation and the channel of the run go with it.
EndRun(terminateIfCancelled, h) ==
  /\ actor' = Settled(terminateIfCancelled)
  /\ worker' = Idle
  /\ inbox' = <<>> /\ cont' = FALSE /\ chan' = FALSE /\ rx' = FALSE
  /\ helper' = h

\* settle_network_primary_completion: the helper is ended too if required.
EndNetworkRun(terminateIfCancelled, h) ==
  EndRun(terminateIfCancelled, IF TerminationRequired(terminateIfCancelled) THEN Aborted(h) ELSE h)

Stage(s) == worker' = [worker EXCEPT !.stage = s]
At(stages) == worker.stage \in stages

-----------------------------------------------------------------------------
(* query_run_in_state: leases and the worker.                              *)

\* acquire_execution
AcquireExecution(r, m) ==
  /\ mode[r] = "unused" /\ ~actor.closed /\ ~Busy
  /\ actor' = [actor EXCEPT !.active = r]
  /\ mode' = [mode EXCEPT ![r] = m]
  /\ \E n \in 1..(IF m = "script" THEN MaxUnits ELSE 1) :
       worker' = [stage |-> "leased", units |-> n]
  /\ UNCHANGED <<engine, inbox, cont, chan, rx, helper, calls, answer, closer, hits, pages, closes>>

\* acquire_metadata and settle_metadata
AcquireMetadata ==
  /\ ~actor.closed /\ ~Busy
  /\ actor' = [actor EXCEPT !.meta = TRUE]
  /\ UNCHANGED <<engine, inbox, cont, chan, rx, mode, worker, helper, calls, answer, closer, hits,
                 pages, closes>>

SettleMetadata ==
  /\ actor.meta
  /\ actor' = [actor EXCEPT !.meta = FALSE]
  /\ UNCHANGED <<engine, inbox, cont, chan, rx, mode, worker, helper, calls, answer, closer, hits,
                 pages, closes>>

\* What a step of the worker leaves alone.
OnlyWorker == UNCHANGED <<engine, mode, calls, answer, closer, hits, pages, closes>>

\* install_mssql_cancel_channel; the worker is spawned.
Spawn ==
  /\ At({"leased"})
  /\ Stage("spawned")
  /\ chan' = Network
  /\ UNCHANGED <<actor, inbox, cont, rx, helper>>
  /\ OnlyWorker

-----------------------------------------------------------------------------
(* network_run_primary_worker                                              *)

\* The request to stop a stream, and the wait for its end (drain_helper_stream).
StopStream(h, stage) ==
  /\ helper' = Sent(h, "stop", Run)
  /\ Stage(stage)

\* start_query: the request is written.
SendQuery ==
  /\ At({"spawned"}) /\ Network
  /\ helper' = Sent(helper, "query", Run)
  /\ Stage(IF mode[Run] = "primary" THEN "starting" ELSE "unit")
  /\ UNCHANGED actorVars
  /\ OnlyWorker

\* NetworkQueryStart::Rows: the result session begins or is refused.
StartRows ==
  /\ At({"starting"}) /\ helper.meta
  /\ LET h == [helper EXCEPT !.meta = FALSE]
     IN  \/ helper' = h /\ Stage("reading")
         \/ StopStream(h, "draining")
  /\ UNCHANGED actorVars
  /\ OnlyWorker

\* The query ended before a further page: by its first answer, or when a page
\* is read.  Only a confirmed cancellation keeps a PostgreSQL connection.
QueryEnded ==
  /\ At({"starting"}) \/ (At({"reading", "paging"}) /\ ~rx)
  /\ Network /\ ~helper.meta /\ Frame # "none"
  /\ EndNetworkRun(Terminates \/ Frame # "cancelled", Consumed(helper))
  /\ OnlyWorker

\* A stream that was told to stop has ended.
Drained ==
  /\ At({"draining"}) \/ (At({"limit"}) /\ ~rx)
  /\ Frame # "none"
  /\ EndNetworkRun(TRUE, Consumed(helper))
  /\ OnlyWorker

\* A page is full, or the result reaches a limit.
PageRead ==
  /\ At({"reading", "paging"}) /\ ~rx
  /\ Network /\ ~helper.dead /\ (helper.run = Run \/ helper.reply # "none")
  /\ \/ /\ Stage(IF At({"reading"}) THEN "ready" ELSE "parked")
        /\ UNCHANGED helper
     \/ StopStream(helper, "limit")
  /\ UNCHANGED actorVars
  /\ OnlyWorker

\* settle_network_stream_cancel and the cancellation of the start: MSSQL ends
\* its connection; PostgreSQL, whose helper was sent the cancellation by the
\* actor, waits for what the helper makes of it.
StreamCancelled ==
  IF Terminates
  THEN EndNetworkRun(TRUE, Aborted(helper))
  ELSE /\ Stage("confirm")
       /\ rx' = FALSE
       /\ UNCHANGED <<actor, inbox, cont, chan, helper>>

CancelSeen ==
  /\ rx
  /\ \/ At({"reading", "limit", "parked", "paging"})
     \/ At({"starting"}) /\ ~helper.meta /\ Frame = "none"
  /\ StreamCancelled
  /\ OnlyWorker

\* Mutant: any end of the stream is taken for the confirmation.
ConfirmedByAnyEnd ==
  /\ At({"confirm"})
  /\ helper.meta \/ Frame # "none"
  /\ EndNetworkRun(FALSE, Consumed(helper))
  /\ OnlyWorker

\* The rest of settle_network_stream_cancel for PostgreSQL.
Confirmed ==
  /\ At({"confirm"})
  /\ helper.meta \/ Frame # "none"
  /\ IF ~helper.meta /\ Frame = "cancelled"
     THEN EndNetworkRun(FALSE, Consumed(helper))
     ELSE EndNetworkRun(TRUE, Aborted(helper))
  /\ OnlyWorker

\* read_response: no frame for HELPER_IO_TIMEOUT, or the helper has died.
ReadFails ==
  /\ At({"starting", "reading", "limit", "paging", "confirm", "draining", "unit", "refused"})
  /\ Network /\ ~helper.meta /\ Frame = "none"
  /\ helper' = Aborted(helper)
  /\ UNCHANGED <<worker, actorVars>>
  /\ OnlyWorker

-----------------------------------------------------------------------------
(* The result continuation, of both kinds of worker.                       *)

\* install_result_continuation, and the first page is answered.
Install ==
  /\ At({"ready"})
  /\ cont' = TRUE
  /\ Stage("parked")
  /\ UNCHANGED <<actor, inbox, chan, rx, helper>>
  /\ OnlyWorker

\* What the worker has not taken of its channel is dropped with it.
LetGo ==
  IF Network
  THEN StopStream(helper, "draining") /\ inbox' = <<>> /\ UNCHANGED <<actor, cont, chan, rx>>
  ELSE EndRun(FALSE, helper)

\* The worker takes a command, or finds its channel closed by a teardown.
TakeNext ==
  /\ At({"parked"}) /\ inbox # <<>> /\ Head(inbox) = "next"
  /\ Stage("paging")
  /\ inbox' = Tail(inbox)
  /\ UNCHANGED <<actor, cont, chan, rx, helper>>
  /\ OnlyWorker

TakeRelease ==
  /\ At({"parked"})
  /\ IF inbox # <<>> THEN Head(inbox) = "release" ELSE ~cont
  /\ LetGo
  /\ OnlyWorker

TakeCancel ==
  /\ At({"parked"}) /\ inbox # <<>> /\ Head(inbox) = "cancel"
  /\ IF Network THEN StreamCancelled ELSE EndRun(FALSE, helper)
  /\ OnlyWorker

\* request_result_next and request_result_release reach the worker.
ResultNext ==
  /\ cont /\ Run # NoRun /\ pages < MaxPages
  /\ inbox' = Append(inbox, "next")
  /\ pages' = pages + 1
  /\ UNCHANGED <<engine, actor, cont, chan, rx, mode, worker, helper, calls, answer, closer, hits,
                 closes>>

ResultRelease ==
  /\ cont /\ Run # NoRun /\ pages < MaxPages
  /\ actor' = [actor EXCEPT !.release = TRUE]
  /\ inbox' = Append(inbox, "release")
  /\ pages' = pages + 1
  /\ UNCHANGED <<engine, cont, chan, rx, mode, worker, helper, calls, answer, closer, hits, closes>>

-----------------------------------------------------------------------------
(* sqlite_run_primary_worker, and the statements of a SQLite script.       *)

CancelMarked == actor.closed \/ actor.cancel

\* A cancellation that came first keeps the statement from running.
SqliteStart ==
  /\ At({"spawned"}) /\ ~Network
  /\ IF CancelMarked
     THEN EndRun(FALSE, helper)
     ELSE /\ Stage(IF mode[Run] = "primary" THEN "reading" ELSE "unit")
          /\ UNCHANGED <<actorVars, helper>>
  /\ OnlyWorker

\* read_page: a page is full.
SqlitePage ==
  /\ At({"reading", "paging"}) /\ ~Network
  /\ Stage(IF At({"reading"}) THEN "ready" ELSE "parked")
  /\ UNCHANGED <<actorVars, helper>>
  /\ OnlyWorker

\* The statement ends, by itself, at a limit or with an error.
SqliteEnd ==
  /\ At({"reading", "paging", "unit"}) /\ ~Network /\ ~CancelMarked
  /\ EndRun(FALSE, helper)
  /\ OnlyWorker

\* It ends once a cancellation is marked, if not before by the interrupt or by
\* the progress handler, which asks for the mark (SqliteCancellationGuard).
SqliteInterrupted ==
  /\ At({"reading", "paging", "unit"}) /\ ~Network /\ CancelMarked
  /\ EndRun(FALSE, helper)
  /\ OnlyWorker

-----------------------------------------------------------------------------
(* Scripts: the statements one after the other, each read to its end.      *)

\* network_run_materialized_unit: rows come, to the end or to a limit, or the
\* result session is refused.
UnitRows ==
  /\ At({"unit"}) /\ helper.meta
  /\ LET h == [helper EXCEPT !.meta = FALSE]
     IN  \/ helper' = h /\ UNCHANGED worker
         \/ StopStream(h, "unit")
         \/ StopStream(h, "refused")
  /\ UNCHANGED actorVars
  /\ OnlyWorker

\* Mutant: the script goes on after its last statement.
NextUnitAlways ==
  /\ At({"unit"})
  /\ Network => ~helper.meta /\ Frame = "done"
  /\ worker' = [stage |-> "spawned", units |-> worker.units - 1]
  /\ helper' = IF Network THEN Consumed(helper) ELSE helper
  /\ UNCHANGED actorVars
  /\ OnlyWorker

\* The next statement.
NextUnit ==
  /\ At({"unit"}) /\ worker.units > 1
  /\ Network => ~helper.meta /\ Frame = "done"
  /\ worker' = [stage |-> "spawned", units |-> worker.units - 1]
  /\ helper' = IF Network THEN Consumed(helper) ELSE helper
  /\ UNCHANGED actorVars
  /\ OnlyWorker

\* The end of query_run_in_state, after the last statement or one that stops
\* the script.  A completed PostgreSQL script does not arbitrate with a cancel.
ScriptEnd ==
  /\ At({"unit", "refused"}) /\ Network /\ ~helper.meta /\ Frame # "none"
  /\ LET policy == At({"refused"}) /\ engine = "postgres"
     IN  EndRun(policy, IF engine = "postgres" /\ TerminationRequired(policy)
                        THEN Aborted(helper) ELSE Consumed(helper))
  /\ OnlyWorker

\* mssql_run_materialized_unit: the connection ends (mark_connection_terminated).
ScriptCancelSeen ==
  /\ At({"unit", "refused"}) /\ Terminates /\ rx
  /\ actor' = [Settled(FALSE) EXCEPT !.closed = TRUE]
  /\ worker' = Idle
  /\ inbox' = <<>> /\ cont' = FALSE /\ chan' = FALSE /\ rx' = FALSE
  /\ helper' = Aborted(helper)
  /\ OnlyWorker

-----------------------------------------------------------------------------
(* query_cancel_in_state: ProductionConnectionActor::request_cancel.       *)

Call(r, stage) == calls' = [calls EXCEPT ![r] = stage]
OnlyCall == UNCHANGED <<engine, mode, worker, cont, chan, closer, pages, closes>>

\* ConnectionActor::request_cancel: the mark and the pending dispatch, or a
\* cancellation that is under way and only waited for.
RequestCancel(r) ==
  /\ calls[r] = "none" /\ OwnerBusy(r)
  /\ IF actor.cancel \/ actor.pending = r
     THEN Call(r, "already") /\ UNCHANGED actor
     ELSE /\ actor' = [actor EXCEPT !.cancel = TRUE, !.pending = r,
                                    !.term = @ \/ engine = "mssql"]
          /\ Call(r, "dispatch")
  /\ OnlyCall /\ UNCHANGED <<inbox, rx, helper, answer, hits>>

\* The run's channel holds the request, if it is still there.
Notified(r) == rx \/ (chan /\ Run = r)

\* SqliteCancelResource::interrupt strikes what the connection executes.
DispatchSqlite(r) ==
  /\ calls[r] = "dispatch" /\ engine = "sqlite"
  /\ hits' = hits \cup {[by |-> r, on |-> x] :
                          x \in ({Run} \ {NoRun}) \cup (IF actor.meta THEN {"metadata"} ELSE {})}
  /\ Call(r, "complete")
  /\ OnlyCall /\ UNCHANGED <<actor, inbox, rx, helper, answer>>

\* NetworkCancelHandle::cancel_query, then the channel; the channel is told of
\* a cancellation that could not be written too.
DispatchPostgres(r) ==
  /\ calls[r] = "dispatch" /\ engine = "postgres"
  /\ helper' = Sent(helper, "cancel", r)
  /\ IF helper.dead
     THEN Call(r, "failed") /\ rx' = Notified(r)
     ELSE Call(r, "notify") /\ UNCHANGED rx
  /\ OnlyCall /\ UNCHANGED <<actor, inbox, answer, hits>>

\* Mutant: PostgreSQL's worker is left to find out by itself.
NotifyNobody(r) ==
  /\ calls[r] = "notify"
  /\ Call(r, "complete")
  /\ OnlyCall /\ UNCHANGED <<actor, inbox, rx, helper, answer, hits>>

NotifyWorker(r) ==
  /\ calls[r] = "notify"
  /\ rx' = Notified(r)
  /\ Call(r, "complete")
  /\ OnlyCall /\ UNCHANGED <<actor, inbox, helper, answer, hits>>

\* MSSQL: the channel is the only way, and fails without one.
DispatchMssql(r) ==
  /\ calls[r] = "dispatch" /\ engine = "mssql"
  /\ rx' = Notified(r)
  /\ Call(r, IF chan /\ Run = r THEN "complete" ELSE "failed")
  /\ OnlyCall /\ UNCHANGED <<actor, inbox, helper, answer, hits>>

\* complete_cancel_dispatch
CompleteDispatch(r) ==
  /\ calls[r] = "complete"
  /\ actor' = [actor EXCEPT !.pending = NoRun]
  /\ Call(r, "signal")
  /\ OnlyCall /\ UNCHANGED <<inbox, rx, helper, answer, hits>>

\* connection_is_terminated of query_cancel_in_state
Terminated == actor.closed \/ (Network /\ helper.dead)

\* fail_cancel_dispatch takes the marks back, also those of a teardown.
FailDispatch(r) ==
  /\ calls[r] = "failed"
  /\ actor' = [actor EXCEPT !.pending = NoRun,
                            !.cancel = @ /\ Run # r, !.term = @ /\ Run # r]
  /\ answer' = [answer EXCEPT ![r] = IF Terminated THEN "terminated" ELSE "error"]
  /\ Call(r, "none")
  /\ OnlyCall /\ UNCHANGED <<inbox, rx, helper, hits>>

\* signal_result_cancel: a command for the continuation, if one is installed.
SignalResultCancel(r) ==
  /\ calls[r] = "signal"
  /\ inbox' = IF cont /\ Run = r THEN Append(inbox, "cancel") ELSE inbox
  /\ Call(r, "wait")
  /\ OnlyCall /\ UNCHANGED <<actor, rx, helper, answer, hits>>

\* wait_for_owner_settlement is over; classify_cancel_request
CancelReturns(r) ==
  /\ calls[r] \in {"wait", "already"} /\ ~OwnerBusy(r)
  /\ answer' = [answer EXCEPT ![r] =
       CASE calls[r] = "already" -> "already"
         [] calls[r] = "wait" /\ (engine = "mssql" \/ Terminated) -> "terminated"
         [] OTHER -> "cancelled"]
  /\ Call(r, "none")
  /\ OnlyCall /\ UNCHANGED <<actor, inbox, rx, helper, hits>>

-----------------------------------------------------------------------------
(* close_exact_in_state and shutdown_all_connections.                      *)

\* ConnectionActor::request_lifecycle_teardown
RequestTeardown ==
  /\ closer = "none" /\ closes < MaxCloses
  /\ LET active == Run # NoRun
     IN  actor' = [actor EXCEPT !.closed = TRUE, !.cancel = @ \/ active,
                                !.release = @ \/ active, !.term = @ \/ (active /\ Network)]
  /\ closer' = IF Busy THEN "busy" ELSE "idle"
  /\ closes' = closes + 1
  /\ UNCHANGED <<engine, inbox, cont, chan, rx, mode, worker, helper, calls, answer, hits, pages>>

\* The continuation is cleared and the driver of a busy connection is told: a
\* SQLite interrupt (which finds the mark), an abort, and MSSQL's channel.
\* begin_teardown then finds an idle connection closed already.
SignalTeardown ==
  /\ closer # "none"
  /\ cont' = FALSE
  /\ helper' = IF closer = "busy" /\ Network THEN Aborted(helper) ELSE helper
  /\ rx' = (rx \/ (closer = "busy" /\ Terminates /\ chan))
  /\ closer' = "none"
  /\ UNCHANGED <<engine, actor, inbox, chan, mode, worker, calls, answer, hits, pages, closes>>

-----------------------------------------------------------------------------
(* The helper: query_worker_loop, helper_pg_query, helper_mssql_query.     *)

OnlyHelper == UNCHANGED <<engine, actorVars, mode, worker, calls, answer, closer, pages, closes>>

HelperEnds(h, reply) == [h EXCEPT !.run = NoRun, !.rows = FALSE, !.reply = reply]

\* A query runs, unless a cancellation that came while the helper was idle is
\* kept for it (pending_cancel).
HelperQuery ==
  /\ helper.queue # <<>> /\ Head(helper.queue).kind = "query"
  /\ LET h == [helper EXCEPT !.queue = Tail(@)]
         r == Head(helper.queue).run
     IN  IF h.latched # NoRun
         THEN /\ helper' = HelperEnds([h EXCEPT !.latched = NoRun], "cancelled")
              /\ hits' = hits \cup {[by |-> h.latched, on |-> r]}
         ELSE /\ helper' = [h EXCEPT !.run = r]
              /\ UNCHANGED hits
  /\ OnlyHelper

\* CancelQuery and StopStreaming; the wait for the server-side cancel, after the
\* answer is written, is left out
HelperControl ==
  /\ helper.queue # <<>> /\ Head(helper.queue).kind # "query"
  /\ LET h == [helper EXCEPT !.queue = Tail(@)]
         q == Head(helper.queue)
     IN  IF q.kind = "cancel"
         THEN IF h.run = NoRun
              THEN helper' = [h EXCEPT !.latched = q.run] /\ UNCHANGED hits
              ELSE /\ helper' = HelperEnds(h, "cancelled")
                   /\ hits' = hits \cup {[by |-> q.run, on |-> h.run]}
         ELSE /\ helper' = IF h.run # NoRun /\ engine = "postgres"
                           THEN HelperEnds(h, "done") ELSE h
              /\ UNCHANGED hits
  /\ OnlyHelper

\* The statement has columns: RowMeta.
HelperRows ==
  /\ helper.run # NoRun /\ ~helper.rows
  /\ helper' = [helper EXCEPT !.rows = TRUE, !.meta = TRUE]
  /\ OnlyHelper /\ UNCHANGED hits

\* It ends: Execute, End, ValueTooLarge or Error.
HelperFinish ==
  /\ helper.run # NoRun
  /\ \E reply \in {"done", "error"} : helper' = HelperEnds(helper, reply)
  /\ OnlyHelper /\ UNCHANGED hits

-----------------------------------------------------------------------------
WorkerStep ==
  \/ Spawn \/ SendQuery \/ StartRows \/ QueryEnded \/ Drained \/ PageRead \/ CancelSeen
  \/ Confirmed \/ Install \/ TakeNext \/ TakeRelease \/ TakeCancel
  \/ SqliteStart \/ SqliteInterrupted
  \/ UnitRows \/ NextUnit \/ ScriptEnd \/ ScriptCancelSeen

CallStep(r) ==
  \/ DispatchSqlite(r) \/ DispatchPostgres(r) \/ NotifyWorker(r) \/ DispatchMssql(r)
  \/ CompleteDispatch(r) \/ FailDispatch(r) \/ SignalResultCancel(r) \/ CancelReturns(r)

HelperStep == HelperQuery \/ HelperControl

Next ==
  \/ WorkerStep \/ ReadFails \/ SqlitePage \/ SqliteEnd
  \/ AcquireMetadata \/ SettleMetadata
  \/ \E r \in Runs : (\E m \in Modes : AcquireExecution(r, m)) \/ RequestCancel(r) \/ CallStep(r)
  \/ ResultNext \/ ResultRelease
  \/ RequestTeardown \/ SignalTeardown
  \/ HelperStep \/ HelperRows \/ HelperFinish

Spec == Init /\ [][Next]_vars

\* Tasks that can go on do, the helper reads its requests, and a read of the
\* helper that gets no answer times out.  Nothing is asked of the queries, of
\* the requests for pages, or of the user.
Fairness ==
  /\ WF_vars(WorkerStep) /\ WF_vars(ReadFails) /\ WF_vars(HelperStep) /\ WF_vars(SignalTeardown)
  /\ \A r \in Runs : WF_vars(CallStep(r))

FairSpec == Spec /\ Fairness

-----------------------------------------------------------------------------
(* Properties                                                              *)

\* The runs whose cancellation the helper has not read yet.
CancelsQueued ==
  {helper.queue[i].run : i \in {j \in DOMAIN helper.queue : helper.queue[j].kind = "cancel"}}

Stray == {h \in hits : h.by # h.on}

\* A cancellation takes effect on the run it was asked for and on no other,
\* however late it is dispatched, written or read (complete_cancel_dispatch:
\* "preventing a late Cancel A from targeting Run B").
CancelHitsOwnRun == Stray = {}

\* The same for primary queries, as long as no cancelled script has reached
\* another run.  Also, what a cancellation answers is so: a run "terminated" has
\* no usable connection left, and of one "cancelled" no request is on its way
\* that a later query would meet (settle_execution_with_policy).
PrimaryCancelContained ==
  (\A h \in Stray : mode[h.by] = "primary") =>
    /\ Stray = {}
    /\ \A r \in Runs : mode[r] = "primary" =>
         /\ answer[r] = "terminated" => Terminated
         /\ answer[r] = "cancelled" /\ ~Terminated =>
              r # helper.latched /\ r \notin CancelsQueued

\* A worker that parked, its continuation installed after the cancellation
\* looked for one: SQLite and a PostgreSQL teardown have no other way to wake it.
Missed(r) ==
  /\ worker.stage = "parked" /\ Run = r /\ cont /\ inbox = <<>> /\ ~rx
  /\ engine = "sqlite" \/ (engine = "postgres" /\ helper.dead)

\* Every call that cancels a run returns: the run is settled whatever the query
\* does, but for a worker that parks just then (Missed), which waits for the
\* next page, a release or a further attempt to close (request_cancel).
CancelSettles == \A r \in Runs : calls[r] # "none" ~> (calls[r] = "none" \/ Missed(r))
=============================================================================
