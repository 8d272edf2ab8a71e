------------------------- MODULE DbConnectionProofs -------------------------
(***************************************************************************)
(* For any number of runs, any length of scripts and any number of page    *)
(* requests: the cancellation of a primary query stays with its run and is *)
(* answered truthfully (PrimaryCancelContained).                           *)
(*                                                                         *)
(* A cancellation is a token: it is to be dispatched, in the helper's pipe,*)
(* kept by the idle helper, or used up by the answer "cancelled".  The     *)
(* argument is that a run whose token has not been used up when it settles *)
(* closes the connection, so that no other run ever meets it.              *)
(***************************************************************************)
EXTENDS DbConnection, TLAPS

\* Stages in which the helper has a query of the worker, or its answer.
Waiting == worker.stage \in {"starting", "reading", "limit", "ready", "parked", "paging",
                             "confirm", "draining", "unit", "refused"}

Primary(r) == mode[r] = "primary"
Dispatching == {"dispatch", "notify", "complete", "failed"}
Marking == {"dispatch", "notify", "complete", "signal", "wait"}

\* A request to cancel r is in the pipe at i.
CancelAt(i, r) == helper.queue[i].kind = "cancel" /\ helper.queue[i].run = r

\* A cancellation of r is in the pipe, or kept by the helper.
Token(r) == helper.latched = r \/ \E i \in 1..Len(helper.queue) : CancelAt(i, r)

\* r has one cancellation at most.
Single(r) ==
  \A i \in 1..Len(helper.queue) : CancelAt(i, r) =>
    helper.latched # r /\ \A j \in 1..Len(helper.queue) : CancelAt(j, r) => j = i

\* Who holds the actor, and for what.
LeaseInv ==
  /\ \A r \in Runs : calls[r] \in Dispatching => actor.pending = r
  /\ actor.pending # NoRun => /\ actor.active \in {actor.pending, NoRun}
                              /\ ~actor.meta
                              /\ mode[actor.pending] # "unused"
  /\ actor.active # NoRun => ~actor.meta /\ mode[actor.active] # "unused"
  /\ \A r \in Runs : calls[r] # "none" \/ answer[r] # "none" => mode[r] # "unused"
  /\ worker.stage \in {"unit", "refused"} => mode[actor.active] = "script"

\* What the helper works on is the query of the active run.
HelperInv ==
  /\ helper.dead => helper = Aborted(helper)
  /\ \A i \in 1..Len(helper.queue) : helper.queue[i].kind = "query" =>
       /\ Waiting /\ helper.queue[i].run = actor.active
       /\ helper.run = NoRun /\ helper.reply = "none" /\ ~helper.meta
       /\ \A j \in 1..Len(helper.queue) : helper.queue[j].kind = "query" => j = i
  /\ helper.run # NoRun => Waiting /\ helper.run = actor.active /\ helper.reply = "none"
  /\ helper.reply # "none" => Waiting
  /\ helper.meta => helper.run # NoRun \/ helper.reply # "none"
  /\ engine = "sqlite" => /\ helper.queue = <<>> /\ helper.run = NoRun
                          /\ helper.reply = "none" /\ ~helper.meta

\* No script has reached another run.
NoScriptStray == \A h \in Stray : mode[h.by] = "primary"

\* The connection is marked for r, or never runs another query.
Marked(r) == \/ actor.active = r /\ actor.cancel
             \/ actor.active = NoRun /\ actor.closed

\* Cancellations are only ever sent to PostgreSQL's helper, by a run.
TokenInv ==
  /\ \A r \in Runs : Token(r) => engine = "postgres" /\ mode[r] # "unused"
  /\ helper.reply = "cancelled" => engine = "postgres"
  /\ \A h \in hits : mode[h.by] # "unused"
  /\ \A r \in Runs : calls[r] = "failed" /\ engine = "postgres" => helper.dead

\* Where the cancellation of a primary query is: a run has one token, and one
\* that is settled before its token is used up leaves a closed connection.
PrimaryInv ==
  /\ Stray = {}
  /\ \A r \in Runs : Primary(r) =>
       /\ Token(r) => Marked(r)
       /\ calls[r] = "dispatch" => ~Token(r) /\ (engine # "sqlite" => Marked(r))
       /\ helper.reply = "cancelled" /\ actor.active = r =>
            actor.cancel /\ ~Token(r) /\ calls[r] # "dispatch"
       /\ Single(r)

\* What a cancellation has answered, or will for MSSQL.
AnswerInv ==
  \A r \in Runs : Primary(r) =>
    /\ engine = "mssql" /\ calls[r] \in Marking =>
         (actor.active = r /\ actor.cancel) \/ Terminated
    /\ answer[r] = "terminated" => Terminated
    /\ answer[r] = "cancelled" => actor.active # r

IInv == TypeOK /\ LeaseInv /\ HelperInv /\ TokenInv /\ AnswerInv /\ (NoScriptStray => PrimaryInv)

-----------------------------------------------------------------------------
(* Types                                                                   *)

\* What the host does to the helper's pipes keeps the helper's type (Sent,
\* Aborted, Consumed), and so does the end of its query (HelperEnds).
LEMMA HelperTypes ==
  ASSUME NEW h \in Helpers
  PROVE  /\ \A kind \in {"query", "cancel", "stop"}, r \in Runs : Sent(h, kind, r) \in Helpers
         /\ Aborted(h) \in Helpers
         /\ Consumed(h) \in Helpers
         /\ \A reply \in Final : HelperEnds(h, reply) \in Helpers
         /\ h.queue # <<>> => [h EXCEPT !.queue = Tail(@)] \in Helpers
                             /\ Head(h.queue) \in Requests
<1>1. ASSUME NEW kind \in {"query", "cancel", "stop"}, NEW r \in Runs
      PROVE  Sent(h, kind, r) \in Helpers
  <2>1. [kind |-> kind, run |-> r] \in Requests
    BY DEF Requests
  <2>2. Append(h.queue, [kind |-> kind, run |-> r]) \in Seq(Requests)
    BY <2>1 DEF Helpers
  <2> QED  BY <2>2 DEF Helpers, Sent
<1>2. Aborted(h) \in Helpers
  BY DEF Helpers, Aborted
<1>3. Consumed(h) \in Helpers /\ \A reply \in Final : HelperEnds(h, reply) \in Helpers
  BY DEF Helpers, Consumed, HelperEnds
<1>4. ASSUME h.queue # <<>>
      PROVE  [h EXCEPT !.queue = Tail(@)] \in Helpers /\ Head(h.queue) \in Requests
  BY <1>4 DEF Helpers
<1> QED  BY <1>1, <1>2, <1>3, <1>4

\* A settled run leaves an actor (settle_execution_with_policy).
LEMMA SettledTypes ==
  ASSUME actor \in Actors, NEW p \in BOOLEAN
  PROVE  Settled(p) \in Actors /\ Settled(p).active = NoRun
  BY DEF Actors, Settled

\* Every action keeps the types.
LEMMA TypeStep ==
  ASSUME TypeOK, LeaseInv, [Next]_vars
  PROVE  TypeOK'
<1> USE DEF At, Stage, Run, Network, Terminates, OnlyWorker, actorVars, Idle
<1>a. /\ At({"idle"}) <=> Run = NoRun
      /\ helper \in Helpers /\ actor \in Actors
      /\ BoundsNatural
  BY BoundsNatural DEF TypeOK
<1>e. ASSUME NEW p \in BOOLEAN, NEW h \in Helpers, EndRun(p, h), OnlyWorker
      PROVE  TypeOK'
  <2>1. actor' \in Actors /\ actor'.active = NoRun /\ helper' \in Helpers
    BY <1>e, <1>a, SettledTypes DEF EndRun
  <2>2. worker' \in [stage : Stages, units : 0..MaxUnits] /\ worker'.stage = "idle"
    BY <1>e, BoundsNatural DEF EndRun, Stages, BoundsNatural
  <2>3. inbox' \in Seq({"next", "release", "cancel"}) /\ cont' = FALSE /\ chan' = FALSE /\ rx' = FALSE
    BY <1>e DEF EndRun
  <2> QED  BY <1>e, <2>1, <2>2, <2>3 DEF OnlyWorker, TypeOK
<1>n. ASSUME NEW p \in BOOLEAN, NEW h \in Helpers, EndNetworkRun(p, h), OnlyWorker
      PROVE  TypeOK'
  BY <1>n, <1>e, HelperTypes DEF EndNetworkRun
<1>w. ASSUME NEW s \in Stages, s # "idle", Run # NoRun, Stage(s), helper' \in Helpers, OnlyWorker,
             actor' = actor, inbox' \in Seq({"next", "release", "cancel"}),
             cont' \in BOOLEAN, chan' \in BOOLEAN, rx' \in BOOLEAN
      PROVE  TypeOK'
  BY <1>w DEF TypeOK
<1>1. CASE Spawn
  BY <1>1, <1>w, <1>a DEF Spawn, TypeOK, Stages
<1>2. CASE SendQuery
  BY <1>2, <1>w, <1>a, HelperTypes DEF SendQuery, TypeOK, Stages, Actors
<1>3. CASE StartRows
  <2>1. [helper EXCEPT !.meta = FALSE] \in Helpers /\ Run \in Runs
    BY <1>3, <1>a DEF StartRows, Helpers, Actors
  <2>2. helper' \in Helpers
    BY <1>3, <2>1, HelperTypes DEF StartRows, StopStream
  <2> QED  BY <1>3, <1>w, <2>1, <2>2, NoRunIsNone DEF StartRows, StopStream, TypeOK, Stages
<1>4. CASE QueryEnded
  BY <1>4, <1>n, <1>a, HelperTypes DEF QueryEnded
<1>5. CASE Drained
  BY <1>5, <1>n, <1>a, HelperTypes DEF Drained
<1>6. CASE PageRead
  <2>1. Run \in Runs
    BY <1>6, <1>a DEF PageRead, Actors
  <2>2. helper' \in Helpers
    BY <1>6, <1>a, <2>1, HelperTypes DEF PageRead, StopStream
  <2> QED  BY <1>6, <1>w, <2>1, <2>2, NoRunIsNone DEF PageRead, StopStream, TypeOK, Stages
<1>7. CASE CancelSeen
  BY <1>7, <1>w, <1>n, <1>a, HelperTypes DEF CancelSeen, StreamCancelled, TypeOK, Stages
<1>8. CASE Confirmed
  BY <1>8, <1>n, <1>a, HelperTypes DEF Confirmed
<1>9. CASE ReadFails
  BY <1>9, <1>a, HelperTypes DEF ReadFails, TypeOK
<1>10. CASE Install
  BY <1>10, <1>w, <1>a DEF Install, TypeOK, Stages
<1>11. CASE TakeNext
  BY <1>11, <1>w, <1>a DEF TakeNext, TypeOK, Stages
<1>12. CASE TakeRelease
  <2>1. Run \in Runs
    BY <1>12, <1>a DEF TakeRelease, Actors
  <2>2. CASE Network
    <3>1. helper' \in Helpers
      BY <1>12, <1>a, <2>1, <2>2, HelperTypes DEF TakeRelease, LetGo, StopStream
    <3> QED
      BY <1>12, <1>w, <2>1, <2>2, <3>1, NoRunIsNone DEF TakeRelease, LetGo, StopStream, TypeOK, Stages
  <2>3. CASE ~Network
    BY <1>12, <1>e, <1>a, <2>3 DEF TakeRelease, LetGo
  <2> QED  BY <2>2, <2>3
<1>13. CASE TakeCancel
  BY <1>13, <1>w, <1>e, <1>n, <1>a, HelperTypes DEF TakeCancel, StreamCancelled, TypeOK, Stages
<1>14. CASE ResultNext
  BY <1>14, BoundsNatural DEF ResultNext, TypeOK, BoundsNatural
<1>15. CASE ResultRelease
  <2>1. actor' \in Actors /\ actor'.active = actor.active
    BY <1>15, <1>a DEF ResultRelease, Actors
  <2> QED  BY <1>15, <2>1, BoundsNatural DEF ResultRelease, TypeOK, BoundsNatural
<1>16. CASE SqliteStart
  BY <1>16, <1>w, <1>e, <1>a DEF SqliteStart, TypeOK, Stages
<1>17. CASE SqlitePage
  BY <1>17, <1>w, <1>a DEF SqlitePage, TypeOK, Stages
<1>18. CASE SqliteEnd \/ SqliteInterrupted
  BY <1>18, <1>e, <1>a DEF SqliteEnd, SqliteInterrupted
<1>19. CASE UnitRows
  <2>1. [helper EXCEPT !.meta = FALSE] \in Helpers /\ Run \in Runs
    BY <1>19, <1>a DEF UnitRows, Helpers, Actors
  <2>2. helper' \in Helpers
    BY <1>19, <2>1, HelperTypes DEF UnitRows, StopStream
  <2>3. CASE UNCHANGED worker
    BY <1>19, <2>2, <2>3 DEF UnitRows, TypeOK
  <2>4. CASE Stage("unit") \/ Stage("refused")
    BY <1>19, <1>w, <2>1, <2>2, <2>4, NoRunIsNone DEF UnitRows, TypeOK, Stages
  <2> QED  BY <1>19, <2>3, <2>4 DEF UnitRows, StopStream
<1>20. CASE NextUnit
  <2>1. helper' \in Helpers
    BY <1>20, <1>a, HelperTypes DEF NextUnit
  <2>2. /\ worker' \in [stage : Stages, units : 0..MaxUnits]
        /\ worker.stage # "idle" /\ worker'.stage # "idle"
    BY <1>20, BoundsNatural DEF NextUnit, TypeOK, Stages, BoundsNatural
  <2> QED  BY <1>20, <2>1, <2>2 DEF NextUnit, TypeOK
<1>21. CASE ScriptEnd
  BY <1>21, <1>e, <1>a, HelperTypes DEF ScriptEnd
<1>22. CASE ScriptCancelSeen
  <2>1. actor' \in Actors /\ actor'.active = NoRun /\ helper' \in Helpers
    BY <1>22, <1>a, HelperTypes, SettledTypes DEF ScriptCancelSeen, Actors
  <2>2. worker' \in [stage : Stages, units : 0..MaxUnits] /\ worker'.stage = "idle"
    BY <1>22, BoundsNatural DEF ScriptCancelSeen, Stages, BoundsNatural
  <2>3. inbox' \in Seq({"next", "release", "cancel"}) /\ cont' = FALSE /\ chan' = FALSE /\ rx' = FALSE
    BY <1>22 DEF ScriptCancelSeen
  <2>4. OnlyWorker
    BY <1>22 DEF ScriptCancelSeen
  <2> QED  BY <2>1, <2>2, <2>3, <2>4 DEF OnlyWorker, TypeOK
<1>23. ASSUME NEW r \in Runs, NEW m \in Modes, AcquireExecution(r, m)
       PROVE  TypeOK'
  <2>1. actor' \in Actors /\ actor'.active = r
    BY <1>23, <1>a DEF AcquireExecution, Actors
  <2>2. worker' \in [stage : Stages, units : 0..MaxUnits] /\ worker'.stage = "leased"
    BY <1>23, BoundsNatural DEF AcquireExecution, Stages, BoundsNatural
  <2> QED  BY <1>23, <2>1, <2>2, NoRunIsNone DEF AcquireExecution, TypeOK
<1>24. CASE AcquireMetadata \/ SettleMetadata
  BY <1>24 DEF AcquireMetadata, SettleMetadata, TypeOK, Actors
<1>25. ASSUME NEW r \in Runs, RequestCancel(r)
       PROVE  TypeOK'
  <2>1. actor' \in Actors /\ actor'.active = actor.active
    BY <1>25, <1>a DEF RequestCancel, Actors
  <2> QED  BY <1>25, <2>1 DEF RequestCancel, Call, OnlyCall, TypeOK, CallStages
<1>26. ASSUME NEW r \in Runs, CallStep(r)
       PROVE  TypeOK'
  <2>1. CASE DispatchSqlite(r)
    BY <2>1 DEF DispatchSqlite, Call, OnlyCall, TypeOK, CallStages, Actors
  <2>2. CASE DispatchPostgres(r)
    <3>1. helper' \in Helpers
      BY <2>2, <1>a, HelperTypes DEF DispatchPostgres
    <3> QED
      BY <2>2, <3>1 DEF DispatchPostgres, Notified, Call, OnlyCall, TypeOK, CallStages
  <2>3. CASE NotifyWorker(r)
    BY <2>3 DEF NotifyWorker, Notified, Call, OnlyCall, TypeOK, CallStages
  <2>4. CASE DispatchMssql(r)
    BY <2>4 DEF DispatchMssql, Notified, Call, OnlyCall, TypeOK, CallStages
  <2>5. CASE CompleteDispatch(r) \/ FailDispatch(r)
    <3>1. actor' \in Actors /\ actor'.active = actor.active
      BY <2>5, <1>a DEF CompleteDispatch, FailDispatch, Actors
    <3> QED
      BY <2>5, <3>1 DEF CompleteDispatch, FailDispatch, Call, OnlyCall, TypeOK, CallStages
  <2>6. CASE SignalResultCancel(r)
    BY <2>6 DEF SignalResultCancel, Call, OnlyCall, TypeOK, CallStages
  <2>7. CASE CancelReturns(r)
    BY <2>7 DEF CancelReturns, Call, OnlyCall, TypeOK, CallStages
  <2> QED  BY <1>26, <2>1, <2>2, <2>3, <2>4, <2>5, <2>6, <2>7 DEF CallStep
<1>27. CASE RequestTeardown
  <2>1. actor' \in Actors /\ actor'.active = actor.active
    BY <1>27, <1>a DEF RequestTeardown, Actors
  <2> QED  BY <1>27, <2>1, BoundsNatural DEF RequestTeardown, TypeOK, BoundsNatural
<1>28. CASE SignalTeardown
  BY <1>28, <1>a, HelperTypes DEF SignalTeardown, TypeOK
<1>29. CASE HelperQuery
  <2> DEFINE h == [helper EXCEPT !.queue = Tail(@)]
             q == Head(helper.queue)
  <2>1. h \in Helpers /\ q.run \in Runs
    BY <1>29, <1>a, HelperTypes DEF HelperQuery, Requests
  <2>2. [h EXCEPT !.latched = NoRun] \in Helpers /\ [h EXCEPT !.run = q.run] \in Helpers
    BY <2>1 DEF Helpers
  <2>3. h.latched \in Runs \cup {NoRun}
    BY <2>1 DEF Helpers
  <2>4. CASE h.latched # NoRun
    <3>1. /\ helper' = HelperEnds([h EXCEPT !.latched = NoRun], "cancelled")
          /\ hits' = hits \cup {[by |-> h.latched, on |-> q.run]}
      BY <1>29, <2>4 DEF HelperQuery
    <3>2. helper' \in Helpers
      BY <3>1, <2>2, HelperTypes DEF Final
    <3>3. hits' \subseteq [by : Runs, on : Runs \cup {"metadata"}]
      BY <3>1, <2>1, <2>3, <2>4 DEF TypeOK
    <3> QED  BY <1>29, <3>2, <3>3 DEF HelperQuery, OnlyHelper, TypeOK
  <2>5. CASE h.latched = NoRun
    <3>1. helper' = [h EXCEPT !.run = q.run] /\ UNCHANGED hits
      BY <1>29, <2>5 DEF HelperQuery
    <3> QED  BY <1>29, <2>2, <3>1 DEF HelperQuery, OnlyHelper, TypeOK
  <2> QED  BY <2>4, <2>5
<1>30. CASE HelperControl
  <2> DEFINE h == [helper EXCEPT !.queue = Tail(@)]
             q == Head(helper.queue)
  <2>1. h \in Helpers /\ q.run \in Runs
    BY <1>30, <1>a, HelperTypes DEF HelperControl, Requests
  <2>2. [h EXCEPT !.latched = q.run] \in Helpers /\ h.run \in Runs \cup {NoRun}
    BY <2>1 DEF Helpers
  <2>3. CASE q.kind = "cancel" /\ h.run # NoRun
    <3>1. helper' = HelperEnds(h, "cancelled") /\ hits' = hits \cup {[by |-> q.run, on |-> h.run]}
      BY <1>30, <2>3 DEF HelperControl
    <3>2. helper' \in Helpers
      BY <3>1, <2>1, HelperTypes DEF Final
    <3>3. hits' \subseteq [by : Runs, on : Runs \cup {"metadata"}]
      BY <3>1, <2>1, <2>2, <2>3 DEF TypeOK
    <3> QED  BY <1>30, <3>2, <3>3 DEF HelperControl, OnlyHelper, TypeOK
  <2>4. CASE ~(q.kind = "cancel" /\ h.run # NoRun)
    <3>1. /\ helper' \in {[h EXCEPT !.latched = q.run], HelperEnds(h, "done"), h}
          /\ UNCHANGED hits
      BY <1>30, <2>4 DEF HelperControl
    <3>2. helper' \in Helpers
      BY <3>1, <2>1, <2>2, HelperTypes DEF Final
    <3> QED  BY <1>30, <3>1, <3>2 DEF HelperControl, OnlyHelper, TypeOK
  <2> QED  BY <2>3, <2>4
<1>31. CASE HelperRows \/ HelperFinish
  BY <1>31 DEF HelperRows, HelperFinish, HelperEnds, OnlyHelper, TypeOK, Helpers, Final
<1>32. CASE UNCHANGED vars
  BY <1>32 DEF vars, TypeOK
<1> QED
  BY <1>1, <1>2, <1>3, <1>4, <1>5, <1>6, <1>7, <1>8, <1>9, <1>10, <1>11, <1>12, <1>13, <1>14,
     <1>15, <1>16, <1>17, <1>18, <1>19, <1>20, <1>21, <1>22, <1>23, <1>24, <1>25, <1>26, <1>27,
     <1>28, <1>29, <1>30, <1>31, <1>32
     DEF Next, WorkerStep, HelperStep

-----------------------------------------------------------------------------
(* What the steps of the worker do to the state the invariant is about.    *)

\* A step that the invariant does not see.
Quiet ==
  /\ UNCHANGED <<engine, mode, worker, helper, calls, answer, hits>>
  /\ actor'.active = actor.active /\ actor'.cancel = actor.cancel
  /\ actor'.pending = actor.pending /\ actor'.meta = actor.meta /\ actor'.closed = actor.closed

\* The worker goes on with its run.
Moves ==
  /\ UNCHANGED <<engine, actor, mode, calls, answer, hits>>
  /\ Run \in Runs
  /\ Waiting => Waiting'
  /\ worker'.stage \in {"unit", "refused"} => mode[Run] = "script"
  /\ \E h \in {helper, [helper EXCEPT !.meta = FALSE]} :
       (h = helper \/ helper.meta) /\ helper' \in {h, Sent(h, "stop", Run), Aborted(h)}
  /\ engine = "sqlite" => helper' = helper

\* The worker settles its run and ends.
Ends ==
  /\ UNCHANGED <<engine, mode, calls, answer, hits>>
  /\ Run \in Runs /\ worker'.stage = "idle"
  /\ actor'.active = NoRun /\ actor'.pending = actor.pending /\ actor'.meta = actor.meta
  /\ actor.closed => actor'.closed
  /\ actor.cancel => \/ actor'.closed \/ engine = "sqlite" \/ mode[Run] = "script"
                     \/ (engine = "postgres" /\ helper.reply = "cancelled")
  /\ \/ helper' = Aborted(helper)
     \/ helper' = Consumed(helper) /\ (helper.dead \/ helper.reply # "none")
     \/ helper' = helper /\ engine = "sqlite"

\* Every step of the worker is one of these, the first request of a statement
\* or the step to the next statement of a script.
LEMMA WorkerCases ==
  ASSUME TypeOK, LeaseInv, HelperInv, TokenInv,
         WorkerStep \/ ReadFails \/ SqlitePage \/ SqliteEnd
  PROVE  Moves \/ Ends \/ SendQuery \/ NextUnit
<1> USE DEF At, Stage, Run, Network, Terminates, OnlyWorker, actorVars, Idle
<1>a. /\ worker.stage # "idle" => Run \in Runs /\ Run # NoRun
      /\ actor \in Actors /\ helper \in Helpers
      /\ engine \in {"sqlite", "postgres", "mssql"}
      /\ worker.stage \in Stages
      /\ Aborted(helper) \in Helpers /\ Consumed(helper) \in Helpers
  BY EnginesKnown, NoRunIsNone, HelperTypes DEF TypeOK, Actors, EnginesKnown
<1>b. worker.stage \in {"unit", "refused"} => mode[Run] = "script"
  BY DEF LeaseInv
<1>c. helper.reply = "cancelled" => engine = "postgres"
  BY DEF TokenInv
<1>s. ASSUME NEW p \in BOOLEAN
      PROVE  /\ Settled(p).active = NoRun /\ Settled(p).pending = actor.pending
             /\ Settled(p).meta = actor.meta
             /\ Settled(p).closed = (actor.closed \/ (p /\ actor.cancel))
  BY <1>a DEF Settled, Actors
<1>e. ASSUME NEW p \in BOOLEAN, NEW h \in Helpers, EndRun(p, h), OnlyWorker, worker.stage # "idle",
             p \/ engine = "sqlite" \/ mode[Run] = "script"
               \/ (engine = "postgres" /\ helper.reply = "cancelled"),
             \/ h = Aborted(helper)
             \/ h = Consumed(helper) /\ (helper.dead \/ helper.reply # "none")
             \/ h = helper /\ engine = "sqlite"
      PROVE  Ends
  BY <1>e, <1>a, <1>s DEF EndRun, Ends
<1>n. ASSUME NEW p \in BOOLEAN, NEW h \in Helpers, EndNetworkRun(p, h), OnlyWorker, worker.stage # "idle",
             p \/ (engine = "postgres" /\ helper.reply = "cancelled"),
             \/ h = Aborted(helper)
             \/ h = Consumed(helper) /\ (helper.dead \/ helper.reply # "none")
      PROVE  Ends
  <2>1. Aborted(h) = Aborted(helper)
    BY DEF Aborted
  <2> QED  BY <1>n, <1>e, <1>a, <2>1 DEF EndNetworkRun
<1>o. ASSUME OnlyWorker, worker.stage # "idle"
      PROVE  /\ EndNetworkRun(TRUE, Aborted(helper)) => Ends
             /\ EndNetworkRun(TRUE, Consumed(helper)) /\ Frame # "none" => Ends
             /\ EndNetworkRun(FALSE, Consumed(helper)) /\ Frame = "cancelled" => Ends
             /\ EndRun(FALSE, helper) /\ engine = "sqlite" => Ends
  <2>1. EndNetworkRun(TRUE, Aborted(helper)) => Ends
    BY <1>o, <1>a, <1>n
  <2>2. EndNetworkRun(TRUE, Consumed(helper)) /\ Frame # "none" => Ends
    <3>1. Frame # "none" => helper.dead \/ helper.reply # "none"
      BY DEF Frame
    <3> QED  BY <1>o, <1>a, <1>n, <3>1
  <2>3. EndNetworkRun(FALSE, Consumed(helper)) /\ Frame = "cancelled" => Ends
    <3>1. Frame = "cancelled" => engine = "postgres" /\ helper.reply = "cancelled"
                                 /\ helper.reply # "none"
      BY <1>c DEF Frame
    <3> QED  BY <1>o, <1>a, <1>n, <3>1
  <2>4. EndRun(FALSE, helper) /\ engine = "sqlite" => Ends
    BY <1>o, <1>a, <1>e
  <2> QED  BY <2>1, <2>2, <2>3, <2>4
<1>m. ASSUME NEW s \in Stages, Stage(s), UNCHANGED <<engine, actor, mode, calls, answer, hits>>,
             worker.stage # "idle", Waiting => s \notin {"idle", "leased", "spawned"},
             s \in {"unit", "refused"} => mode[Run] = "script",
             \E h \in {helper, [helper EXCEPT !.meta = FALSE]} :
               (h = helper \/ helper.meta) /\ helper' \in {h, Sent(h, "stop", Run), Aborted(h)},
             engine = "sqlite" => helper' = helper
      PROVE  Moves
  <2>1. worker'.stage = s
    BY <1>m DEF TypeOK
  <2> QED  BY <1>m, <1>a, <2>1 DEF Moves, Waiting, Stages
<1>1. CASE Spawn
  BY <1>1, <1>m DEF Spawn, Stages, Waiting
<1>2. CASE StartRows
  BY <1>2, <1>m DEF StartRows, StopStream, Stages, HelperInv
<1>3. CASE QueryEnded
  <2>1. CASE Terminates \/ Frame # "cancelled"
    <3>1. EndNetworkRun(TRUE, Consumed(helper))
      BY <1>3, <2>1 DEF QueryEnded
    <3> QED  BY <1>3, <3>1, <1>o DEF QueryEnded
  <2>2. CASE ~(Terminates \/ Frame # "cancelled")
    <3>1. EndNetworkRun(FALSE, Consumed(helper))
      BY <1>3, <2>2 DEF QueryEnded
    <3> QED  BY <1>3, <2>2, <3>1, <1>o DEF QueryEnded
  <2> QED  BY <2>1, <2>2
<1>4. CASE Drained
  BY <1>4, <1>o DEF Drained
<1>5. CASE PageRead
  BY <1>5, <1>m DEF PageRead, StopStream, Stages
<1>c2. ASSUME StreamCancelled, OnlyWorker, worker.stage # "idle"
       PROVE  Moves \/ Ends
  BY <1>c2, <1>m, <1>o DEF StreamCancelled, Stages
<1>6. CASE CancelSeen
  BY <1>6, <1>c2 DEF CancelSeen
<1>7. CASE Confirmed
  BY <1>7, <1>o DEF Confirmed
<1>8. CASE ReadFails
  BY <1>8, <1>a, <1>b DEF ReadFails, Moves, Waiting
<1>9. CASE Install \/ TakeNext
  BY <1>9, <1>m DEF Install, TakeNext, Stages
<1>10. CASE TakeRelease
  BY <1>10, <1>m, <1>o DEF TakeRelease, LetGo, StopStream, Stages
<1>11. CASE TakeCancel
  BY <1>11, <1>c2, <1>o DEF TakeCancel
<1>12. CASE SqliteStart
  <2>1. mode[Run] \in {"primary", "script"}
    BY <1>12, <1>a, ModesKnown DEF SqliteStart, TypeOK, LeaseInv, ModesKnown
  <2> QED  BY <1>12, <1>m, <1>o, <2>1 DEF SqliteStart, Stages, Waiting
<1>13. CASE SqlitePage
  BY <1>13, <1>m DEF SqlitePage, Stages
<1>14. CASE SqliteEnd \/ SqliteInterrupted
  BY <1>14, <1>o DEF SqliteEnd, SqliteInterrupted
<1>15. CASE UnitRows
  <2>1. CASE UNCHANGED worker
    BY <1>15, <2>1, <1>a, <1>b DEF UnitRows, StopStream, Moves, Waiting, HelperInv
  <2>2. CASE Stage("unit") \/ Stage("refused")
    BY <1>15, <2>2, <1>m, <1>b DEF UnitRows, StopStream, Stages, HelperInv
  <2> QED  BY <1>15, <2>1, <2>2 DEF UnitRows, StopStream
<1>16. CASE ScriptEnd
  <2>1. PICK q \in BOOLEAN, h \in {Aborted(helper), Consumed(helper)} : EndRun(q, h)
    BY <1>16 DEF ScriptEnd
  <2>2. helper.dead \/ helper.reply # "none"
    BY <1>16 DEF ScriptEnd, Frame
  <2>3. OnlyWorker /\ worker.stage # "idle" /\ mode[Run] = "script"
    BY <1>16, <1>b DEF ScriptEnd
  <2> QED  BY <1>a, <1>e, <2>1, <2>2, <2>3
<1>17. CASE ScriptCancelSeen
  <2>1. actor'.active = NoRun /\ actor'.pending = actor.pending /\ actor'.meta = actor.meta
        /\ actor'.closed
    BY <1>17, <1>s, SettledTypes, <1>a DEF ScriptCancelSeen, Actors
  <2> QED  BY <1>17, <1>a, <2>1 DEF ScriptCancelSeen, Ends
<1> QED
  BY <1>1, <1>2, <1>3, <1>4, <1>5, <1>6, <1>7, <1>8, <1>9, <1>10, <1>11, <1>12, <1>13, <1>14,
     <1>15, <1>16, <1>17 DEF WorkerStep

\* Every step, by what it does to the state the invariant is about.
LEMMA NextCases ==
  ASSUME TypeOK, LeaseInv, HelperInv, TokenInv, [Next]_vars
  PROVE  \/ Quiet \/ Moves \/ Ends \/ SendQuery \/ NextUnit
         \/ AcquireMetadata \/ SettleMetadata
         \/ \E r \in Runs : (\E m \in Modes : AcquireExecution(r, m)) \/ RequestCancel(r) \/ CallStep(r)
         \/ RequestTeardown \/ SignalTeardown
         \/ HelperQuery \/ HelperControl \/ HelperRows \/ HelperFinish
<1>1. CASE ResultNext \/ UNCHANGED vars
  BY <1>1 DEF ResultNext, vars, actorVars, Quiet
<1>2. CASE ResultRelease
  BY <1>2 DEF ResultRelease, Quiet, TypeOK, Actors
<1>3. CASE WorkerStep \/ ReadFails \/ SqlitePage \/ SqliteEnd
  BY <1>3, WorkerCases
<1> QED  BY <1>1, <1>2, <1>3 DEF Next, HelperStep

\* What a request that is written, or read, leaves in the pipe (Sent,
\* query_worker_loop).
LEMMA SentQueue ==
  ASSUME NEW h \in Helpers, NEW kind \in {"query", "cancel", "stop"}, NEW r \in Runs
  PROVE  LET g == Sent(h, kind, r)
         IN  /\ g.run = h.run /\ g.meta = h.meta /\ g.reply = h.reply
             /\ g.latched = h.latched /\ g.dead = h.dead
             /\ h.dead => g = h
             /\ ~h.dead => /\ Len(g.queue) = Len(h.queue) + 1
                          /\ g.queue[Len(h.queue) + 1].kind = kind
                          /\ g.queue[Len(h.queue) + 1].run = r
             /\ Len(h.queue) \in Nat
             /\ \A i \in 1..Len(h.queue) : g.queue[i] = h.queue[i]
<1> DEFINE q == [kind |-> kind, run |-> r]
<1>1. h.queue \in Seq(Requests) /\ q \in Requests
  BY DEF Helpers, Requests
<1>2. /\ Len(Append(h.queue, q)) = Len(h.queue) + 1
      /\ Append(h.queue, q)[Len(h.queue) + 1] = q
      /\ Len(h.queue) \in Nat
      /\ \A i \in 1..Len(h.queue) : Append(h.queue, q)[i] = h.queue[i]
  BY <1>1
<1>3. CASE h.dead
  BY <1>2, <1>3 DEF Sent
<1>4. CASE ~h.dead
  <2>1. Sent(h, kind, r) = [h EXCEPT !.queue = Append(h.queue, q)]
    BY <1>4 DEF Sent
  <2>2. /\ Sent(h, kind, r).queue = Append(h.queue, q)
        /\ Sent(h, kind, r).run = h.run /\ Sent(h, kind, r).meta = h.meta
        /\ Sent(h, kind, r).reply = h.reply
        /\ Sent(h, kind, r).latched = h.latched /\ Sent(h, kind, r).dead = h.dead
    BY <2>1 DEF Helpers
  <2> QED  BY <1>2, <1>4, <2>2
<1> QED  BY <1>3, <1>4

\* What is left in the pipe when its first request has been read.
LEMMA TailQueue ==
  ASSUME NEW h \in Helpers, h.queue # <<>>
  PROVE  LET g == [h EXCEPT !.queue = Tail(@)]
         IN  /\ g.run = h.run /\ g.meta = h.meta /\ g.reply = h.reply
             /\ g.latched = h.latched /\ g.dead = h.dead /\ g.rows = h.rows
             /\ Len(h.queue) \in Nat \ {0} /\ Len(g.queue) = Len(h.queue) - 1
             /\ Head(h.queue) = h.queue[1]
             /\ \A i \in 1..Len(g.queue) : g.queue[i] = h.queue[i + 1]
<1>1. h.queue \in Seq(Requests)
  BY DEF Helpers
<1>2. /\ Len(h.queue) \in Nat \ {0} /\ Len(Tail(h.queue)) = Len(h.queue) - 1
      /\ Head(h.queue) = h.queue[1]
      /\ \A i \in 1..Len(Tail(h.queue)) : Tail(h.queue)[i] = h.queue[i + 1]
  BY <1>1
<1> QED  BY <1>2 DEF Helpers

-----------------------------------------------------------------------------
(* The actor                                                               *)

\* The mark a cancellation leaves (ConnectionActor::request_cancel).
LEMMA CancelMark ==
  ASSUME TypeOK, NEW r \in Runs, RequestCancel(r), ~(actor.cancel \/ actor.pending = r)
  PROVE  /\ actor'.active = actor.active /\ actor'.pending = r /\ actor'.meta = actor.meta
         /\ actor'.closed = actor.closed /\ actor'.cancel = TRUE
<1>1. actor' = [actor EXCEPT !.cancel = TRUE, !.pending = r, !.term = @ \/ engine = "mssql"]
  BY DEF RequestCancel
<1> QED  BY <1>1 DEF TypeOK, Actors

\* A dispatch that is over gives the actor back; one that failed takes the mark
\* of its own run back (complete_cancel_dispatch, fail_cancel_dispatch).
LEMMA DispatchDone ==
  ASSUME TypeOK, NEW r \in Runs, CompleteDispatch(r) \/ FailDispatch(r)
  PROVE  /\ actor'.active = actor.active /\ actor'.pending = NoRun /\ actor'.meta = actor.meta
         /\ actor'.closed = actor.closed
         /\ actor.cancel /\ (CompleteDispatch(r) \/ actor.active # r) => actor'.cancel
<1>1. CASE CompleteDispatch(r)
  BY <1>1 DEF CompleteDispatch, TypeOK, Actors
<1>2. CASE FailDispatch(r)
  <2>1. actor' = [actor EXCEPT !.pending = NoRun, !.cancel = @ /\ Run # r, !.term = @ /\ Run # r]
    BY <1>2 DEF FailDispatch
  <2>2. CASE CompleteDispatch(r)
    BY <1>2, <2>2 DEF CompleteDispatch, FailDispatch
  <2>3. CASE ~CompleteDispatch(r)
    BY <2>1, <2>3 DEF TypeOK, Actors, Run
  <2> QED  BY <2>2, <2>3
<1> QED  BY <1>1, <1>2

\* A teardown closes the actor and marks its run (request_lifecycle_teardown).
LEMMA TeardownMark ==
  ASSUME TypeOK, RequestTeardown
  PROVE  /\ actor'.active = actor.active /\ actor'.pending = actor.pending
         /\ actor'.meta = actor.meta /\ actor'.closed = TRUE
         /\ actor.cancel \/ actor.active # NoRun => actor'.cancel
<1>1. actor' = [actor EXCEPT !.closed = TRUE, !.cancel = @ \/ Run # NoRun,
                             !.release = @ \/ Run # NoRun, !.term = @ \/ (Run # NoRun /\ Network)]
  BY DEF RequestTeardown
<1> QED  BY <1>1 DEF TypeOK, Actors, Run

\* The actor stays with one run and its cancellation.
LEMMA LeaseStep ==
  ASSUME TypeOK, LeaseInv, HelperInv, TokenInv, [Next]_vars, TypeOK'
  PROVE  LeaseInv'
<1> USE DEF Run, At, Stage
<1>1. CASE Quiet
  BY <1>1 DEF Quiet, LeaseInv
<1>2. CASE Moves
  BY <1>2 DEF Moves, LeaseInv
<1>3. CASE Ends
  BY <1>3 DEF Ends, LeaseInv
<1>4. CASE SendQuery
  <2>1. Run \in Runs /\ mode[Run] \in {"primary", "script"}
    BY <1>4, ModesKnown DEF SendQuery, TypeOK, Actors, LeaseInv, ModesKnown
  <2> QED  BY <1>4, <2>1 DEF SendQuery, LeaseInv, OnlyWorker, actorVars, TypeOK
<1>5. CASE NextUnit
  BY <1>5 DEF NextUnit, LeaseInv, OnlyWorker, actorVars
<1>6. CASE AcquireMetadata \/ SettleMetadata
  BY <1>6 DEF AcquireMetadata, SettleMetadata, LeaseInv, Busy, TypeOK, Actors
<1>7. ASSUME NEW r \in Runs, NEW m \in Modes, AcquireExecution(r, m)
      PROVE  LeaseInv'
  <2>1. /\ actor'.active = r /\ actor'.pending = NoRun /\ ~actor'.meta
        /\ actor.pending = NoRun
        /\ mode'[r] = m /\ m # "unused" /\ \A s \in Runs : s # r => mode'[s] = mode[s]
        /\ worker'.stage = "leased" /\ UNCHANGED <<calls, answer>>
    BY <1>7, ModesKnown DEF AcquireExecution, Busy, TypeOK, Actors, ModesKnown
  <2> QED  BY <2>1, NoRunIsNone DEF LeaseInv, Dispatching
<1>8. ASSUME NEW r \in Runs, RequestCancel(r)
      PROVE  LeaseInv'
  <2>1. CASE actor.cancel \/ actor.pending = r
    <3>1. /\ calls'[r] = "already" /\ mode[r] # "unused"
          /\ \A s \in Runs : s # r => calls'[s] = calls[s]
          /\ UNCHANGED <<actor, mode, worker, answer>>
      BY <1>8, <2>1, NoRunIsNone DEF RequestCancel, Call, OnlyCall, OwnerBusy, LeaseInv, TypeOK
    <3> QED  BY <3>1 DEF LeaseInv, Dispatching
  <2>2. CASE ~(actor.cancel \/ actor.pending = r)
    <3>1. actor.active = r /\ actor.pending = NoRun
      BY <1>8, <2>2, NoRunIsNone DEF RequestCancel, OwnerBusy, LeaseInv
    <3>2. actor'.active = actor.active /\ actor'.pending = r /\ actor'.meta = actor.meta
      BY <1>8, <2>2, CancelMark
    <3>3. /\ \A s \in Runs : s # r => calls'[s] = calls[s]
          /\ UNCHANGED <<mode, answer, worker>>
      BY <1>8, <2>2 DEF RequestCancel, Call, OnlyCall, TypeOK
    <3> QED  BY <3>1, <3>2, <3>3, NoRunIsNone DEF LeaseInv
  <2> QED  BY <2>1, <2>2
<1>9. ASSUME NEW r \in Runs, CallStep(r)
      PROVE  LeaseInv'
  <2>1. CASE DispatchSqlite(r) \/ DispatchPostgres(r) \/ NotifyWorker(r) \/ DispatchMssql(r)
    BY <2>1 DEF DispatchSqlite, DispatchPostgres, NotifyWorker, DispatchMssql, Call, OnlyCall,
                LeaseInv, TypeOK, Dispatching
  <2>2. CASE CompleteDispatch(r) \/ FailDispatch(r)
    <3>1. actor'.active = actor.active /\ actor'.pending = NoRun /\ actor'.meta = actor.meta
      BY <2>2, DispatchDone
    <3>2. /\ calls'[r] \notin Dispatching /\ calls[r] # "none" /\ actor.pending = r
          /\ \A s \in Runs : s # r => calls'[s] = calls[s] /\ answer'[s] = answer[s]
          /\ UNCHANGED <<mode, worker>>
      BY <2>2 DEF CompleteDispatch, FailDispatch, Call, OnlyCall, TypeOK, Dispatching, LeaseInv
    <3> QED  BY <3>1, <3>2, NoRunIsNone DEF LeaseInv
  <2>3. CASE SignalResultCancel(r) \/ CancelReturns(r)
    <3>1. /\ calls'[r] \notin Dispatching /\ calls[r] # "none"
          /\ \A s \in Runs : s # r => calls'[s] = calls[s] /\ answer'[s] = answer[s]
          /\ UNCHANGED <<actor, mode, worker>>
      BY <2>3 DEF SignalResultCancel, CancelReturns, Call, OnlyCall, TypeOK, Dispatching
    <3> QED  BY <3>1 DEF LeaseInv
  <2> QED  BY <1>9, <2>1, <2>2, <2>3 DEF CallStep
<1>10. CASE RequestTeardown \/ SignalTeardown
  <2>1. actor'.active = actor.active /\ actor'.pending = actor.pending /\ actor'.meta = actor.meta
    BY <1>10, TeardownMark DEF SignalTeardown
  <2>2. UNCHANGED <<mode, worker, calls, answer>>
    BY <1>10 DEF RequestTeardown, SignalTeardown
  <2> QED  BY <2>1, <2>2 DEF LeaseInv
<1>11. CASE HelperQuery \/ HelperControl \/ HelperRows \/ HelperFinish
  <2>1. UNCHANGED <<actor, mode, worker, calls, answer>>
    BY <1>11 DEF HelperQuery, HelperControl, HelperRows, HelperFinish, OnlyHelper, actorVars
  <2> QED  BY <2>1 DEF LeaseInv
<1> QED
  BY NextCases, <1>1, <1>2, <1>3, <1>4, <1>5, <1>6, <1>7, <1>8, <1>9, <1>10, <1>11

-----------------------------------------------------------------------------
(* The helper                                                              *)

\* A worker that was ended has nothing left (abort, reap), and one whose
\* terminal answer was read keeps its pipe (read_response).
LEMMA HelperFields ==
  ASSUME NEW h \in Helpers
  PROVE  /\ Aborted(h).queue = <<>> /\ Len(Aborted(h).queue) = 0 /\ Aborted(h).run = NoRun
         /\ Aborted(h).meta = FALSE /\ Aborted(h).reply = "none" /\ Aborted(h).latched = NoRun
         /\ Aborted(h).dead = TRUE /\ \A g : Aborted(h) = Aborted(g)
         /\ Consumed(h).queue = h.queue /\ Consumed(h).run = h.run /\ Consumed(h).meta = FALSE
         /\ Consumed(h).reply = "none" /\ Consumed(h).latched = h.latched
         /\ Consumed(h).dead = h.dead
         /\ h = Aborted(h) => Consumed(h) = h
<1>1. /\ Aborted(h).queue = <<>> /\ Len(Aborted(h).queue) = 0 /\ Aborted(h).run = NoRun
      /\ Aborted(h).meta = FALSE /\ Aborted(h).reply = "none" /\ Aborted(h).latched = NoRun
      /\ Aborted(h).dead = TRUE /\ \A g : Aborted(h) = Aborted(g)
  BY DEF Aborted
<1>2. /\ Consumed(h).queue = h.queue /\ Consumed(h).run = h.run /\ Consumed(h).meta = FALSE
      /\ Consumed(h).reply = "none" /\ Consumed(h).latched = h.latched
      /\ Consumed(h).dead = h.dead
  BY DEF Consumed, Helpers
<1>3. h = Aborted(h) => Consumed(h) = h
  BY <1>1 DEF Consumed, Helpers
<1> QED  BY <1>1, <1>2, <1>3

\* A dead helper holds no query, no answer and no cancellation (abort, reap).
LEMMA DeadHelper ==
  ASSUME TypeOK, HelperInv, helper.dead
  PROVE  /\ helper = Aborted(helper) /\ helper.queue = <<>> /\ Len(helper.queue) = 0
         /\ helper.run = NoRun /\ helper.meta = FALSE /\ helper.reply = "none"
         /\ helper.latched = NoRun
<1>1. helper = Aborted(helper) /\ helper \in Helpers
  BY DEF HelperInv, TypeOK
<1> QED  BY <1>1, HelperFields

\* The helper reads a query (query_worker_loop).
LEMMA QueryRead ==
  ASSUME helper \in Helpers, HelperQuery
  PROVE  /\ helper'.meta = helper.meta /\ helper'.dead = helper.dead
         /\ Len(helper.queue) \in Nat \ {0} /\ Len(helper'.queue) = Len(helper.queue) - 1
         /\ helper.queue[1].kind = "query" /\ helper'.latched = NoRun
         /\ \A i \in 1..Len(helper'.queue) : helper'.queue[i] = helper.queue[i + 1]
         /\ \/ /\ helper.latched # NoRun /\ helper'.run = NoRun /\ helper'.reply = "cancelled"
              /\ hits' = hits \cup {[by |-> helper.latched, on |-> helper.queue[1].run]}
           \/ /\ helper.latched = NoRun /\ helper'.run = helper.queue[1].run
              /\ helper'.reply = helper.reply /\ hits' = hits
<1> DEFINE h == [helper EXCEPT !.queue = Tail(@)]
<1>1. helper.queue # <<>>
  BY DEF HelperQuery
<1>2. h \in Helpers
  BY <1>1, HelperTypes
<1>3. /\ h.meta = helper.meta /\ h.reply = helper.reply
      /\ h.latched = helper.latched /\ h.dead = helper.dead
      /\ Len(helper.queue) \in Nat \ {0} /\ Len(h.queue) = Len(helper.queue) - 1
      /\ Head(helper.queue) = helper.queue[1]
      /\ \A i \in 1..Len(h.queue) : h.queue[i] = helper.queue[i + 1]
  BY <1>1, TailQueue
<1>4. CASE h.latched # NoRun
  <2>1. /\ helper' = HelperEnds([h EXCEPT !.latched = NoRun], "cancelled")
        /\ hits' = hits \cup {[by |-> h.latched, on |-> Head(helper.queue).run]}
    BY <1>4 DEF HelperQuery
  <2>2. /\ helper'.meta = h.meta /\ helper'.dead = h.dead /\ helper'.queue = h.queue
        /\ helper'.latched = NoRun /\ helper'.run = NoRun /\ helper'.reply = "cancelled"
    BY <1>2, <2>1 DEF HelperEnds, Helpers
  <2> QED  BY <1>3, <1>4, <2>1, <2>2 DEF HelperQuery
<1>5. CASE h.latched = NoRun
  <2>1. helper' = [h EXCEPT !.run = Head(helper.queue).run] /\ hits' = hits
    BY <1>5 DEF HelperQuery
  <2>2. /\ helper'.meta = h.meta /\ helper'.dead = h.dead /\ helper'.queue = h.queue
        /\ helper'.latched = NoRun /\ helper'.run = Head(helper.queue).run
        /\ helper'.reply = h.reply
    BY <1>2, <1>5, <2>1 DEF Helpers
  <2> QED  BY <1>3, <1>5, <2>1, <2>2 DEF HelperQuery
<1> QED  BY <1>4, <1>5

\* The helper reads CancelQuery or StopStreaming.
LEMMA ControlRead ==
  ASSUME helper \in Helpers, HelperControl
  PROVE  /\ helper'.meta = helper.meta /\ helper'.dead = helper.dead
         /\ Len(helper.queue) \in Nat \ {0} /\ Len(helper'.queue) = Len(helper.queue) - 1
         /\ \A i \in 1..Len(helper'.queue) : helper'.queue[i] = helper.queue[i + 1]
         /\ \/ /\ helper.queue[1].kind = "cancel" /\ helper.run # NoRun
              /\ helper'.run = NoRun /\ helper'.reply = "cancelled"
              /\ helper'.latched = helper.latched
              /\ hits' = hits \cup {[by |-> helper.queue[1].run, on |-> helper.run]}
           \/ /\ helper.queue[1].kind = "cancel" /\ helper.run = NoRun
              /\ helper'.run = NoRun /\ helper'.reply = helper.reply
              /\ helper'.latched = helper.queue[1].run /\ hits' = hits
           \/ /\ helper.queue[1].kind # "cancel" /\ helper'.latched = helper.latched
              /\ hits' = hits
              /\ \/ helper'.run = helper.run /\ helper'.reply = helper.reply
                 \/ helper.run # NoRun /\ helper'.run = NoRun /\ helper'.reply = "done"
<1> DEFINE h == [helper EXCEPT !.queue = Tail(@)]
<1>1. helper.queue # <<>>
  BY DEF HelperControl
<1>2. h \in Helpers
  BY <1>1, HelperTypes
<1>3. /\ h.run = helper.run /\ h.meta = helper.meta /\ h.reply = helper.reply
      /\ h.latched = helper.latched /\ h.dead = helper.dead
      /\ Len(helper.queue) \in Nat \ {0} /\ Len(h.queue) = Len(helper.queue) - 1
      /\ Head(helper.queue) = helper.queue[1]
      /\ \A i \in 1..Len(h.queue) : h.queue[i] = helper.queue[i + 1]
  BY <1>1, TailQueue
<1>4. ASSUME NEW reply \in Final, helper' = HelperEnds(h, reply)
      PROVE  /\ helper'.meta = h.meta /\ helper'.dead = h.dead /\ helper'.queue = h.queue
             /\ helper'.latched = h.latched /\ helper'.run = NoRun /\ helper'.reply = reply
  BY <1>2, <1>4 DEF HelperEnds, Helpers
<1>5. CASE Head(helper.queue).kind = "cancel" /\ h.run # NoRun
  <2>1. /\ helper' = HelperEnds(h, "cancelled")
        /\ hits' = hits \cup {[by |-> Head(helper.queue).run, on |-> h.run]}
    BY <1>5 DEF HelperControl
  <2>2. "cancelled" \in Final
    BY DEF Final
  <2> QED  BY <1>3, <1>4, <1>5, <2>1, <2>2
<1>6. CASE Head(helper.queue).kind = "cancel" /\ h.run = NoRun
  <2>1. helper' = [h EXCEPT !.latched = Head(helper.queue).run] /\ hits' = hits
    BY <1>6 DEF HelperControl
  <2>2. /\ helper'.meta = h.meta /\ helper'.dead = h.dead /\ helper'.queue = h.queue
        /\ helper'.latched = Head(helper.queue).run /\ helper'.run = h.run
        /\ helper'.reply = h.reply
    BY <1>2, <2>1 DEF Helpers
  <2> QED  BY <1>3, <1>6, <2>1, <2>2
<1>7. CASE Head(helper.queue).kind # "cancel"
  <2>1. hits' = hits /\ (helper' = h \/ (h.run # NoRun /\ helper' = HelperEnds(h, "done")))
    BY <1>7 DEF HelperControl
  <2>2. "done" \in Final
    BY DEF Final
  <2> QED  BY <1>3, <1>4, <1>7, <2>1, <2>2
<1> QED  BY <1>5, <1>6, <1>7

\* The helper works on the query of the active run.
LEMMA PipeStep ==
  ASSUME TypeOK, LeaseInv, HelperInv, TokenInv, [Next]_vars, TypeOK'
  PROVE  HelperInv'
<1> USE DEF Run
<1>a. helper \in Helpers /\ helper' \in Helpers
  BY DEF TypeOK
<1>b. Waiting => actor.active # NoRun
  BY DEF TypeOK, Waiting
<1>f. ASSUME actor'.active = actor.active, UNCHANGED <<engine, helper>>, Waiting => Waiting'
      PROVE  HelperInv'
  BY <1>f DEF HelperInv, Aborted
<1>d. ASSUME helper' = Aborted(helper)
      PROVE  HelperInv'
  <2>1. helper' = Aborted(helper')
    BY <1>d DEF Aborted
  <2>2. /\ helper'.queue = <<>> /\ Len(helper'.queue) = 0 /\ helper'.run = NoRun
        /\ helper'.meta = FALSE /\ helper'.reply = "none"
    BY <1>a, <1>d, HelperFields
  <2> QED  BY <2>1, <2>2 DEF HelperInv
<1>s. ASSUME NEW h \in Helpers, NEW kind \in {"cancel", "stop"}, NEW r \in Runs,
             h.queue = helper.queue, h.run = helper.run, h.reply = helper.reply,
             h.meta => helper.meta, h.dead = helper.dead, helper.dead => h = helper,
             helper' \in {h, Sent(h, kind, r)}, engine # "sqlite",
             actor'.active = actor.active, engine' = engine, Waiting => Waiting'
      PROVE  HelperInv'
  <2>1. CASE helper' = h
    <3>1. helper'.dead => helper' = Aborted(helper')
      BY <1>s, <2>1 DEF HelperInv, Aborted
    <3> QED  BY <1>s, <2>1, <3>1 DEF HelperInv
  <2>2. CASE helper' = Sent(h, kind, r) /\ helper.dead
    BY <1>s, <2>2, <2>1, SentQueue
  <2>3. CASE helper' = Sent(h, kind, r) /\ ~helper.dead
    <3>1. kind \in {"query", "cancel", "stop"} /\ ~h.dead
      BY <1>s, <2>3
    <3>2. /\ helper'.run = helper.run /\ helper'.meta = h.meta /\ helper'.reply = helper.reply
          /\ ~helper'.dead
          /\ Len(helper'.queue) = Len(helper.queue) + 1 /\ Len(helper.queue) \in Nat
          /\ helper'.queue[Len(helper.queue) + 1].kind = kind
          /\ \A i \in 1..Len(helper.queue) : helper'.queue[i] = helper.queue[i]
      BY <1>s, <2>3, <3>1, SentQueue
    <3>3. ASSUME NEW i \in 1..Len(helper'.queue), helper'.queue[i].kind = "query"
          PROVE  i \in 1..Len(helper.queue) /\ helper.queue[i].kind = "query"
                 /\ helper'.queue[i] = helper.queue[i]
      BY <3>2, <3>3
    <3> QED  BY <1>s, <3>2, <3>3 DEF HelperInv
  <2> QED  BY <1>s, <2>1, <2>2, <2>3
<1>1. CASE Quiet
  BY <1>1, <1>f DEF Quiet, Waiting
<1>2. CASE Moves
  <2>1. PICK h \in {helper, [helper EXCEPT !.meta = FALSE]} :
              (h = helper \/ helper.meta) /\ helper' \in {h, Sent(h, "stop", Run), Aborted(h)}
    BY <1>2 DEF Moves
  <2>2. /\ h \in Helpers /\ h.queue = helper.queue /\ h.run = helper.run /\ h.reply = helper.reply
        /\ (h.meta => helper.meta) /\ h.dead = helper.dead
    BY <1>a, <2>1 DEF Helpers
  <2>3. helper.dead => h = helper
    BY <2>1, DeadHelper
  <2>4. CASE helper' = Aborted(h)
    BY <1>d, <2>4 DEF Aborted
  <2>5. CASE helper' # Aborted(h) /\ engine # "sqlite"
    <3>1. "stop" \in {"cancel", "stop"} /\ helper' \in {h, Sent(h, "stop", Run)}
      BY <2>1, <2>5
    <3>2. Run \in Runs /\ actor'.active = actor.active /\ engine' = engine /\ (Waiting => Waiting')
      BY <1>2 DEF Moves
    <3> QED  BY <1>s, <2>2, <2>3, <2>5, <3>1, <3>2
  <2>6. CASE engine = "sqlite"
    BY <1>2, <1>f, <2>6 DEF Moves
  <2> QED  BY <2>4, <2>5, <2>6
<1>3. CASE Ends
  <2>1. CASE helper' = Consumed(helper) /\ (helper.dead \/ helper.reply # "none")
    <3>1. /\ helper'.queue = helper.queue /\ helper'.run = helper.run /\ ~helper'.meta
          /\ helper'.reply = "none" /\ helper'.dead = helper.dead
      BY <1>a, <2>1, HelperFields
    <3>2. helper'.dead => helper' = Aborted(helper')
      BY <1>a, <2>1, <3>1, HelperFields DEF HelperInv
    <3>3. helper'.run = NoRun /\ \A i \in 1..Len(helper'.queue) : helper'.queue[i].kind # "query"
      <4>1. CASE helper.dead
        BY <3>1, <4>1, DeadHelper
      <4>2. CASE helper.reply # "none"
        BY <3>1, <4>2 DEF HelperInv
      <4> QED  BY <2>1, <4>1, <4>2
    <3> QED  BY <1>3, <3>1, <3>2, <3>3 DEF Ends, HelperInv
  <2>2. CASE helper' = helper /\ engine = "sqlite"
    <3>1. helper'.dead => helper' = Aborted(helper')
      BY <2>2 DEF HelperInv, Aborted
    <3> QED  BY <1>3, <2>2, <3>1 DEF Ends, HelperInv
  <2> QED  BY <1>3, <1>d, <2>1, <2>2 DEF Ends
<1>4. CASE SendQuery
  <2>1. Run \in Runs /\ Waiting' /\ ~Waiting /\ engine # "sqlite"
    BY <1>4 DEF SendQuery, At, Stage, Network, Waiting, TypeOK, Actors
  <2>2. UNCHANGED <<engine, actor>> /\ helper' = Sent(helper, "query", Run)
    BY <1>4 DEF SendQuery, OnlyWorker, actorVars
  <2>3. CASE helper.dead
    BY <1>a, <1>f, <2>1, <2>2, <2>3, SentQueue
  <2>4. CASE ~helper.dead
    <3>1. /\ helper.run = NoRun /\ helper.reply = "none" /\ ~helper.meta
          /\ \A i \in 1..Len(helper.queue) : helper.queue[i].kind # "query"
      BY <2>1 DEF HelperInv
    <3>2. /\ helper'.run = helper.run /\ helper'.meta = helper.meta /\ helper'.reply = helper.reply
          /\ ~helper'.dead
          /\ Len(helper'.queue) = Len(helper.queue) + 1 /\ Len(helper.queue) \in Nat
          /\ helper'.queue[Len(helper.queue) + 1].run = Run
          /\ \A i \in 1..Len(helper.queue) : helper'.queue[i] = helper.queue[i]
      BY <1>a, <2>1, <2>2, <2>4, SentQueue
    <3>3. ASSUME NEW i \in 1..Len(helper'.queue), helper'.queue[i].kind = "query"
          PROVE  i = Len(helper.queue) + 1
      BY <3>1, <3>2, <3>3
    <3> QED  BY <2>1, <2>2, <3>1, <3>2, <3>3 DEF HelperInv
  <2> QED  BY <2>3, <2>4
<1>5. CASE NextUnit
  <2>1. UNCHANGED <<engine, actor>>
    BY <1>5 DEF NextUnit, OnlyWorker, actorVars
  <2>2. CASE engine = "sqlite"
    <3>1. helper' = helper
      BY <1>5, <2>2 DEF NextUnit, Network
    <3>2. helper'.dead => helper' = Aborted(helper')
      BY <3>1 DEF HelperInv, Aborted
    <3> QED  BY <2>1, <2>2, <3>1, <3>2 DEF HelperInv
  <2>3. CASE engine # "sqlite"
    <3>1. helper' = Consumed(helper) /\ ~helper.dead /\ helper.reply = "done"
      BY <1>5, <2>3 DEF NextUnit, Network, Frame
    <3>2. /\ helper'.queue = helper.queue /\ helper'.run = helper.run /\ ~helper'.meta
          /\ helper'.reply = "none" /\ ~helper'.dead
      BY <1>a, <3>1, HelperFields
    <3> QED  BY <2>1, <2>3, <3>1, <3>2 DEF HelperInv
  <2> QED  BY <2>2, <2>3
<1>6. CASE AcquireMetadata \/ SettleMetadata
  BY <1>6, <1>f DEF AcquireMetadata, SettleMetadata, Waiting, TypeOK, Actors
<1>7. ASSUME NEW r \in Runs, NEW m \in Modes, AcquireExecution(r, m)
      PROVE  HelperInv'
  <2>1. actor.active = NoRun /\ ~Waiting /\ UNCHANGED <<engine, helper>>
    BY <1>7, <1>b DEF AcquireExecution, Busy
  <2> QED  BY <2>1 DEF HelperInv, Aborted
<1>8. ASSUME NEW r \in Runs, RequestCancel(r)
      PROVE  HelperInv'
  BY <1>8, <1>f, CancelMark DEF RequestCancel, OnlyCall, Waiting
<1>9. ASSUME NEW r \in Runs, CallStep(r)
      PROVE  HelperInv'
  <2>1. CASE DispatchPostgres(r)
    BY <1>a, <2>1, <1>s DEF DispatchPostgres, OnlyCall, Waiting
  <2>2. CASE CompleteDispatch(r) \/ FailDispatch(r)
    BY <2>2, <1>f, DispatchDone DEF CompleteDispatch, FailDispatch, OnlyCall, Waiting
  <2>3. CASE DispatchSqlite(r) \/ NotifyWorker(r) \/ DispatchMssql(r)
    BY <2>3, <1>f DEF DispatchSqlite, NotifyWorker, DispatchMssql, OnlyCall, Waiting
  <2>4. CASE SignalResultCancel(r) \/ CancelReturns(r)
    BY <2>4, <1>f DEF SignalResultCancel, CancelReturns, OnlyCall, Waiting
  <2> QED  BY <1>9, <2>1, <2>2, <2>3, <2>4 DEF CallStep
<1>10. CASE RequestTeardown
  BY <1>10, <1>f, TeardownMark DEF RequestTeardown, Waiting
<1>11. CASE SignalTeardown
  BY <1>11, <1>f, <1>d DEF SignalTeardown, Waiting
<1>12. CASE HelperQuery
  <2>1. helper.queue # <<>> /\ ~helper.dead /\ UNCHANGED <<engine, actor, worker>>
    BY <1>a, <1>12, HelperFields DEF HelperQuery, OnlyHelper, actorVars, HelperInv
  <2>2. /\ helper'.meta = helper.meta /\ helper'.dead = helper.dead
        /\ Len(helper.queue) \in Nat \ {0} /\ Len(helper'.queue) = Len(helper.queue) - 1
        /\ helper.queue[1].kind = "query"
        /\ \A i \in 1..Len(helper'.queue) : helper'.queue[i] = helper.queue[i + 1]
        /\ \/ helper'.run = NoRun /\ helper'.reply = "cancelled"
           \/ helper'.run = helper.queue[1].run /\ helper'.reply = helper.reply
    BY <1>a, <1>12, QueryRead
  <2>3. /\ Waiting /\ helper.queue[1].run = actor.active /\ helper.reply = "none" /\ ~helper.meta
        /\ engine # "sqlite"
        /\ \A j \in 1..Len(helper.queue) : helper.queue[j].kind = "query" => j = 1
    BY <2>1, <2>2 DEF HelperInv
  <2>4. \A i \in 1..Len(helper'.queue) : helper'.queue[i].kind # "query"
    BY <2>2, <2>3
  <2>5. Waiting'
    BY <2>1, <2>3 DEF Waiting
  <2> QED  BY <2>1, <2>2, <2>3, <2>4, <2>5 DEF HelperInv
<1>13. CASE HelperControl
  <2>1. helper.queue # <<>> /\ ~helper.dead /\ UNCHANGED <<engine, actor, worker>>
    BY <1>a, <1>13, HelperFields DEF HelperControl, OnlyHelper, actorVars, HelperInv
  <2>2. /\ helper'.meta = helper.meta /\ helper'.dead = helper.dead
        /\ Len(helper.queue) \in Nat \ {0} /\ Len(helper'.queue) = Len(helper.queue) - 1
        /\ \A i \in 1..Len(helper'.queue) : helper'.queue[i] = helper.queue[i + 1]
        /\ \/ helper'.run = NoRun /\ helper.run # NoRun
           \/ helper'.run = helper.run /\ helper'.reply = helper.reply
        /\ helper'.reply # "none" => helper.run # NoRun \/ helper.reply # "none"
        /\ helper.run # NoRun => helper'.run = helper.run \/ helper'.reply # "none"
    BY <1>a, <1>13, ControlRead
  <2>3. engine # "sqlite"
    BY <2>1 DEF HelperInv
  <2>4. Waiting' <=> Waiting
    BY <2>1 DEF Waiting
  <2>5. ASSUME NEW i \in 1..Len(helper'.queue), helper'.queue[i].kind = "query"
        PROVE  /\ Waiting /\ helper'.queue[i].run = actor.active
               /\ helper'.run = NoRun /\ helper'.reply = "none" /\ ~helper'.meta
               /\ \A j \in 1..Len(helper'.queue) : helper'.queue[j].kind = "query" => j = i
    <3>1. i + 1 \in 1..Len(helper.queue) /\ helper.queue[i + 1].kind = "query"
      BY <2>2, <2>5
    <3>2. /\ Waiting /\ helper.queue[i + 1].run = actor.active
          /\ helper.run = NoRun /\ helper.reply = "none" /\ ~helper.meta
          /\ \A j \in 1..Len(helper.queue) : helper.queue[j].kind = "query" => j = i + 1
      BY <3>1 DEF HelperInv
    <3> QED  BY <2>2, <3>2
  <2>6. helper'.run # NoRun => Waiting /\ helper'.run = actor.active /\ helper'.reply = "none"
    BY <2>2 DEF HelperInv
  <2>7. /\ helper'.reply # "none" => Waiting
        /\ helper'.meta => helper'.run # NoRun \/ helper'.reply # "none"
    BY <2>2 DEF HelperInv
  <2> QED  BY <2>1, <2>2, <2>3, <2>4, <2>5, <2>6, <2>7 DEF HelperInv
<1>14. CASE HelperRows \/ HelperFinish
  <2>1. /\ helper.run # NoRun /\ UNCHANGED <<engine, actor, worker>>
        /\ helper'.queue = helper.queue /\ helper'.dead = helper.dead
        /\ \/ helper'.run = helper.run /\ helper'.reply = helper.reply
           \/ helper'.run = NoRun /\ helper'.reply # "none"
    BY <1>14, <1>a DEF HelperRows, HelperFinish, HelperEnds, OnlyHelper, actorVars, Helpers
  <2>2. ~helper.dead /\ engine # "sqlite" /\ Waiting
    BY <1>a, <2>1, HelperFields DEF HelperInv
  <2>3. \A i \in 1..Len(helper.queue) : helper.queue[i].kind # "query"
    BY <2>1 DEF HelperInv
  <2>4. Waiting'
    BY <2>1, <2>2 DEF Waiting
  <2> QED  BY <2>1, <2>2, <2>3, <2>4 DEF HelperInv
<1> QED
  BY NextCases, <1>1, <1>2, <1>3, <1>4, <1>5, <1>6, <1>7, <1>8, <1>9, <1>10, <1>11, <1>12, <1>13,
     <1>14

-----------------------------------------------------------------------------
(* Cancellations                                                           *)

\* A cancellation of r comes into the pipe when it is dispatched, and in no
\* other way; one that is read or kept is the one that was written.
LEMMA TokenFrom ==
  ASSUME TypeOK, LeaseInv, HelperInv, TokenInv, [Next]_vars, TypeOK', NEW r \in Runs
  PROVE  /\ Token(r)' => Token(r) \/ (DispatchPostgres(r) /\ ~helper.dead)
         /\ Single(r) => Single(r)' \/ (DispatchPostgres(r) /\ Token(r))
<1> DEFINE Goal == /\ Token(r)' => Token(r) \/ (DispatchPostgres(r) /\ ~helper.dead)
                   /\ Single(r) => Single(r)' \/ (DispatchPostgres(r) /\ Token(r))
<1> USE DEF Run
<1>a. helper \in Helpers /\ helper' \in Helpers /\ r # NoRun
  BY NoRunIsNone DEF TypeOK
<1>q. ASSUME helper'.queue = helper.queue, helper'.latched = helper.latched
      PROVE  Goal
  BY <1>q DEF Token, Single, CancelAt
<1>d. ASSUME Len(helper'.queue) = 0, helper'.latched = NoRun
      PROVE  Goal
  BY <1>a, <1>d DEF Token, Single, CancelAt
<1>s. ASSUME NEW h \in Helpers, NEW kind \in {"query", "stop"}, NEW s \in Runs,
             h.queue = helper.queue, h.latched = helper.latched, helper' = Sent(h, kind, s)
      PROVE  Goal
  <2>1. CASE h.dead
    BY <1>s, <1>q, <2>1, SentQueue
  <2>2. CASE ~h.dead
    <3>0. kind \in {"query", "cancel", "stop"}
      BY <1>s
    <3>1. /\ helper'.latched = helper.latched
          /\ Len(helper'.queue) = Len(helper.queue) + 1 /\ Len(helper.queue) \in Nat
          /\ helper'.queue[Len(helper.queue) + 1].kind # "cancel"
          /\ \A i \in 1..Len(helper.queue) : helper'.queue[i] = helper.queue[i]
      BY <1>s, <2>2, <3>0, SentQueue
    <3>2. ASSUME NEW i \in 1..Len(helper'.queue), CancelAt(i, r)'
          PROVE  i \in 1..Len(helper.queue) /\ CancelAt(i, r)
      BY <3>1, <3>2 DEF CancelAt
    <3> QED  BY <3>1, <3>2 DEF Token, Single
  <2> QED  BY <2>1, <2>2
<1>1. CASE Quiet
  BY <1>1, <1>q DEF Quiet
<1>2. CASE Moves
  <2>1. PICK h \in {helper, [helper EXCEPT !.meta = FALSE]} :
              (h = helper \/ helper.meta) /\ helper' \in {h, Sent(h, "stop", Run), Aborted(h)}
    BY <1>2 DEF Moves
  <2>2. h \in Helpers /\ h.queue = helper.queue /\ h.latched = helper.latched
    BY <1>a, <2>1 DEF Helpers
  <2>3. CASE helper' = h
    BY <1>q, <2>2, <2>3
  <2>4. CASE helper' = Sent(h, "stop", Run)
    BY <1>2, <1>s, <2>2, <2>4 DEF Moves
  <2>5. CASE helper' = Aborted(h)
    BY <1>d, <2>2, <2>5, HelperFields
  <2> QED  BY <2>1, <2>3, <2>4, <2>5
<1>3. CASE Ends
  BY <1>3, <1>a, <1>q, <1>d, HelperFields DEF Ends
<1>4. CASE SendQuery
  <2>1. Run \in Runs
    BY <1>4 DEF SendQuery, At, TypeOK, Actors
  <2> QED  BY <1>4, <1>a, <1>s, <2>1 DEF SendQuery
<1>5. CASE NextUnit
  BY <1>5, <1>a, <1>q, HelperFields DEF NextUnit
<1>6. CASE AcquireMetadata \/ SettleMetadata \/ RequestTeardown
  BY <1>6, <1>q DEF AcquireMetadata, SettleMetadata, RequestTeardown
<1>7. ASSUME NEW s \in Runs, NEW m \in Modes, AcquireExecution(s, m)
      PROVE  Goal
  BY <1>7, <1>q DEF AcquireExecution
<1>8. ASSUME NEW s \in Runs, RequestCancel(s)
      PROVE  Goal
  BY <1>8, <1>q DEF RequestCancel
<1>9. ASSUME NEW s \in Runs, CallStep(s)
      PROVE  Goal
  <2>1. CASE DispatchPostgres(s)
    <3>1. helper' = Sent(helper, "cancel", s)
      BY <2>1 DEF DispatchPostgres
    <3>2. CASE helper.dead
      BY <1>a, <1>q, <3>1, <3>2, SentQueue
    <3>3. CASE ~helper.dead
      <4>1. /\ helper'.latched = helper.latched
            /\ Len(helper'.queue) = Len(helper.queue) + 1 /\ Len(helper.queue) \in Nat
            /\ helper'.queue[Len(helper.queue) + 1].run = s
            /\ \A i \in 1..Len(helper.queue) : helper'.queue[i] = helper.queue[i]
        BY <1>a, <3>1, <3>3, SentQueue
      <4>2. CASE s # r
        <5>1. ASSUME NEW i \in 1..Len(helper'.queue), CancelAt(i, r)'
              PROVE  i \in 1..Len(helper.queue) /\ CancelAt(i, r)
          BY <4>1, <4>2, <5>1 DEF CancelAt
        <5> QED  BY <4>1, <5>1 DEF Token, Single
      <4>3. CASE s = r /\ ~Token(r)
        <5>1. ASSUME NEW i \in 1..Len(helper'.queue), CancelAt(i, r)'
              PROVE  i = Len(helper.queue) + 1
          BY <4>1, <4>3, <5>1 DEF CancelAt, Token
        <5> QED  BY <2>1, <3>3, <4>1, <4>3, <5>1 DEF Token, Single
      <4>4. CASE s = r /\ Token(r)
        BY <2>1, <3>3, <4>4
      <4> QED  BY <4>2, <4>3, <4>4
    <3> QED  BY <3>2, <3>3
  <2>2. CASE ~DispatchPostgres(s)
    BY <1>9, <1>q, <2>2 DEF CallStep, DispatchSqlite, NotifyWorker, DispatchMssql, CompleteDispatch,
                            FailDispatch, SignalResultCancel, CancelReturns
  <2> QED  BY <2>1, <2>2
<1>10. CASE SignalTeardown
  BY <1>10, <1>a, <1>q, <1>d, HelperFields DEF SignalTeardown
<1>t. ASSUME Len(helper.queue) \in Nat \ {0}, Len(helper'.queue) = Len(helper.queue) - 1,
             \A i \in 1..Len(helper'.queue) : helper'.queue[i] = helper.queue[i + 1],
             \/ helper'.latched # r
             \/ helper'.latched = helper.latched
             \/ CancelAt(1, r)
      PROVE  Goal
  <2>1. ASSUME NEW i \in 1..Len(helper'.queue), CancelAt(i, r)'
        PROVE  i + 1 \in 1..Len(helper.queue) /\ CancelAt(i + 1, r)
    BY <1>t, <2>1 DEF CancelAt
  <2>2. 1 \in 1..Len(helper.queue)
    BY <1>t
  <2>3. Token(r)' => Token(r)
    BY <1>t, <2>1, <2>2 DEF Token
  <2>4. Single(r) => Single(r)'
    BY <1>t, <2>1, <2>2 DEF Single
  <2> QED  BY <2>3, <2>4
<1>11. CASE HelperQuery
  BY <1>11, <1>a, <1>t, QueryRead
<1>12. CASE HelperControl
  BY <1>12, <1>a, <1>t, ControlRead DEF CancelAt
<1>13. CASE HelperRows \/ HelperFinish
  BY <1>13, <1>a, <1>q DEF HelperRows, HelperFinish, HelperEnds, Helpers
<1> QED
  BY NextCases, <1>1, <1>2, <1>3, <1>4, <1>5, <1>6, <1>7, <1>8, <1>9, <1>10, <1>11, <1>12, <1>13

\* A connection that is closed stays closed, and a helper that is dead stays
\* dead; a run keeps its mode.
LEMMA Monotone ==
  ASSUME TypeOK, LeaseInv, HelperInv, TokenInv, [Next]_vars, TypeOK'
  PROVE  /\ engine' = engine /\ hits \subseteq hits'
         /\ \A r \in Runs : mode[r] # "unused" => mode'[r] = mode[r]
         /\ helper.dead => helper'.dead
         /\ actor.closed => actor'.closed
<1> DEFINE Goal == /\ engine' = engine /\ hits \subseteq hits'
                   /\ \A r \in Runs : mode[r] # "unused" => mode'[r] = mode[r]
                   /\ helper.dead => helper'.dead
                   /\ actor.closed => actor'.closed
<1>a. helper \in Helpers
  BY DEF TypeOK
<1>1. CASE Quiet
  BY <1>1 DEF Quiet
<1>2. CASE Moves
  <2>1. PICK h \in {helper, [helper EXCEPT !.meta = FALSE]} :
              (h = helper \/ helper.meta) /\ helper' \in {h, Sent(h, "stop", Run), Aborted(h)}
    BY <1>2 DEF Moves
  <2>2. h \in Helpers /\ h.dead = helper.dead
    BY <1>a, <2>1 DEF Helpers
  <2>3. CASE helper' = Sent(h, "stop", Run)
    BY <1>2, <2>2, <2>3, SentQueue DEF Moves
  <2>4. CASE helper' = Aborted(h)
    BY <1>2, <2>2, <2>4, HelperFields DEF Moves
  <2>5. CASE helper' = h
    BY <1>2, <2>2, <2>5 DEF Moves
  <2> QED  BY <2>1, <2>3, <2>4, <2>5
<1>3. CASE Ends
  BY <1>3, <1>a, HelperFields DEF Ends
<1>4. CASE SendQuery
  <2>1. Run \in Runs
    BY <1>4 DEF SendQuery, At, TypeOK, Actors, Run
  <2> QED  BY <1>4, <1>a, <2>1, SentQueue DEF SendQuery, OnlyWorker, actorVars
<1>5. CASE NextUnit
  BY <1>5, <1>a, HelperFields DEF NextUnit, OnlyWorker, actorVars
<1>6. CASE AcquireMetadata \/ SettleMetadata
  BY <1>6 DEF AcquireMetadata, SettleMetadata, TypeOK, Actors
<1>7. ASSUME NEW s \in Runs, NEW m \in Modes, AcquireExecution(s, m)
      PROVE  Goal
  BY <1>7 DEF AcquireExecution, TypeOK, Actors
<1>8. ASSUME NEW s \in Runs, RequestCancel(s)
      PROVE  Goal
  BY <1>8, CancelMark DEF RequestCancel, OnlyCall
<1>9. ASSUME NEW s \in Runs, CallStep(s)
      PROVE  Goal
  <2>1. CASE DispatchPostgres(s)
    BY <1>a, <2>1, SentQueue DEF DispatchPostgres, OnlyCall
  <2>2. CASE CompleteDispatch(s) \/ FailDispatch(s)
    BY <2>2, DispatchDone DEF CompleteDispatch, FailDispatch, OnlyCall
  <2>3. CASE DispatchSqlite(s) \/ NotifyWorker(s) \/ DispatchMssql(s)
    BY <2>3 DEF DispatchSqlite, NotifyWorker, DispatchMssql, OnlyCall
  <2>4. CASE SignalResultCancel(s) \/ CancelReturns(s)
    BY <2>4 DEF SignalResultCancel, CancelReturns, OnlyCall
  <2> QED  BY <1>9, <2>1, <2>2, <2>3, <2>4 DEF CallStep
<1>10. CASE RequestTeardown
  BY <1>10, TeardownMark DEF RequestTeardown
<1>11. CASE SignalTeardown
  BY <1>11, <1>a, HelperFields DEF SignalTeardown
<1>12. CASE HelperQuery
  BY <1>12, <1>a, QueryRead DEF HelperQuery, OnlyHelper, actorVars
<1>13. CASE HelperControl
  BY <1>13, <1>a, ControlRead DEF HelperControl, OnlyHelper, actorVars
<1>14. CASE HelperRows \/ HelperFinish
  BY <1>14, <1>a DEF HelperRows, HelperFinish, HelperEnds, Helpers, OnlyHelper, actorVars
<1> QED
  BY NextCases, <1>1, <1>2, <1>3, <1>4, <1>5, <1>6, <1>7, <1>8, <1>9, <1>10, <1>11, <1>12, <1>13,
     <1>14

\* The helper reads a cancellation, or a query it keeps one for: the token was
\* there, and what it strikes is the query of the active run.
LEMMA Struck ==
  ASSUME TypeOK, LeaseInv, HelperInv, TokenInv, HelperQuery \/ HelperControl
  PROVE  /\ UNCHANGED <<engine, actor, mode, calls, answer>>
         /\ \/ hits' = hits /\ (helper'.reply = "cancelled" => helper.reply = "cancelled")
            \/ \E s \in Runs : /\ Token(s) /\ (Single(s) => ~Token(s)')
                              /\ actor.active \in Runs
                              /\ hits' = hits \cup {[by |-> s, on |-> actor.active]}
<1>a. helper \in Helpers /\ NoRun \notin Runs /\ actor.active \in Runs \cup {NoRun}
      /\ (Waiting => actor.active # NoRun)
  BY NoRunIsNone DEF TypeOK, Actors, Waiting
<1>b. UNCHANGED <<engine, actor, mode, calls, answer>>
  BY DEF HelperQuery, HelperControl, OnlyHelper, actorVars
<1>1. CASE HelperQuery
  <2>1. Len(helper.queue) \in Nat \ {0} /\ helper.queue[1].kind = "query"
    BY <1>1, <1>a, QueryRead
  <2>2. helper.queue[1].run = actor.active /\ Waiting /\ helper.reply = "none"
    BY <2>1 DEF HelperInv
  <2>3. CASE helper.latched = NoRun
    BY <1>1, <1>a, <1>b, <2>3, QueryRead
  <2>4. CASE helper.latched # NoRun
    <3>0. PICK s \in Runs : s = helper.latched
      BY <1>a, <2>4 DEF Helpers
    <3>1. Token(s)
      BY <3>0 DEF Token
    <3>2. /\ hits' = hits \cup {[by |-> s, on |-> actor.active]} /\ helper'.latched = NoRun
          /\ Len(helper'.queue) = Len(helper.queue) - 1
          /\ \A i \in 1..Len(helper'.queue) : helper'.queue[i] = helper.queue[i + 1]
      BY <1>1, <1>a, <2>2, <2>4, <3>0, QueryRead
    <3>3. ASSUME Single(s), NEW i \in 1..Len(helper'.queue), CancelAt(i, s)'
          PROVE  FALSE
      <4>1. i + 1 \in 1..Len(helper.queue) /\ CancelAt(i + 1, s)
        BY <2>1, <3>2, <3>3 DEF CancelAt
      <4> QED  BY <3>0, <3>3, <4>1 DEF Single
    <3>4. Single(s) => ~Token(s)'
      BY <1>a, <3>1, <3>2, <3>3 DEF Token
    <3> QED  BY <1>a, <1>b, <2>2, <3>1, <3>2, <3>4
  <2> QED  BY <2>3, <2>4
<1>2. CASE HelperControl
  <2>1. Len(helper.queue) \in Nat \ {0} /\ helper.queue[1] \in Requests
    <3>1. Len(helper.queue) \in Nat \ {0}
      BY <1>2, <1>a, ControlRead
    <3> QED  BY <1>a, <3>1 DEF Helpers
  <2>2. CASE ~(helper.queue[1].kind = "cancel" /\ helper.run # NoRun)
    BY <1>2, <1>a, <1>b, <2>2, ControlRead
  <2>3. CASE helper.queue[1].kind = "cancel" /\ helper.run # NoRun
    <3>0. PICK s \in Runs : s = helper.queue[1].run
      BY <2>1 DEF Requests
    <3>1. CancelAt(1, s) /\ Token(s)
      BY <2>1, <2>3, <3>0 DEF Token, CancelAt
    <3>2. actor.active = helper.run /\ Waiting
      BY <2>3 DEF HelperInv
    <3>3. /\ hits' = hits \cup {[by |-> s, on |-> helper.run]} /\ helper'.latched = helper.latched
          /\ Len(helper'.queue) = Len(helper.queue) - 1
          /\ \A i \in 1..Len(helper'.queue) : helper'.queue[i] = helper.queue[i + 1]
      BY <1>2, <1>a, <2>3, <3>0, ControlRead
    <3>4. ASSUME Single(s), NEW i \in 1..Len(helper'.queue), CancelAt(i, s)'
          PROVE  FALSE
      <4>1. i + 1 \in 1..Len(helper.queue) /\ CancelAt(i + 1, s) /\ 1 \in 1..Len(helper.queue)
        BY <2>1, <3>3, <3>4 DEF CancelAt
      <4>2. i + 1 = 1
        BY <3>1, <3>4, <4>1 DEF Single
      <4> QED  BY <2>1, <3>3, <4>2
    <3>5. Single(s) => helper.latched # s
      BY <2>1, <3>1 DEF Single
    <3>6. Single(s) => ~Token(s)'
      BY <3>3, <3>4, <3>5 DEF Token
    <3> QED  BY <1>a, <1>b, <3>1, <3>2, <3>3, <3>6
  <2> QED  BY <2>2, <2>3
<1> QED  BY <1>1, <1>2

\* Who a new hit is by and on.
LEMMA HitFrom ==
  ASSUME TypeOK, LeaseInv, HelperInv, TokenInv, [Next]_vars, NEW h \in hits', h \notin hits
  PROVE  /\ h.by \in Runs /\ mode[h.by] # "unused" /\ UNCHANGED <<engine, actor, mode>>
         /\ h.by = h.on \/ (Token(h.by) /\ h.on = actor.active /\ actor.active # NoRun)
<1>1. CASE HelperQuery \/ HelperControl
  <2>1. PICK s \in Runs : /\ Token(s) /\ actor.active \in Runs
                          /\ hits' = hits \cup {[by |-> s, on |-> actor.active]}
    BY <1>1, Struck
  <2>2. h = [by |-> s, on |-> actor.active]
    BY <2>1
  <2> QED  BY <1>1, <2>1, <2>2, Struck, NoRunIsNone DEF TokenInv
<1>2. ASSUME NEW r \in Runs, DispatchSqlite(r)
      PROVE  /\ h.by \in Runs /\ mode[h.by] # "unused" /\ UNCHANGED <<engine, actor, mode>>
             /\ h.by = h.on
  <2>1. actor.active \in {r, NoRun} /\ ~actor.meta /\ mode[r] # "unused"
    BY <1>2, NoRunIsNone DEF DispatchSqlite, LeaseInv, Dispatching
  <2>2. h = [by |-> r, on |-> r]
    BY <1>2, <2>1 DEF DispatchSqlite, Run
  <2> QED  BY <1>2, <2>1, <2>2 DEF DispatchSqlite, OnlyCall
<1>3. CASE UNCHANGED hits
  BY <1>3
<1>4. \/ HelperQuery \/ HelperControl \/ (\E r \in Runs : DispatchSqlite(r)) \/ UNCHANGED hits
  <2>1. CASE Quiet \/ Moves \/ Ends
    BY <2>1 DEF Quiet, Moves, Ends
  <2>2. CASE SendQuery \/ NextUnit \/ AcquireMetadata \/ SettleMetadata
    BY <2>2 DEF SendQuery, NextUnit, OnlyWorker, AcquireMetadata, SettleMetadata
  <2>3. ASSUME NEW s \in Runs, (\E m \in Modes : AcquireExecution(s, m)) \/ RequestCancel(s)
        PROVE  UNCHANGED hits
    BY <2>3 DEF AcquireExecution, RequestCancel
  <2>4. ASSUME NEW s \in Runs, CallStep(s)
        PROVE  DispatchSqlite(s) \/ UNCHANGED hits
    BY <2>4 DEF CallStep, DispatchPostgres, NotifyWorker, DispatchMssql, CompleteDispatch,
                FailDispatch, SignalResultCancel, CancelReturns
  <2>5. CASE RequestTeardown \/ SignalTeardown \/ HelperRows \/ HelperFinish
    BY <2>5 DEF RequestTeardown, SignalTeardown, HelperRows, HelperFinish
  <2> QED  BY NextCases, <2>1, <2>2, <2>3, <2>4, <2>5
<1> QED  BY <1>1, <1>2, <1>3, <1>4

\* Whose run is active, and whether it is marked: a mark goes with the run, or
\* with a dispatch that failed (fail_cancel_dispatch).
LEMMA MarkKept ==
  ASSUME TypeOK, LeaseInv, HelperInv, TokenInv, [Next]_vars
  PROVE  /\ \/ actor'.active = actor.active
            \/ actor'.active = NoRun /\ Ends
            \/ \E r \in Runs, m \in Modes : AcquireExecution(r, m) /\ actor'.active = r
         /\ \A r \in Runs : actor.active = r /\ actor.cancel =>
              (actor'.active = r /\ actor'.cancel) \/ Ends \/ FailDispatch(r)
<1> DEFINE Goal == /\ \/ actor'.active = actor.active
                      \/ actor'.active = NoRun /\ Ends
                      \/ \E r \in Runs, m \in Modes : AcquireExecution(r, m) /\ actor'.active = r
                   /\ \A r \in Runs : actor.active = r /\ actor.cancel =>
                        (actor'.active = r /\ actor'.cancel) \/ Ends \/ FailDispatch(r)
<1>k. ASSUME actor'.active = actor.active, actor.cancel => actor'.cancel
      PROVE  Goal
  BY <1>k
<1>1. CASE Quiet \/ Moves \/ Ends
  BY <1>1 DEF Quiet, Moves, Ends
<1>2. CASE SendQuery \/ NextUnit
  BY <1>2, <1>k DEF SendQuery, NextUnit, actorVars
<1>3. CASE AcquireMetadata \/ SettleMetadata
  BY <1>3, <1>k DEF AcquireMetadata, SettleMetadata, TypeOK, Actors
<1>4. ASSUME NEW s \in Runs, NEW m \in Modes, AcquireExecution(s, m)
      PROVE  Goal
  BY <1>4, NoRunIsNone DEF AcquireExecution, Busy, TypeOK, Actors
<1>5. ASSUME NEW s \in Runs, RequestCancel(s)
      PROVE  Goal
  BY <1>5, <1>k, CancelMark DEF RequestCancel
<1>6. ASSUME NEW s \in Runs, CallStep(s)
      PROVE  Goal
  <2>1. CASE CompleteDispatch(s)
    BY <1>k, <2>1, DispatchDone
  <2>2. CASE FailDispatch(s)
    BY <2>2, DispatchDone
  <2>3. CASE UNCHANGED actor
    BY <1>k, <2>3
  <2> QED
    BY <1>6, <2>1, <2>2, <2>3 DEF CallStep, DispatchSqlite, DispatchPostgres, NotifyWorker,
       DispatchMssql, SignalResultCancel, CancelReturns
<1>7. CASE RequestTeardown
  BY <1>7, <1>k, TeardownMark
<1>8. CASE SignalTeardown
  BY <1>8, <1>k DEF SignalTeardown
<1>9. CASE HelperQuery \/ HelperControl \/ HelperRows \/ HelperFinish
  BY <1>9, <1>k DEF HelperQuery, HelperControl, HelperRows, HelperFinish, OnlyHelper, actorVars
<1> QED  BY NextCases, <1>1, <1>2, <1>3, <1>4, <1>5, <1>6, <1>7, <1>8, <1>9

\* Only the call that cancels r moves it on and answers it.
LEMMA CallsFrom ==
  ASSUME TypeOK, LeaseInv, HelperInv, TokenInv, [Next]_vars, NEW r \in Runs
  PROVE  \/ calls'[r] = calls[r] /\ answer'[r] = answer[r]
         \/ RequestCancel(r) \/ CallStep(r)
<1>1. CASE UNCHANGED <<calls, answer>>
  BY <1>1
<1>2. ASSUME NEW s \in Runs, RequestCancel(s) \/ CallStep(s), s # r
      PROVE  calls'[r] = calls[r] /\ answer'[r] = answer[r]
  BY <1>2 DEF RequestCancel, CallStep, DispatchSqlite, DispatchPostgres, NotifyWorker, DispatchMssql,
              CompleteDispatch, FailDispatch, SignalResultCancel, CancelReturns, Call, TypeOK
<1>3. CASE Quiet \/ Moves \/ Ends
  BY <1>3 DEF Quiet, Moves, Ends
<1>4. CASE SendQuery \/ NextUnit \/ AcquireMetadata \/ SettleMetadata
  BY <1>4 DEF SendQuery, NextUnit, OnlyWorker, AcquireMetadata, SettleMetadata
<1>5. ASSUME NEW s \in Runs, NEW m \in Modes, AcquireExecution(s, m)
      PROVE  UNCHANGED <<calls, answer>>
  BY <1>5 DEF AcquireExecution
<1>6. CASE RequestTeardown \/ SignalTeardown
  BY <1>6 DEF RequestTeardown, SignalTeardown
<1>7. CASE HelperQuery \/ HelperControl \/ HelperRows \/ HelperFinish
  BY <1>7 DEF HelperQuery, HelperControl, HelperRows, HelperFinish, OnlyHelper
<1> QED  BY NextCases, <1>1, <1>2, <1>3, <1>4, <1>5, <1>6, <1>7

\* The answer "cancelled" comes from a cancellation the helper has read.
LEMMA ReplyKept ==
  ASSUME TypeOK, LeaseInv, HelperInv, TokenInv, [Next]_vars, helper'.reply = "cancelled"
  PROVE  \/ HelperQuery \/ HelperControl
         \/ helper.reply = "cancelled" /\ actor'.active = actor.active
<1> DEFINE Goal == \/ HelperQuery \/ HelperControl
                   \/ helper.reply = "cancelled" /\ actor'.active = actor.active
<1>a. helper \in Helpers
  BY DEF TypeOK
<1>k. ASSUME helper'.reply = helper.reply, actor'.active = actor.active
      PROVE  Goal
  BY <1>k
<1>1. CASE Quiet
  BY <1>1, <1>k DEF Quiet
<1>2. CASE Moves
  <2>1. PICK h \in {helper, [helper EXCEPT !.meta = FALSE]} :
              (h = helper \/ helper.meta) /\ helper' \in {h, Sent(h, "stop", Run), Aborted(h)}
    BY <1>2 DEF Moves
  <2>2. h \in Helpers /\ h.reply = helper.reply
    BY <1>a, <2>1 DEF Helpers
  <2>3. CASE helper' = Sent(h, "stop", Run)
    BY <1>2, <1>k, <2>2, <2>3, SentQueue DEF Moves
  <2>4. CASE helper' = Aborted(h)
    BY <2>2, <2>4, HelperFields
  <2>5. CASE helper' = h
    BY <1>2, <1>k, <2>2, <2>5 DEF Moves
  <2> QED  BY <2>1, <2>3, <2>4, <2>5
<1>3. CASE Ends
  BY <1>3, <1>a, HelperFields DEF Ends, HelperInv
<1>4. CASE SendQuery
  <2>1. Run \in Runs
    BY <1>4 DEF SendQuery, At, TypeOK, Actors, Run
  <2> QED  BY <1>4, <1>a, <1>k, <2>1, SentQueue DEF SendQuery, actorVars
<1>5. CASE NextUnit
  BY <1>5, <1>a, <1>k, HelperFields DEF NextUnit, actorVars
<1>6. CASE AcquireMetadata \/ SettleMetadata
  BY <1>6, <1>k DEF AcquireMetadata, SettleMetadata, TypeOK, Actors
<1>7. ASSUME NEW s \in Runs, NEW m \in Modes, AcquireExecution(s, m)
      PROVE  Goal
  BY <1>7 DEF AcquireExecution, Busy, HelperInv, Waiting, TypeOK
<1>8. ASSUME NEW s \in Runs, RequestCancel(s)
      PROVE  Goal
  BY <1>8, <1>k, CancelMark DEF RequestCancel
<1>9. ASSUME NEW s \in Runs, CallStep(s)
      PROVE  Goal
  <2>1. CASE DispatchPostgres(s)
    BY <1>a, <1>k, <2>1, SentQueue DEF DispatchPostgres
  <2>2. CASE CompleteDispatch(s) \/ FailDispatch(s)
    BY <1>k, <2>2, DispatchDone DEF CompleteDispatch, FailDispatch
  <2>3. CASE UNCHANGED <<actor, helper>>
    BY <1>k, <2>3
  <2> QED
    BY <1>9, <2>1, <2>2, <2>3 DEF CallStep, DispatchSqlite, NotifyWorker, DispatchMssql,
       SignalResultCancel, CancelReturns
<1>10. CASE RequestTeardown
  BY <1>10, <1>k, TeardownMark DEF RequestTeardown
<1>11. CASE SignalTeardown
  BY <1>11, <1>a, <1>k, HelperFields DEF SignalTeardown
<1>12. CASE HelperRows
  BY <1>12, <1>a, <1>k DEF HelperRows, OnlyHelper, actorVars, Helpers
<1>13. CASE HelperFinish
  BY <1>13, <1>a DEF HelperFinish, HelperEnds, Helpers
<1> QED
  BY NextCases, <1>1, <1>2, <1>3, <1>4, <1>5, <1>6, <1>7, <1>8, <1>9, <1>10, <1>11, <1>12, <1>13

-----------------------------------------------------------------------------
(* The rest of the invariant                                               *)

\* Cancellations are PostgreSQL's, and of runs that were started.
LEMMA TokenStep ==
  ASSUME TypeOK, LeaseInv, HelperInv, TokenInv, [Next]_vars, TypeOK'
  PROVE  TokenInv'
<1>m. /\ engine' = engine /\ \A r \in Runs : mode[r] # "unused" => mode'[r] # "unused"
      /\ helper.dead => helper'.dead
  BY Monotone
<1>1. ASSUME NEW r \in Runs, Token(r)'
      PROVE  engine' = "postgres" /\ mode'[r] # "unused"
  <2>1. CASE Token(r)
    BY <1>m, <2>1 DEF TokenInv
  <2>2. CASE DispatchPostgres(r)
    BY <1>m, <2>2 DEF DispatchPostgres, LeaseInv
  <2> QED  BY <1>1, <2>1, <2>2, TokenFrom
<1>2. ASSUME helper'.reply = "cancelled"
      PROVE  engine' = "postgres"
  <2>1. CASE helper.reply = "cancelled"
    BY <1>m, <2>1 DEF TokenInv
  <2>2. CASE (HelperQuery \/ HelperControl) /\ helper.reply # "cancelled"
    <3>1. \E s \in Runs : Token(s)
      BY <1>2, <2>2, Struck
    <3> QED  BY <1>m, <3>1 DEF TokenInv
  <2> QED  BY <1>2, <2>1, <2>2, ReplyKept
<1>3. ASSUME NEW h \in hits'
      PROVE  mode'[h.by] # "unused"
  <2>1. CASE h \in hits
    <3>1. h.by \in Runs
      BY <2>1 DEF TypeOK
    <3> QED  BY <1>m, <2>1, <3>1 DEF TokenInv
  <2>2. CASE h \notin hits
    BY <1>3, <2>2, HitFrom
  <2> QED  BY <2>1, <2>2
<1>4. ASSUME NEW r \in Runs, calls'[r] = "failed", engine' = "postgres"
      PROVE  helper'.dead
  <2>1. CASE calls[r] = "failed"
    BY <1>m, <1>4, <2>1 DEF TokenInv
  <2>2. CASE calls[r] # "failed"
    <3>1. CASE DispatchPostgres(r)
      BY <1>m, <1>4, <3>1 DEF DispatchPostgres, Call, TypeOK
    <3>2. CASE DispatchMssql(r)
      BY <1>m, <1>4, <3>2 DEF DispatchMssql
    <3>3. ~RequestCancel(r)
      BY <1>4 DEF RequestCancel, Call, TypeOK
    <3>4. ASSUME CallStep(r)
          PROVE  DispatchPostgres(r) \/ DispatchMssql(r)
      BY <1>4, <3>4 DEF CallStep, DispatchSqlite, NotifyWorker, CompleteDispatch, FailDispatch,
                        SignalResultCancel, CancelReturns, Call, TypeOK
    <3> QED  BY <1>4, <2>2, <3>1, <3>2, <3>3, <3>4, CallsFrom
  <2> QED  BY <2>1, <2>2
<1> QED  BY <1>1, <1>2, <1>3, <1>4 DEF TokenInv

\* A run that has not started has no cancellation and no answer, and a step
\* that starts it makes none.
LEMMA Unused ==
  ASSUME TypeOK, LeaseInv, HelperInv, TokenInv, [Next]_vars, TypeOK', NEW r \in Runs,
         mode[r] = "unused"
  PROVE  /\ ~Token(r)' /\ calls'[r] = "none" /\ answer'[r] = "none"
         /\ helper'.reply = "cancelled" => actor'.active # r
<1>1. calls[r] = "none" /\ answer[r] = "none" /\ actor.active # r /\ actor.pending # r /\ ~Token(r)
  BY NoRunIsNone DEF LeaseInv, TokenInv
<1>2. ~RequestCancel(r) /\ ~CallStep(r)
  BY <1>1 DEF RequestCancel, OwnerBusy, CallStep, DispatchSqlite, DispatchPostgres, NotifyWorker,
     DispatchMssql, CompleteDispatch, FailDispatch, SignalResultCancel, CancelReturns
<1>3. ~DispatchPostgres(r)
  BY <1>1 DEF DispatchPostgres
<1>4. helper'.reply = "cancelled" => actor'.active = actor.active
  BY ReplyKept, Struck
<1> QED  BY <1>1, <1>2, <1>3, <1>4, TokenFrom, CallsFrom

\* A cancellation answers truthfully.
LEMMA AnswerStep ==
  ASSUME TypeOK, LeaseInv, HelperInv, TokenInv, AnswerInv, [Next]_vars, TypeOK'
  PROVE  AnswerInv'
<1> SUFFICES ASSUME NEW r \in Runs, Primary(r)'
             PROVE  /\ engine' = "mssql" /\ calls'[r] \in Marking =>
                         (actor'.active = r /\ actor'.cancel) \/ Terminated'
                    /\ answer'[r] = "terminated" => Terminated'
                    /\ answer'[r] = "cancelled" => actor'.active # r
  BY DEF AnswerInv
<1>m. engine' = engine /\ (Terminated => Terminated')
  BY Monotone DEF Terminated, Network
<1>1. CASE mode[r] = "unused"
  BY <1>1, Unused DEF Marking
<1>2. CASE mode[r] # "unused"
  <2>p. Primary(r)
    BY <1>2, Monotone DEF Primary
  <2>1. ASSUME engine' = "mssql", calls'[r] \in Marking
        PROVE  (actor'.active = r /\ actor'.cancel) \/ Terminated'
    <3>1. CASE calls[r] \in Marking
      <4>1. CASE Terminated
        BY <1>m, <4>1
      <4>2. CASE actor.active = r /\ actor.cancel
        <5>1. CASE Ends
          BY <1>m, <2>p, <2>1, <4>2, <5>1 DEF Ends, Primary, Terminated, Run
        <5>2. CASE FailDispatch(r)
          BY <3>1, <5>2 DEF FailDispatch, Marking
        <5> QED  BY <4>2, <5>1, <5>2, MarkKept
      <4> QED  BY <1>m, <2>p, <2>1, <3>1, <4>1, <4>2 DEF AnswerInv
    <3>2. CASE calls[r] \notin Marking
      <4>1. RequestCancel(r)
        BY <2>1, <3>2, CallsFrom DEF CallStep, DispatchSqlite, DispatchPostgres,
           NotifyWorker, DispatchMssql, CompleteDispatch, FailDispatch, SignalResultCancel,
           CancelReturns, Call, TypeOK, Marking
      <4>2. ~(actor.cancel \/ actor.pending = r)
        BY <2>1, <4>1 DEF RequestCancel, Call, TypeOK, Marking
      <4>3. actor.active = r
        BY <4>1, <4>2 DEF RequestCancel, OwnerBusy
      <4> QED  BY <4>1, <4>2, <4>3, CancelMark
    <3> QED  BY <3>1, <3>2
  <2>2. ASSUME answer'[r] = "terminated"
        PROVE  Terminated'
    <3>1. CASE answer[r] = "terminated"
      BY <1>m, <2>p, <3>1 DEF AnswerInv
    <3>2. CASE answer[r] # "terminated"
      <4>1. CASE FailDispatch(r)
        BY <1>m, <2>2, <4>1 DEF FailDispatch, TypeOK
      <4>2. CASE CancelReturns(r)
        <5>1. Terminated \/ (engine = "mssql" /\ calls[r] = "wait" /\ actor.active # r)
          BY <2>2, <4>2 DEF CancelReturns, OwnerBusy, TypeOK
        <5> QED  BY <1>m, <2>p, <5>1 DEF AnswerInv, Marking
      <4> QED
        BY <2>2, <3>2, <4>1, <4>2, CallsFrom DEF RequestCancel, CallStep, DispatchSqlite,
           DispatchPostgres, NotifyWorker, DispatchMssql, CompleteDispatch, SignalResultCancel
    <3> QED  BY <3>1, <3>2
  <2>3. ASSUME answer'[r] = "cancelled"
        PROVE  actor'.active # r
    <3>1. ASSUME NEW s \in Runs, NEW m \in Modes, AcquireExecution(s, m)
          PROVE  s # r
      BY <1>2, <3>1 DEF AcquireExecution
    <3>2. actor.active # r
      <4>1. CASE answer[r] = "cancelled"
        BY <2>p, <4>1 DEF AnswerInv
      <4>2. CASE answer[r] # "cancelled"
        <5>1. CancelReturns(r)
          BY <2>3, <4>2, CallsFrom DEF RequestCancel, CallStep, DispatchSqlite, DispatchPostgres,
             NotifyWorker, DispatchMssql, CompleteDispatch, FailDispatch, SignalResultCancel, TypeOK
        <5> QED  BY <5>1 DEF CancelReturns, OwnerBusy
      <4> QED  BY <4>1, <4>2
    <3> QED  BY <3>1, <3>2, MarkKept, NoRunIsNone
  <2> QED  BY <2>1, <2>2, <2>3
<1> QED  BY <1>1, <1>2

\* The cancellation of a primary query stays with its run.
LEMMA PrimaryStep ==
  ASSUME TypeOK, LeaseInv, HelperInv, TokenInv, NoScriptStray => PrimaryInv, [Next]_vars, TypeOK',
         NoScriptStray'
  PROVE  PrimaryInv'
<1>m. /\ engine' = engine /\ hits \subseteq hits'
      /\ \A r \in Runs : mode[r] # "unused" => mode'[r] = mode[r]
      /\ actor.closed => actor'.closed
  BY Monotone
<1>0. PrimaryInv
  <2>1. ASSUME NEW h \in Stray
        PROVE  mode[h.by] = "primary"
    <3>1. h \in Stray' /\ h.by \in Runs /\ mode[h.by] # "unused"
      BY <1>m, <2>1 DEF Stray, TypeOK, TokenInv
    <3> QED  BY <1>m, <3>1 DEF NoScriptStray
  <2> QED  BY <2>1 DEF NoScriptStray
<1>1. Stray' = {}
  <2> SUFFICES ASSUME NEW h \in hits', h.by # h.on
               PROVE  FALSE
    BY DEF Stray
  <2>1. CASE h \in hits
    BY <1>0, <2>1 DEF PrimaryInv, Stray
  <2>2. CASE h \notin hits
    <3>1. /\ h.by \in Runs /\ Token(h.by) /\ h.on = actor.active /\ actor.active # NoRun
          /\ mode' = mode
      BY <2>2, HitFrom
    <3>2. mode'[h.by] = "primary"
      BY DEF NoScriptStray, Stray
    <3>3. Marked(h.by)
      BY <1>0, <3>1, <3>2 DEF PrimaryInv, Primary
    <3> QED  BY <3>1, <3>3 DEF Marked
  <2> QED  BY <2>1, <2>2
<1>2. ASSUME NEW r \in Runs, Primary(r)'
      PROVE  /\ Token(r)' => Marked(r)'
             /\ calls'[r] = "dispatch" => ~Token(r)' /\ (engine' # "sqlite" => Marked(r)')
             /\ helper'.reply = "cancelled" /\ actor'.active = r =>
                  actor'.cancel /\ ~Token(r)' /\ calls'[r] # "dispatch"
             /\ Single(r)'
  <2>1. CASE mode[r] = "unused"
    BY <2>1, Unused DEF Single, Token
  <2>2. CASE mode[r] # "unused"
    <3>p. /\ Primary(r)
          /\ Token(r) => Marked(r)
          /\ calls[r] = "dispatch" => ~Token(r) /\ (engine # "sqlite" => Marked(r))
          /\ helper.reply = "cancelled" /\ actor.active = r =>
               actor.cancel /\ ~Token(r) /\ calls[r] # "dispatch"
          /\ Single(r)
      BY <1>0, <1>m, <1>2, <2>2 DEF PrimaryInv, Primary
    \* A mark stays, and a run that settles with one closes the connection.
    <3>k. ASSUME Marked(r), engine # "sqlite", ~(helper.reply = "cancelled" /\ actor.active = r),
                 ~FailDispatch(r)
          PROVE  Marked(r)'
      <4>1. CASE actor.active = NoRun /\ actor.closed
        <5>1. ASSUME NEW s \in Runs, NEW m \in Modes, AcquireExecution(s, m)
              PROVE  FALSE
          BY <4>1, <5>1 DEF AcquireExecution
        <5> QED  BY <1>m, <4>1, <5>1, MarkKept DEF Marked
      <4>2. CASE actor.active = r /\ actor.cancel
        <5>1. CASE Ends
          BY <3>k, <3>p, <4>2, <5>1 DEF Ends, Run, Primary, Marked
        <5> QED  BY <3>k, <4>2, <5>1, MarkKept DEF Marked
      <4> QED  BY <3>k, <4>1, <4>2 DEF Marked
    \* A dispatch to PostgreSQL fails only when the helper is dead.
    <3>f. FailDispatch(r) => engine # "postgres" \/ (~Token(r) /\ helper.reply = "none")
      <4>1. FailDispatch(r) /\ engine = "postgres" => helper.dead
        BY DEF FailDispatch, TokenInv
      <4>2. helper.dead => ~Token(r) /\ helper.reply = "none"
        BY DeadHelper, NoRunIsNone DEF Token
      <4> QED  BY <4>1, <4>2
    <3>1. ASSUME Token(r)'
          PROVE  Marked(r)'
      <4>1. CASE Token(r)
        <5>1. engine = "postgres"
          BY <4>1 DEF TokenInv
        <5> QED  BY <3>p, <3>k, <3>f, <4>1, <5>1
      <4>2. CASE DispatchPostgres(r)
        <5>1. calls[r] = "dispatch" /\ engine = "postgres" /\ UNCHANGED actor
          BY <4>2 DEF DispatchPostgres
        <5> QED  BY <3>p, <5>1 DEF Marked
      <4> QED  BY <3>1, <4>1, <4>2, TokenFrom
    <3>d. calls'[r] = "dispatch" => calls[r] = "dispatch" \/ (RequestCancel(r) /\ calls'[r] # "already")
      BY CallsFrom DEF CallStep, DispatchSqlite, DispatchPostgres, NotifyWorker, DispatchMssql,
         CompleteDispatch, FailDispatch, SignalResultCancel, CancelReturns, Call, TypeOK
    <3>e. calls'[r] = "dispatch" => ~DispatchPostgres(r) /\ ~FailDispatch(r)
      BY DEF DispatchPostgres, FailDispatch, Call, TypeOK
    <3>2. ASSUME calls'[r] = "dispatch"
          PROVE  ~Token(r)' /\ (engine' # "sqlite" => Marked(r)')
      <4>1. CASE calls[r] = "dispatch"
        BY <1>m, <3>p, <3>k, <3>e, <3>2, <4>1, TokenFrom
      <4>2. CASE RequestCancel(r)
        <5>1. ~(actor.cancel \/ actor.pending = r)
          BY <3>2, <4>2 DEF RequestCancel, Call, TypeOK
        <5>2. actor.active = r
          BY <4>2, <5>1 DEF RequestCancel, OwnerBusy
        <5>3. ~Token(r)
          BY <3>p, <5>1, <5>2, NoRunIsNone DEF Marked
        <5>4. Marked(r)'
          BY <4>2, <5>1, <5>2, CancelMark DEF Marked
        <5> QED  BY <3>e, <3>2, <5>3, <5>4, TokenFrom
      <4> QED  BY <3>d, <3>2, <4>1, <4>2
    <3>3. ASSUME helper'.reply = "cancelled", actor'.active = r
          PROVE  actor'.cancel /\ ~Token(r)' /\ calls'[r] # "dispatch"
      <4>1. CASE helper.reply = "cancelled" /\ actor.active = r
        <5>1. engine = "postgres"
          BY <4>1 DEF TokenInv
        <5>2. actor.cancel /\ ~Token(r) /\ calls[r] # "dispatch"
          BY <3>p, <4>1
        <5>3. ~FailDispatch(r)
          BY <3>f, <4>1, <5>1
        <5>4. ~Ends
          BY <3>3, NoRunIsNone DEF Ends
        <5>5. actor'.cancel
          BY <4>1, <5>2, <5>3, <5>4, MarkKept
        <5>6. ~DispatchPostgres(r)
          BY <5>2 DEF DispatchPostgres
        <5>7. RequestCancel(r) => calls'[r] = "already"
          BY <5>2 DEF RequestCancel, Call, TypeOK
        <5> QED  BY <3>d, <5>2, <5>5, <5>6, <5>7, TokenFrom
      <4>2. CASE (HelperQuery \/ HelperControl) /\ ~(helper.reply = "cancelled" /\ actor.active = r)
        <5>1. UNCHANGED <<actor, calls>>
          BY <4>2, Struck
        <5>2. PICK s \in Runs : /\ Token(s) /\ (Single(s) => ~Token(s)')
                                /\ hits' = hits \cup {[by |-> s, on |-> actor.active]}
          BY <3>3, <4>2, <5>1, Struck
        <5>3. s = r
          <6>1. [by |-> s, on |-> r] \in hits'
            BY <3>3, <5>1, <5>2
          <6> QED  BY <1>1, <6>1 DEF Stray
        <5>4. actor.cancel
          BY <3>3, <3>p, <5>1, <5>2, <5>3, NoRunIsNone DEF Marked
        <5> QED  BY <3>p, <5>1, <5>2, <5>3, <5>4
      <4> QED  BY <3>3, <4>1, <4>2, ReplyKept
    <3>4. Single(r)'
      <4>1. ~(DispatchPostgres(r) /\ Token(r))
        BY <3>p DEF DispatchPostgres
      <4> QED  BY <3>p, <4>1, TokenFrom
    <3> QED  BY <3>1, <3>2, <3>3, <3>4
  <2> QED  BY <2>1, <2>2
<1> QED  BY <1>1, <1>2 DEF PrimaryInv

-----------------------------------------------------------------------------
(* Theorems                                                                *)

\* A connection that was just opened satisfies the invariant (ConnectionActor::new).
LEMMA InvInit == Init => IInv
<1> SUFFICES ASSUME Init
             PROVE  IInv
  OBVIOUS
<1>1. TypeOK
  <2>1. worker \in [stage : Stages, units : 0..MaxUnits] /\ worker.stage = "idle"
    BY BoundsNatural DEF Init, Idle, Stages, BoundsNatural
  <2>2. actor \in Actors /\ actor.active = NoRun
    BY DEF Init, Actors
  <2>3. helper \in Helpers
    BY DEF Init, Helpers
  <2>4. /\ mode \in [Runs -> Modes \cup {"unused"}] /\ calls \in [Runs -> CallStages]
        /\ answer \in [Runs -> {"none", "cancelled", "terminated", "already", "error"}]
    BY DEF Init, CallStages
  <2>5. /\ inbox \in Seq({"next", "release", "cancel"})
        /\ cont \in BOOLEAN /\ chan \in BOOLEAN /\ rx \in BOOLEAN
    <3>1. inbox \in Seq({"next", "release", "cancel"})
      BY DEF Init
    <3>2. cont \in BOOLEAN /\ chan \in BOOLEAN /\ rx \in BOOLEAN
      BY Zenon DEF Init
    <3> QED  BY <3>1, <3>2
  <2>6. /\ closer \in {"none", "busy", "idle"} /\ engine \in Engines
        /\ hits \subseteq [by : Runs, on : Runs \cup {"metadata"}]
        /\ pages \in 0..MaxPages /\ closes \in 0..MaxCloses
    BY BoundsNatural DEF Init, BoundsNatural
  <2> QED  BY <2>1, <2>2, <2>3, <2>4, <2>5, <2>6 DEF TypeOK
<1>2. LeaseInv
  BY DEF Init, LeaseInv, Dispatching, Idle
<1>3. HelperInv
  <2>1. /\ helper.queue = <<>> /\ Len(helper.queue) = 0 /\ helper.run = NoRun
        /\ helper.reply = "none" /\ ~helper.meta /\ ~helper.dead
    BY DEF Init
  <2> QED  BY <2>1 DEF HelperInv
<1>4. \A r \in Runs : ~Token(r)
  <2>1. helper.latched = NoRun /\ Len(helper.queue) = 0
    BY DEF Init
  <2> QED  BY <2>1, NoRunIsNone DEF Token
<1>5. TokenInv /\ AnswerInv
  BY <1>4 DEF Init, TokenInv, AnswerInv, Marking
<1>6. PrimaryInv
  BY <1>4 DEF Init, PrimaryInv, Stray, Single, Token
<1> QED  BY <1>1, <1>2, <1>3, <1>5, <1>6 DEF IInv

\* Every action of the actor, the workers and the helper keeps the invariant.
LEMMA InvStep == IInv /\ [Next]_vars => IInv'
<1> SUFFICES ASSUME IInv, [Next]_vars
             PROVE  IInv'
  OBVIOUS
<1>0. TypeOK /\ LeaseInv /\ HelperInv /\ TokenInv /\ AnswerInv /\ (NoScriptStray => PrimaryInv)
  BY DEF IInv
<1>1. TypeOK'
  BY <1>0, TypeStep
<1>2. LeaseInv' /\ HelperInv' /\ TokenInv' /\ AnswerInv'
  BY <1>0, <1>1, LeaseStep, PipeStep, TokenStep, AnswerStep
<1>3. NoScriptStray' => PrimaryInv'
  BY <1>0, <1>1, PrimaryStep
<1> QED  BY <1>1, <1>2, <1>3 DEF IInv

\* The types hold (ConnectionActor, NetworkQueryWorker), for any number of runs.
THEOREM DbConnectionTypes == Spec => []TypeOK
<1>1. IInv => TypeOK
  BY DEF IInv
<1> QED  BY <1>1, InvInit, InvStep, PTL DEF Spec

\* The cancellation of a primary query stays with its run and is answered
\* truthfully (complete_cancel_dispatch, settle_execution_with_policy), for any
\* number of runs, page requests and teardowns, as long as no cancelled script
\* has reached another run.
THEOREM CancellationContained == Spec => []PrimaryCancelContained
<1>1. IInv => PrimaryCancelContained
  <2> SUFFICES ASSUME IInv, NoScriptStray
               PROVE  /\ Stray = {}
                      /\ \A r \in Runs : Primary(r) =>
                           /\ answer[r] = "terminated" => Terminated
                           /\ answer[r] = "cancelled" /\ ~Terminated =>
                                r # helper.latched /\ r \notin CancelsQueued
    BY DEF PrimaryCancelContained, NoScriptStray, Primary
  <2>1. PrimaryInv /\ AnswerInv /\ helper \in Helpers
    BY DEF IInv, TypeOK
  <2>2. ASSUME NEW r \in Runs, Primary(r), answer[r] = "cancelled", ~Terminated
        PROVE  r # helper.latched /\ r \notin CancelsQueued
    <3>1. ~Marked(r)
      BY <2>1, <2>2 DEF AnswerInv, Marked, Terminated
    <3>2. ~Token(r)
      BY <2>1, <2>2, <3>1 DEF PrimaryInv
    <3>3. DOMAIN helper.queue = 1..Len(helper.queue)
      BY <2>1 DEF Helpers
    <3> QED  BY <3>2, <3>3 DEF Token, CancelAt, CancelsQueued
  <2> QED  BY <2>1, <2>2 DEF PrimaryInv, AnswerInv
<1> QED  BY <1>1, InvInit, InvStep, PTL DEF Spec
=============================================================================
