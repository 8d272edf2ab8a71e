---------------------------- MODULE StreamAudit ----------------------------
(***************************************************************************)
(* What the desktop is told about the write streams of its phones.         *)
(*                                                                         *)
(* A control or full stream is announced when it opens and when it closes, *)
(* and what is typed into it is audited.  The gateway's side of this is    *)
(* the bounded event queue (companion/src/admin.rs), the reservations that *)
(* are taken before the Host is touched, the deferred tightening events    *)
(* and the record of lost ones (companion/src/audit.rs), and the input     *)
(* bucket of a stream (companion/src/write_bridge.rs).  The desktop's side *)
(* is the list of open streams (src/state/companionStore.ts), kept by the  *)
(* events and corrected by a periodic read of the gateway's own list, the  *)
(* answer of which overtakes or is overtaken by the events.                *)
(*                                                                         *)
(* A stream's peer task, its job on the Host, the gateway's maintenance,   *)
(* its admin loop and its writer, the desktop's reader and the page are    *)
(* separate threads; each action below is what one of them does without    *)
(* being seen half done: one critical section of the deferred lock, the    *)
(* live list or the bucket, one receive, one event handler of the page.    *)
(***************************************************************************)
EXTENDS Naturals, Sequences, SequencesExt, FiniteSets

CONSTANTS
  Streams,        \* audit keys: process-unique, never reused while it runs
  Device,         \* the device each stream belongs to
  QUEUE,          \* EVENT_QUEUE_CAPACITY (64)
  AUDIT,          \* AUDIT_SLOTS (48): what ordinary events may hold of it
  ANNOUNCE,       \* ANNOUNCEMENT_RESERVATIONS (4)
  BUCKET,         \* BUCKET_RESERVATIONS (12)
  DEFERRED,       \* bundles of tightening events kept for later (64), less
                  \* those the streams of other devices occupy
  ATTEMPTS,       \* RECONCILE_ATTEMPTS (3)
  PageOpen,       \* whether a window listens to the events and polls
  MaxInputs,      \* bound: inputs typed into a stream
  MaxPlain,       \* bound: best-effort audits (git reads, stalls, ...)
  MaxLifecycle,   \* bound: other lifecycle events
  MaxTimeouts,    \* bound: peers.list calls the desktop gives up on
  MaxCrashes      \* bound: crashes of the gateway

ASSUME LimitsAssumption ==
  /\ IsFiniteSet(Streams)
  /\ {QUEUE, AUDIT, ANNOUNCE, BUCKET, ATTEMPTS} \subseteq Nat \ {0}
  /\ AUDIT <= QUEUE
  /\ PageOpen \in BOOLEAN
  /\ {DEFERRED, MaxInputs, MaxPlain, MaxLifecycle, MaxTimeouts, MaxCrashes}
       \subseteq Nat

VARIABLES
  stage,      \* per stream: how far it is, from "new" to "gone"
  closed,     \* streams whose state is closed: no job may start on them
  holds,      \* streams whose open job holds an announcement reservation
  live,       \* live_streams: what peers.list answers
  job,        \* per stream: where its input job is
  bucket,     \* per stream: inputs in its bucket, 0 when it has none
  sent,       \* per stream: inputs that reached the Host
  audited,    \* per stream: inputs that an emitted event accounts for
  queue,      \* the gateway's event queue
  pending,    \* Deferred::pending: per stream, its tightening events
  record,     \* Deferred::dropped: what was lost and not yet reported
  untold,     \* audits issued that neither arrived nor were reported lost
  asked,      \* peers.list commands in the gateway's stdin, by request id
  answer,     \* the snapshot the admin loop is about to queue, if any
  waiting,    \* the desktop's peers() call is waiting for its answer
  reply,      \* what that call returns to the page, if it has returned
  inbox,      \* events on their way to the page
  running,    \* the page: overview.status.state = "running"
  shown,      \* the page: streams
  seen,       \* the page: streamSeq
  recon,      \* the page: the running reconcilePeers, or Idle
  plain, lifecycle, timeouts, crashes,   \* what the bounds count
  follows,    \* history: per stream, the ones torn down before it reserved
  heard,      \* history: streams whose open reached the desktop
  settled     \* history: streams whose close reached it or was lost

bridgeVars  == <<stage, closed, holds, live, follows>>
inputVars   == <<job, bucket, sent, audited>>
queueVars   == <<queue, pending, record, untold>>
replyVars   == <<asked, answer, waiting, reply>>
pageVars    == <<inbox, running, shown, seen, recon>>
countVars   == <<plain, lifecycle, timeouts, crashes>>
historyVars == <<heard, settled>>
vars == <<bridgeVars, inputVars, queueVars, replyVars, pageVars, countVars,
          historyVars>>

Opened(k)      == [type |-> "opened", stream |-> k]
Closed(k)      == [type |-> "closed", stream |-> k]
Released(k)    == [type |-> "released", stream |-> k]
Input(k)       == [type |-> "input", stream |-> k]
Plain          == [type |-> "plain"]
Lifecycle      == [type |-> "lifecycle"]
Dropped(r)     == [type |-> "dropped", lost |-> r]
Snapshot(i, S) == [type |-> "snapshot", id |-> i, streams |-> S]
Down           == [type |-> "down"]
Up             == [type |-> "up"]

NoReply      == [kind |-> "none", streams |-> {}]
Failed       == [kind |-> "failed", streams |-> {}]
Replied(S)   == [kind |-> "replied", streams |-> S]

Idle == [on |-> FALSE, attempt |-> 0, raced |-> FALSE]

-----------------------------------------------------------------------------
(***************************************************************************)
(* The event queue.  A reservation takes a permit of its own kind, an      *)
(* audit permit and a slot of the queue; emitting it moves the last two    *)
(* into the queued event.                                                  *)
(***************************************************************************)

\* EventSender::try_emit, the classification: what may not use the last slots.
IsOrdinary(e) == e.type \in {"opened", "input", "plain", "dropped"}

Buckets(b) == {k \in Streams : b[k] > 0}

\* Mutant: a reserved slot is not counted.
RoomUnreserved(q, h, b) == Len(q) < QUEUE

Room(q, h, b) == Len(q) + Cardinality(h) + Cardinality(Buckets(b)) < QUEUE

\* The places of the ordinary events in the queue: each keeps its audit permit.
Ordinary(q) == {i \in DOMAIN q : IsOrdinary(q[i])}

AuditRoom(q, h, b) ==
  Cardinality(Ordinary(q)) + Cardinality(h) + Cardinality(Buckets(b)) < AUDIT

\* EventSender::try_emit: whether the event finds a place.
CanEmit(q, h, b, e) == Room(q, h, b) /\ (IsOrdinary(e) => AuditRoom(q, h, b))

\* EventSender::available: asked before an input, even one with a bucket.
Available == Room(queue, holds, bucket) /\ AuditRoom(queue, holds, bucket)

\* EventSender::reserve, for the announcement of an open and for a bucket.
CanReserve(permits, held) ==
  Cardinality(held) < permits /\ Room(queue, holds, bucket)
                              /\ AuditRoom(queue, holds, bucket)

\* How many of a list of events find a place, when they are emitted in order
\* until one does not.
Emitted(q, h, b, es) ==
  CHOOSE n \in 0 .. Len(es) :
    /\ \A i \in 1 .. n : CanEmit(q \o SubSeq(es, 1, i - 1), h, b, es[i])
    /\ n < Len(es) => ~CanEmit(q \o SubSeq(es, 1, n), h, b, es[n + 1])

Rest(es, n) == SubSeq(es, n + 1, Len(es))

\* A best-effort audit: queued, or counted as lost and never tried again.
BestEffort(q, h, b) ==
  /\ untold' = [untold EXCEPT !.plain = @ + 1]
  /\ IF CanEmit(q, h, b, Plain)
     THEN queue' = Append(q, Plain) /\ UNCHANGED record
     ELSE queue' = q /\ record' = [record EXCEPT !.plain = @ + 1]

-----------------------------------------------------------------------------
(***************************************************************************)
(* Opening a stream.                                                       *)
(***************************************************************************)

\* Mutant: Deferred::pending_for is not asked.
DeferredForNone(d) == FALSE

DeferredFor(d) == \E k \in Streams : Device[k] = d /\ pending[k] # << >>

\* The open job: the announcement is reserved and the open itself audited
\* before the Host is called, and a device whose tightening events are still
\* deferred opens nothing.
OpenJob(k) ==
  /\ stage[k] = "new"
  /\ ~DeferredFor(Device[k])
  /\ CanReserve(ANNOUNCE, holds)
  /\ CanEmit(queue, holds \union {k}, bucket, Plain)
  /\ stage' = [stage EXCEPT ![k] = "reserved"]
  /\ holds' = holds \union {k}
  /\ queue' = Append(queue, Plain)
  /\ untold' = [untold EXCEPT !.plain = @ + 1]
  /\ follows' = [follows EXCEPT ![k] =
       {j \in Streams : Device[j] = Device[k] /\ stage[j] = "gone"}]
  /\ UNCHANGED <<closed, live, inputVars, pending, record, replyVars, pageVars,
                 countVars, historyVars>>

\* The same job without a reservation: nothing was announced or leased, and
\* dropping the stream leaves a best-effort audit of the failed open.
OpenRefused(k) ==
  /\ stage[k] = "new"
  /\ plain < MaxPlain
  /\ \/ DeferredFor(Device[k])
     \/ ~CanReserve(ANNOUNCE, holds)
     \/ ~CanEmit(queue, holds \union {k}, bucket, Plain)
  /\ stage' = [stage EXCEPT ![k] = "refused"]
  /\ closed' = closed \union {k}
  /\ BestEffort(queue, holds, bucket)
  /\ plain' = plain + 1
  /\ UNCHANGED <<holds, live, follows, inputVars, pending, replyVars, pageVars,
                 lifecycle, timeouts, crashes, historyVars>>

\* Validity::start found the stream active, and `leased` is set: from here on
\* the Host may hold the stream.  The stream may have been closed in between.
OpenStarts(k) ==
  /\ stage[k] = "reserved" /\ k \in holds
  /\ stage' = [stage EXCEPT ![k] = "leased"]
  /\ UNCHANGED <<closed, holds, live, follows, inputVars, queueVars, replyVars,
                 pageVars, countVars, historyVars>>

\* WriteStream::drop of a stream that was closed before `leased` was set leaves
\* a best-effort audit.  The job, and its reservation, may be on their way to
\* the Host all the same.
OpenFailed(k) ==
  /\ stage[k] = "reserved" /\ k \in closed
  /\ plain < MaxPlain
  /\ stage' = [stage EXCEPT ![k] = "refused"]
  /\ BestEffort(queue, holds, bucket)
  /\ plain' = plain + 1
  /\ UNCHANGED <<closed, holds, live, follows, inputVars, pending, replyVars,
                 pageVars, lifecycle, timeouts, crashes, historyVars>>

\* The last checks of the job fail, or the Host refuses the open or fails: the
\* reservation ends with the job, and the stream that holds nothing leaves a
\* best-effort audit.
HostRefuses(k) ==
  /\ stage[k] \in {"reserved", "leased"} /\ k \in holds
  /\ plain < MaxPlain
  /\ stage' = [stage EXCEPT ![k] = "refused"]
  /\ closed' = closed \union {k}
  /\ holds' = holds \ {k}
  /\ BestEffort(queue, holds \ {k}, bucket)
  /\ plain' = plain + 1
  /\ UNCHANGED <<live, follows, inputVars, pending, replyVars, pageVars,
                 lifecycle, timeouts, crashes, historyVars>>

\* Reads::finish of the open: the stream is live, then its open is emitted
\* through the reservation; the admin loop may answer in between.
AnnounceLive(k) ==
  /\ stage[k] = "leased" /\ k \in holds /\ k \notin closed
  /\ live' = live \union {k}
  /\ stage' = [stage EXCEPT ![k] = "live"]
  /\ UNCHANGED <<closed, holds, follows, inputVars, queueVars, replyVars,
                 pageVars, countVars, historyVars>>

AnnounceEmit(k) ==
  /\ stage[k] = "live"
  /\ holds' = holds \ {k}
  /\ queue' = Append(queue, Opened(k))
  /\ stage' = [stage EXCEPT ![k] = "open"]
  /\ UNCHANGED <<closed, live, follows, inputVars, pending, record, untold,
                 replyVars, pageVars, countVars, historyVars>>

\* An open that ended after its stream was closed: the result is dropped, and
\* the reservation with it.
OpenJobEnds(k) ==
  /\ k \in holds /\ k \in closed /\ stage[k] # "live"
  /\ holds' = holds \ {k}
  /\ UNCHANGED <<stage, closed, live, follows, inputVars, queueVars, replyVars,
                 pageVars, countVars, historyVars>>

-----------------------------------------------------------------------------
(***************************************************************************)
(* Closing a stream.                                                       *)
(***************************************************************************)

\* StreamState::close, by the client, a deadline, a revocation, a stall or the
\* end of the connection, before the stream is taken out of the peer's table.
Close(k) ==
  /\ stage[k] \in {"reserved", "leased", "live", "open"} /\ k \notin closed
  /\ closed' = closed \union {k}
  /\ UNCHANGED <<stage, holds, live, follows, inputVars, queueVars, replyVars,
                 pageVars, countVars, historyVars>>

\* What a closed stream has to say: that it was released and, when its open
\* was announced, that it closed.
Tightening(k) ==
  IF stage[k] = "dropping" THEN <<Released(k), Closed(k)>> ELSE <<Released(k)>>

\* WriteStream::drop, up to the deferred lock: the bucket is emitted through
\* its reservation, and the stream leaves the live list.
Drop(k) ==
  /\ k \in closed /\ stage[k] \in {"leased", "open"}
  /\ IF bucket[k] = 0
     THEN UNCHANGED <<queue, audited, bucket>>
     ELSE /\ queue' = Append(queue, Input(k))
          /\ audited' = [audited EXCEPT ![k] = @ + bucket[k]]
          /\ bucket' = [bucket EXCEPT ![k] = 0]
  /\ live' = live \ {k}
  /\ stage' = [stage EXCEPT ![k] =
       IF @ = "open" THEN "dropping" ELSE "unannounced"]
  /\ UNCHANGED <<closed, holds, follows, job, sent, pending, record, untold,
                 replyVars, pageVars, countVars, historyVars>>

\* Audit::tightened under the deferred lock: the events are emitted in order
\* until one finds no place; the rest is deferred, or counted when too many
\* streams are waiting already.
Tightened(k) ==
  /\ stage[k] \in {"dropping", "unannounced"}
  /\ LET events == Tightening(k)
         n      == Emitted(queue, holds, bucket, events)
         rest   == Rest(events, n)
         kept   == Cardinality({j \in Streams : pending[j] # << >>}) < DEFERRED
     IN  /\ queue' = queue \o SubSeq(events, 1, n)
         /\ untold' = [untold EXCEPT !.tight = @ + Len(events)]
         /\ IF rest # << >> /\ ~kept
            THEN /\ record' = [record EXCEPT !.tight = @ + Len(rest)]
                 /\ settled' = settled \union {k}
                 /\ UNCHANGED pending
            ELSE /\ pending' = [pending EXCEPT ![k] = rest]
                 /\ UNCHANGED <<record, settled>>
  /\ stage' = [stage EXCEPT ![k] = "gone"]
  /\ UNCHANGED <<closed, holds, live, follows, inputVars, replyVars, pageVars,
                 countVars, heard>>

\* What a flush that tells n[k] events of each stream k puts into the queue.
Told(n) == UNION {{pending[k][i] : i \in 1 .. n[k]} : k \in Streams}

\* The bundles are told one after the other, each in its order, and one that is
\* told in part is the last.
Bundled(n, out) ==
  \A k \in Streams, i \in DOMAIN out :
    n[k] > 0 /\ out[i] = pending[k][1] =>
      /\ IsPrefix(SubSeq(pending[k], 1, n[k]), Rest(out, i - 1))
      /\ n[k] < Len(pending[k]) => Len(out) = i - 1 + n[k]

\* Mutant: the record is cleared although the queue refused it.
FlushForgets ==
  \E n \in [Streams -> 0 .. 2] :
    /\ \A k \in Streams : n[k] <= Len(pending[k])
    /\ \E out \in SetToSeqs(Told(n)) :
         LET q      == queue \o out
             report == /\ record # [plain |-> 0, tight |-> 0]
                       /\ CanEmit(q, holds, bucket, Dropped(record))
         IN  /\ Bundled(n, out)
             /\ \A i \in DOMAIN out :
                  CanEmit(queue \o SubSeq(out, 1, i - 1), holds, bucket, out[i])
             /\ (\E k \in Streams : n[k] < Len(pending[k]))
                  => ~Room(q, holds, bucket)
             /\ out # << >> \/ report
             /\ queue' = IF report THEN Append(q, Dropped(record)) ELSE q
             /\ record' = [plain |-> 0, tight |-> 0]
    /\ pending' = [k \in Streams |-> Rest(pending[k], n[k])]
  /\ UNCHANGED <<bridgeVars, inputVars, untold, replyVars, pageVars, countVars,
                 historyVars>>

\* Deferred::flush, in the gateway's maintenance: every bundle, in no
\* particular order, as far as the queue allows, then the record of what was
\* lost.
Flush ==
  \E n \in [Streams -> 0 .. 2] :
    /\ \A k \in Streams : n[k] <= Len(pending[k])
    /\ \E out \in SetToSeqs(Told(n)) :
         LET q      == queue \o out
             report == /\ record # [plain |-> 0, tight |-> 0]
                       /\ CanEmit(q, holds, bucket, Dropped(record))
         IN  /\ Bundled(n, out)
             /\ \A i \in DOMAIN out :
                  CanEmit(queue \o SubSeq(out, 1, i - 1), holds, bucket, out[i])
             /\ (\E k \in Streams : n[k] < Len(pending[k]))
                  => ~Room(q, holds, bucket)
             /\ out # << >> \/ report
             /\ queue' = IF report THEN Append(q, Dropped(record)) ELSE q
             /\ record' = IF report THEN [plain |-> 0, tight |-> 0] ELSE record
    /\ pending' = [k \in Streams |-> Rest(pending[k], n[k])]
  /\ UNCHANGED <<bridgeVars, inputVars, untold, replyVars, pageVars, countVars,
                 historyVars>>

-----------------------------------------------------------------------------
(***************************************************************************)
(* Typing into a stream: an input job on the Host's executor.              *)
(***************************************************************************)

\* Validity::check, then EventSender::available.
InputChecks(k) ==
  /\ stage[k] = "open" /\ k \notin closed /\ job[k] = "idle"
  /\ audited[k] + bucket[k] < MaxInputs
  /\ Available
  /\ job' = [job EXCEPT ![k] = "checked"]
  /\ UNCHANGED <<bridgeVars, bucket, sent, audited, queueVars, replyVars,
                 pageVars, countVars, historyVars>>

\* The input is added to the bucket, or to a new one when it can be reserved;
\* without one it is audited by itself, and refused when that fails.
InputAudits(k) ==
  /\ job[k] = "checked"
  /\ LET fresh == bucket[k] = 0 /\ CanReserve(BUCKET, Buckets(bucket))
         alone == bucket[k] = 0 /\ ~fresh
         fits  == CanEmit(queue, holds, bucket, Input(k))
     IN  /\ bucket' = [bucket EXCEPT ![k] =
              IF alone THEN 0 ELSE @ + 1]
         /\ queue' = IF alone /\ fits THEN Append(queue, Input(k)) ELSE queue
         /\ audited' = [audited EXCEPT ![k] = IF alone /\ fits THEN @ + 1 ELSE @]
         /\ job' = [job EXCEPT ![k] =
              IF alone /\ ~fits THEN "idle" ELSE "audited"]
  /\ UNCHANGED <<bridgeVars, sent, pending, record, untold, replyVars, pageVars,
                 countVars, historyVars>>

\* Mutant: the check at the start of the job is left out.
InputStartsUnchecked(k) ==
  /\ job[k] = "audited"
  /\ sent' = [sent EXCEPT ![k] = @ + 1]
  /\ bucket' = [bucket EXCEPT ![k] = IF stage[k] = "open" THEN @ ELSE 0]
  /\ job' = [job EXCEPT ![k] = "idle"]
  /\ UNCHANGED <<bridgeVars, audited, queueVars, replyVars, pageVars, countVars,
                 historyVars>>

\* Validity::start, then the Host call.  The job of a stream that is gone was
\* the last owner of its bucket, and its reservation goes with it.
InputStarts(k) ==
  /\ job[k] = "audited"
  /\ sent' = [sent EXCEPT ![k] = IF k \in closed THEN @ ELSE @ + 1]
  /\ bucket' = [bucket EXCEPT ![k] =
       IF stage[k] = "open" THEN @ ELSE 0]
  /\ job' = [job EXCEPT ![k] = "idle"]
  /\ UNCHANGED <<bridgeVars, audited, queueVars, replyVars, pageVars, countVars,
                 historyVars>>

\* WriteStream::flush on the peer's tick, once the bucket is ten seconds old.
BucketDue(k) ==
  /\ stage[k] = "open" /\ bucket[k] > 0
  /\ queue' = Append(queue, Input(k))
  /\ audited' = [audited EXCEPT ![k] = @ + bucket[k]]
  /\ bucket' = [bucket EXCEPT ![k] = 0]
  /\ UNCHANGED <<bridgeVars, job, sent, pending, record, untold, replyVars,
                 pageVars, countVars, historyVars>>

-----------------------------------------------------------------------------
(***************************************************************************)
(* The other users of the queue, and its writer.                           *)
(***************************************************************************)

\* git_read, event_lost, stalled, cancelled, open_failed.
PlainAudit ==
  /\ plain < MaxPlain
  /\ BestEffort(queue, holds, bucket)
  /\ plain' = plain + 1
  /\ UNCHANGED <<bridgeVars, inputVars, pending, replyVars, pageVars, lifecycle,
                 timeouts, crashes, historyVars>>

\* Any other event: it may use the last slots, and a full queue loses it.
OtherEvent ==
  /\ lifecycle < MaxLifecycle /\ Room(queue, holds, bucket)
  /\ queue' = Append(queue, Lifecycle)
  /\ lifecycle' = lifecycle + 1
  /\ UNCHANGED <<bridgeVars, inputVars, pending, record, untold, replyVars,
                 pageVars, plain, timeouts, crashes, historyVars>>

\* The writer writes the oldest event and the desktop's reader handles it: the
\* answer of a call still waiting is handed to it, the events of a stream go
\* on to the page, the audits to the log.
Deliver ==
  /\ queue # << >>
  /\ LET e == Head(queue)
         mine == e.type = "snapshot" /\ waiting /\ e.id = timeouts
     IN  /\ waiting' = (waiting /\ ~mine)
         /\ reply' = IF mine THEN Replied(e.streams) ELSE reply
         /\ inbox' = IF PageOpen /\ e.type \in {"opened", "closed"}
                     THEN Append(inbox, e) ELSE inbox
         /\ untold' =
              CASE e.type = "plain" -> [untold EXCEPT !.plain = @ - 1]
                [] e.type \in {"released", "closed"} ->
                     [untold EXCEPT !.tight = @ - 1]
                [] e.type = "dropped" ->
                     [plain |-> untold.plain - e.lost.plain,
                      tight |-> untold.tight - e.lost.tight]
                [] OTHER -> untold
         /\ heard' = IF e.type = "opened" THEN heard \union {e.stream} ELSE heard
         /\ settled' = IF e.type = "closed"
                       THEN settled \union {e.stream} ELSE settled
  /\ queue' = Tail(queue)
  /\ UNCHANGED <<bridgeVars, inputVars, pending, record, asked, answer, running,
                 shown, seen, recon, countVars>>

-----------------------------------------------------------------------------
(***************************************************************************)
(* Reading the gateway's own list.                                         *)
(***************************************************************************)

\* CompanionManager::peers: the request is on its way and its call waits.
Ask == /\ asked' = Append(asked, timeouts)
       /\ waiting' = TRUE

\* The page's timer starts a reconcilePeers, unless one is running.
Reconcile ==
  /\ PageOpen /\ running /\ ~recon.on
  /\ recon' = [on |-> TRUE, attempt |-> 1, raced |-> FALSE]
  /\ Ask
  /\ UNCHANGED <<bridgeVars, inputVars, queueVars, answer, reply, inbox, running,
                 shown, seen, countVars, historyVars>>

\* The admin loop reads the command and takes the live list ...
Answer ==
  /\ asked # << >> /\ answer = << >>
  /\ answer' = <<Snapshot(Head(asked), live)>>
  /\ asked' = Tail(asked)
  /\ UNCHANGED <<bridgeVars, inputVars, queueVars, waiting, reply, pageVars,
                 countVars, historyVars>>

\* ... and waits for a place in the queue.
AnswerQueued ==
  /\ answer # << >> /\ Room(queue, holds, bucket)
  /\ queue' = queue \o answer
  /\ answer' = << >>
  /\ UNCHANGED <<bridgeVars, inputVars, pending, record, untold, asked, waiting,
                 reply, pageVars, countVars, historyVars>>

\* The call gives up: its request id is forgotten, its late answer ignored.
GiveUp ==
  /\ waiting /\ timeouts < MaxTimeouts
  /\ waiting' = FALSE
  /\ reply' = Failed
  /\ timeouts' = timeouts + 1
  /\ UNCHANGED <<bridgeVars, inputVars, queueVars, asked, answer, pageVars,
                 plain, lifecycle, crashes, historyVars>>

\* Mutant: the answer is applied although an event overtook it.
PageReplyOvertaken ==
  /\ reply # NoReply
  /\ reply' = NoReply
  /\ recon' = Idle
  /\ IF reply.kind = "replied" /\ running
     THEN /\ shown' = reply.streams
          /\ seen' = [k \in Streams |->
               IF k \in reply.streams /\ seen[k] = 0 THEN 1 ELSE seen[k]]
     ELSE UNCHANGED <<shown, seen>>
  /\ UNCHANGED <<bridgeVars, inputVars, queueVars, asked, answer, waiting, inbox,
                 running, countVars, historyVars>>

\* Mutant: a failed read leaves the reconcile marked as running.
PageReplyStuck ==
  /\ reply # NoReply
  /\ reply' = NoReply
  /\ IF reply.kind = "replied" /\ recon.raced /\ recon.attempt < ATTEMPTS
     THEN /\ recon' = [recon EXCEPT !.attempt = @ + 1, !.raced = FALSE]
          /\ Ask
          /\ UNCHANGED <<shown, seen>>
     ELSE /\ recon' = IF reply.kind = "failed" THEN recon ELSE Idle
          /\ UNCHANGED <<asked, waiting>>
          /\ IF reply.kind = "replied" /\ ~recon.raced /\ running
             THEN /\ shown' = reply.streams
                  /\ seen' = [k \in Streams |->
                       IF k \in reply.streams /\ seen[k] = 0 THEN 1 ELSE seen[k]]
             ELSE UNCHANGED <<shown, seen>>
  /\ UNCHANGED <<bridgeVars, inputVars, queueVars, answer, inbox, running,
                 countVars, historyVars>>

\* The page gets the answer.  One that an event overtook is asked for again,
\* a few times; a failure leaves what the events built.
PageReply ==
  /\ reply # NoReply
  /\ reply' = NoReply
  /\ IF reply.kind = "replied" /\ recon.raced /\ recon.attempt < ATTEMPTS
     THEN /\ recon' = [recon EXCEPT !.attempt = @ + 1, !.raced = FALSE]
          /\ Ask
          /\ UNCHANGED <<shown, seen>>
     ELSE /\ recon' = Idle
          /\ UNCHANGED <<asked, waiting>>
          /\ IF reply.kind = "replied" /\ ~recon.raced /\ running
             THEN /\ shown' = reply.streams
                  /\ seen' = [k \in Streams |->
                       IF k \in reply.streams /\ seen[k] = 0 THEN 1 ELSE seen[k]]
             ELSE UNCHANGED <<shown, seen>>
  /\ UNCHANGED <<bridgeVars, inputVars, queueVars, answer, inbox, running,
                 countVars, historyVars>>

\* applyEvent: a stream opens once and closes once (seq 1 and 2), and what it
\* already went past is ignored; a gateway that is not running has no streams.
PageEvent ==
  /\ inbox # << >>
  /\ LET e   == Head(inbox)
         seq == IF e.type = "opened" THEN 1 ELSE 2
         new == e.type \in {"opened", "closed"} /\ seq > seen[e.stream]
     IN  /\ shown' = CASE e.type = "down" -> {}
                       [] new /\ e.type = "opened" -> shown \union {e.stream}
                       [] new /\ e.type = "closed" -> shown \ {e.stream}
                       [] OTHER -> shown
         /\ seen' = CASE e.type = "down" -> [k \in Streams |-> 0]
                      [] new -> [seen EXCEPT ![e.stream] = seq]
                      [] OTHER -> seen
         /\ running' = CASE e.type = "down" -> FALSE
                         [] e.type = "up" -> TRUE
                         [] OTHER -> running
  /\ recon' = [recon EXCEPT !.raced = recon.on]
  /\ inbox' = Tail(inbox)
  /\ UNCHANGED <<bridgeVars, inputVars, queueVars, replyVars, countVars,
                 historyVars>>

-----------------------------------------------------------------------------
Init ==
  /\ stage = [k \in Streams |-> "new"]
  /\ closed = {} /\ holds = {} /\ live = {}
  /\ follows = [k \in Streams |-> {}]
  /\ job = [k \in Streams |-> "idle"]
  /\ bucket = [k \in Streams |-> 0]
  /\ sent = [k \in Streams |-> 0]
  /\ audited = [k \in Streams |-> 0]
  /\ queue = << >>
  /\ pending = [k \in Streams |-> << >>]
  /\ record = [plain |-> 0, tight |-> 0]
  /\ untold = [plain |-> 0, tight |-> 0]
  /\ asked = << >> /\ answer = << >> /\ waiting = FALSE
  /\ heard = {} /\ settled = {}
  /\ reply = NoReply /\ inbox = << >>
  /\ running = TRUE /\ shown = {} /\ seen = [k \in Streams |-> 0]
  /\ recon = Idle
  /\ plain = 0 /\ lifecycle = 0 /\ timeouts = 0 /\ crashes = 0

\* The gateway ends (a writer that timed out, a kill) and the desktop starts
\* another: its stream keys start over, the calls waiting for the old one fail,
\* and the page is told in between that none is running.
Crash ==
  /\ crashes < MaxCrashes
  /\ crashes' = crashes + 1
  /\ stage' = [k \in Streams |-> "new"]
  /\ closed' = {} /\ holds' = {} /\ live' = {}
  /\ follows' = [k \in Streams |-> {}]
  /\ job' = [k \in Streams |-> "idle"]
  /\ bucket' = [k \in Streams |-> 0]
  /\ sent' = [k \in Streams |-> 0]
  /\ audited' = [k \in Streams |-> 0]
  /\ queue' = << >>
  /\ pending' = [k \in Streams |-> << >>]
  /\ record' = [plain |-> 0, tight |-> 0]
  /\ untold' = [plain |-> 0, tight |-> 0]
  /\ asked' = << >> /\ answer' = << >> /\ waiting' = FALSE
  /\ heard' = {} /\ settled' = {}
  /\ reply' = IF waiting THEN Failed ELSE reply
  /\ inbox' = IF PageOpen THEN inbox \o <<Down, Up>> ELSE inbox
  /\ UNCHANGED <<running, shown, seen, recon, plain, lifecycle, timeouts>>

StreamNext(k) ==
  \/ OpenJob(k) \/ OpenRefused(k)
  \/ OpenStarts(k) \/ OpenFailed(k) \/ HostRefuses(k)
  \/ AnnounceLive(k) \/ AnnounceEmit(k) \/ OpenJobEnds(k)
  \/ Close(k) \/ Drop(k) \/ Tightened(k)
  \/ InputChecks(k) \/ InputAudits(k) \/ InputStarts(k) \/ BucketDue(k)

Next ==
  \/ \E k \in Streams : StreamNext(k)
  \/ Flush \/ PlainAudit \/ OtherEvent \/ Deliver
  \/ Reconcile \/ Answer \/ AnswerQueued \/ GiveUp \/ PageReply \/ PageEvent
  \/ Crash

Spec == Init /\ [][Next]_vars

\* The peer tasks, the executor, the maintenance tick, the writer, the admin
\* loop, the desktop's reader and the page's timer and event loop all run; a
\* stream need not be opened, used or closed, and nothing need go wrong.
Fairness ==
  /\ \A k \in Streams :
       /\ WF_vars(OpenStarts(k)) /\ WF_vars(OpenFailed(k))
       /\ WF_vars(AnnounceLive(k)) /\ WF_vars(AnnounceEmit(k))
       /\ WF_vars(OpenJobEnds(k)) /\ WF_vars(Drop(k)) /\ WF_vars(Tightened(k))
       /\ WF_vars(InputAudits(k)) /\ WF_vars(InputStarts(k))
       /\ WF_vars(BucketDue(k))
  /\ WF_vars(Flush) /\ WF_vars(Deliver)
  /\ WF_vars(Reconcile) /\ WF_vars(Answer) /\ WF_vars(AnswerQueued)
  /\ WF_vars(PageReply) /\ WF_vars(PageEvent)

FairSpec == Spec /\ Fairness

-----------------------------------------------------------------------------
Events ==
  [type : {"opened", "closed", "released", "input"}, stream : Streams]
    \union {Plain, Lifecycle, Down, Up}
    \union [type : {"dropped"}, lost : [plain : Nat, tight : Nat]]
    \union [type : {"snapshot"}, id : 0 .. MaxTimeouts, streams : SUBSET Streams]

\* Every variable has its type, and the queue is never over its capacity: a
\* reservation's slot is there when it is used, and the ordinary events with
\* the reservations never hold more than their part of it.
TypeOK ==
  /\ stage \in [Streams -> {"new", "reserved", "refused", "leased", "live",
                            "open", "dropping", "unannounced", "gone"}]
  /\ {closed, holds, live, heard, settled, shown} \subseteq SUBSET Streams
  /\ follows \in [Streams -> SUBSET Streams]
  /\ job \in [Streams -> {"idle", "checked", "audited"}]
  /\ bucket \in [Streams -> Nat]
  /\ sent \in [Streams -> Nat] /\ audited \in [Streams -> Nat]
  /\ queue \in Seq(Events) /\ inbox \in Seq(Events)
  /\ \A k \in Streams : pending[k] \in {<< >>, <<Released(k)>>, <<Closed(k)>>,
                                        <<Released(k), Closed(k)>>}
  /\ record \in [plain : Nat, tight : Nat]
  /\ untold \in [plain : Nat, tight : Nat]
  /\ asked \in Seq(0 .. MaxTimeouts) /\ waiting \in BOOLEAN
  /\ Range(answer) \subseteq Events
  /\ reply \in [kind : {"none", "failed", "replied"}, streams : SUBSET Streams]
  /\ running \in BOOLEAN /\ seen \in [Streams -> 0 .. 2]
  /\ recon \in [on : BOOLEAN, attempt : 0 .. ATTEMPTS, raced : BOOLEAN]
  /\ Len(queue) + Cardinality(holds) + Cardinality(Buckets(bucket)) <= QUEUE
  /\ Cardinality(Ordinary(queue)) + Cardinality(holds)
       + Cardinality(Buckets(bucket)) <= AUDIT

\* How many tightening events, and how many best-effort ones, a queued event
\* tells of: itself, or the lost ones that its record counts.
Tight(e) == CASE e.type \in {"released", "closed"} -> 1
              [] e.type = "dropped" -> e.lost.tight
              [] OTHER -> 0

Small(e) == CASE e.type = "plain" -> 1
              [] e.type = "dropped" -> e.lost.plain
              [] OTHER -> 0

\* The sum of a sequence of numbers.
Total(w) == Cardinality(UNION {{i} \X (1 .. w[i]) : i \in DOMAIN w})

TightIn(q) == Total([i \in DOMAIN q |-> Tight(q[i])])
SmallIn(q) == Total([i \in DOMAIN q |-> Small(q[i])])

\* The events that Deferred::pending keeps.
Kept == UNION {Range(pending[k]) : k \in Streams}

\* Nothing that must be told disappears: every release, expiry, revocation and
\* close a stream issued, and every best-effort audit, is in the queue,
\* deferred, or counted by a record that is itself kept or queued.
AuditAccounted ==
  /\ untold.tight = TightIn(queue) + Cardinality(Kept) + record.tight
  /\ untold.plain = SmallIn(queue) + record.plain

\* The desktop never hears of a new stream of a device before it has heard, or
\* was denied, the end of the streams that were torn down before: a deferred
\* close blocks the device's opens, and a reserved announcement takes its
\* place in the queue only when it is made.
OpensFollowCloses ==
  \A k \in heard : \A j \in follows[k] : j \in heard => j \in settled

\* Every input that reached the Host is accounted for by an event that is
\* certain to be told: an emitted one, or the bucket of a stream that still
\* has to be dropped.
InputAudited ==
  \A k \in Streams :
    sent[k] <= audited[k]
                 + (IF stage[k] = "open" THEN bucket[k] ELSE 0)

InFlight(e) == e \in Range(queue) \union Range(inbox)

\* The page is never wrong without a correction on its way: a stream it shows
\* is open, or its close is in flight, deferred or counted as lost; one that is
\* open is shown, or its announcement is in flight.
PageExplained ==
  /\ \A k \in shown : \/ k \in live \union settled
                      \/ stage[k] = "dropping" \/ Closed(k) \in Range(pending[k])
                      \/ InFlight(Closed(k)) \/ InFlight(Down)
  /\ \A k \in live : k \in shown \/ stage[k] = "live" \/ InFlight(Opened(k))

\* Whatever was lost, deferred or overtaken, once the gateway has stopped
\* failing the page shows exactly the streams that are open, and keeps to it.
PageConverges == <>[](shown = live)
=============================================================================
