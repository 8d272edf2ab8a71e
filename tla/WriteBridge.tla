---------------------------- MODULE WriteBridge ----------------------------
(***************************************************************************)
(* Remote writes of the gateway's websocket peers                          *)
(* (companion/src/write_bridge.rs, the completions of read_bridge.rs and   *)
(* the drive loop of bridge.rs) on the shared blocking executor            *)
(* (companion/src/herdr_jobs.rs).                                          *)
(*                                                                         *)
(* A peer is one task: its handlers are atomic with respect to each other. *)
(* Jobs run on other threads, so each of their reads and writes of shared  *)
(* flags is a step of its own, and so are the two halves of a cancellation *)
(* (PendingWrite::cancelled): the flag is set, then `started` is read.     *)
(*                                                                         *)
(* A write is named by the order of its admission, a stream by the write   *)
(* that opened it.  A call that is refused at admission changes nothing    *)
(* but its own error reply and is left out.  Reply codes are abstracted to *)
(* ok, dropped, unknown, busy and failed; what is written to "failed".     *)
(***************************************************************************)
EXTENDS Integers, Sequences, FiniteSets

CONSTANTS
  Peers,
  Devices,
  DeviceOf,        \* Peers -> Devices
  Sessions,        \* Herdr sessions
  Methods,         \* the kinds of write that clients use
  Untils,          \* the instants an elevation may end
  WRITE_QUEUE,     \* queued writes of a peer (16)
  MAX_STREAMS,     \* streams of a peer (8)
  MAX_RESOURCES,   \* host resources of the gateway (128)
  WRITE_SLOTS,     \* write jobs of the gateway (2)
  CLEANUP_SLOTS,   \* releases that run at a time (2)
  MaxWrites, MaxTime    \* bounds

ASSUME DeviceOfPeers == DeviceOf \in [Peers -> Devices]
ASSUME MethodsKnown == Methods \subseteq {"control", "full", "operation", "prompt"}
ASSUME LimitsPositive ==
  {WRITE_QUEUE, MAX_STREAMS, MAX_RESOURCES, WRITE_SLOTS, CLEANUP_SLOTS} \subseteq Nat \ {0}
ASSUME UntilsPositive == Untils \subseteq Nat \ {0}
ASSUME BoundsNatural == MaxWrites \in Nat /\ MaxTime \in Nat

Writes == 1..MaxWrites
None == [peer |-> "none"]

\* kind: terminal.control, full.open, an operation of an open stream, or a
\* prompt; stream: the stream it opens or belongs to, 0 for a prompt.
Kinds == {"control", "full", "operation", "prompt"}
Request == [peer : Peers, kind : Kinds, stream : 0..MaxWrites, session : Sessions,
            until : Untils]

VARIABLES
  now,         \* gateway clock
  req,         \* Writes -> Request or None
  life,        \* Peers -> alive, invalid (revoked, not noticed), closing, gone
  queue,       \* Peers -> Queue.receiver, in the order of admission
  active,      \* Peers -> the write of the job submitted last, 0 when none
  owed,        \* Peers -> Queue.active_write is Some
  stalled,     \* Peers -> Queue.stalled
  cancelling,  \* Peers -> the write between the halves of cancelled(), or 0
  streams,     \* Peers -> streams of the peer
  closed,      \* streams whose StreamState.closed is set
  lease,       \* Writes -> where the Lease of the stream is
  job,         \* Writes -> where the job of the write is
  started,     \* writes whose `started` flag is set
  cancelled,   \* writes whose `cancelled` flag is set
  result,      \* Writes -> what the job returned
  ran,         \* writes the host was called for
  answers,     \* Writes -> the codes replied, in order
  resources,   \* free permits of Jobs.resources
  fullFree,    \* devices whose permit of Gateway.full_devices is free
  deviceFree,  \* devices whose write permit of Jobs.devices is free
  writeSlots,  \* free permits of Jobs.write_slots
  cleanupSlots \* free permits of Jobs.cleanup_slots

peerVars == <<life, queue, active, owed, stalled, cancelling, streams>>
jobVars == <<job, started, result, ran>>
permitVars == <<resources, fullFree, deviceFree, writeSlots, cleanupSlots>>
vars == <<now, req, peerVars, closed, lease, jobVars, cancelled, answers, permitVars>>

Open(w) == req[w].kind \in {"control", "full"}
Dev(w) == DeviceOf[req[w].peer]
Admitted == {w \in Writes : req[w] # None}

\* The task of p runs its loop and is not inside a handler.
Looping(p) == life[p] \in {"alive", "invalid"} /\ cancelling[p] = 0

TypeOK ==
  /\ now \in 0..MaxTime
  /\ req \in [Writes -> Request \cup {None}]
  /\ life \in [Peers -> {"alive", "invalid", "closing", "gone"}]
  /\ queue \in [Peers -> SUBSET Writes]
  /\ active \in [Peers -> 0..MaxWrites]
  /\ owed \in [Peers -> BOOLEAN]
  /\ stalled \in [Peers -> BOOLEAN]
  /\ cancelling \in [Peers -> 0..MaxWrites]
  /\ streams \in [Peers -> SUBSET Writes]
  /\ closed \subseteq Writes
  /\ lease \in [Writes -> {"none", "job", "stream", "handoff", "waiting", "cleaning", "gone"}]
  /\ job \in [Writes -> {"none", "handoff", "check", "start", "starting", "host", "returned",
                        "freed", "delivered"}]
  /\ started \subseteq Writes /\ cancelled \subseteq Writes /\ ran \subseteq Writes
  /\ result \in [Writes -> {"none", "ok", "dropped", "unknown", "failed", "stalled"}]
  /\ answers \in [Writes -> Seq({"ok", "dropped", "unknown", "busy", "failed"})]
  /\ resources \in 0..MAX_RESOURCES
  /\ fullFree \subseteq Devices /\ deviceFree \subseteq Devices
  /\ writeSlots \in 0..WRITE_SLOTS
  /\ cleanupSlots \in 0..CLEANUP_SLOTS

Init ==
  /\ now = 0
  /\ req = [w \in Writes |-> None]
  /\ life = [p \in Peers |-> "alive"]
  /\ queue = [p \in Peers |-> {}]
  /\ active = [p \in Peers |-> 0]
  /\ owed = [p \in Peers |-> FALSE]
  /\ stalled = [p \in Peers |-> FALSE]
  /\ cancelling = [p \in Peers |-> 0]
  /\ streams = [p \in Peers |-> {}]
  /\ closed = {}
  /\ lease = [w \in Writes |-> "none"]
  /\ job = [w \in Writes |-> "none"]
  /\ started = {} /\ cancelled = {} /\ ran = {}
  /\ result = [w \in Writes |-> "none"]
  /\ answers = [w \in Writes |-> <<>>]
  /\ resources = MAX_RESOURCES
  /\ fullFree = Devices /\ deviceFree = Devices
  /\ writeSlots = WRITE_SLOTS
  /\ cleanupSlots = CLEANUP_SLOTS

-----------------------------------------------------------------------------
(* Helpers                                                                 *)

\* The queued writes of p that belong to a stream of S (discard_write_stream).
Queued(p, S) == {w \in queue[p] : req[w].stream \in S}

\* The queue is first in, first out, and writes are numbered as they enter it.
Oldest(p) == CHOOSE w \in queue[p] : \A v \in queue[p] : w <= v

\* Each write of W is told `code`.
Tell(W, code) == [w \in Writes |-> IF w \in W THEN Append(answers[w], code) ELSE answers[w]]

\* The Leases of S are dropped where they are: each waits for its release.
Released(S) == [w \in Writes |-> IF w \in S /\ lease[w] \in {"stream", "job"}
                                 THEN "waiting" ELSE lease[w]]

\* Mutant: every closure is taken to hold a resource permit.
DropClosuresAll(W) == /\ resources' = resources + Cardinality(W)
                      /\ fullFree' = fullFree \cup {Dev(w) : w \in {v \in W : req[v].kind = "full"}}

\* The closures of the writes of W are dropped with the permits in them.
DropClosures(W) ==
  LET opens == {w \in W : Open(w)}
      fulls == {w \in W : req[w].kind = "full"}
  IN /\ resources' = resources + Cardinality(opens)
     /\ fullFree' = fullFree \cup {Dev(w) : w \in fulls}

\* Mutant: the queued writes of a removed stream vanish without a reply.
RemoveStreamsSilently(p, S, told) ==
  /\ streams' = [streams EXCEPT ![p] = @ \ S]
  /\ queue' = [queue EXCEPT ![p] = @ \ Queued(p, S)]
  /\ DropClosures(Queued(p, S))
  /\ answers' = told

\* Streams of S, of peer p, are removed: their queued writes, none of which has
\* started, are dropped and answered so.  `told`: the answers given before.
RemoveStreams(p, S, told) ==
  LET dropped == Queued(p, S)
  IN /\ streams' = [streams EXCEPT ![p] = @ \ S]
     /\ queue' = [queue EXCEPT ![p] = @ \ dropped]
     /\ DropClosures(dropped)
     /\ answers' = [w \in Writes |-> IF w \in dropped THEN Append(told[w], "dropped")
                                     ELSE told[w]]

\* The flags and the result of w go with the last that could read them.
DropFlags(w) ==
  /\ started' = started \ {w}
  /\ cancelled' = cancelled \ {w}
  /\ result' = [result EXCEPT ![w] = "none"]

\* The streams of p that closed() removes, if `shut` is the closed set.
Dead(p, shut, leases) == {s \in streams[p] : leases[s] = "stream" /\ s \in shut}

\* Validity::check of the job of w.
Valid(w) == LET s == req[w].stream
            IN /\ w \notin cancelled
               /\ life[req[w].peer] = "alive"
               /\ now < req[w].until
               /\ s # 0 => s \notin closed /\ now < req[s].until

-----------------------------------------------------------------------------
(* Admission, under the identity lock                                      *)

NextWrite(w) == req[w] = None /\ \A v \in 1..(w - 1) : req[v] # None

Admits(p) == /\ Looping(p)
             /\ life[p] = "alive"
             /\ ~stalled[p]
             /\ Cardinality(queue[p]) < WRITE_QUEUE

AdmitOpen(p, w, kind, session, until) ==
  /\ NextWrite(w) /\ Admits(p)
  /\ Cardinality(streams[p]) < MAX_STREAMS
  /\ kind = "full" => DeviceOf[p] \in fullFree
  /\ resources > 0
  /\ req' = [req EXCEPT ![w] = [peer |-> p, kind |-> kind, stream |-> w,
                                session |-> session, until |-> until]]
  /\ queue' = [queue EXCEPT ![p] = @ \cup {w}]
  /\ streams' = [streams EXCEPT ![p] = @ \cup {w}]
  /\ resources' = resources - 1
  /\ fullFree' = IF kind = "full" THEN fullFree \ {DeviceOf[p]} ELSE fullFree
  /\ UNCHANGED <<now, life, active, owed, stalled, cancelling, closed, lease, jobVars,
                 cancelled, answers, deviceFree, writeSlots, cleanupSlots>>

\* An operation of an open stream needs its lease; a prompt has no stream.
AdmitWrite(p, w, s, session, until) ==
  /\ NextWrite(w) /\ Admits(p)
  /\ s # 0 => s \in streams[p] /\ lease[s] = "stream" /\ session = req[s].session
  /\ req' = [req EXCEPT ![w] = [peer |-> p, kind |-> IF s = 0 THEN "prompt" ELSE "operation",
                                stream |-> s, session |-> session, until |-> until]]
  /\ queue' = [queue EXCEPT ![p] = @ \cup {w}]
  /\ UNCHANGED <<now, life, active, owed, stalled, cancelling, streams, closed, lease, jobVars,
                 cancelled, answers, permitVars>>

\* terminal.release and full.close.
Tighten(p, s) ==
  /\ Looping(p) /\ life[p] = "alive"
  /\ s \in streams[p]
  /\ closed' = closed \cup {s}
  /\ lease' = Released({s})
  /\ RemoveStreams(p, {s}, answers)
  /\ UNCHANGED <<now, req, life, active, owed, stalled, cancelling, jobVars, cancelled,
                 deviceFree, writeSlots, cleanupSlots>>

-----------------------------------------------------------------------------
(* The peer's task: pump_writes, finish, write_tick, closed                *)

\* Control streams of the session that an admitted full.open takes over.
Displaced(p, w) ==
  {s \in streams[p] : /\ req[w].kind = "full"
                      /\ req[s].kind = "control"
                      /\ req[s].session = req[w].session}

Pump(p) ==
  /\ Looping(p)
  /\ active[p] = 0
  /\ queue[p] # {}
  /\ LET w == Oldest(p)
         shut == Displaced(p, w)
         dropped == Queued(p, shut)
     IN /\ Dev(w) \in deviceFree
        /\ writeSlots > 0
        /\ streams' = [streams EXCEPT ![p] = @ \ shut]
        /\ queue' = [queue EXCEPT ![p] = @ \ ({w} \cup dropped)]
        /\ DropClosures(dropped)
        /\ answers' = Tell(dropped, "dropped")
        /\ closed' = closed \cup shut
        /\ lease' = [s \in Writes |-> IF s \in shut /\ lease[s] = "stream"
                                      THEN "handoff" ELSE lease[s]]
        /\ active' = [active EXCEPT ![p] = w]
        /\ owed' = [owed EXCEPT ![p] = TRUE]
        /\ job' = [job EXCEPT ![w] = "handoff"]
        /\ deviceFree' = deviceFree \ {Dev(w)}
        /\ writeSlots' = writeSlots - 1
  /\ UNCHANGED <<now, req, life, stalled, cancelling, started, cancelled, result, ran, cleanupSlots>>

\* submit_device refuses: the job is dropped unrun, displaced leases go back.
PumpRefused(p) ==
  /\ Looping(p)
  /\ active[p] = 0
  /\ queue[p] # {}
  /\ LET w == Oldest(p)
     IN /\ Dev(w) \notin deviceFree \/ writeSlots = 0
        /\ queue' = [queue EXCEPT ![p] = @ \ {w}]
        /\ streams' = [streams EXCEPT ![p] = IF Open(w) THEN @ \ {w} ELSE @]
        /\ closed' = IF Open(w) THEN closed \cup {w} ELSE closed
        /\ DropClosures({w})
        /\ answers' = Tell({w}, "busy")
  /\ UNCHANGED <<now, req, life, active, owed, stalled, cancelling, lease, jobVars, cancelled,
                 deviceFree, writeSlots, cleanupSlots>>

\* How `finish` answers the completion of w.
Outcome(p, w) ==
  CASE result[w] = "ok" /\ Open(w) /\ w \notin streams[p] -> "failed"
    [] result[w] = "ok" /\ Open(w) /\ w \in closed -> "failed"
    [] result[w] = "stalled" -> "failed"
    [] OTHER -> result[w]

\* A late result of a stalled write, or one after the invalidation, is dropped.
Silent(p) == stalled[p] \/ life[p] # "alive"

\* The Lease in the result of w goes to its stream, which is still there.
Keeps(p, w) == ~Silent(p) /\ result[w] = "ok" /\ Open(w) /\ w \in streams[p]

\* finish, then closed().
Finish(p) ==
  LET w == active[p]
      s == req[w].stream
      lost == ~Silent(p) /\ result[w] # "ok" /\ s \in streams[p]
      gone == IF lost /\ lease[s] = "none" THEN {s} ELSE {}
      shut == IF lost /\ (lease[s] = "none" \/ result[w] = "stalled")
              THEN closed \cup {s} ELSE closed
      leased == IF Keeps(p, w) THEN [lease EXCEPT ![w] = "stream"] ELSE lease
      dead == Dead(p, shut, leased)
  IN /\ Looping(p)
     /\ w # 0
     /\ job[w] = "delivered"
     /\ active' = [active EXCEPT ![p] = 0]
     /\ owed' = [owed EXCEPT ![p] = FALSE]
     /\ stalled' = [stalled EXCEPT ![p] = FALSE]
     /\ closed' = shut
     /\ lease' = [v \in Writes |-> IF v \in dead \/ (v = w /\ leased[v] = "job")
                                   THEN "waiting" ELSE leased[v]]
     /\ RemoveStreams(p, gone \cup dead,
                      IF Silent(p) THEN answers ELSE Tell({w}, Outcome(p, w)))
     /\ DropFlags(w)
     /\ UNCHANGED <<now, req, life, cancelling, job, ran, deviceFree, writeSlots, cleanupSlots>>

\* Mutant: the watchdog only watches writes of a stream.
ArmedForStreams(p) == active[p] # 0 /\ ~stalled[p] /\ req[active[p]].stream # 0

\* The watchdog of the active write has not fired yet.
Armed(p) == active[p] # 0 /\ ~stalled[p]

\* write_tick finds the watchdog due: the stream is closed and, when it holds
\* no lease, removed; the first half of cancelled() for the active write.
Stall(p) ==
  LET w == active[p]
      s == req[w].stream
      gone == {t \in streams[p] : t = s /\ lease[t] = "none"}
  IN /\ Looping(p)
     /\ Armed(p)
     /\ stalled' = [stalled EXCEPT ![p] = TRUE]
     /\ closed' = IF s \in streams[p] THEN closed \cup {s} ELSE closed
     /\ owed' = [owed EXCEPT ![p] = FALSE]
     /\ cancelling' = [cancelling EXCEPT ![p] = w]
     /\ cancelled' = cancelled \cup {w}
     /\ RemoveStreams(p, gone, answers)
     /\ UNCHANGED <<now, req, life, active, lease, jobVars, deviceFree, writeSlots, cleanupSlots>>

\* What a cancelled write is told, by its `started` flag.
Verdict(w) == IF w \in started THEN "unknown" ELSE "dropped"

\* The streams write_tick closes because their elevation is over.
Expired(p) == {s \in streams[p] : now >= req[s].until}

\* The second half of cancelled(), and the rest of write_tick.
StallReply(p) ==
  LET w == cancelling[p]
      dead == Dead(p, closed \cup Expired(p), lease)
  IN /\ w # 0 /\ life[p] \in {"alive", "invalid"}
     /\ cancelling' = [cancelling EXCEPT ![p] = 0]
     /\ closed' = closed \cup Expired(p)
     /\ lease' = Released(dead)
     /\ RemoveStreams(p, dead, Tell({w}, Verdict(w)))
     /\ UNCHANGED <<now, req, life, active, owed, stalled, jobVars, cancelled, deviceFree,
                    writeSlots, cleanupSlots>>

\* write_tick at the end of an elevation, and `closed` after a callback.
Sweep(p) ==
  LET shut == closed \cup Expired(p)
      dead == Dead(p, shut, lease)
  IN /\ Looping(p)
     /\ shut # closed \/ dead # {}
     /\ closed' = shut
     /\ lease' = Released(dead)
     /\ RemoveStreams(p, dead, answers)
     /\ UNCHANGED <<now, req, life, active, owed, stalled, cancelling, jobVars, cancelled,
                    deviceFree, writeSlots, cleanupSlots>>

-----------------------------------------------------------------------------
(* The end of a peer                                                       *)

\* The identity is revoked, locked, logged out or expired, or the gateway
\* stops: the watch channels say so before the peer's task looks.
Invalidate(p) ==
  /\ life[p] = "alive"
  /\ life' = [life EXCEPT ![p] = "invalid"]
  /\ UNCHANGED <<now, req, queue, active, owed, stalled, cancelling, streams, closed, lease,
                 jobVars, cancelled, answers, permitVars>>

\* The loop ends, for invalidation or transport; cancel_writes up to the first
\* half of cancelled() for the active write.
Cancel(p) ==
  LET w == active[p]
  IN /\ Looping(p)
     /\ life' = [life EXCEPT ![p] = "closing"]
     /\ closed' = closed \cup streams[p]
     /\ owed' = [owed EXCEPT ![p] = FALSE]
     /\ cancelling' = [cancelling EXCEPT ![p] = IF owed[p] THEN w ELSE 0]
     /\ cancelled' = IF owed[p] THEN cancelled \cup {w} ELSE cancelled
     /\ UNCHANGED <<now, req, queue, active, stalled, streams, lease, jobVars, answers,
                    permitVars>>

\* The rest of cancel_writes, and the drop of Reads: streams and unread
\* results give their Leases to be released.
DropReads(p) ==
  LET w == cancelling[p]
      dropped == queue[p]
      done == IF active[p] # 0 /\ job[active[p]] = "delivered" THEN {active[p]} ELSE {}
  IN /\ life[p] = "closing"
     /\ life' = [life EXCEPT ![p] = "gone"]
     /\ cancelling' = [cancelling EXCEPT ![p] = 0]
     /\ queue' = [queue EXCEPT ![p] = {}]
     /\ streams' = [streams EXCEPT ![p] = {}]
     /\ DropClosures(dropped)
     /\ answers' = [v \in Writes |-> IF v = w THEN Append(answers[v], Verdict(v))
                                     ELSE IF v \in dropped THEN Append(answers[v], "dropped")
                                     ELSE answers[v]]
     /\ lease' = Released(streams[p] \cup done)
     /\ UNCHANGED <<now, req, active, owed, stalled, closed, jobVars, cancelled, deviceFree,
                    writeSlots, cleanupSlots>>

-----------------------------------------------------------------------------
(* A write job, on a thread of the blocking pool                           *)

peerUnchanged == UNCHANGED <<now, req, peerVars, closed, cancelled, answers>>

\* The Leases that the job of w took from displaced streams.
Handoff(w) == {s \in Writes : lease[s] = "handoff" /\ req[s].peer = req[w].peer}

\* Mutant: the job goes on, and leaves the displaced leases to be released later.
JobHandoffLater(w) ==
  /\ job[w] = "handoff"
  /\ job' = [job EXCEPT ![w] = "check"]
  /\ UNCHANGED <<started, result, ran, lease, permitVars>>
  /\ peerUnchanged

\* release_now of one displaced lease returns: the host no longer holds it.
JobHandoff(w) ==
  /\ job[w] = "handoff"
  /\ IF Handoff(w) = {}
     THEN /\ job' = [job EXCEPT ![w] = "check"]
          /\ UNCHANGED <<lease, resources>>
     ELSE /\ \E s \in Handoff(w) : lease' = [lease EXCEPT ![s] = "gone"]
          /\ resources' = resources + 1
          /\ UNCHANGED job
  /\ UNCHANGED <<started, result, ran, fullFree, deviceFree, writeSlots, cleanupSlots>>
  /\ peerUnchanged

\* The job of w returns `code` and holds no Lease: its closure is dropped.
Fail(w, code) ==
  /\ job' = [job EXCEPT ![w] = "returned"]
  /\ result' = [result EXCEPT ![w] = code]
  /\ DropClosures({w})
  /\ UNCHANGED <<lease, deviceFree, writeSlots, cleanupSlots>>

\* check(), then the reads and the audit admission, which may refuse.
JobCheck(w) ==
  /\ job[w] = "check"
  /\ \/ /\ Valid(w)
        /\ job' = [job EXCEPT ![w] = "start"]
        /\ UNCHANGED <<result, lease, permitVars>>
     \/ ~Valid(w) /\ Fail(w, "dropped")
     \/ Valid(w) /\ Fail(w, "failed")
  /\ UNCHANGED <<started, ran>>
  /\ peerUnchanged

\* Mutant: the flag is not set before the last check.
JobStartUnmarked(w) ==
  /\ job[w] = "start"
  /\ job' = [job EXCEPT ![w] = "starting"]
  /\ UNCHANGED <<started, result, ran, lease, permitVars>>
  /\ peerUnchanged

\* Validity::start: the flag is set before the last check.
JobStart(w) ==
  /\ job[w] = "start"
  /\ job' = [job EXCEPT ![w] = "starting"]
  /\ started' = started \cup {w}
  /\ UNCHANGED <<result, ran, lease, permitVars>>
  /\ peerUnchanged

\* The last check and, when it passes, the call of the host: whatever comes
\* between the two finds the same flags as what comes right after the call.
JobStartCheck(w) ==
  /\ job[w] = "starting"
  /\ \/ /\ Valid(w)
        /\ job' = [job EXCEPT ![w] = "host"]
        /\ ran' = ran \cup {w}
        /\ UNCHANGED <<result, lease, permitVars>>
     \/ ~Valid(w) /\ Fail(w, Verdict(w)) /\ UNCHANGED ran
  /\ UNCHANGED started
  /\ peerUnchanged

\* The host returns.  An open that outlived its peer or its elevation gives
\* its new Lease up at once.
JobReturn(w) ==
  /\ job[w] = "host"
  /\ \/ Fail(w, "failed")
     \/ req[w].kind = "operation" /\ Fail(w, "stalled")
     \/ LET late == Open(w) /\ (life[req[w].peer] # "alive" \/ now >= req[w].until)
        IN /\ job' = [job EXCEPT ![w] = "returned"]
           /\ result' = [result EXCEPT ![w] = IF late THEN "unknown" ELSE "ok"]
           /\ lease' = IF Open(w) THEN [lease EXCEPT ![w] = IF late THEN "waiting" ELSE "job"]
                       ELSE lease
           /\ UNCHANGED permitVars
  /\ UNCHANGED <<started, ran>>
  /\ peerUnchanged

\* Mutant: the permits are not back when the result is sent.
JobFreeLater(w) ==
  /\ job[w] = "returned"
  /\ job' = [job EXCEPT ![w] = "freed"]
  /\ UNCHANGED <<started, result, ran, lease, permitVars>>
  /\ peerUnchanged

\* submit_device: the permits go back, then the result is sent.
JobFree(w) ==
  /\ job[w] = "returned"
  /\ job' = [job EXCEPT ![w] = "freed"]
  /\ deviceFree' = deviceFree \cup {Dev(w)}
  /\ writeSlots' = writeSlots + 1
  /\ UNCHANGED <<started, result, ran, lease, resources, fullFree, cleanupSlots>>
  /\ peerUnchanged

\* Mutant: the Lease in a result nobody waits for is forgotten.
JobDeliverOrphan(w) ==
  /\ job[w] = "freed"
  /\ job' = [job EXCEPT ![w] = "delivered"]
  /\ UNCHANGED <<started, result, ran, lease, permitVars>>
  /\ peerUnchanged

\* A result nobody waits for is dropped with its Lease.
JobDeliver(w) ==
  /\ job[w] = "freed"
  /\ job' = [job EXCEPT ![w] = "delivered"]
  /\ IF life[req[w].peer] = "gone"
     THEN lease' = Released({w}) /\ DropFlags(w)
     ELSE UNCHANGED <<lease, started, cancelled, result>>
  /\ UNCHANGED <<now, req, peerVars, closed, answers, ran, permitVars>>

-----------------------------------------------------------------------------
(* Releases (Jobs::release), the host's callbacks and the clock            *)

\* Mutant: the resource permit goes back when the release is scheduled.
CleanupStartFrees(w) ==
  /\ lease[w] = "waiting" /\ cleanupSlots > 0
  /\ lease' = [lease EXCEPT ![w] = "cleaning"]
  /\ cleanupSlots' = cleanupSlots - 1
  /\ resources' = resources + 1
  /\ UNCHANGED <<jobVars, fullFree, deviceFree, writeSlots>>
  /\ peerUnchanged

\* Mutant: so does the permit of the device's full client.
CleanupStartFreesFull(w) ==
  /\ lease[w] = "waiting" /\ cleanupSlots > 0
  /\ lease' = [lease EXCEPT ![w] = "cleaning"]
  /\ cleanupSlots' = cleanupSlots - 1
  /\ fullFree' = fullFree \cup {Dev(w)}
  /\ UNCHANGED <<jobVars, resources, deviceFree, writeSlots>>
  /\ peerUnchanged

\* A release takes one of the reserved slots.
CleanupStart(w) ==
  /\ lease[w] = "waiting"
  /\ cleanupSlots > 0
  /\ lease' = [lease EXCEPT ![w] = "cleaning"]
  /\ cleanupSlots' = cleanupSlots - 1
  /\ UNCHANGED <<jobVars, resources, fullFree, deviceFree, writeSlots>>
  /\ peerUnchanged

\* port.release returns; slot, resource and full permits are dropped.
CleanupEnd(w) ==
  /\ lease[w] = "cleaning"
  /\ lease' = [lease EXCEPT ![w] = "gone"]
  /\ cleanupSlots' = cleanupSlots + 1
  /\ DropClosures({w})
  /\ UNCHANGED <<jobVars, deviceFree, writeSlots>>
  /\ peerUnchanged

\* A callback of the host closes the stream (Sink::terminal, Sink::send).
HostCloses(s) ==
  /\ s \in Admitted /\ s \in streams[req[s].peer] /\ s \notin closed
  /\ job[s] = "host" \/ lease[s] # "none"
  /\ closed' = closed \cup {s}
  /\ UNCHANGED <<now, req, peerVars, lease, jobVars, cancelled, answers, permitVars>>

Tick ==
  /\ now < MaxTime
  /\ now' = now + 1
  /\ UNCHANGED <<req, peerVars, closed, lease, jobVars, cancelled, answers, permitVars>>

-----------------------------------------------------------------------------
Admit(p, w) ==
  \E session \in Sessions, until \in {u \in Untils : now < u} :
    \/ \E kind \in Methods \cap {"control", "full"} : AdmitOpen(p, w, kind, session, until)
    \/ "operation" \in Methods /\ \E s \in Writes : AdmitWrite(p, w, s, session, until)
    \/ "prompt" \in Methods /\ AdmitWrite(p, w, 0, session, until)

PeerStep(p) == Pump(p) \/ PumpRefused(p) \/ Finish(p) \/ StallReply(p) \/ Sweep(p) \/ DropReads(p)

\* The steps of a job that do not wait for the host, and those that do.
JobStep(w) == JobCheck(w) \/ JobStart(w) \/ JobStartCheck(w) \/ JobFree(w) \/ JobDeliver(w)
              \/ CleanupStart(w)
HostStep(w) == JobHandoff(w) \/ JobReturn(w) \/ CleanupEnd(w)

Next ==
  \/ \E p \in Peers : \/ \E w \in Writes : Admit(p, w) \/ Tighten(p, w)
                      \/ PeerStep(p) \/ Stall(p) \/ Invalidate(p) \/ Cancel(p)
  \/ \E w \in Writes : JobStep(w) \/ HostStep(w) \/ HostCloses(w)
  \/ Tick

Spec == Init /\ [][Next]_vars

\* The peer's task is polled (its ping wakes it within 20 s), its timers fire,
\* it notices an invalidation, and threads of the pool make progress.  Nothing
\* is assumed of the host, whose calls may never return.
Progress ==
  /\ \A p \in Peers : /\ WF_vars(PeerStep(p)) /\ WF_vars(Stall(p))
                      /\ WF_vars(life[p] = "invalid" /\ Cancel(p))
  /\ \A w \in Writes : WF_vars(JobStep(w))

FairSpec == Spec /\ Progress

\* Every call of the host returns.
HostReturns == \A w \in Writes : WF_vars(HostStep(w))

-----------------------------------------------------------------------------
(* Properties                                                              *)

HostHolds == {w \in Writes : lease[w] \in {"job", "stream", "handoff", "waiting", "cleaning"}}

\* What the host holds is covered by permits until its release has returned,
\* so peers that come and go never exceed MAX_RESOURCES at the host.
HostWithinPermits == Cardinality(HostHolds) + resources <= MAX_RESOURCES

\* The host has at most one full client of a device, counting the one being
\* opened and those still being released, over all peers of the device.
OneFullPerDevice ==
  \A v, w \in Writes :
    (/\ v # w /\ v \in Admitted /\ w \in Admitted
     /\ req[v].kind = "full" /\ req[w].kind = "full" /\ Dev(v) = Dev(w)
     /\ v \in HostHolds)
      => w \notin HostHolds /\ job[w] # "host"

\* No sequence of connections, opens and releases passes a limit at the host.
HostWithinLimits == HostWithinPermits /\ OneFullPerDevice

\* When the host opens a full client, it has released every control lease the
\* peer's streams of that session had.
ControlYieldsToFull ==
  \A w \in Admitted : (req[w].kind = "full" /\ job[w] = "host") =>
    ~\E s \in Admitted : /\ req[s].kind = "control" /\ req[s].peer = req[w].peer
                         /\ req[s].session = req[w].session
                         /\ lease[s] \in {"stream", "handoff"}

\* A peer without a job finds its device's write permit free, or taken by
\* another peer: its own result never arrives before the permit is back.
NoSelfRefusal ==
  \A p \in Peers : (active[p] = 0 /\ DeviceOf[p] \notin deviceFree) =>
    \E w \in Admitted : /\ req[w].peer # p /\ Dev(w) = DeviceOf[p]
                        /\ job[w] \notin {"none", "freed", "delivered"}

Settled(w) == answers[w] # <<>> \/ (w \in Admitted /\ life[req[w].peer] = "gone")

\* A submitted write is answered, or its peer is gone, even if the host never
\* returns: the watchdog answers for it.
SubmittedAnswered == \A w \in Writes : job[w] # "none" ~> Settled(w)

\* If the host returns, every admitted write is answered, or its peer is gone.
WriteAnswered == HostReturns => \A w \in Writes : w \in Admitted ~> Settled(w)

\* If the host returns, every permit of the executor comes back once all peers
\* are gone: no path of a stall, a cancellation or a late result leaks a lease.
PermitsReturn ==
  HostReturns =>
    ((\A p \in Peers : life[p] = "gone") ~>
       (resources = MAX_RESOURCES /\ fullFree = Devices /\ deviceFree = Devices
        /\ writeSlots = WRITE_SLOTS /\ cleanupSlots = CLEANUP_SLOTS))

\* What the caller of w was told; a second reply is no answer of a promise.
Told(w) == CASE answers[w] = <<>> -> "none"
             [] Len(answers[w]) = 1 -> answers[w][1]
             [] OTHER -> "twice"

\* The bridge implements WriteOutcome: one answer per write, and a write whose
\* caller was told it was dropped or refused is never performed, before or
\* after, however its cancellation races the start of its job.
Promise == INSTANCE WriteOutcome WITH answer <- [w \in Writes |-> Told(w)]
KeepsPromise == Promise!Spec
=============================================================================
