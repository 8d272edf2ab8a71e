----------------------------- MODULE DeviceSync -----------------------------
(***************************************************************************)
(* How the paired devices of the gateway (companion/src/session.rs) are    *)
(* kept on the desktop's disk (src/companion_service.rs,                   *)
(* src/companion_store.rs), through a bounded event queue, admin commands  *)
(* without request ids, deferred notifications, command timeouts, crashes  *)
(* and restarts.  The next gateway is started from the disk, so what the   *)
(* disk misses is undone by a restart.                                     *)
(*                                                                         *)
(* A device is its grants and its lock.  Labels, credentials and instants  *)
(* travel in the same snapshots and are abstracted away: Touch stands for  *)
(* the changes of `last_seen`, Verified for those of the sign count, and   *)
(* AddCredential for a further passkey.                                    *)
(***************************************************************************)
EXTENDS Integers, Sequences, FiniteSets

CONSTANTS
  Devices,       \* the random device ids
  MAX_DEVICES,   \* policy.max_devices
  QUEUE,         \* slots of the event queue
  MaxCommands,   \* bound: admin commands sent
  MaxStarts      \* bound: gateways started

ASSUME DevicesFinite == IsFiniteSet(Devices)
ASSUME LimitsNatural ==
  /\ MAX_DEVICES \in Nat \ {0}
  /\ QUEUE \in Nat \ {0}
  /\ MaxCommands \in Nat
  /\ MaxStarts \in Nat \ {0}

VARIABLES
  status,    \* of the gateway process, as the desktop sees it
  halted,    \* history: has the desktop halted this gateway?
  server,    \* gateway: serving, expired, held (past the last maintenance) or stopped
  announced, \* gateway: has main announced the end of the policy?
  devices,   \* gateway: Devices -> device or Gone
  notif,     \* gateway: Devices -> deferred snapshot, Gone (tombstone) or None
  dirty,     \* gateway: devices whose last_seen changed
  queue,     \* gateway: accepted events, oldest first
  main,      \* gateway: the reply its command loop still has to queue
  inbox,     \* command frames written to the gateway's stdin
  disk,      \* desktop: devices.json
  pending,   \* desktop: the command that waits for its reply
  fresh,     \* ids no device was registered with
  starts,    \* gateways started so far
  sent,      \* commands sent so far: a command's serial
  applied,   \* history: serials the gateway applied
  deferred,  \* history: serials a deferral completed
  revoked    \* history: devices whose revocation was acknowledged

gateway == <<server, announced, devices, notif, dirty, queue, main, inbox>>
history == <<starts, sent, applied, deferred, revoked>>
vars == <<status, halted, gateway, disk, pending, fresh, history>>

Gone == [kind |-> "gone"]
None == [kind |-> "none"]
Grants == [control : 0 .. 1, full : BOOLEAN]
Device == [grants : Grants, locked : BOOLEAN]
NewDevice == [grants |-> [control |-> 0, full |-> FALSE], locked |-> FALSE]

Serials == 1 .. MaxCommands
Ops == {"unlock", "revoke"}
Frames ==
  [n : Serials, d : Devices, op : {"update"}, grants : Grants]
    \cup [n : Serials, d : Devices, op : Ops]
SHUTDOWN_FRAME == [op |-> "shutdown"]
Report(d, snapshot) == [type |-> "device", d |-> d, dev |-> snapshot]
Deferral(c) == [type |-> "deferred", d |-> c.d, op |-> c.op]
Registered(d) == [type |-> "registered", d |-> d, dev |-> NewDevice]
Error == [type |-> "error"]
Events ==
  [type : {"device"}, d : Devices, dev : Device \cup {Gone}]
    \cup [type : {"registered"}, d : Devices, dev : {NewDevice}]
    \cup [type : {"deferred"}, d : Devices, op : Ops \cup {"update"}]
    \cup {Error}

\* The command loop is idle, about to queue a reply, waiting for a slot, or
\* waiting until its reply is written.
Idle == [at |-> "idle"]
Flushing == [at |-> "flush"]
\* A reply that is not queued yet can be overtaken by the maintenance of another
\* thread: the identity lock is released.
Reply(event) == [at |-> "emit", event |-> event]
MainStates == {Idle, Flushing} \cup [at : {"emit", "wait"}, event : Events]

Known == {d \in Devices : devices[d] # Gone}
Alive == status # "Stopped"

\* Mutant: an event more than there are slots.
RoomForOneMore == Len(queue) <= QUEUE

Room == Len(queue) < QUEUE

(***************************************************************************)
(* Grants: no control < control, no full < full.                           *)
(***************************************************************************)
Tightens(old, new) == new.control < old.control \/ (old.full /\ ~new.full)
Widens(old, new) == new.control > old.control \/ (new.full /\ ~old.full)
Mixed(old, new) == Tightens(old, new) /\ Widens(old, new)

Init ==
  /\ status = "Stopped"
  /\ halted = FALSE
  /\ server = "stopped"
  /\ announced = FALSE
  /\ devices = [d \in Devices |-> Gone]
  /\ notif = [d \in Devices |-> None]
  /\ dirty = {}
  /\ queue = <<>>
  /\ main = Idle
  /\ inbox = <<>>
  /\ disk = [d \in Devices |-> Gone]
  /\ pending = None
  /\ fresh = Devices
  /\ starts = 0
  /\ sent = 0
  /\ applied = {}
  /\ deferred = {}
  /\ revoked = {}

(***************************************************************************)
(* The process.                                                            *)
(***************************************************************************)
\* CompanionManager::start, spawn and Identity::new: a gateway begins with
\* what is on disk, or fails at once if that is too much for its policy.
Start ==
  /\ status = "Stopped"
  /\ starts < MaxStarts
  /\ starts' = starts + 1
  /\ \/ /\ Cardinality({d \in Devices : disk[d] # Gone}) <= MAX_DEVICES
        /\ status' = "Starting"
        /\ server' = "serving"
        /\ devices' = disk
     \/ /\ Cardinality({d \in Devices : disk[d] # Gone}) > MAX_DEVICES
        /\ UNCHANGED <<status, server, devices>>
  /\ UNCHANGED <<halted, announced, notif, dirty, queue, main, inbox, disk, pending, fresh,
                 sent, applied, deferred, revoked>>

\* The gateway's first event.
Ready ==
  /\ status = "Starting"
  /\ status' = "Running"
  /\ UNCHANGED <<halted, gateway, disk, pending, fresh, history>>

\* CompanionManager::on_exit after a shutdown frame (of stop, or of
\* shutdown_after_closing once the policy's end was read), a crash or a kill:
\* what the process had not written is lost, the waiting command fails.
Exit ==
  /\ Alive
  /\ status' = "Stopped"
  /\ halted' = FALSE
  /\ server' = "stopped"
  /\ announced' = FALSE
  /\ devices' = [d \in Devices |-> Gone]
  /\ notif' = [d \in Devices |-> None]
  /\ dirty' = {}
  /\ queue' = <<>>
  /\ main' = Idle
  /\ inbox' = <<>>
  /\ pending' = None
  /\ UNCHANGED <<disk, fresh, history>>

\* CompanionManager::stop: the shutdown frame queues behind the commands, and
\* the gateway may still report until it exits.  It reads no frame after its first
\* shutdown frame, so further ones are left out.
Stop ==
  /\ status \in {"Starting", "Running", "Halted"}
  /\ status' = "Stopping"
  /\ inbox' = IF server = "stopped" \/ \E i \in DOMAIN inbox : inbox[i] = SHUTDOWN_FRAME
                THEN inbox ELSE Append(inbox, SHUTDOWN_FRAME)
  /\ UNCHANGED <<halted, server, announced, devices, notif, dirty, queue, main,
                 disk, pending, fresh, history>>

\* halt: the waiting command fails, and the process is about to be killed.
Halt ==
  /\ status' = "Halted"
  /\ halted' = TRUE
  /\ pending' = None

\* CompanionManager::fail and the deadline for the first event.
Fail ==
  /\ status \in {"Starting", "Running"}
  /\ Halt
  /\ UNCHANGED <<gateway, disk, fresh, history>>

\* Server::run at enable_until: it leaves its loop for one last maintenance.
Expire ==
  /\ Alive
  /\ server = "serving"
  /\ server' = "expired"
  /\ UNCHANGED <<status, halted, announced, devices, notif, dirty, queue, main,
                 inbox, disk, pending, fresh, history>>

\* main's command loop announces it: an error like any other.
AnnounceExpiry ==
  /\ server \in {"expired", "held"}
  /\ ~announced
  /\ main = Idle
  /\ announced' = TRUE
  /\ main' = Reply(Error)
  /\ UNCHANGED <<status, halted, server, devices, notif, dirty, queue, inbox,
                 disk, pending, fresh, history>>

\* CompanionManager::request, when its reply does not come in time.
Timeout ==
  /\ pending # None
  /\ Halt
  /\ UNCHANGED <<gateway, disk, fresh, history>>

(***************************************************************************)
(* Gateway: snapshots.                                                     *)
(***************************************************************************)
\* Identity::notify_snapshot of device d with content v.
Snapshot(d, v) ==
  /\ dirty' = dirty \ {d}
  /\ IF Room
       THEN /\ queue' = Append(queue, Report(d, v))
            /\ notif' = [notif EXCEPT ![d] = None]
       ELSE /\ notif' = [notif EXCEPT ![d] = v]
            /\ UNCHANGED queue

\* Identity::validate: an authenticated request refreshes last_seen.
Touch(d) ==
  /\ server = "serving"
  /\ devices[d] # Gone
  /\ ~devices[d].locked
  /\ dirty' = dirty \cup {d}
  /\ UNCHANGED <<status, halted, server, announced, devices, notif, queue, main, inbox, disk, pending,
                 fresh, history>>

\* Identity::assertion_verified.
Verified(d) ==
  /\ devices[d] # Gone
  /\ ~devices[d].locked
  /\ Snapshot(d, devices[d])
  /\ UNCHANGED <<status, halted, server, announced, devices, main, inbox, disk, pending,
                 fresh, history>>

\* Identity::assertion_failed, at the attempt that locks the device.
LockOut(d) ==
  LET locked == [devices[d] EXCEPT !.locked = TRUE]
  IN  /\ devices[d] # Gone
      /\ ~devices[d].locked
      /\ devices' = [devices EXCEPT ![d] = locked]
      /\ Snapshot(d, locked)
      /\ UNCHANGED <<status, halted, server, announced, main, inbox, disk, pending,
                     fresh, history>>

\* Mutant: only a deferred snapshot of its own id keeps a new device out.
RegisterUnlessOwn(d) ==
  /\ server = "serving"
  /\ d \in fresh
  /\ notif[d] = None
  /\ Cardinality(Known) < MAX_DEVICES
  /\ Room
  /\ queue' = Append(queue, Registered(d))
  /\ devices' = [devices EXCEPT ![d] = NewDevice]
  /\ fresh' = fresh \ {d}
  /\ UNCHANGED <<status, halted, server, announced, notif, dirty, main, inbox, disk,
                 pending, history>>

\* Identity::register_verified for a new device.
Register(d) ==
  /\ server = "serving"
  /\ d \in fresh
  /\ \A o \in Devices : notif[o] = None
  /\ Cardinality(Known) < MAX_DEVICES
  /\ Room
  /\ queue' = Append(queue, Registered(d))
  /\ devices' = [devices EXCEPT ![d] = NewDevice]
  /\ fresh' = fresh \ {d}
  /\ UNCHANGED <<status, halted, server, announced, notif, dirty, main, inbox, disk,
                 pending, history>>

\* Identity::register_verified for a device that gets another passkey.
AddCredential(d) ==
  /\ server = "serving"
  /\ devices[d] # Gone
  /\ ~devices[d].locked
  /\ notif[d] = None
  /\ Room
  /\ queue' = Append(queue, Report(d, devices[d]))
  /\ UNCHANGED <<status, halted, server, announced, devices, notif, dirty, main, inbox,
                 disk, pending, fresh, history>>

\* Identity::maintenance: a snapshot of every dirty device, then the deferred
\* ones again, in any order, as long as the queue takes them.
DirtyKnown == dirty \cap Known

\* Mutant: the deferred snapshots are not retried.
DueDirtyOnly == DirtyKnown

Due == DirtyKnown \cup {d \in Devices : notif[d] # None}
Latest(d) == IF d \in DirtyKnown THEN devices[d] ELSE notif[d]

TellOrders ==
  LET free == QUEUE - Len(queue)
      n == IF Cardinality(Due) < free THEN Cardinality(Due) ELSE free
  IN  {t \in [1 .. n -> Due] :
         \A i, j \in 1 .. n :
           i < j => t[i] # t[j] /\ (t[j] \in DirtyKnown => t[i] \in DirtyKnown)}

Maintenance ==
  /\ server \in {"serving", "expired"}
  /\ server' = IF server = "expired" THEN "held" ELSE server
  /\ \E told \in TellOrders :
       /\ queue' = queue \o [i \in DOMAIN told |-> Report(told[i], Latest(told[i]))]
       /\ notif' = [d \in Devices |->
                      IF \E i \in DOMAIN told : told[i] = d THEN None ELSE Latest(d)]
  /\ dirty' = {}
  /\ UNCHANGED <<status, halted, announced, devices, main, inbox, disk, pending, fresh,
                 history>>

(***************************************************************************)
(* Gateway: Identity::command, run by main's command loop.                 *)
(***************************************************************************)
\* What the command makes of the device.
Commanded(c) ==
  CASE c.op = "update" -> [devices[c.d] EXCEPT !.grants = c.grants]
    [] c.op = "unlock" -> [devices[c.d] EXCEPT !.locked = FALSE]
    [] c.op = "revoke" -> Gone

\* Gateway::command refuses everything once the policy has ended.
Valid(c) ==
  /\ server = "serving"
  /\ devices[c.d] # Gone
  /\ c.op = "update" => ~Mixed(devices[c.d].grants, c.grants)

Widening(c) ==
  \/ c.op = "unlock"
  \/ c.op = "update" /\ Widens(devices[c.d].grants, c.grants)

\* Mutant: a widening overtakes the deferred snapshot of its device.
BlockedByQueueOnly(c) == Widening(c) /\ ~Room

\* A widening is reported before it is applied, and never ahead of a deferred
\* snapshot.
Blocked(c) == Widening(c) /\ (notif[c.d] # None \/ ~Room)

CommandRefused(c) ==
  /\ Valid(c) => Blocked(c)
  /\ main' = Reply(Error)
  /\ UNCHANGED <<devices, notif, dirty, queue, applied>>

CommandApplied(c) ==
  LET snapshot == Commanded(c)
  IN  /\ Valid(c)
      /\ ~Blocked(c)
      /\ devices' = [devices EXCEPT ![c.d] = snapshot]
      /\ dirty' = dirty \ {c.d}
      /\ applied' = applied \cup {c.n}
      /\ \/ /\ Widening(c)
            /\ queue' = Append(queue, Report(c.d, snapshot))
            /\ UNCHANGED <<notif, main>>
         \/ /\ ~Widening(c) /\ Room
            /\ queue' = Append(queue, Report(c.d, snapshot))
            /\ notif' = [notif EXCEPT ![c.d] = None]
            /\ UNCHANGED main
         \/ /\ ~Widening(c) /\ ~Room
            /\ notif' = [notif EXCEPT ![c.d] = snapshot]
            /\ main' = Reply(Deferral(c))
            /\ UNCHANGED queue

Command ==
  /\ server # "stopped"
  /\ inbox # <<>>
  /\ main = Idle
  /\ inbox' = Tail(inbox)
  /\ \/ /\ Head(inbox) = SHUTDOWN_FRAME
        /\ server' = "stopped"
        /\ UNCHANGED <<devices, notif, dirty, queue, main, applied>>
     \/ /\ Head(inbox) # SHUTDOWN_FRAME
        /\ CommandRefused(Head(inbox)) \/ CommandApplied(Head(inbox))
        /\ UNCHANGED server
  /\ UNCHANGED <<status, halted, announced, disk, pending, fresh, starts, sent, deferred, revoked>>

\* EventSender::emit: at once, or first in line for the next free slot.
Emit ==
  /\ main.at = "emit"
  /\ IF Room
       THEN queue' = Append(queue, main.event) /\ main' = Flushing
       ELSE main' = [main EXCEPT !.at = "wait"] /\ UNCHANGED queue
  /\ UNCHANGED <<status, halted, server, announced, devices, notif, dirty, inbox, disk,
                 pending, fresh, history>>

(***************************************************************************)
(* Desktop: CompanionManager::on_event.                                    *)
(***************************************************************************)
\* Devices::apply of a command frame: the possible new lists, none when it
\* fails.
Apply(c) ==
  CASE c.op = "revoke" -> {[disk EXCEPT ![c.d] = Gone]}
    [] c.op = "unlock" /\ disk[c.d] # Gone ->
         {[disk EXCEPT ![c.d] = [disk[c.d] EXCEPT !.locked = FALSE]]}
    [] c.op = "update" /\ disk[c.d] # Gone /\ ~Mixed(disk[c.d].grants, c.grants) ->
         {[disk EXCEPT ![c.d] = [disk[c.d] EXCEPT !.grants = c.grants]]}
    [] OTHER -> {}

\* `reflects`, and the event type each command waits for.
Reflects(c, event) ==
  /\ c.d = event.d
  /\ CASE c.op = "revoke" -> event.dev = Gone
       [] c.op = "unlock" -> event.dev # Gone /\ ~event.dev.locked
       [] c.op = "update" -> event.dev # Gone /\ event.dev.grants = c.grants

Answers(event) ==
  /\ pending # None
  /\ CASE event.type = "device" -> Reflects(pending, event)
       [] event.type = "deferred" -> pending.d = event.d /\ pending.op = event.op
       [] event.type = "error" -> TRUE
       [] event.type = "registered" -> FALSE

Complete(event) ==
  IF Answers(event)
    THEN /\ pending' = None
         /\ revoked' = IF event.type # "error" /\ pending.op = "revoke"
                         THEN revoked \cup {pending.d} ELSE revoked
         /\ deferred' = IF event.type = "deferred"
                          THEN deferred \cup {pending.n} ELSE deferred
    ELSE UNCHANGED <<pending, revoked, deferred>>

\* Mutant: a deferral completes its command and leaves the disk to the retry.
SavedSnapshotsOnly(event) ==
  IF event.type \in {"device", "registered"}
    THEN {[disk EXCEPT ![event.d] = event.dev]}
    ELSE {disk}

\* The lists the event may leave on disk.
Saved(event) ==
  CASE event.type \in {"device", "registered"} -> {[disk EXCEPT ![event.d] = event.dev]}
    [] event.type = "deferred" /\ Answers(event) -> Apply(pending)
    [] OTHER -> {disk}

\* Does the event make the desktop write the list?
Writes(event) ==
  \/ event.type \in {"device", "registered"}
  \/ event.type = "deferred" /\ Answers(event)

\* A change that cannot be applied or written stops the gateway.
Handle(event) ==
  \/ /\ status # "Halted"
     /\ disk' \in Saved(event)
     /\ Complete(event)
     /\ UNCHANGED <<status, halted>>
  \/ /\ status # "Halted"
     /\ Writes(event)
     /\ Halt
     /\ UNCHANGED <<disk, revoked, deferred>>
  \/ /\ status = "Halted"
     /\ UNCHANGED <<status, halted, disk, pending, revoked, deferred>>

\* The writer task takes the oldest event and the desktop handles it; the
\* freed slot goes to main if it waits for one, and main goes on once its own
\* reply is written.
Deliver ==
  /\ queue # <<>>
  /\ Handle(Head(queue))
  /\ IF main.at = "wait"
       THEN queue' = Append(Tail(queue), main.event) /\ main' = Flushing
       ELSE /\ queue' = Tail(queue)
            /\ main' = IF Head(queue).type \in {"deferred", "error"} THEN Idle ELSE main
  /\ UNCHANGED <<server, announced, devices, notif, dirty, inbox, fresh, starts, sent,
                 applied>>

\* CompanionManager::request: one command at a time.
Request(c) ==
  /\ status = "Running"
  /\ c.d \notin fresh
  /\ pending = None
  /\ c.n = sent + 1
  /\ sent' = sent + 1
  /\ pending' = c
  /\ inbox' = Append(inbox, c)
  /\ UNCHANGED <<status, halted, server, announced, devices, notif, dirty, queue, main,
                 disk, fresh, starts, applied, deferred, revoked>>

\* CompanionManager::edit_stopped.
EditStopped(c) ==
  /\ status = "Stopped"
  /\ c.d \notin fresh
  /\ c.n = sent + 1
  /\ sent' = sent + 1
  /\ disk' \in Apply(c)
  /\ revoked' = IF c.op = "revoke" THEN revoked \cup {c.d} ELSE revoked
  /\ UNCHANGED <<status, halted, gateway, pending, fresh, starts, applied, deferred>>

\* What phones do.
Background ==
  \E d \in Devices :
    \/ Touch(d)
    \/ Verified(d)
    \/ LockOut(d)
    \/ Register(d)
    \/ AddCredential(d)

Next ==
  \/ Start
  \/ Ready
  \/ Exit
  \/ Stop
  \/ Expire
  \/ AnnounceExpiry
  \/ Fail
  \/ Timeout
  \/ Maintenance
  \/ Command
  \/ Emit
  \/ Deliver
  \/ Background
  \/ \E c \in Frames : Request(c) \/ EditStopped(c)

Spec == Init /\ [][Next]_vars

\* Weak fairness of the gateway's own tasks, while the process lives: the
\* one-second maintenance interval, the writer task and the command loop.  Nothing makes
\* phones or the user act.
Fairness ==
  /\ WF_vars(Maintenance)
  /\ WF_vars(Deliver)
  /\ WF_vars(Command)
  /\ WF_vars(Emit)

FairSpec == Spec /\ Fairness

(***************************************************************************)
(* Properties.                                                             *)
(***************************************************************************)

\* Every variable has its type.
TypeOK ==
  /\ status \in {"Stopped", "Starting", "Running", "Stopping", "Halted"}
  /\ halted \in BOOLEAN
  /\ server \in {"serving", "expired", "held", "stopped"}
  /\ announced \in BOOLEAN
  /\ devices \in [Devices -> Device \cup {Gone}]
  /\ notif \in [Devices -> Device \cup {Gone, None}]
  /\ dirty \in SUBSET Devices
  /\ queue \in Seq(Events) /\ Len(queue) <= QUEUE
  /\ main \in MainStates
  /\ inbox \in Seq(Frames \cup {SHUTDOWN_FRAME})
  /\ disk \in [Devices -> Device \cup {Gone}]
  /\ pending \in Frames \cup {None}
  /\ fresh \in SUBSET Devices
  /\ starts \in 0 .. MaxStarts
  /\ sent \in 0 .. MaxCommands
  /\ applied \in SUBSET Serials
  /\ deferred \in SUBSET Serials
  /\ revoked \in SUBSET Devices

\* A revocation the desktop acknowledged is for good: the device is neither on
\* disk nor in any gateway started later, whatever was deferred, lost with a
\* crash or still queued when it was acknowledged (companion_service.rs: "a
\* later stop would otherwise lose the retry and restore the old device").
RevokedStaysGone ==
  \A d \in revoked : disk[d] = Gone /\ devices[d] = Gone

\* The event that tells the desktop what d is, and the last one queued.
IsReport(e, d) == e.type \in {"device", "registered"} /\ e.d = d
LastReport(d, i) ==
  /\ i \in DOMAIN queue /\ IsReport(queue[i], d)
  /\ \A j \in DOMAIN queue : i < j => ~IsReport(queue[j], d)

\* What the desktop will make of d once it has handled all it will be sent.
Final(d) ==
  IF notif[d] # None THEN notif[d]
  ELSE IF \E i \in DOMAIN queue : IsReport(queue[i], d)
         THEN queue[CHOOSE i \in DOMAIN queue : LastReport(d, i)].dev
         ELSE disk[d]

\* The desktop converges to the gateway's table: no stale snapshot is reported
\* after, or kept instead of, a newer one (session.rs: "Never enqueue a
\* widening snapshot ahead of a deferred older snapshot").  The case that
\* DeferredWasApplied is about is left out: there the disk is ahead of the
\* gateway.
Converges ==
  Alive /\ ~halted /\ deferred \subseteq applied =>
    \A d \in Devices : Final(d) = devices[d]

\* Deferred snapshots and tombstones never outnumber max_devices, however
\* devices come and go while the queue is full (session.rs: "churn cannot make
\* pending revocations exceed maxDevices").
DeferralsBounded ==
  Cardinality({d \in Devices : notif[d] # None \/ devices[d] # Gone}) <= MAX_DEVICES

\* When a deferral makes the desktop write a command to disk and complete it,
\* the gateway has applied that command (companion_service.rs: "The gateway
\* already applied a tightening or neutral change but could not report it yet.
\* Persist it now").  A deferral names only its device and its kind of command:
\* that of an earlier command, which a snapshot has completed, is taken for it.
DeferredWasApplied == deferred \subseteq applied

\* Once the phones are silent, the disk comes to equal the gateway's table and
\* stays so, whatever was deferred by then, as long as the gateway serves (again
\* but for the case of DeferredWasApplied).  At the end of the policy one
\* maintenance is left, and after a shutdown none: what finds no room then is lost.
EventuallySynced ==
  <>[][~Background]_vars =>
    <>[](server = "serving" /\ ~halted /\ DeferredWasApplied => disk = devices)
=============================================================================
