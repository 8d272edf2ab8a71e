-------------------------- MODULE DeviceSyncProofs --------------------------
(***************************************************************************)
(* The desktop's list of devices for every number of devices and commands, *)
(* every size of the queue and of the policy, and any number of restarts:  *)
(* a revocation is for good, the disk converges to the gateway's table,    *)
(* and the deferred snapshots are bounded.                                 *)
(***************************************************************************)
EXTENDS DeviceSync, FiniteSetTheorems, SequenceTheorems, WellFoundedInduction, TLAPS

\* The event says that d was removed: the report of it, or a deferred revocation.
SaysGone(e, d) ==
  \/ e.type = "device" /\ e.d = d /\ e.dev = Gone
  \/ e.type = "deferred" /\ e.d = d /\ e.op = "revoke"

IsReply(e) == e.type \in {"deferred", "error"}

\* The reply that the command loop waits for a slot with.
Held(e) == main.at \in {"emit", "wait"} /\ main.event = e

\* Nothing of a gateway is left when its process is gone.
QuietWhenStopped ==
  status = "Stopped" =>
    /\ server = "stopped"
    /\ \A d \in Devices : devices[d] = Gone /\ notif[d] = None
    /\ queue = <<>>
    /\ main = Idle
    /\ inbox = <<>>
    /\ pending = None

HaltedSound == status = "Halted" => halted = TRUE /\ pending = None

\* A deferred snapshot is what the table holds.
NotifCurrent == \A d \in Devices : notif[d] \in {None, devices[d]}

\* A device that was never registered has left no trace.
FreshUnused ==
  \A d \in fresh :
    /\ devices[d] = Gone /\ notif[d] = None /\ disk[d] = Gone
    /\ \A i \in DOMAIN queue : ~IsReport(queue[i], d)

\* Who says that a device is gone says so after the table, and no later report
\* says otherwise.
GoneFinal ==
  /\ \A i \in DOMAIN queue : \A d \in Devices :
       SaysGone(queue[i], d) => devices[d] = Gone /\ d \notin fresh
  /\ \A i, j \in DOMAIN queue : \A d \in Devices :
       i < j /\ SaysGone(queue[i], d) /\ IsReport(queue[j], d) => queue[j].dev = Gone
  /\ \A e \in Events : \A d \in Devices :
       Held(e) /\ SaysGone(e, d) => devices[d] = Gone /\ d \notin fresh

RevokedGone ==
  \A d \in revoked :
    /\ disk[d] = Gone /\ devices[d] = Gone /\ d \notin fresh
    /\ \A i \in DOMAIN queue : IsReport(queue[i], d) => queue[i].dev = Gone

\* The command loop has one reply under way at a time, and none while idle.
ReplyAlone ==
  /\ \A e \in Events : Held(e) => IsReply(e)
  /\ \A i \in DOMAIN queue : IsReply(queue[i]) => main = Flushing
  /\ \A i, j \in DOMAIN queue : IsReply(queue[i]) /\ IsReply(queue[j]) => i = j

\* Serials are given in order, and frames are read in that order; the waiting
\* command is the last one sent.
SerialsSound ==
  /\ applied \subseteq 1 .. sent /\ deferred \subseteq 1 .. sent
  /\ pending # None => pending.n = sent
  /\ \A i \in DOMAIN inbox : inbox[i] # SHUTDOWN_FRAME =>
       /\ inbox[i].n \in 1 .. sent
       /\ \A m \in applied : m < inbox[i].n
       /\ pending # None /\ pending.n = inbox[i].n => pending = inbox[i]
       /\ \A j \in DOMAIN inbox :
            inbox[j] # SHUTDOWN_FRAME /\ i < j => inbox[i].n < inbox[j].n

\* What the table shows of a command that was applied.
Shows(c, v) ==
  CASE c.op = "revoke" -> v = Gone
    [] c.op = "unlock" -> v # Gone /\ ~v.locked
    [] c.op = "update" -> v # Gone /\ v.grants = c.grants

\* A deferral on its way is that of the waiting command once that is applied;
\* until then the snapshot is deferred or queued behind it.
DeferralOf(e) ==
  /\ e.type = "deferred" /\ pending # None
  /\ pending.d = e.d /\ pending.op = e.op /\ pending.n \in applied

UnderWay(e) == Held(e) \/ \E i \in DOMAIN queue : queue[i] = e

DeferralSound ==
  \A e \in Events :
    UnderWay(e) /\ e.type = "deferred" =>
      /\ e.op # "unlock"
      /\ DeferralOf(e) =>
           /\ Shows(pending, devices[e.d])
           /\ \/ notif[e.d] # None
              \/ \E i \in DOMAIN queue : queue[i].type = "device" /\ Reflects(pending, queue[i])

\* The desktop will have d as the table has it.
Synced(d) ==
  notif[d] = None =>
    /\ \A i \in DOMAIN queue : LastReport(d, i) => queue[i].dev = devices[d]
    /\ (\A i \in DOMAIN queue : ~IsReport(queue[i], d)) => disk[d] = devices[d]

\* A command that a deferral completed although it was not applied: it may
\* still be on its way, and then only its own device is ahead of the gateway.
Awaited(n, d) ==
  \E i \in DOMAIN inbox : inbox[i] # SHUTDOWN_FRAME /\ inbox[i].n = n /\ inbox[i].d = d

Ahead(d) ==
  \E n \in deferred \ applied :
    Awaited(n, d) \/ \A o \in Devices : ~Awaited(n, o)

SyncedInv ==
  status # "Stopped" /\ halted = FALSE => \A d \in Devices : Synced(d) \/ Ahead(d)

IInv ==
  /\ TypeOK
  /\ QuietWhenStopped
  /\ HaltedSound
  /\ NotifCurrent
  /\ FreshUnused
  /\ GoneFinal
  /\ RevokedGone
  /\ ReplyAlone
  /\ SerialsSound
  /\ DeferralSound
  /\ SyncedInv
  /\ DeferralsBounded

(***************************************************************************)
(* Lemmas about the data.                                                  *)
(***************************************************************************)

\* The absent values are neither devices nor commands.
LEMMA Distinct ==
  /\ Gone # None
  /\ None \notin Device /\ Gone \notin Device
  /\ None \notin Frames
  /\ SHUTDOWN_FRAME \notin Frames
<1>1. Gone # None
  BY DEF Gone, None
<1>2. None \notin Device /\ Gone \notin Device
  BY DEF Gone, None, Device
<1>3. None \notin Frames
  BY DEF None, Frames
<1>4. SHUTDOWN_FRAME \notin Frames
  BY DEF SHUTDOWN_FRAME, Frames, Ops
<1> QED  BY <1>1, <1>2, <1>3, <1>4

\* The fields of an event, by its type.
LEMMA EventFields ==
  ASSUME NEW e \in Events
  PROVE  /\ e.type \in {"device", "registered", "deferred", "error"}
         /\ e.type \in {"device", "registered"} => e.d \in Devices /\ e.dev \in Device \cup {Gone}
         /\ e.type = "registered" => e.dev = NewDevice
         /\ e.type = "deferred" => e.d \in Devices /\ e.op \in Ops \cup {"update"}
<1>1. NewDevice \in Device
  BY DEF NewDevice, Device, Grants
<1> QED  BY <1>1 DEF Events, Error

\* The fields of a command.
LEMMA FrameFields ==
  ASSUME NEW c \in Frames
  PROVE  /\ c.n \in Serials /\ c.d \in Devices
         /\ c.op \in {"update", "unlock", "revoke"}
         /\ c.op = "update" => c.grants \in Grants
  BY DEF Frames, Ops

\* The fields of a device.
LEMMA DeviceFields ==
  ASSUME NEW v \in Device
  PROVE  /\ v.grants \in Grants /\ v.locked \in BOOLEAN
         /\ [v EXCEPT !.locked = TRUE] \in Device
         /\ [v EXCEPT !.locked = FALSE] \in Device
         /\ \A g \in Grants : [v EXCEPT !.grants = g] \in Device
  BY DEF Device

\* The events the gateway makes.
LEMMA MadeEvents ==
  /\ \A d \in Devices : \A v \in Device \cup {Gone} :
       Report(d, v) \in Events /\ Report(d, v).type = "device" /\ Report(d, v).d = d
         /\ Report(d, v).dev = v
  /\ \A d \in Devices :
       Registered(d) \in Events /\ Registered(d).type = "registered" /\ Registered(d).d = d
         /\ Registered(d).dev = NewDevice
  /\ \A c \in Frames :
       Deferral(c) \in Events /\ Deferral(c).type = "deferred" /\ Deferral(c).d = c.d
         /\ Deferral(c).op = c.op
  /\ Error \in Events /\ Error.type = "error"
<1>1. ASSUME NEW d \in Devices, NEW v \in Device \cup {Gone}
      PROVE  Report(d, v) \in Events /\ Report(d, v).type = "device" /\ Report(d, v).d = d
               /\ Report(d, v).dev = v
  BY <1>1 DEF Report, Events
<1>2. ASSUME NEW d \in Devices
      PROVE  Registered(d) \in Events /\ Registered(d).type = "registered" /\ Registered(d).d = d
               /\ Registered(d).dev = NewDevice
  BY <1>2 DEF Registered, Events
<1>3. ASSUME NEW c \in Frames
      PROVE  Deferral(c) \in Events /\ Deferral(c).type = "deferred" /\ Deferral(c).d = c.d
               /\ Deferral(c).op = c.op
  BY <1>3, FrameFields DEF Deferral, Events, Ops
<1>4. Error \in Events /\ Error.type = "error"
  BY DEF Error, Events
<1> QED  BY <1>1, <1>2, <1>3, <1>4

\* What the command loop may be doing.
LEMMA MainFields ==
  /\ Idle \in MainStates /\ Flushing \in MainStates
  /\ Idle.at = "idle" /\ Flushing.at = "flush" /\ Idle # Flushing
  /\ \A e \in Events : /\ Reply(e) \in MainStates /\ Reply(e).at = "emit"
                        /\ Reply(e).event = e
  /\ \A m \in MainStates :
       /\ m.at \in {"idle", "flush", "emit", "wait"}
       /\ m.at = "idle" => m = Idle
       /\ m.at = "flush" => m = Flushing
       /\ m.at \in {"emit", "wait"} =>
            /\ m.event \in Events
            /\ [m EXCEPT !.at = "wait"] \in MainStates
            /\ [m EXCEPT !.at = "wait"].at = "wait"
            /\ [m EXCEPT !.at = "wait"].event = m.event
<1>1. /\ Idle \in MainStates /\ Flushing \in MainStates
      /\ Idle.at = "idle" /\ Flushing.at = "flush" /\ Idle # Flushing
  BY DEF Idle, Flushing, MainStates
<1>2. ASSUME NEW e \in Events
      PROVE  Reply(e) \in MainStates /\ Reply(e).at = "emit" /\ Reply(e).event = e
  BY DEF Reply, MainStates
<1>3. ASSUME NEW m \in MainStates
      PROVE  /\ m.at \in {"idle", "flush", "emit", "wait"}
             /\ m.at = "idle" => m = Idle
             /\ m.at = "flush" => m = Flushing
             /\ m.at \in {"emit", "wait"} =>
                  /\ m.event \in Events
                  /\ [m EXCEPT !.at = "wait"] \in MainStates
                  /\ [m EXCEPT !.at = "wait"].at = "wait"
                  /\ [m EXCEPT !.at = "wait"].event = m.event
  BY <1>3 DEF MainStates, Idle, Flushing
<1> QED  BY <1>1, <1>2, <1>3

LEMMA Appended ==
  ASSUME NEW S, NEW s \in Seq(S), NEW e \in S
  PROVE  /\ Append(s, e) \in Seq(S)
         /\ Len(Append(s, e)) = Len(s) + 1
         /\ DOMAIN Append(s, e) = 1 .. Len(s) + 1
         /\ \A i \in 1 .. Len(s) : Append(s, e)[i] = s[i]
         /\ Append(s, e)[Len(s) + 1] = e
  OBVIOUS

LEMMA TailOf ==
  ASSUME NEW S, NEW s \in Seq(S), s # <<>>
  PROVE  /\ Head(s) \in S /\ Head(s) = s[1] /\ Len(s) \in Nat \ {0}
         /\ Tail(s) \in Seq(S)
         /\ Len(Tail(s)) = Len(s) - 1
         /\ DOMAIN Tail(s) = 1 .. Len(s) - 1
         /\ \A i \in 1 .. Len(s) - 1 : Tail(s)[i] = s[i + 1]
  OBVIOUS

LEMMA DomainOf ==
  ASSUME NEW S, NEW s \in Seq(S)
  PROVE  Len(s) \in Nat /\ DOMAIN s = 1 .. Len(s) /\ \A i \in 1 .. Len(s) : s[i] \in S
  OBVIOUS

\* What a command makes of a device.
LEMMA CommandedDevice ==
  ASSUME TypeOK, NEW c \in Frames, devices[c.d] # Gone
  PROVE  /\ Commanded(c) \in Device \cup {Gone}
         /\ c.op = "revoke" <=> Commanded(c) = Gone
         /\ Shows(c, Commanded(c))
         /\ c.op = "unlock" => Commanded(c).grants = devices[c.d].grants
<1>1. devices[c.d] \in Device
  BY FrameFields DEF TypeOK
<1>2. CASE c.op = "update"
  BY <1>1, <1>2, FrameFields, DeviceFields, Distinct DEF Commanded, Shows, Device
<1>3. CASE c.op = "unlock"
  <2>1. Commanded(c) = [devices[c.d] EXCEPT !.locked = FALSE]
    BY <1>3 DEF Commanded
  <2>2. Commanded(c) \in Device
    BY <1>1, <2>1, DeviceFields
  <2>3. Commanded(c).locked = FALSE /\ Commanded(c).grants = devices[c.d].grants
    BY <1>1, <2>1 DEF Device
  <2>4. Shows(c, Commanded(c))
    BY <1>3, <2>2, <2>3, Distinct DEF Shows
  <2> QED  BY <1>3, <2>2, <2>3, <2>4, Distinct
<1>4. CASE c.op = "revoke"
  BY <1>4 DEF Commanded, Shows
<1> QED  BY <1>2, <1>3, <1>4, FrameFields

\* What the desktop makes of its list: nothing but the device of the command
\* changes, and what is gone stays gone.
LEMMA AppliedList ==
  ASSUME TypeOK, NEW c \in Frames, NEW list \in Apply(c)
  PROVE  /\ list \in [Devices -> Device \cup {Gone}]
         /\ \A d \in Devices : d # c.d => list[d] = disk[d]
         /\ c.op = "revoke" => list[c.d] = Gone
         /\ \A d \in Devices : disk[d] = Gone => list[d] = Gone
<1>0. disk \in [Devices -> Device \cup {Gone}] /\ c.d \in Devices
  BY FrameFields DEF TypeOK
<1>1. CASE c.op = "revoke"
  <2>1. list = [disk EXCEPT ![c.d] = Gone]
    BY <1>1 DEF Apply
  <2> QED  BY <1>0, <2>1
<1>2. CASE c.op = "unlock"
  <2>1. disk[c.d] # Gone /\ list = [disk EXCEPT ![c.d] = [disk[c.d] EXCEPT !.locked = FALSE]]
    BY <1>2 DEF Apply
  <2>2. [disk[c.d] EXCEPT !.locked = FALSE] \in Device
    BY <1>0, <2>1, DeviceFields
  <2> QED  BY <1>0, <1>2, <2>1, <2>2
<1>3. CASE c.op = "update"
  <2>1. disk[c.d] # Gone /\ list = [disk EXCEPT ![c.d] = [disk[c.d] EXCEPT !.grants = c.grants]]
    BY <1>3 DEF Apply
  <2>2. [disk[c.d] EXCEPT !.grants = c.grants] \in Device
    BY <1>0, <1>3, <2>1, DeviceFields, FrameFields
  <2> QED  BY <1>0, <1>3, <2>1, <2>2
<1> QED  BY <1>1, <1>2, <1>3, FrameFields

\* What an event may leave on disk.
LEMMA SavedList ==
  ASSUME TypeOK, NEW e \in Events, NEW list \in Saved(e)
  PROVE  /\ list \in [Devices -> Device \cup {Gone}]
         /\ e.type \in {"device", "registered"} => list = [disk EXCEPT ![e.d] = e.dev]
         /\ e.type = "deferred" /\ Answers(e) => list \in Apply(pending)
         /\ ~Writes(e) => list = disk
<1>1. CASE e.type \in {"device", "registered"}
  BY <1>1, EventFields DEF Saved, TypeOK, Writes
<1>2. CASE e.type = "deferred" /\ Answers(e)
  <2>1. list \in Apply(pending)
    BY <1>2 DEF Saved
  <2>2. pending \in Frames
    BY <1>2 DEF Answers, TypeOK
  <2> QED  BY <1>2, <2>1, <2>2, AppliedList DEF Writes
<1>3. CASE e.type = "error" \/ (e.type = "deferred" /\ ~Answers(e))
  BY <1>3 DEF Saved, TypeOK, Writes
<1> QED  BY <1>1, <1>2, <1>3, EventFields

\* Identity::notify_snapshot keeps the types.
LEMMA SnapshotTypes ==
  ASSUME TypeOK, NEW d \in Devices, NEW v \in Device \cup {Gone}, Snapshot(d, v)
  PROVE  /\ notif' \in [Devices -> Device \cup {Gone, None}]
         /\ dirty' \in SUBSET Devices
         /\ queue' \in Seq(Events) /\ Len(queue') <= QUEUE
<1>1. CASE Room
  <2>1. queue' = Append(queue, Report(d, v)) /\ Len(queue) < QUEUE /\ QUEUE \in Nat
    BY <1>1, LimitsNatural DEF Snapshot, Room
  <2>2. Report(d, v) \in Events
    BY MadeEvents
  <2> QED  BY <1>1, <2>1, <2>2, Appended DEF Snapshot, TypeOK
<1>2. CASE ~Room
  BY <1>2 DEF Snapshot, TypeOK
<1> QED  BY <1>1, <1>2

\* The maintenance tells no more than fits, and what it tells is current.
LEMMA ToldReports ==
  ASSUME TypeOK, NEW told \in TellOrders
  PROVE  /\ DOMAIN told = 1 .. Len(told) /\ Len(told) \in Nat
         /\ Len(queue) + Len(told) <= QUEUE
         /\ \A i \in 1 .. Len(told) :
              /\ told[i] \in Due /\ told[i] \in Devices
              /\ Latest(told[i]) \in Device \cup {Gone}
              /\ Report(told[i], Latest(told[i])) \in Events
         /\ [i \in DOMAIN told |-> Report(told[i], Latest(told[i]))] \in Seq(Events)
         /\ Len([i \in DOMAIN told |-> Report(told[i], Latest(told[i]))]) = Len(told)
<1>1. Due \in SUBSET Devices
  BY DEF Due, DirtyKnown, Known
<1>2. Cardinality(Due) \in Nat
  BY <1>1, DevicesFinite, FS_Subset, FS_CardinalityType
<1>3. QUEUE - Len(queue) \in Nat
  BY LimitsNatural DEF TypeOK
<1>4. PICK n \in Nat : n <= QUEUE - Len(queue) /\ told \in [1 .. n -> Due]
  BY <1>2, <1>3 DEF TellOrders
<1>5. told \in Seq(Due) /\ Len(told) = n /\ DOMAIN told = 1 .. n
  BY <1>4
<1>6. ASSUME NEW i \in 1 .. Len(told)
      PROVE  /\ told[i] \in Due /\ told[i] \in Devices
             /\ Latest(told[i]) \in Device \cup {Gone}
             /\ Report(told[i], Latest(told[i])) \in Events
  <2>1. told[i] \in Due /\ told[i] \in Devices
    BY <1>1, <1>4, <1>5, <1>6
  <2>2. Latest(told[i]) \in Device \cup {Gone}
    BY <2>1 DEF Due, Latest, TypeOK
  <2> QED  BY <2>1, <2>2, MadeEvents
<1>7. /\ [i \in DOMAIN told |-> Report(told[i], Latest(told[i]))] \in Seq(Events)
      /\ Len([i \in DOMAIN told |-> Report(told[i], Latest(told[i]))]) = Len(told)
  BY <1>5, <1>6, IsASeq
<1>8. DOMAIN told = 1 .. Len(told) /\ Len(told) \in Nat /\ Len(queue) + Len(told) <= QUEUE
  BY <1>3, <1>4, <1>5, LimitsNatural DEF TypeOK
<1> QED  BY <1>6, <1>7, <1>8

(***************************************************************************)
(* Types.                                                                  *)
(***************************************************************************)

LEMMA InitTypes == Init => TypeOK
<1> SUFFICES ASSUME Init PROVE TypeOK
  OBVIOUS
<1>1. halted \in BOOLEAN /\ announced \in BOOLEAN
  BY ZenonT(30) DEF Init
<1>2. queue \in Seq(Events) /\ Len(queue) <= QUEUE /\ inbox \in Seq(Frames \cup {SHUTDOWN_FRAME})
  BY LimitsNatural DEF Init
<1>3. main \in MainStates
  BY MainFields DEF Init
<1> QED  BY <1>1, <1>2, <1>3, LimitsNatural DEF Init, TypeOK

\* The process: nothing is queued and no command applied.
LEMMA ProcessTypes ==
  ASSUME TypeOK,
         Start \/ Ready \/ Exit \/ Stop \/ Fail \/ Expire \/ AnnounceExpiry \/ Timeout
  PROVE  TypeOK'
<1>1. CASE Start
  BY <1>1, LimitsNatural DEF TypeOK, Start
<1>2. CASE Ready
  BY <1>2 DEF TypeOK, Ready, gateway, history
<1>3. CASE Exit
  <2>1. queue' \in Seq(Events) /\ Len(queue') <= QUEUE /\ inbox' \in Seq(Frames \cup {SHUTDOWN_FRAME})
    BY <1>3, LimitsNatural DEF Exit
  <2>2. main' \in MainStates /\ halted' = FALSE /\ announced' = FALSE
    BY <1>3, MainFields DEF Exit
  <2> QED  BY <1>3, <2>1, <2>2 DEF TypeOK, Exit, history
<1>4. CASE Stop
  <2>1. inbox' \in Seq(Frames \cup {SHUTDOWN_FRAME})
    BY <1>4 DEF TypeOK, Stop
  <2> QED  BY <1>4, <2>1 DEF TypeOK, Stop, history
<1>5. CASE Fail
  BY <1>5 DEF TypeOK, Fail, Halt, gateway, history
<1>6. CASE Expire
  BY <1>6 DEF TypeOK, Expire, history
<1>7. CASE AnnounceExpiry
  <2>1. main' \in MainStates
    BY <1>7, MainFields, MadeEvents DEF AnnounceExpiry
  <2> QED  BY <1>7, <2>1 DEF TypeOK, AnnounceExpiry, history
<1>8. CASE Timeout
  BY <1>8 DEF TypeOK, Timeout, Halt, gateway, history
<1> QED  BY <1>1, <1>2, <1>3, <1>4, <1>5, <1>6, <1>7, <1>8

\* The phones, and the gateway's snapshots of them.
LEMMA BackgroundTypes ==
  ASSUME TypeOK, Background
  PROVE  TypeOK'
<1> PICK d \in Devices : Touch(d) \/ Verified(d) \/ LockOut(d) \/ Register(d) \/ AddCredential(d)
  BY DEF Background
<1>1. CASE Touch(d)
  BY <1>1 DEF TypeOK, Touch, history
<1>2. CASE Verified(d)
  <2>1. devices[d] \in Device \cup {Gone}
    BY DEF TypeOK
  <2>2. Snapshot(d, devices[d])
    BY <1>2 DEF Verified
  <2> QED  BY <1>2, <2>1, <2>2, SnapshotTypes DEF TypeOK, Verified, history
<1>3. CASE LockOut(d)
  <2>1. [devices[d] EXCEPT !.locked = TRUE] \in Device
    BY <1>3, DeviceFields DEF TypeOK, LockOut
  <2>2. Snapshot(d, [devices[d] EXCEPT !.locked = TRUE])
    BY <1>3 DEF LockOut
  <2>3. devices' = [devices EXCEPT ![d] = [devices[d] EXCEPT !.locked = TRUE]]
    BY <1>3 DEF LockOut
  <2>4. devices' \in [Devices -> Device \cup {Gone}]
    BY <2>1, <2>3 DEF TypeOK
  <2> QED  BY <1>3, <2>1, <2>2, <2>4, SnapshotTypes DEF TypeOK, LockOut, history
<1>4. CASE Register(d)
  <2>1. queue' \in Seq(Events) /\ Len(queue') <= QUEUE
    BY <1>4, MadeEvents, Appended, LimitsNatural DEF Register, Room, TypeOK
  <2>2. NewDevice \in Device
    BY DEF NewDevice, Device, Grants
  <2> QED  BY <1>4, <2>1, <2>2 DEF TypeOK, Register, history
<1>5. CASE AddCredential(d)
  <2>1. queue' \in Seq(Events) /\ Len(queue') <= QUEUE
    <3>1. devices[d] \in Device \cup {Gone}
      BY DEF TypeOK
    <3> QED  BY <1>5, <3>1, MadeEvents, Appended, LimitsNatural DEF AddCredential, Room, TypeOK
  <2> QED  BY <1>5, <2>1 DEF TypeOK, AddCredential, history
<1> QED  BY <1>1, <1>2, <1>3, <1>4, <1>5

LEMMA MaintenanceTypes ==
  ASSUME TypeOK, Maintenance
  PROVE  TypeOK'
<1> PICK told \in TellOrders :
         /\ queue' = queue \o [i \in DOMAIN told |-> Report(told[i], Latest(told[i]))]
         /\ notif' = [d \in Devices |->
                        IF \E i \in DOMAIN told : told[i] = d THEN None ELSE Latest(d)]
  BY DEF Maintenance
<1>1. queue' \in Seq(Events) /\ Len(queue') <= QUEUE
  <2> DEFINE new == [i \in DOMAIN told |-> Report(told[i], Latest(told[i]))]
  <2>1. new \in Seq(Events) /\ Len(queue) + Len(new) <= QUEUE
    BY ToldReports
  <2>2. queue' = queue \o new /\ queue \in Seq(Events)
    BY DEF TypeOK
  <2> HIDE DEF new
  <2> QED  BY <2>1, <2>2, ConcatProperties
<1>2. notif' \in [Devices -> Device \cup {Gone, None}]
  BY DEF TypeOK, Latest
<1> QED  BY <1>1, <1>2 DEF TypeOK, Maintenance, history

LEMMA CommandTypes ==
  ASSUME TypeOK, Command
  PROVE  TypeOK'
<1>1. /\ inbox' \in Seq(Frames \cup {SHUTDOWN_FRAME})
      /\ Head(inbox) \in Frames \cup {SHUTDOWN_FRAME}
  BY TailOf DEF Command, TypeOK
<1>2. CASE Head(inbox) = SHUTDOWN_FRAME
  BY <1>1, <1>2 DEF TypeOK, Command
<1>3. CASE Head(inbox) # SHUTDOWN_FRAME
  <2>0. PICK c \in Frames : c = Head(inbox)
    BY <1>1, <1>3
  <2>1. CASE CommandRefused(c)
    <3>1. main' \in MainStates
      BY <2>1, MainFields, MadeEvents DEF CommandRefused
    <3> QED  BY <1>1, <1>3, <2>0, <2>1, <3>1 DEF TypeOK, Command, CommandRefused
  <2>2. CASE CommandApplied(c)
    <3>0. c.d \in Devices /\ c.n \in Serials /\ devices[c.d] # Gone
      BY <2>2, FrameFields DEF CommandApplied, Valid
    <3>1. Commanded(c) \in Device \cup {Gone}
      BY <3>0, CommandedDevice
    <3>2. devices' \in [Devices -> Device \cup {Gone}]
      BY <2>2, <3>0, <3>1 DEF TypeOK, CommandApplied
    <3>3. Report(c.d, Commanded(c)) \in Events /\ Reply(Deferral(c)) \in MainStates
      BY <3>0, <3>1, MadeEvents, MainFields
    <3>4. applied' \in SUBSET Serials /\ dirty' \in SUBSET Devices
      BY <2>2, <3>0 DEF TypeOK, CommandApplied
    <3>5. /\ queue' \in Seq(Events) /\ Len(queue') <= QUEUE
      <4>1. CASE queue' = queue
        BY <4>1 DEF TypeOK
      <4>2. CASE queue' = Append(queue, Report(c.d, Commanded(c))) /\ Room
        BY <4>2, <3>3, Appended, LimitsNatural DEF TypeOK, Room
      <4> QED  BY <2>2, <4>1, <4>2 DEF CommandApplied, Blocked
    <3>6. notif' \in [Devices -> Device \cup {Gone, None}]
      BY <2>2, <3>0, <3>1 DEF TypeOK, CommandApplied
    <3>7. main' \in MainStates
      BY <2>2, <3>3 DEF TypeOK, CommandApplied
    <3> QED  BY <1>1, <1>3, <2>0, <3>2, <3>4, <3>5, <3>6, <3>7 DEF TypeOK, Command
  <2> QED  BY <1>3, <2>0, <2>1, <2>2 DEF Command
<1> QED  BY <1>2, <1>3

LEMMA EmitTypes ==
  ASSUME TypeOK, Emit
  PROVE  TypeOK'
<1>1. main.event \in Events
  BY MainFields DEF Emit, TypeOK
<1>2. queue' \in Seq(Events) /\ Len(queue') <= QUEUE
  <2>1. CASE Room
    <3>1. queue' = Append(queue, main.event) /\ Len(queue) < QUEUE
      BY <2>1 DEF Emit, Room
    <3> QED  BY <1>1, <3>1, Appended, LimitsNatural DEF TypeOK
  <2>2. CASE ~Room
    BY <2>2 DEF Emit, TypeOK
  <2> QED  BY <2>1, <2>2
<1>3. main' \in MainStates
  BY MainFields DEF Emit, TypeOK
<1> QED  BY <1>2, <1>3 DEF TypeOK, Emit, history

\* What the desktop does with an event.
LEMMA HandleTypes ==
  ASSUME TypeOK, NEW e \in Events, Handle(e)
  PROVE  /\ status' \in {"Stopped", "Starting", "Running", "Stopping", "Halted"}
         /\ halted' \in BOOLEAN
         /\ disk' \in [Devices -> Device \cup {Gone}]
         /\ pending' \in Frames \cup {None}
         /\ deferred' \in SUBSET Serials
         /\ revoked' \in SUBSET Devices
<1>1. CASE status # "Halted" /\ disk' \in Saved(e) /\ Complete(e) /\ UNCHANGED <<status, halted>>
  <2>1. disk' \in [Devices -> Device \cup {Gone}]
    BY <1>1, SavedList
  <2>2. /\ pending' \in Frames \cup {None} /\ deferred' \in SUBSET Serials
        /\ revoked' \in SUBSET Devices
    <3>1. CASE Answers(e)
      <4>1. pending \in Frames
        BY <3>1 DEF Answers, TypeOK
      <4> QED  BY <1>1, <3>1, <4>1, FrameFields DEF TypeOK, Complete
    <3>2. CASE ~Answers(e)
      BY <1>1, <3>2 DEF TypeOK, Complete
    <3> QED  BY <3>1, <3>2
  <2> QED  BY <1>1, <2>1, <2>2 DEF TypeOK
<1>2. CASE Halt /\ UNCHANGED <<disk, revoked, deferred>>
  BY <1>2 DEF TypeOK, Halt
<1>3. CASE UNCHANGED <<status, halted, disk, pending, revoked, deferred>>
  BY <1>3 DEF TypeOK
<1> QED  BY <1>1, <1>2, <1>3 DEF Handle

LEMMA DeliverTypes ==
  ASSUME TypeOK, Deliver
  PROVE  TypeOK'
<1>1. /\ Head(queue) \in Events /\ Tail(queue) \in Seq(Events)
      /\ Len(Tail(queue)) = Len(queue) - 1 /\ Len(queue) \in Nat
  BY TailOf DEF Deliver, TypeOK
<1>2. queue' \in Seq(Events) /\ Len(queue') <= QUEUE /\ main' \in MainStates
  <2>1. CASE main.at = "wait"
    <3>1. main.event \in Events /\ queue' = Append(Tail(queue), main.event) /\ main' = Flushing
      BY <2>1, MainFields DEF Deliver, TypeOK
    <3> QED  BY <1>1, <3>1, Appended, MainFields, LimitsNatural DEF TypeOK
  <2>2. CASE main.at # "wait"
    <3>1. queue' = Tail(queue) /\ main' \in {Idle, main}
      BY <2>2 DEF Deliver
    <3> QED  BY <1>1, <3>1, MainFields, LimitsNatural DEF TypeOK
  <2> QED  BY <2>1, <2>2
<1>3. Handle(Head(queue))
  BY DEF Deliver
<1> QED  BY <1>1, <1>2, <1>3, HandleTypes DEF TypeOK, Deliver

LEMMA UserTypes ==
  ASSUME TypeOK, NEW c \in Frames, Request(c) \/ EditStopped(c)
  PROVE  TypeOK'
<1>0. c.n \in 1 .. MaxCommands /\ c.d \in Devices
  BY FrameFields DEF Serials
<1>1. CASE Request(c)
  <2>1. inbox' \in Seq(Frames \cup {SHUTDOWN_FRAME})
    BY <1>1, Appended DEF TypeOK, Request
  <2> QED  BY <1>0, <1>1, <2>1 DEF TypeOK, Request
<1>2. CASE EditStopped(c)
  <2>1. disk' \in [Devices -> Device \cup {Gone}]
    BY <1>2, AppliedList DEF EditStopped
  <2> QED  BY <1>0, <1>2, <2>1 DEF TypeOK, EditStopped, gateway
<1> QED  BY <1>1, <1>2

LEMMA NextTypes == TypeOK /\ [Next]_vars => TypeOK'
<1> SUFFICES ASSUME TypeOK, [Next]_vars PROVE TypeOK'
  OBVIOUS
<1>1. CASE UNCHANGED vars
  BY <1>1 DEF TypeOK, vars, gateway, history
<1>2. CASE Next
  BY <1>2, ProcessTypes, BackgroundTypes, MaintenanceTypes, CommandTypes, EmitTypes,
     DeliverTypes, UserTypes DEF Next
<1> QED  BY <1>1, <1>2

\* Every variable keeps its type (DeviceSync.tla), for every size of the
\* policy and of the event queue: in particular a gateway that defers, retries
\* and waits for a slot never queues more than the queue takes (EventSender).
THEOREM DeviceSyncTypes == Spec => []TypeOK
  BY InitTypes, NextTypes, PTL DEF Spec

(***************************************************************************)
(* Steps of the gateway's table.                                           *)
(***************************************************************************)

\* Events are queued behind the others, and they report what the table now has.
Grown ==
  /\ Len(queue) <= Len(queue')
  /\ \A i \in 1 .. Len(queue) : queue'[i] = queue[i]
  /\ \A i \in Len(queue) + 1 .. Len(queue') :
       /\ queue'[i].type \in {"device", "registered"}
       /\ queue'[i].type = "registered" => queue'[i].d \in fresh
       /\ queue'[i].dev = devices'[queue'[i].d]

TellsOf(d) == \E i \in Len(queue) + 1 .. Len(queue') : IsReport(queue'[i], d)

\* What is not reported at once is deferred; what is gone stays gone.
TableStep ==
  /\ Grown
  /\ \A d \in Devices :
       /\ notif'[d] \in {None, devices'[d]}
       /\ notif'[d] = None => TellsOf(d) \/ (notif[d] = None /\ devices'[d] = devices[d])
       /\ devices[d] = Gone /\ d \notin fresh => devices'[d] = Gone
       /\ d \in fresh' =>
            d \in fresh /\ devices'[d] = Gone /\ notif'[d] = None /\ ~TellsOf(d)

\* Nobody but the user removes a device or changes its grants.
GrantsKept ==
  \A d \in Devices : devices[d] # Gone => devices'[d] # Gone /\ devices'[d].grants = devices[d].grants

LEMMA GrownByNone ==
  ASSUME TypeOK, queue' = queue
  PROVE  Grown /\ \A d \in Devices : ~TellsOf(d)
  BY DomainOf DEF TypeOK, Grown, TellsOf

LEMMA GrownByOne ==
  ASSUME TypeOK, NEW e \in Events, queue' = Append(queue, e),
         e.type \in {"device", "registered"}, e.dev = devices'[e.d],
         e.type = "registered" => e.d \in fresh
  PROVE  Grown /\ \A d \in Devices : TellsOf(d) <=> d = e.d
<1>1. /\ Len(queue') = Len(queue) + 1 /\ Len(queue) \in Nat
      /\ \A i \in 1 .. Len(queue) : queue'[i] = queue[i]
      /\ queue'[Len(queue) + 1] = e
  BY Appended DEF TypeOK
<1>2. Len(queue) + 1 .. Len(queue') = {Len(queue) + 1}
  BY <1>1
<1> QED  BY <1>1, <1>2 DEF Grown, TellsOf, IsReport

\* A step that leaves table, deferrals and queue alone.
LEMMA TableUnchanged ==
  ASSUME IInv, UNCHANGED <<devices, notif, queue, fresh>>
  PROVE  TableStep /\ GrantsKept
  BY GrownByNone DEF TableStep, GrantsKept, IInv, TypeOK, NotifCurrent, FreshUnused

\* Identity::notify_snapshot of a device as the table has it.
LEMMA SnapshotStep ==
  ASSUME IInv, NEW d \in Devices, NEW v \in Device, Snapshot(d, v), devices[d] # Gone,
         devices'[d] = v, \A o \in Devices : o # d => devices'[o] = devices[o], fresh' = fresh
  PROVE  TableStep
<1>0. TypeOK /\ NotifCurrent /\ FreshUnused /\ d \notin fresh
  BY DEF IInv, FreshUnused
<1>1. CASE Room
  <2>1. queue' = Append(queue, Report(d, v)) /\ notif' = [notif EXCEPT ![d] = None]
    BY <1>1 DEF Snapshot
  <2>2. Grown /\ \A o \in Devices : TellsOf(o) <=> o = d
    BY <1>0, <2>1, GrownByOne, MadeEvents
  <2>3. notif'[d] = None /\ \A o \in Devices : o # d => notif'[o] = notif[o]
    BY <1>0, <2>1 DEF TypeOK
  <2> QED  BY <1>0, <2>2, <2>3 DEF TableStep, NotifCurrent, FreshUnused
<1>2. CASE ~Room
  <2>1. queue' = queue /\ notif' = [notif EXCEPT ![d] = v]
    BY <1>2 DEF Snapshot
  <2>2. Grown /\ \A o \in Devices : ~TellsOf(o)
    BY <1>0, <2>1, GrownByNone
  <2>3. notif'[d] = v /\ \A o \in Devices : o # d => notif'[o] = notif[o]
    BY <1>0, <2>1 DEF TypeOK
  <2> QED  BY <1>0, <2>2, <2>3, Distinct DEF TableStep, NotifCurrent, FreshUnused
<1> QED  BY <1>1, <1>2

LEMMA BackgroundStep ==
  ASSUME IInv, Background
  PROVE  TableStep /\ GrantsKept
<1>0. TypeOK /\ NotifCurrent /\ FreshUnused
  BY DEF IInv
<1> PICK d \in Devices : Touch(d) \/ Verified(d) \/ LockOut(d) \/ Register(d) \/ AddCredential(d)
  BY DEF Background
<1>1. CASE Touch(d)
  BY <1>1, TableUnchanged DEF Touch
<1>2. CASE Verified(d)
  <2>1. devices[d] \in Device /\ devices' = devices /\ fresh' = fresh /\ Snapshot(d, devices[d])
    BY <1>0, <1>2 DEF Verified, TypeOK
  <2> QED  BY <2>1, <1>2, SnapshotStep DEF Verified, GrantsKept
<1>3. CASE LockOut(d)
  <2>0. devices[d] \in Device
    BY <1>0, <1>3 DEF LockOut, TypeOK
  <2>1. PICK v : v = [devices[d] EXCEPT !.locked = TRUE]
    OBVIOUS
  <2>2. v \in Device /\ v.grants = devices[d].grants
    BY <2>0, <2>1, DeviceFields DEF Device
  <2>3. devices' = [devices EXCEPT ![d] = v] /\ Snapshot(d, v) /\ fresh' = fresh /\ devices[d] # Gone
    BY <1>3, <2>1 DEF LockOut
  <2>4. devices'[d] = v /\ \A o \in Devices : o # d => devices'[o] = devices[o]
    BY <1>0, <2>3 DEF TypeOK
  <2>5. GrantsKept
    BY <2>2, <2>4, Distinct DEF GrantsKept
  <2> QED  BY <2>2, <2>3, <2>4, <2>5, SnapshotStep
<1>4. CASE Register(d)
  <2>1. /\ d \in fresh /\ fresh' = fresh \ {d} /\ notif' = notif
        /\ queue' = Append(queue, Registered(d))
        /\ \A o \in Devices : notif[o] = None
        /\ devices' = [devices EXCEPT ![d] = NewDevice]
    BY <1>4 DEF Register
  <2>2. devices'[d] = NewDevice /\ \A o \in Devices : o # d => devices'[o] = devices[o]
    BY <1>0, <2>1 DEF TypeOK
  <2>3. Grown /\ \A o \in Devices : TellsOf(o) <=> o = d
    BY <1>0, <2>1, <2>2, GrownByOne, MadeEvents
  <2>4. devices[d] = Gone
    BY <1>0, <2>1 DEF FreshUnused
  <2> QED  BY <1>0, <2>1, <2>2, <2>3, <2>4 DEF TableStep, GrantsKept, NotifCurrent, FreshUnused
<1>5. CASE AddCredential(d)
  <2>1. /\ queue' = Append(queue, Report(d, devices[d])) /\ UNCHANGED <<devices, notif, fresh>>
        /\ devices[d] # Gone
    BY <1>5 DEF AddCredential
  <2>2. devices[d] \in Device \cup {Gone}
    BY <1>0 DEF TypeOK
  <2>3. Grown /\ \A o \in Devices : TellsOf(o) <=> o = d
    BY <1>0, <2>1, <2>2, GrownByOne, MadeEvents
  <2> QED  BY <1>0, <2>1, <2>3 DEF TableStep, GrantsKept, NotifCurrent, FreshUnused
<1> QED  BY <1>1, <1>2, <1>3, <1>4, <1>5

LEMMA MaintenanceStep ==
  ASSUME IInv, Maintenance
  PROVE  TableStep /\ GrantsKept
<1>0. TypeOK /\ NotifCurrent /\ FreshUnused /\ UNCHANGED <<devices, fresh>>
  BY DEF IInv, Maintenance
<1>1. PICK told \in TellOrders :
         /\ queue' = queue \o [i \in DOMAIN told |-> Report(told[i], Latest(told[i]))]
         /\ notif' = [d \in Devices |->
                        IF \E i \in DOMAIN told : told[i] = d THEN None ELSE Latest(d)]
  BY DEF Maintenance
<1>2. PICK new : new = [i \in DOMAIN told |-> Report(told[i], Latest(told[i]))]
  OBVIOUS
<1>3. /\ new \in Seq(Events) /\ Len(new) = Len(told) /\ Len(told) \in Nat
      /\ DOMAIN told = 1 .. Len(told)
  BY <1>0, <1>2, ToldReports
<1>4. ASSUME NEW d \in Due
      PROVE  d \in Devices /\ Latest(d) = devices[d] /\ d \notin fresh
  <2>1. d \in Devices /\ (d \in DirtyKnown \/ notif[d] # None)
    BY DEF Due, DirtyKnown, Known
  <2>2. d \notin fresh
    BY <1>0, <2>1 DEF FreshUnused, DirtyKnown, Known
  <2> QED  BY <1>0, <2>1, <2>2 DEF Latest, NotifCurrent
<1>5. ASSUME NEW i \in 1 .. Len(told)
      PROVE  /\ told[i] \in Due
             /\ new[i].type = "device" /\ new[i].d = told[i] /\ new[i].dev = devices[told[i]]
  <2>1. told[i] \in Due /\ Latest(told[i]) \in Device \cup {Gone} /\ told[i] \in Devices
    BY <1>0, ToldReports
  <2>2. new[i] = Report(told[i], Latest(told[i]))
    BY <1>2, <1>3
  <2> QED  BY <1>4, <2>1, <2>2, MadeEvents
<1>6. /\ Len(queue') = Len(queue) + Len(told) /\ Len(queue) \in Nat
      /\ \A i \in 1 .. Len(queue) : queue'[i] = queue[i]
      /\ \A i \in Len(queue) + 1 .. Len(queue') : queue'[i] = new[i - Len(queue)]
  BY <1>0, <1>1, <1>2, <1>3, ConcatProperties DEF TypeOK
<1>7. Grown
  BY <1>0, <1>5, <1>6, <1>3 DEF Grown
<1>8. ASSUME NEW d \in Devices
      PROVE  TellsOf(d) <=> \E i \in 1 .. Len(told) : told[i] = d
  <2>1. ASSUME NEW i \in 1 .. Len(told), told[i] = d
        PROVE  TellsOf(d)
    <3>1. i + Len(queue) \in Len(queue) + 1 .. Len(queue') /\ queue'[i + Len(queue)] = new[i]
      BY <1>3, <1>6
    <3> QED  BY <1>5, <2>1, <3>1 DEF TellsOf, IsReport
  <2>2. ASSUME NEW i \in Len(queue) + 1 .. Len(queue'), IsReport(queue'[i], d)
        PROVE  \E j \in 1 .. Len(told) : told[j] = d
    <3>1. i - Len(queue) \in 1 .. Len(told) /\ queue'[i] = new[i - Len(queue)]
      BY <1>3, <1>6
    <3> QED  BY <1>5, <2>2, <3>1 DEF IsReport
  <2> QED  BY <2>1, <2>2 DEF TellsOf
<1>9. ASSUME NEW d \in Devices
      PROVE  /\ notif'[d] \in {None, devices'[d]}
             /\ notif'[d] = None => TellsOf(d) \/ notif[d] = None
             /\ d \in fresh' => notif'[d] = None /\ ~TellsOf(d)
  <2>1. notif'[d] = IF \E i \in 1 .. Len(told) : told[i] = d THEN None ELSE Latest(d)
    BY <1>1, <1>3
  <2>2. d \in fresh => Latest(d) = None /\ ~TellsOf(d)
    BY <1>0, <1>4, <1>5, <1>8 DEF Latest, FreshUnused, DirtyKnown, Known
  <2>3. d \in Due => Latest(d) = devices[d] /\ Latest(d) # None
    BY <1>0, <1>4, Distinct DEF TypeOK
  <2>4. d \notin Due => Latest(d) = None /\ notif[d] = None
    BY DEF Due, Latest
  <2> QED  BY <1>0, <1>8, <2>1, <2>2, <2>3, <2>4
<1> QED  BY <1>0, <1>7, <1>9 DEF TableStep, GrantsKept, FreshUnused

\* Identity::command reports what it did, or defers the report.
LEMMA AppliedStep ==
  ASSUME IInv, NEW c \in Frames, CommandApplied(c), fresh' = fresh
  PROVE  /\ TableStep
         /\ devices'[c.d] = Commanded(c)
         /\ TellsOf(c.d) \/ notif'[c.d] # None
         /\ \A o \in Devices : o # c.d => devices'[o] = devices[o]
         /\ \/ main' = main
            \/ main' = Reply(Deferral(c)) /\ notif'[c.d] # None /\ c.op # "unlock"
<1>0. TypeOK /\ NotifCurrent /\ FreshUnused /\ c.d \in Devices /\ devices[c.d] # Gone /\ c.d \notin fresh
  BY FrameFields DEF IInv, CommandApplied, Valid, FreshUnused
<1>1. Commanded(c) \in Device \cup {Gone}
  BY <1>0, CommandedDevice
<1>2. devices'[c.d] = Commanded(c) /\ \A o \in Devices : o # c.d => devices'[o] = devices[o]
  BY <1>0 DEF CommandApplied, TypeOK
<1>3. CASE queue' = Append(queue, Report(c.d, Commanded(c))) /\ main' = main
           /\ \/ notif' = notif /\ notif[c.d] = None
              \/ notif' = [notif EXCEPT ![c.d] = None]
  <2>1. Grown /\ \A o \in Devices : TellsOf(o) <=> o = c.d
    BY <1>0, <1>1, <1>2, <1>3, GrownByOne, MadeEvents
  <2>2. notif'[c.d] = None /\ \A o \in Devices : o # c.d => notif'[o] = notif[o]
    BY <1>0, <1>3 DEF TypeOK
  <2> QED  BY <1>0, <1>2, <1>3, <2>1, <2>2 DEF TableStep, NotifCurrent, FreshUnused
<1>4. CASE /\ queue' = queue /\ main' = Reply(Deferral(c)) /\ ~Widening(c)
           /\ notif' = [notif EXCEPT ![c.d] = Commanded(c)]
  <2>1. Grown /\ \A o \in Devices : ~TellsOf(o)
    BY <1>0, <1>4, GrownByNone
  <2>2. /\ notif'[c.d] = Commanded(c) /\ notif'[c.d] # None
        /\ \A o \in Devices : o # c.d => notif'[o] = notif[o]
    BY <1>0, <1>1, <1>4, Distinct DEF TypeOK
  <2>3. c.op # "unlock"
    BY <1>4 DEF Widening
  <2> QED  BY <1>0, <1>2, <1>4, <2>1, <2>2, <2>3 DEF TableStep, NotifCurrent, FreshUnused
<1> QED  BY <1>3, <1>4 DEF CommandApplied, Blocked

(***************************************************************************)
(* What the steps of the table preserve.                                   *)
(***************************************************************************)

LEMMA TableKeepsGone ==
  ASSUME IInv, TypeOK', TableStep, UNCHANGED <<disk, revoked>>,
         \A e \in Events : \A d \in Devices :
           Held(e)' /\ SaysGone(e, d) => devices'[d] = Gone /\ d \notin fresh'
  PROVE  NotifCurrent' /\ FreshUnused' /\ GoneFinal' /\ RevokedGone'
<1>0. /\ TypeOK /\ NotifCurrent /\ FreshUnused /\ GoneFinal /\ RevokedGone
      /\ DOMAIN queue = 1 .. Len(queue) /\ DOMAIN queue' = 1 .. Len(queue')
      /\ Len(queue) \in Nat /\ Len(queue') \in Nat
  BY DomainOf DEF IInv, TypeOK
<1>1. NotifCurrent'
  BY DEF TableStep, NotifCurrent
<1>2. fresh' \subseteq fresh /\ fresh \subseteq Devices
  BY <1>0 DEF TableStep, TypeOK
<1>3. ASSUME NEW i \in 1 .. Len(queue')
      PROVE  \/ i \in 1 .. Len(queue) /\ queue'[i] = queue[i]
             \/ /\ i \in Len(queue) + 1 .. Len(queue')
                /\ queue'[i].type \in {"device", "registered"}
                /\ queue'[i].dev = devices'[queue'[i].d]
  BY <1>0 DEF TableStep, Grown
<1>4. FreshUnused'
  <2> SUFFICES ASSUME NEW d \in fresh'
               PROVE  /\ devices'[d] = Gone /\ notif'[d] = None /\ disk'[d] = Gone
                      /\ \A i \in 1 .. Len(queue') : ~IsReport(queue'[i], d)
    BY <1>0 DEF FreshUnused, IsReport
  <2>1. d \in fresh /\ d \in Devices /\ devices'[d] = Gone /\ notif'[d] = None /\ ~TellsOf(d)
    BY <1>2 DEF TableStep
  <2>2. disk'[d] = Gone /\ \A i \in 1 .. Len(queue) : ~IsReport(queue[i], d)
    BY <1>0, <2>1 DEF FreshUnused
  <2> QED  BY <1>3, <2>1, <2>2 DEF TellsOf
<1>5. ASSUME NEW i \in 1 .. Len(queue'), NEW d \in Devices, SaysGone(queue'[i], d)
      PROVE  devices'[d] = Gone /\ d \notin fresh'
  <2>1. CASE i \in 1 .. Len(queue) /\ queue'[i] = queue[i]
    <3>1. devices[d] = Gone /\ d \notin fresh
      BY <1>0, <1>5, <2>1 DEF GoneFinal
    <3> QED  BY <1>2, <3>1 DEF TableStep
  <2>2. CASE /\ i \in Len(queue) + 1 .. Len(queue')
             /\ queue'[i].type \in {"device", "registered"}
             /\ queue'[i].dev = devices'[queue'[i].d]
    <3>1. queue'[i].d = d /\ queue'[i].dev = Gone
      BY <1>5, <2>2 DEF SaysGone
    <3>2. TellsOf(d)
      BY <2>2, <3>1 DEF TellsOf, IsReport
    <3> QED  BY <2>2, <3>1, <3>2 DEF TableStep
  <2> QED  BY <1>3, <2>1, <2>2
<1>6. ASSUME NEW i \in 1 .. Len(queue'), NEW j \in 1 .. Len(queue'), NEW d \in Devices,
             i < j, SaysGone(queue'[i], d), IsReport(queue'[j], d)
      PROVE  queue'[j].dev = Gone
  <2>1. CASE j \in 1 .. Len(queue) /\ queue'[j] = queue[j]
    <3>1. i \in 1 .. Len(queue) /\ queue'[i] = queue[i]
      BY <1>6, <2>1 DEF TableStep, Grown
    <3> QED  BY <1>0, <1>6, <2>1, <3>1 DEF GoneFinal
  <2>2. CASE queue'[j].dev = devices'[queue'[j].d]
    BY <1>5, <1>6, <2>2 DEF IsReport
  <2> QED  BY <1>3, <2>1, <2>2
<1>7. GoneFinal'
  <2>1. \A e \in Events : \A d \in Devices :
          Held(e)' /\ SaysGone(e, d) => devices'[d] = Gone /\ d \notin fresh'
    OBVIOUS
  <2>2. \A i \in DOMAIN queue' : \A d \in Devices :
          SaysGone(queue'[i], d) => devices'[d] = Gone /\ d \notin fresh'
    BY <1>0, <1>5
  <2>3. \A i, j \in DOMAIN queue' : \A d \in Devices :
          i < j /\ SaysGone(queue'[i], d) /\ IsReport(queue'[j], d) => queue'[j].dev = Gone
    BY <1>0, <1>6
  <2> QED  BY <2>1, <2>2, <2>3 DEF GoneFinal, SaysGone, IsReport
<1>8. RevokedGone'
  <2> SUFFICES ASSUME NEW d \in revoked'
               PROVE  /\ disk'[d] = Gone /\ devices'[d] = Gone /\ d \notin fresh'
                      /\ \A i \in 1 .. Len(queue') : IsReport(queue'[i], d) => queue'[i].dev = Gone
    BY <1>0 DEF RevokedGone, IsReport
  <2>1. /\ d \in Devices /\ disk[d] = Gone /\ devices[d] = Gone /\ d \notin fresh
        /\ \A i \in 1 .. Len(queue) : IsReport(queue[i], d) => queue[i].dev = Gone
    BY <1>0 DEF RevokedGone, TypeOK
  <2>2. devices'[d] = Gone /\ d \notin fresh'
    BY <1>2, <2>1 DEF TableStep
  <2> QED  BY <1>3, <2>1, <2>2 DEF IsReport
<1> QED  BY <1>1, <1>4, <1>7, <1>8

\* A device whose change is queued is in sync, and one that was stays so.
LEMMA TableKeepsSynced ==
  ASSUME IInv, TypeOK', TableStep, disk' = disk, NEW d \in Devices,
         Synced(d) \/ TellsOf(d) \/ notif'[d] # None
  PROVE  Synced(d)'
<1>0. /\ DOMAIN queue = 1 .. Len(queue) /\ DOMAIN queue' = 1 .. Len(queue')
      /\ Len(queue) \in Nat /\ Len(queue') \in Nat
  BY DomainOf DEF IInv, TypeOK
<1>a. Grown
  BY DEF TableStep
<1>1. SUFFICES ASSUME notif'[d] = None
               PROVE  /\ \A i \in 1 .. Len(queue') :
                           IsReport(queue'[i], d)
                             /\ (\A j \in 1 .. Len(queue') : i < j => ~IsReport(queue'[j], d))
                           => queue'[i].dev = devices'[d]
                      /\ (\A i \in 1 .. Len(queue') : ~IsReport(queue'[i], d)) => disk'[d] = devices'[d]
  BY <1>0 DEF Synced, LastReport, IsReport
<1>2. CASE TellsOf(d)
  <2>1. PICK k \in Len(queue) + 1 .. Len(queue') : IsReport(queue'[k], d)
    BY <1>2 DEF TellsOf
  <2>2. k \in 1 .. Len(queue')
    BY <1>0, <2>1
  <2>3. ASSUME NEW i \in 1 .. Len(queue'), IsReport(queue'[i], d),
               \A j \in 1 .. Len(queue') : i < j => ~IsReport(queue'[j], d)
        PROVE  queue'[i].dev = devices'[d]
    <3>1. i \in Len(queue) + 1 .. Len(queue')
      BY <1>0, <2>1, <2>2, <2>3
    <3> QED  BY <1>a, <2>3, <3>1 DEF Grown, IsReport
  <2> QED  BY <2>1, <2>2, <2>3
<1>3. CASE ~TellsOf(d)
  <2>1. Synced(d) /\ notif[d] = None /\ devices'[d] = devices[d]
    BY <1>1, <1>3 DEF TableStep
  <2>2. ASSUME NEW i \in 1 .. Len(queue'), IsReport(queue'[i], d)
        PROVE  i \in 1 .. Len(queue) /\ queue'[i] = queue[i]
    <3>1. i \notin Len(queue) + 1 .. Len(queue')
      BY <1>3, <2>2 DEF TellsOf
    <3>2. i \in 1 .. Len(queue)
      BY <1>0, <3>1
    <3> QED  BY <1>a, <3>2 DEF Grown
  <2>3. \A i \in 1 .. Len(queue) : i \in 1 .. Len(queue') /\ queue'[i] = queue[i]
    BY <1>0, <1>a DEF Grown
  <2>4. ASSUME NEW i \in 1 .. Len(queue'), IsReport(queue'[i], d),
               \A j \in 1 .. Len(queue') : i < j => ~IsReport(queue'[j], d)
        PROVE  queue'[i].dev = devices'[d]
    <3>1. LastReport(d, i)
      BY <1>0, <2>2, <2>3, <2>4 DEF LastReport
    <3> QED  BY <1>0, <2>1, <2>2, <2>4, <3>1 DEF Synced
  <2>5. ASSUME \A i \in 1 .. Len(queue') : ~IsReport(queue'[i], d)
        PROVE  disk'[d] = devices'[d]
    BY <1>0, <2>1, <2>3, <2>5 DEF Synced
  <2> QED  BY <2>4, <2>5
<1> QED  BY <1>2, <1>3

\* The steps of the table queue no reply.
LEMMA TableKeepsReplies ==
  ASSUME IInv, TypeOK', TableStep, main' = main \/ main = Idle,
         \A e \in Events : Held(e)' => IsReply(e)
  PROVE  ReplyAlone'
<1>0. /\ DOMAIN queue = 1 .. Len(queue) /\ DOMAIN queue' = 1 .. Len(queue')
      /\ Len(queue) \in Nat /\ Len(queue') \in Nat /\ ReplyAlone /\ Grown
  BY DomainOf DEF IInv, TypeOK, TableStep
<1>1. ASSUME NEW i \in 1 .. Len(queue'), IsReply(queue'[i])
      PROVE  /\ i \in 1 .. Len(queue) /\ queue'[i] = queue[i] /\ IsReply(queue[i])
             /\ main = Flushing
  <2>1. i \notin Len(queue) + 1 .. Len(queue')
    BY <1>0, <1>1 DEF Grown, IsReply
  <2>2. i \in 1 .. Len(queue)
    BY <1>0, <2>1
  <2> QED  BY <1>0, <1>1, <2>2 DEF Grown, ReplyAlone
<1>2. \A i \in DOMAIN queue' : IsReply(queue'[i]) => main' = Flushing
  BY <1>0, <1>1, MainFields
<1>3. \A i, j \in DOMAIN queue' : IsReply(queue'[i]) /\ IsReply(queue'[j]) => i = j
  BY <1>0, <1>1 DEF ReplyAlone
<1> QED  BY <1>2, <1>3 DEF ReplyAlone, IsReply

\* When a deferred report was told, it is in the queue.
LEMMA NewReports ==
  ASSUME IInv, TypeOK', TableStep, NEW d \in Devices, pending # None, pending.d = d,
         pending.op \in {"revoke", "update"}, Shows(pending, devices'[d]), d \notin fresh,
         \/ notif[d] # None
         \/ \E i \in 1 .. Len(queue) : queue[i].type = "device" /\ Reflects(pending, queue[i])
  PROVE  \/ notif'[d] # None
         \/ \E i \in 1 .. Len(queue') : queue'[i].type = "device" /\ Reflects(pending, queue'[i])
<1>0. Len(queue) \in Nat /\ Len(queue') \in Nat /\ Grown
  BY DomainOf DEF IInv, TypeOK, TableStep
<1>1. ASSUME NEW i \in 1 .. Len(queue), queue[i].type = "device", Reflects(pending, queue[i])
      PROVE  i \in 1 .. Len(queue') /\ queue'[i] = queue[i]
  BY <1>0 DEF Grown
<1>2. ASSUME TellsOf(d)
      PROVE  \E i \in 1 .. Len(queue') : queue'[i].type = "device" /\ Reflects(pending, queue'[i])
  <2>1. PICK i \in Len(queue) + 1 .. Len(queue') : IsReport(queue'[i], d)
    BY <1>2 DEF TellsOf
  <2>2. /\ i \in 1 .. Len(queue') /\ queue'[i].dev = devices'[d] /\ queue'[i].d = d
        /\ queue'[i].type = "device"
    BY <1>0, <2>1 DEF Grown, IsReport
  <2>3. Reflects(pending, queue'[i])
    BY <2>2 DEF Reflects, Shows
  <2> QED  BY <2>2, <2>3
<1> QED  BY <1>1, <1>2 DEF TableStep

\* A step of the table leaves the report of a deferred command behind.
LEMMA TableKeepsDeferral ==
  ASSUME IInv, TypeOK', TableStep, GrantsKept, main' = main, pending' \in {pending, None},
         applied' = applied
  PROVE  DeferralSound'
<1>0. /\ DOMAIN queue = 1 .. Len(queue) /\ DOMAIN queue' = 1 .. Len(queue')
      /\ Len(queue) \in Nat /\ Len(queue') \in Nat /\ DeferralSound /\ Grown /\ GoneFinal /\ TypeOK
      /\ \A i \in 1 .. Len(queue) : queue[i] \in Events
  BY DomainOf DEF IInv, TypeOK, TableStep
<1> SUFFICES ASSUME NEW e \in Events, UnderWay(e)', e.type = "deferred"
             PROVE  /\ e.op # "unlock"
                    /\ DeferralOf(e)' =>
                         /\ Shows(pending', devices'[e.d])
                         /\ \/ notif'[e.d] # None
                            \/ \E i \in 1 .. Len(queue') :
                                 queue'[i].type = "device" /\ Reflects(pending', queue'[i])
  BY <1>0 DEF DeferralSound, Shows, Reflects, DeferralOf
<1>1. UnderWay(e)
  <2>1. CASE Held(e)'
    BY <2>1 DEF Held, UnderWay
  <2>2. CASE \E i \in DOMAIN queue' : queue'[i] = e
    <3>1. PICK i \in 1 .. Len(queue') : queue'[i] = e
      BY <1>0, <2>2
    <3>2. i \notin Len(queue) + 1 .. Len(queue')
      BY <1>0, <3>1 DEF Grown
    <3>3. i \in 1 .. Len(queue) /\ queue[i] = e
      BY <1>0, <3>1, <3>2 DEF Grown
    <3> QED  BY <1>0, <3>3 DEF UnderWay
  <2> QED  BY <2>1, <2>2 DEF UnderWay
<1>2. e.op # "unlock" /\ e.d \in Devices /\ e.op \in {"revoke", "update"}
  BY <1>0, <1>1, EventFields DEF DeferralSound, Ops
<1>3. ASSUME DeferralOf(e)'
      PROVE  /\ Shows(pending', devices'[e.d])
             /\ \/ notif'[e.d] # None
                \/ \E i \in 1 .. Len(queue') :
                     queue'[i].type = "device" /\ Reflects(pending', queue'[i])
  <2>1. pending' = pending /\ pending # None /\ DeferralOf(e) /\ pending.op = e.op /\ pending.d = e.d
    BY <1>3 DEF DeferralOf
  <2>2. /\ Shows(pending, devices[e.d])
        /\ \/ notif[e.d] # None
           \/ \E i \in 1 .. Len(queue) :
                queue[i].type = "device" /\ Reflects(pending, queue[i])
    BY <1>0, <1>1, <2>1 DEF DeferralSound
  <2>3. CASE e.op = "revoke"
    <3>1. devices[e.d] = Gone /\ e.d \notin fresh
      <4>1. SaysGone(e, e.d)
        BY <2>3 DEF SaysGone
      <4> QED  BY <1>0, <1>1, <1>2, <4>1 DEF GoneFinal, UnderWay
    <3>2. devices'[e.d] = Gone
      BY <1>2, <3>1 DEF TableStep
    <3>3. Shows(pending, devices'[e.d])
      BY <2>1, <2>3, <3>2 DEF Shows
    <3> QED  BY <1>2, <2>1, <2>2, <3>1, <3>3, NewReports
  <2>4. CASE e.op = "update"
    <3>1. devices'[e.d] # Gone /\ devices'[e.d].grants = pending.grants
      BY <1>2, <2>1, <2>2, <2>4 DEF Shows, GrantsKept
    <3>2. Shows(pending, devices'[e.d])
      BY <2>1, <2>4, <3>1 DEF Shows
    <3>3. e.d \notin fresh
      BY <1>2, <2>1, <2>2, <2>4 DEF Shows, IInv, FreshUnused
    <3> QED  BY <1>2, <2>1, <2>2, <3>2, <3>3, NewReports
  <2> QED  BY <1>2, <2>3, <2>4
<1> QED  BY <1>2, <1>3

(***************************************************************************)
(* Commands on their way.                                                  *)
(***************************************************************************)

\* Nothing is sent or read.
LEMMA SerialsUnchanged ==
  ASSUME IInv, UNCHANGED <<inbox, sent, applied>>, pending' \in {pending, None},
         deferred' = deferred \/ (pending # None /\ deferred' = deferred \cup {pending.n})
  PROVE  SerialsSound'
<1>0. SerialsSound /\ sent \in Nat /\ (pending # None => pending.n \in Nat \ {0})
  BY FrameFields DEF IInv, TypeOK, Serials
<1>1. deferred' \subseteq 1 .. sent
  <2>1. pending # None => pending.n \in 1 .. sent
    BY <1>0 DEF SerialsSound
  <2> QED  BY <1>0, <2>1 DEF SerialsSound
<1>2. CASE pending' = pending
  BY <1>0, <1>1, <1>2 DEF SerialsSound
<1>3. CASE pending' = None
  BY <1>0, <1>1, <1>3 DEF SerialsSound
<1> QED  BY <1>2, <1>3

\* A frame is written to the gateway's stdin.
LEMMA SerialsAppended ==
  ASSUME IInv, NEW f \in Frames \cup {SHUTDOWN_FRAME}, inbox' = Append(inbox, f),
         UNCHANGED <<applied, deferred>>,
         \/ f = SHUTDOWN_FRAME /\ UNCHANGED <<sent, pending>>
         \/ f \in Frames /\ f.n = sent + 1 /\ sent' = sent + 1 /\ pending' = f
  PROVE  /\ SerialsSound'
         /\ \A n \in 1 .. sent : \A o \in Devices : Awaited(n, o)' <=> Awaited(n, o)
<1>0. SerialsSound /\ sent \in Nat
  BY DEF IInv, TypeOK
<1>1. /\ DOMAIN inbox = 1 .. Len(inbox) /\ DOMAIN inbox' = 1 .. Len(inbox) + 1 /\ Len(inbox) \in Nat
      /\ \A i \in 1 .. Len(inbox) : inbox'[i] = inbox[i]
      /\ inbox'[Len(inbox) + 1] = f
  BY Appended, DomainOf DEF IInv, TypeOK
<1>2. \A i \in DOMAIN inbox' : i \in DOMAIN inbox \/ i = Len(inbox) + 1
  BY <1>1
<1>3. CASE f = SHUTDOWN_FRAME
  <2>1. SerialsSound'
    BY <1>0, <1>1, <1>2, <1>3, Distinct DEF SerialsSound
  <2> QED  BY <1>0, <1>1, <1>2, <1>3, <2>1 DEF Awaited
<1>4. CASE f \in Frames /\ f.n = sent + 1 /\ sent' = sent + 1 /\ pending' = f
  <2>0. f # SHUTDOWN_FRAME /\ f # None
    BY <1>4, Distinct
  <2>1. ASSUME NEW i \in DOMAIN inbox', inbox'[i] # SHUTDOWN_FRAME
        PROVE  /\ inbox'[i].n \in 1 .. sent'
               /\ \A m \in applied : m < inbox'[i].n
               /\ pending'.n = inbox'[i].n => pending' = inbox'[i]
    <3>1. CASE i \in DOMAIN inbox
      <4>1. inbox'[i] = inbox[i]
        BY <1>1, <3>1
      <4> QED  BY <1>0, <1>4, <2>1, <3>1, <4>1 DEF SerialsSound
    <3>2. CASE i = Len(inbox) + 1
      BY <1>0, <1>1, <1>4, <3>2 DEF SerialsSound
    <3> QED  BY <1>2, <3>1, <3>2
  <2>2. ASSUME NEW i \in DOMAIN inbox', NEW j \in DOMAIN inbox', inbox'[i] # SHUTDOWN_FRAME,
               inbox'[j] # SHUTDOWN_FRAME, i < j
        PROVE  inbox'[i].n < inbox'[j].n
    <3>1. i \in DOMAIN inbox /\ inbox'[i] = inbox[i]
      BY <1>1, <2>2
    <3>2. CASE j \in DOMAIN inbox
      <4>1. inbox'[j] = inbox[j]
        BY <1>1, <3>2
      <4> QED  BY <1>0, <2>2, <3>1, <3>2, <4>1 DEF SerialsSound
    <3>3. CASE j = Len(inbox) + 1
      BY <1>0, <1>1, <1>4, <2>2, <3>1, <3>3 DEF SerialsSound
    <3> QED  BY <1>2, <3>2, <3>3
  <2>3. SerialsSound'
    BY <1>0, <1>4, <2>1, <2>2 DEF SerialsSound
  <2>4. ASSUME NEW n \in 1 .. sent, NEW o \in Devices
        PROVE  Awaited(n, o)' <=> Awaited(n, o)
    BY <1>0, <1>1, <1>2, <1>4 DEF Awaited
  <2> QED  BY <2>3, <2>4
<1> QED  BY <1>3, <1>4

\* A frame is read.
LEMMA SerialsRead ==
  ASSUME IInv, inbox # <<>>, inbox' = Tail(inbox), UNCHANGED <<sent, pending, deferred>>,
         \/ applied' = applied
         \/ Head(inbox) # SHUTDOWN_FRAME /\ applied' = applied \cup {Head(inbox).n}
  PROVE  SerialsSound'
<1>0. SerialsSound /\ sent \in Nat
  BY DEF IInv, TypeOK
<1>1. /\ DOMAIN inbox = 1 .. Len(inbox) /\ DOMAIN inbox' = 1 .. Len(inbox) - 1
      /\ Len(inbox) \in Nat \ {0} /\ Head(inbox) = inbox[1]
      /\ \A i \in 1 .. Len(inbox) - 1 : inbox'[i] = inbox[i + 1]
  BY TailOf, DomainOf DEF IInv, TypeOK
<1>2. ASSUME NEW i \in DOMAIN inbox', inbox'[i] # SHUTDOWN_FRAME
      PROVE  /\ inbox'[i].n \in 1 .. sent
             /\ \A m \in applied' : m < inbox'[i].n
             /\ pending # None /\ pending.n = inbox'[i].n => pending = inbox'[i]
             /\ \A j \in DOMAIN inbox' :
                  inbox'[j] # SHUTDOWN_FRAME /\ i < j => inbox'[i].n < inbox'[j].n
  <2>1. i + 1 \in DOMAIN inbox /\ inbox'[i] = inbox[i + 1] /\ 1 \in DOMAIN inbox /\ 1 < i + 1
    BY <1>1
  <2>2. \A m \in applied' : m < inbox'[i].n
    BY <1>0, <1>1, <1>2, <2>1 DEF SerialsSound
  <2>3. \A j \in DOMAIN inbox' : j + 1 \in DOMAIN inbox /\ inbox'[j] = inbox[j + 1]
                                /\ (i < j => i + 1 < j + 1)
    BY <1>1
  <2> QED  BY <1>0, <1>2, <2>1, <2>2, <2>3 DEF SerialsSound
<1>3. applied' \subseteq 1 .. sent
  <2>1. 1 \in DOMAIN inbox
    BY <1>1
  <2>2. Head(inbox) # SHUTDOWN_FRAME => Head(inbox).n \in 1 .. sent
    BY <1>0, <1>1, <2>1 DEF SerialsSound
  <2> QED  BY <1>0, <2>2 DEF SerialsSound
<1> QED  BY <1>0, <1>2, <1>3 DEF SerialsSound

\* Nothing is read, so what is ahead of the gateway stays so.
LEMMA AheadKept ==
  ASSUME IInv, NEW d \in Devices, Ahead(d), applied' = applied, deferred \subseteq deferred',
         \A n \in 1 .. sent : \A o \in Devices : Awaited(n, o)' <=> Awaited(n, o)
  PROVE  Ahead(d)'
<1>1. PICK n \in deferred \ applied : Awaited(n, d) \/ \A o \in Devices : ~Awaited(n, o)
  BY DEF Ahead
<1>2. n \in 1 .. sent /\ n \in deferred' \ applied'
  BY <1>1 DEF IInv, SerialsSound
<1>3. Awaited(n, d)' \/ \A o \in Devices : ~Awaited(n, o)'
  BY <1>1, <1>2
<1> QED  BY <1>2, <1>3 DEF Ahead

\* A frame is read: only its own device is no longer ahead, and only when the
\* command is applied.
LEMMA AheadRead ==
  ASSUME IInv, NEW d \in Devices, Ahead(d), inbox # <<>>, inbox' = Tail(inbox),
         deferred' = deferred,
         \/ applied' = applied
         \/ /\ Head(inbox) # SHUTDOWN_FRAME /\ applied' = applied \cup {Head(inbox).n}
            /\ d # Head(inbox).d
  PROVE  Ahead(d)'
<1>0. SerialsSound /\ sent \in Nat
  BY DEF IInv, TypeOK
<1>1. /\ DOMAIN inbox = 1 .. Len(inbox) /\ DOMAIN inbox' = 1 .. Len(inbox) - 1
      /\ Len(inbox) \in Nat \ {0} /\ Head(inbox) = inbox[1]
      /\ \A i \in 1 .. Len(inbox) - 1 : inbox'[i] = inbox[i + 1]
      /\ \A i \in DOMAIN inbox : inbox[i] \in Frames \cup {SHUTDOWN_FRAME}
  BY TailOf, DomainOf DEF IInv, TypeOK
<1>2. PICK n \in deferred \ applied : Awaited(n, d) \/ \A o \in Devices : ~Awaited(n, o)
  BY DEF Ahead
<1>3. n \in 1 .. sent
  BY <1>0, <1>2 DEF SerialsSound
<1>4. \A o \in Devices : Awaited(n, o)' => Awaited(n, o)
  <2> SUFFICES ASSUME NEW o \in Devices, NEW i \in DOMAIN inbox', inbox'[i] # SHUTDOWN_FRAME,
                      inbox'[i].n = n, inbox'[i].d = o
               PROVE  Awaited(n, o)
    BY DEF Awaited
  <2>1. i + 1 \in DOMAIN inbox /\ inbox'[i] = inbox[i + 1]
    BY <1>1
  <2> QED  BY <2>1 DEF Awaited
<1>5. CASE \A o \in Devices : ~Awaited(n, o)
  <2>1. inbox[1] # SHUTDOWN_FRAME => inbox[1].n # n
    <3>1. inbox[1] # SHUTDOWN_FRAME => inbox[1].d \in Devices
      BY <1>1, FrameFields
    <3> QED  BY <1>1, <1>5, <3>1 DEF Awaited
  <2>2. n \in deferred' \ applied'
    BY <1>1, <1>2, <2>1
  <2> QED  BY <1>4, <1>5, <2>2 DEF Ahead
<1>6. CASE Awaited(n, d)
  <2>1. PICK i \in DOMAIN inbox : inbox[i] # SHUTDOWN_FRAME /\ inbox[i].n = n /\ inbox[i].d = d
    BY <1>6 DEF Awaited
  <2>2. CASE i = 1
    <3>1. n \in deferred' \ applied'
      BY <1>1, <1>2, <2>1, <2>2
    <3>2. ASSUME NEW o \in Devices, Awaited(n, o)'
          PROVE  FALSE
      <4>1. PICK j \in DOMAIN inbox' : inbox'[j] # SHUTDOWN_FRAME /\ inbox'[j].n = n
        BY <3>2 DEF Awaited
      <4>2. j + 1 \in DOMAIN inbox /\ inbox'[j] = inbox[j + 1] /\ 1 < j + 1
        BY <1>1
      <4>3. inbox[1].n < inbox[j + 1].n
        BY <1>0, <2>1, <2>2, <4>1, <4>2 DEF SerialsSound
      <4> QED  BY <1>3, <2>1, <2>2, <4>1, <4>2, <4>3
    <3> QED  BY <3>1, <3>2 DEF Ahead
  <2>3. CASE i # 1
    <3>1. i - 1 \in DOMAIN inbox' /\ inbox'[i - 1] = inbox[i] /\ 1 \in DOMAIN inbox /\ 1 < i
      BY <1>1, <2>3
    <3>2. Awaited(n, d)'
      BY <2>1, <3>1 DEF Awaited
    <3>3. inbox[1] # SHUTDOWN_FRAME => inbox[1].n # n
      <4>1. inbox[1] # SHUTDOWN_FRAME => inbox[1].n < inbox[i].n /\ inbox[i].n \in Int /\ inbox[1].n \in Int
        BY <1>0, <2>1, <3>1 DEF SerialsSound
      <4> QED  BY <2>1, <4>1
    <3>4. n \in deferred' \ applied'
      BY <1>1, <1>2, <3>3
    <3> QED  BY <3>2, <3>4 DEF Ahead
  <2> QED  BY <2>2, <2>3
<1> QED  BY <1>2, <1>5, <1>6

(***************************************************************************)
(* The process, and the number of deferred snapshots.                      *)
(***************************************************************************)

\* A gateway that is gone does nothing.
LEMMA StoppedIsQuiet ==
  ASSUME IInv, status = "Stopped"
  PROVE  /\ ~Ready /\ ~Exit /\ ~Stop /\ ~Fail /\ ~Expire /\ ~AnnounceExpiry /\ ~Timeout
         /\ ~Maintenance /\ ~Command /\ ~Emit /\ ~Deliver /\ ~Background
         /\ \A c \in Frames : ~Request(c)
<1>0. /\ server = "stopped" /\ queue = <<>> /\ main = Idle /\ inbox = <<>> /\ pending = None
      /\ \A d \in Devices : devices[d] = Gone
  BY DEF IInv, QuietWhenStopped
<1>1. ~Ready /\ ~Exit /\ ~Stop /\ ~Fail /\ ~Expire /\ ~AnnounceExpiry /\ ~Timeout
  BY <1>0 DEF Ready, Exit, Stop, Fail, Expire, AnnounceExpiry, Timeout, Alive
<1>2. ~Maintenance /\ ~Command /\ ~Deliver
  BY <1>0 DEF Maintenance, Command, Deliver
<1>3. ~Emit
  BY <1>0, MainFields DEF Emit
<1>4. ~Background
  BY <1>0 DEF Background, Touch, Verified, LockOut, Register, AddCredential
<1>5. \A c \in Frames : ~Request(c)
  BY DEF Request
<1> QED  BY <1>1, <1>2, <1>3, <1>4, <1>5

LEMMA NextQuiet ==
  ASSUME IInv, Next
  PROVE  QuietWhenStopped' /\ HaltedSound'
<1>0. TypeOK /\ QuietWhenStopped /\ HaltedSound
  BY DEF IInv
<1>1. CASE Start
  BY <1>0, <1>1 DEF Start, QuietWhenStopped, HaltedSound
<1>2. CASE Exit
  BY <1>2 DEF Exit, QuietWhenStopped, HaltedSound
<1>3. CASE Ready
  BY <1>3 DEF Ready, QuietWhenStopped, HaltedSound
<1>4. CASE Stop
  BY <1>4 DEF Stop, QuietWhenStopped, HaltedSound
<1>5. CASE Fail \/ Timeout
  BY <1>5 DEF Fail, Timeout, Halt, QuietWhenStopped, HaltedSound
<1>6. CASE Expire \/ AnnounceExpiry \/ Maintenance \/ Command \/ Emit \/ Background
  <2>1. status # "Stopped"
    BY <1>6, StoppedIsQuiet
  <2>2. UNCHANGED <<status, halted, pending>>
    BY <1>6 DEF Expire, AnnounceExpiry, Maintenance, Command, Emit, Background, Touch, Verified,
       LockOut, Register, AddCredential
  <2> QED  BY <1>0, <2>1, <2>2 DEF QuietWhenStopped, HaltedSound
<1>7. CASE Deliver
  <2>1. status # "Stopped"
    BY <1>7, StoppedIsQuiet
  <2>2. Handle(Head(queue))
    BY <1>7 DEF Deliver
  <2> QED  BY <1>0, <2>1, <2>2 DEF Handle, Halt, QuietWhenStopped, HaltedSound
<1>8. CASE \E c \in Frames : Request(c)
  BY <1>8 DEF Request, QuietWhenStopped, HaltedSound
<1>9. CASE \E c \in Frames : EditStopped(c)
  BY <1>0, <1>9 DEF EditStopped, gateway, QuietWhenStopped, HaltedSound
<1> QED  BY <1>1, <1>2, <1>3, <1>4, <1>5, <1>6, <1>7, <1>8, <1>9 DEF Next

Occupied == {d \in Devices : notif[d] # None \/ devices[d] # Gone}

\* Register makes one more only when nothing is deferred and there is room for
\* the device; Start takes no more than the policy allows.
LEMMA NextBounded ==
  ASSUME IInv, Next
  PROVE  DeferralsBounded'
<1>0. /\ TypeOK /\ QuietWhenStopped /\ Cardinality(Occupied) <= MAX_DEVICES /\ MAX_DEVICES \in Nat
      /\ IsFiniteSet(Occupied) /\ Cardinality(Occupied) \in Nat /\ Occupied \subseteq Devices
  <2>1. Occupied \in SUBSET Devices
    BY DEF Occupied
  <2> QED  BY <2>1, LimitsNatural, DevicesFinite, FS_Subset, FS_CardinalityType
           DEF IInv, DeferralsBounded, Occupied
<1>1. SUFFICES Cardinality(Occupied') <= MAX_DEVICES
  BY DEF Occupied, DeferralsBounded
<1>2. ASSUME Occupied' \subseteq Occupied
      PROVE  Cardinality(Occupied') <= MAX_DEVICES
  <2>1. Cardinality(Occupied') <= Cardinality(Occupied) /\ Cardinality(Occupied') \in Nat
    BY <1>0, <1>2, FS_Subset, FS_CardinalityType
  <2> QED  BY <1>0, <2>1
<1>3. CASE Start
  <2>1. status = "Stopped" /\ notif' = notif
    BY <1>3 DEF Start
  <2>2. \A d \in Devices : notif[d] = None /\ devices[d] = Gone
    BY <1>0, <2>1 DEF QuietWhenStopped
  <2>3. CASE devices' = disk /\ Cardinality({d \in Devices : disk[d] # Gone}) <= MAX_DEVICES
    <3>1. Occupied' = {d \in Devices : disk[d] # Gone}
      BY <2>1, <2>2, <2>3 DEF Occupied
    <3> QED  BY <2>3, <3>1
  <2>4. CASE devices' = devices
    <3>1. Occupied' = Occupied
      BY <2>1, <2>4 DEF Occupied
    <3> QED  BY <1>2, <3>1
  <2> QED  BY <1>3, <2>3, <2>4 DEF Start
<1>4. CASE Exit
  <2>1. Occupied' \subseteq Occupied
    BY <1>4 DEF Exit, Occupied
  <2> QED  BY <1>2, <2>1
<1>5. CASE \/ Ready \/ Stop \/ Fail \/ Timeout \/ Expire \/ AnnounceExpiry \/ Emit \/ Deliver
           \/ \E c \in Frames : Request(c) \/ EditStopped(c)
  <2>1. UNCHANGED <<notif, devices>>
    BY <1>5 DEF Ready, Stop, Fail, Timeout, Expire, AnnounceExpiry, Emit, Deliver, Request,
       EditStopped, gateway
  <2>2. Occupied' \subseteq Occupied
    BY <2>1 DEF Occupied
  <2> QED  BY <1>2, <2>2
<1>6. CASE Maintenance
  <2>1. PICK told \in TellOrders :
          notif' = [d \in Devices |-> IF \E i \in DOMAIN told : told[i] = d THEN None ELSE Latest(d)]
    BY <1>6 DEF Maintenance
  <2>2. devices' = devices
    BY <1>6 DEF Maintenance
  <2>3. Occupied' \subseteq Occupied
    BY <2>1, <2>2 DEF Occupied, Latest, DirtyKnown, Known
  <2> QED  BY <1>2, <2>3
<1>7. CASE Command
  <2>1. CASE UNCHANGED <<notif, devices>>
    <3>1. Occupied' \subseteq Occupied
      BY <2>1 DEF Occupied
    <3> QED  BY <1>2, <3>1
  <2>2. CASE Head(inbox) # SHUTDOWN_FRAME /\ CommandApplied(Head(inbox))
    <3>1. PICK c \in Frames : c = Head(inbox)
      BY <1>0, <1>7, <2>2, TailOf DEF Command, TypeOK
    <3>2. c.d \in Occupied /\ c.d \in Devices
      BY <2>2, <3>1, FrameFields DEF CommandApplied, Valid, Occupied
    <3>3. /\ \A o \in Devices : o # c.d => devices'[o] = devices[o] /\ notif'[o] = notif[o]
      BY <1>0, <2>2, <3>1, <3>2 DEF CommandApplied, TypeOK
    <3>4. Occupied' \subseteq Occupied
      BY <3>2, <3>3 DEF Occupied
    <3> QED  BY <1>2, <3>4
  <2> QED  BY <1>7, <2>1, <2>2 DEF Command, CommandRefused
<1>8. CASE Background
  <2>1. PICK d \in Devices : Touch(d) \/ Verified(d) \/ LockOut(d) \/ Register(d) \/ AddCredential(d)
    BY <1>8 DEF Background
  <2>2. CASE Touch(d) \/ AddCredential(d)
    <3>1. Occupied' \subseteq Occupied
      BY <2>2 DEF Touch, AddCredential, Occupied
    <3> QED  BY <1>2, <3>1
  <2>3. CASE Verified(d) \/ LockOut(d)
    <3>1. d \in Occupied
      BY <2>3 DEF Verified, LockOut, Occupied
    <3>2. \A o \in Devices : o # d => devices'[o] = devices[o] /\ notif'[o] = notif[o]
      BY <1>0, <2>3 DEF Verified, LockOut, Snapshot, TypeOK
    <3>3. Occupied' \subseteq Occupied
      BY <3>1, <3>2 DEF Occupied
    <3> QED  BY <1>2, <3>3
  <2>4. CASE Register(d)
    <3>1. Occupied = Known /\ Cardinality(Known) < MAX_DEVICES
      BY <2>4 DEF Register, Occupied, Known
    <3>2. Occupied' \subseteq Occupied \cup {d}
      BY <1>0, <2>4 DEF Register, Occupied, TypeOK
    <3>3. Cardinality(Occupied \cup {d}) <= MAX_DEVICES /\ IsFiniteSet(Occupied \cup {d})
      BY <1>0, <3>1, FS_AddElement
    <3>4. Cardinality(Occupied') <= Cardinality(Occupied \cup {d}) /\ Cardinality(Occupied') \in Nat
          /\ Cardinality(Occupied \cup {d}) \in Nat
      BY <3>2, <3>3, FS_Subset, FS_CardinalityType
    <3> QED  BY <1>0, <3>3, <3>4
  <2> QED  BY <2>1, <2>2, <2>3, <2>4
<1> QED  BY <1>3, <1>4, <1>5, <1>6, <1>7, <1>8 DEF Next

(***************************************************************************)
(* The invariant, action by action.                                        *)
(***************************************************************************)

\* What is left of the invariant besides the types, the process and the bound.
CoreInv ==
  /\ NotifCurrent /\ FreshUnused /\ GoneFinal /\ RevokedGone
  /\ ReplyAlone /\ SerialsSound /\ DeferralSound /\ SyncedInv

\* No reply is under way while the command loop is idle.
LEMMA IdleQuiet ==
  ASSUME IInv, main = Idle
  PROVE  \A e \in Events : IsReply(e) => ~UnderWay(e)
  BY MainFields DEF IInv, ReplyAlone, UnderWay, Held

\* A step of the table that sends, reads and answers nothing.
LEMMA TableInv ==
  ASSUME IInv, TypeOK', TableStep, GrantsKept,
         UNCHANGED <<main, inbox, disk, revoked, applied, deferred, sent>>,
         pending' \in {pending, None},
         status' # "Stopped" /\ halted' = FALSE => status # "Stopped" /\ halted = FALSE
  PROVE  CoreInv'
<1>1. \A e \in Events : \A d \in Devices :
        Held(e)' /\ SaysGone(e, d) => devices'[d] = Gone /\ d \notin fresh'
  <2> SUFFICES ASSUME NEW e \in Events, NEW d \in Devices, Held(e)', SaysGone(e, d)
               PROVE  devices'[d] = Gone /\ d \notin fresh'
    OBVIOUS
  <2>1. Held(e)
    BY DEF Held
  <2>2. devices[d] = Gone /\ d \notin fresh
    BY <2>1 DEF IInv, GoneFinal
  <2> QED  BY <2>2 DEF TableStep
<1>2. \A e \in Events : Held(e)' => IsReply(e)
  BY DEF Held, IInv, ReplyAlone
<1>3. NotifCurrent' /\ FreshUnused' /\ GoneFinal' /\ RevokedGone'
  BY <1>1, TableKeepsGone
<1>4. ReplyAlone' /\ SerialsSound' /\ DeferralSound'
  BY <1>2, TableKeepsReplies, SerialsUnchanged, TableKeepsDeferral
<1>5. SyncedInv'
  <2> SUFFICES ASSUME status' # "Stopped", halted' = FALSE, NEW d \in Devices
               PROVE  Synced(d)' \/ Ahead(d)'
    BY DEF SyncedInv
  <2>1. Synced(d) \/ Ahead(d)
    BY DEF IInv, SyncedInv
  <2>2. \A n \in 1 .. sent : \A o \in Devices : Awaited(n, o)' <=> Awaited(n, o)
    BY DEF Awaited
  <2> QED  BY <2>1, <2>2, TableKeepsSynced, AheadKept
<1> QED  BY <1>3, <1>4, <1>5 DEF CoreInv

LEMMA InitInv == Init => IInv
<1> SUFFICES ASSUME Init PROVE IInv
  OBVIOUS
<1>1. TypeOK
  BY InitTypes
<1>2. queue = <<>> /\ inbox = <<>> /\ DOMAIN queue = {} /\ DOMAIN inbox = {} /\ main.at = "idle"
  BY MainFields DEF Init
<1>3. QuietWhenStopped /\ HaltedSound /\ NotifCurrent
  BY DEF Init, QuietWhenStopped, HaltedSound, NotifCurrent
<1>4. FreshUnused /\ GoneFinal /\ RevokedGone
  BY <1>2 DEF Init, FreshUnused, GoneFinal, RevokedGone, Held
<1>5. ReplyAlone /\ SerialsSound /\ DeferralSound
  BY <1>2 DEF Init, ReplyAlone, SerialsSound, DeferralSound, UnderWay, Held
<1>6. SyncedInv
  BY DEF Init, SyncedInv
<1>7. DeferralsBounded
  <2>1. {d \in Devices : notif[d] # None \/ devices[d] # Gone} = {}
    BY DEF Init
  <2> QED  BY <2>1, FS_EmptySet, LimitsNatural DEF DeferralsBounded
<1> QED  BY <1>1, <1>3, <1>4, <1>5, <1>6, <1>7 DEF IInv

\* A gateway starts with the desktop's list, so nothing has to be told.
LEMMA StartInv ==
  ASSUME IInv, Start, TypeOK'
  PROVE  CoreInv'
<1>0. /\ status = "Stopped" /\ UNCHANGED <<notif, queue, main, inbox, disk, pending, fresh, sent,
                                          applied, deferred, revoked>>
      /\ \/ devices' = disk /\ status' = "Starting"
         \/ devices' = devices /\ status' = status
  BY DEF Start
<1>1. /\ queue = <<>> /\ DOMAIN queue = {} /\ main.at = "idle" /\ inbox = <<>> /\ DOMAIN inbox = {}
      /\ \A d \in Devices : devices[d] = Gone /\ notif[d] = None
  BY <1>0, MainFields DEF IInv, QuietWhenStopped
<1>2. NotifCurrent' /\ FreshUnused' /\ GoneFinal' /\ RevokedGone'
  BY <1>0, <1>1 DEF IInv, TypeOK, NotifCurrent, FreshUnused, GoneFinal, RevokedGone, Held
<1>3. ReplyAlone' /\ SerialsSound' /\ DeferralSound'
  BY <1>0, <1>1 DEF IInv, ReplyAlone, SerialsSound, DeferralSound, UnderWay, Held
<1>4. SyncedInv'
  BY <1>0, <1>1 DEF SyncedInv, Synced
<1> QED  BY <1>2, <1>3, <1>4 DEF CoreInv

LEMMA ExitInv ==
  ASSUME IInv, Exit, TypeOK'
  PROVE  CoreInv'
<1>1. /\ queue' = <<>> /\ DOMAIN queue' = {} /\ main'.at = "idle" /\ inbox' = <<>> /\ DOMAIN inbox' = {}
      /\ \A d \in Devices : devices'[d] = Gone /\ notif'[d] = None
      /\ pending' = None /\ UNCHANGED <<disk, fresh, sent, applied, deferred, revoked>>
      /\ status' = "Stopped"
  BY MainFields DEF Exit, history
<1>2. NotifCurrent' /\ FreshUnused' /\ GoneFinal' /\ RevokedGone'
  BY <1>1 DEF IInv, TypeOK, NotifCurrent, FreshUnused, GoneFinal, RevokedGone, Held
<1>3. ReplyAlone' /\ SerialsSound' /\ DeferralSound'
  BY <1>1 DEF IInv, ReplyAlone, SerialsSound, DeferralSound, UnderWay, Held
<1>4. SyncedInv'
  BY <1>1 DEF SyncedInv
<1> QED  BY <1>2, <1>3, <1>4 DEF CoreInv

\* A frame is written: stop's, or a command.
LEMMA FrameInv ==
  ASSUME IInv, TypeOK', NEW f \in Frames \cup {SHUTDOWN_FRAME}, inbox' = Append(inbox, f),
         UNCHANGED <<devices, notif, queue, main, disk, fresh, applied, deferred, revoked, halted>>,
         \/ f = SHUTDOWN_FRAME /\ UNCHANGED <<sent, pending>>
         \/ f \in Frames /\ f.n = sent + 1 /\ sent' = sent + 1 /\ pending' = f /\ pending = None,
         status' # "Stopped" => status # "Stopped"
  PROVE  CoreInv'
<1>1. NotifCurrent' /\ FreshUnused' /\ GoneFinal' /\ RevokedGone' /\ ReplyAlone'
  BY DEF IInv, NotifCurrent, FreshUnused, GoneFinal, RevokedGone, ReplyAlone, Held
<1>2. /\ SerialsSound'
      /\ \A n \in 1 .. sent : \A o \in Devices : Awaited(n, o)' <=> Awaited(n, o)
  BY SerialsAppended
<1>3. DeferralSound'
  <2>1. CASE pending' = pending
    BY <2>1 DEF IInv, DeferralSound, UnderWay, Held, DeferralOf
  <2>2. CASE f \in Frames /\ f.n = sent + 1 /\ pending' = f
    <3>1. f.n \notin applied'
      BY <2>2 DEF IInv, SerialsSound, TypeOK
    <3>2. \A e \in Events : ~DeferralOf(e)'
      BY <2>2, <3>1 DEF DeferralOf
    <3> QED  BY <3>2 DEF IInv, DeferralSound, UnderWay, Held
  <2> QED  BY <2>1, <2>2
<1>4. SyncedInv'
  <2> SUFFICES ASSUME status' # "Stopped", halted' = FALSE, NEW d \in Devices
               PROVE  Synced(d)' \/ Ahead(d)'
    BY DEF SyncedInv
  <2>1. Synced(d) \/ Ahead(d)
    BY DEF IInv, SyncedInv
  <2>2. Synced(d) => Synced(d)'
    BY DEF Synced, LastReport
  <2> QED  BY <1>2, <2>1, <2>2, AheadKept
<1> QED  BY <1>1, <1>2, <1>3, <1>4 DEF CoreInv

LEMMA EditInv ==
  ASSUME IInv, TypeOK', NEW c \in Frames, EditStopped(c)
  PROVE  CoreInv'
<1>0. /\ status = "Stopped" /\ status' = "Stopped" /\ c.d \notin fresh /\ c.d \in Devices
      /\ UNCHANGED <<devices, notif, queue, main, inbox, pending, fresh, applied, deferred>>
      /\ sent' = sent + 1 /\ sent \in Nat
      /\ disk' \in Apply(c) /\ revoked' = IF c.op = "revoke" THEN revoked \cup {c.d} ELSE revoked
  BY FrameFields DEF EditStopped, gateway, IInv, TypeOK
<1>1. /\ DOMAIN queue = {} /\ DOMAIN inbox = {} /\ main.at = "idle" /\ pending = None
      /\ \A d \in Devices : devices[d] = Gone /\ notif[d] = None
  BY <1>0, MainFields DEF IInv, QuietWhenStopped
<1>2. /\ \A d \in Devices : d # c.d => disk'[d] = disk[d]
      /\ c.op = "revoke" => disk'[c.d] = Gone
      /\ \A d \in Devices : disk[d] = Gone => disk'[d] = Gone
  BY <1>0, AppliedList DEF IInv
<1>3. NotifCurrent' /\ FreshUnused' /\ GoneFinal'
  BY <1>0, <1>1, <1>2 DEF IInv, TypeOK, NotifCurrent, FreshUnused, GoneFinal, Held
<1>4. RevokedGone'
  <2>1. \A d \in revoked' : d \in Devices /\ disk'[d] = Gone /\ d \notin fresh
    BY <1>0, <1>2 DEF IInv, TypeOK, RevokedGone
  <2> QED  BY <1>0, <1>1, <2>1 DEF RevokedGone
<1>5. ReplyAlone' /\ DeferralSound' /\ SyncedInv'
  BY <1>0, <1>1 DEF IInv, ReplyAlone, DeferralSound, UnderWay, Held, SyncedInv
<1>6. SerialsSound'
  BY <1>0, <1>1 DEF IInv, SerialsSound
<1> QED  BY <1>3, <1>4, <1>5, <1>6 DEF CoreInv

\* The idle command loop takes up a reply, the table left alone.
LEMMA ErrorInv ==
  ASSUME IInv, TypeOK', main = Idle, main' = Reply(Error) \/ main' = Idle,
         UNCHANGED <<devices, notif, queue, fresh, disk, revoked, applied, deferred, sent, pending,
                     status, halted>>,
         inbox' = inbox \/ (inbox # <<>> /\ inbox' = Tail(inbox))
  PROVE  CoreInv'
<1>0. TableStep
  BY TableUnchanged
<1>1. \A e \in Events : Held(e)' => e = Error
  BY MainFields, MadeEvents DEF Held
<1>2. NotifCurrent' /\ FreshUnused' /\ GoneFinal' /\ RevokedGone'
  <2>1. \A e \in Events : \A d \in Devices : ~(Held(e)' /\ SaysGone(e, d))
    BY <1>1, MadeEvents DEF SaysGone
  <2> QED  BY <1>0, <2>1, TableKeepsGone
<1>3. ReplyAlone'
  <2>1. \A e \in Events : Held(e)' => IsReply(e)
    BY <1>1, MadeEvents DEF IsReply
  <2> QED  BY <1>0, <2>1, TableKeepsReplies
<1>4. DeferralSound'
  <2>1. ASSUME NEW e \in Events, e.type = "deferred", UnderWay(e)'
        PROVE  FALSE
    <3>1. ~Held(e)'
      BY <1>1, <2>1, MadeEvents
    <3>2. UnderWay(e)
      BY <2>1, <3>1 DEF UnderWay
    <3> QED  BY <2>1, <3>2, IdleQuiet DEF IsReply
  <2> QED  BY <2>1 DEF DeferralSound
<1>5. SerialsSound'
  BY SerialsUnchanged, SerialsRead
<1>6. SyncedInv'
  <2> SUFFICES ASSUME status' # "Stopped", halted' = FALSE, NEW d \in Devices
               PROVE  Synced(d)' \/ Ahead(d)'
    BY DEF SyncedInv
  <2>1. Synced(d) \/ Ahead(d)
    BY DEF IInv, SyncedInv
  <2>2. Synced(d) => Synced(d)'
    BY DEF Synced, LastReport
  <2>3. Ahead(d) => Ahead(d)'
    <3>1. CASE inbox' = inbox
      BY <3>1 DEF Ahead, Awaited
    <3>2. CASE inbox # <<>> /\ inbox' = Tail(inbox)
      BY <3>2, AheadRead
    <3> QED  BY <3>1, <3>2
  <2> QED  BY <2>1, <2>2, <2>3
<1> QED  BY <1>2, <1>3, <1>4, <1>5, <1>6 DEF CoreInv

LEMMA CommandInv ==
  ASSUME IInv, TypeOK', Command
  PROVE  CoreInv'
<1>0. /\ inbox # <<>> /\ main = Idle /\ inbox' = Tail(inbox)
      /\ UNCHANGED <<status, halted, disk, pending, fresh, sent, deferred, revoked>>
  BY DEF Command
<1>1. CASE Head(inbox) = SHUTDOWN_FRAME \/ CommandRefused(Head(inbox))
  <2>1. /\ UNCHANGED <<devices, notif, queue, applied>>
        /\ main' = Reply(Error) \/ main' = Idle
    BY <1>0, <1>1 DEF Command, CommandRefused, CommandApplied
  <2> QED  BY <1>0, <2>1, ErrorInv
<1>2. CASE Head(inbox) # SHUTDOWN_FRAME /\ CommandApplied(Head(inbox))
  <2>0. PICK c \in Frames : c = Head(inbox)
    BY <1>0, <1>2, TailOf DEF IInv, TypeOK
  <2>1. /\ TableStep /\ devices'[c.d] = Commanded(c)
        /\ TellsOf(c.d) \/ notif'[c.d] # None
        /\ \/ main' = main
           \/ main' = Reply(Deferral(c)) /\ notif'[c.d] # None /\ c.op # "unlock"
    BY <1>0, <1>2, <2>0, AppliedStep
  <2>2. /\ applied' = applied \cup {c.n} /\ devices[c.d] # Gone /\ c.d \in Devices /\ c.d \notin fresh
        /\ c.n \in Serials
    BY <1>2, <2>0, FrameFields DEF CommandApplied, Valid, IInv, FreshUnused
  <2>3. \A e \in Events : Held(e)' => e = Deferral(c)
    BY <1>0, <2>1, MainFields, MadeEvents DEF Held
  <2>4. NotifCurrent' /\ FreshUnused' /\ GoneFinal' /\ RevokedGone'
    <3>1. ASSUME NEW e \in Events, NEW d \in Devices, Held(e)', SaysGone(e, d)
          PROVE  devices'[d] = Gone /\ d \notin fresh'
      <4>1. d = c.d /\ c.op = "revoke"
        BY <2>3, <3>1, MadeEvents DEF SaysGone
      <4> QED  BY <1>0, <2>1, <2>2, <4>1, CommandedDevice DEF IInv
    <3> QED  BY <1>0, <2>1, <3>1, TableKeepsGone
  <2>5. ReplyAlone'
    <3>1. \A e \in Events : Held(e)' => IsReply(e)
      BY <2>3, MadeEvents DEF IsReply
    <3> QED  BY <1>0, <2>1, <3>1, TableKeepsReplies
  <2>6. SerialsSound'
    BY <1>0, <1>2, <2>0, <2>2, SerialsRead
  <2>7. DeferralSound'
    <3> SUFFICES ASSUME NEW e \in Events, UnderWay(e)', e.type = "deferred"
                 PROVE  /\ e.op # "unlock"
                        /\ DeferralOf(e)' => Shows(pending', devices'[e.d]) /\ notif'[e.d] # None
      BY DEF DeferralSound
    <3>1. Held(e)'
      <4>1. ASSUME NEW i \in DOMAIN queue', queue'[i] = e
            PROVE  FALSE
        <5>1. IsReply(queue'[i])
          BY <4>1 DEF IsReply
        <5>2. main' = Flushing
          BY <2>5, <5>1 DEF ReplyAlone, IsReply
        <5> QED  BY <1>0, <2>1, <5>2, MainFields, MadeEvents
      <4> QED  BY <4>1 DEF UnderWay
    <3>2. e = Deferral(c) /\ e.d = c.d /\ e.op = c.op
      BY <2>3, <3>1, MadeEvents
    <3>3. main' = Reply(Deferral(c)) /\ notif'[c.d] # None /\ c.op # "unlock"
      BY <1>0, <2>1, <3>1, MainFields DEF Held
    <3>4. ASSUME DeferralOf(e)'
          PROVE  pending = c
      <4>0. pending # None /\ pending.n \in applied \cup {c.n}
        BY <1>0, <2>2, <3>4 DEF DeferralOf
      <4>1. /\ DOMAIN inbox = 1 .. Len(inbox) /\ Len(inbox) \in Nat \ {0} /\ inbox[1] = c
            /\ 1 \in DOMAIN inbox
        BY <1>0, <2>0, TailOf, DomainOf DEF IInv, TypeOK
      <4>2. c # SHUTDOWN_FRAME
        BY Distinct
      <4>3. /\ c.n \in 1 .. sent /\ pending.n = sent /\ sent \in Nat
            /\ pending.n \in applied => pending.n < c.n
            /\ pending.n = c.n => pending = c
        BY <4>0, <4>1, <4>2 DEF IInv, SerialsSound, TypeOK
      <4> QED  BY <4>0, <4>3
    <3> QED  BY <1>0, <2>1, <2>2, <3>2, <3>3, <3>4, CommandedDevice DEF IInv
  <2>8. SyncedInv'
    <3> SUFFICES ASSUME status' # "Stopped", halted' = FALSE, NEW d \in Devices
                 PROVE  Synced(d)' \/ Ahead(d)'
      BY DEF SyncedInv
    <3>1. Synced(d) \/ Ahead(d)
      BY <1>0 DEF IInv, SyncedInv
    <3>2. CASE d = c.d
      BY <1>0, <2>1, <3>2, TableKeepsSynced
    <3>3. CASE d # c.d
      BY <1>0, <1>2, <2>0, <2>1, <2>2, <3>1, <3>3, TableKeepsSynced, AheadRead
    <3> QED  BY <3>2, <3>3
  <2> QED  BY <2>4, <2>5, <2>6, <2>7, <2>8 DEF CoreInv
<1> QED  BY <1>1, <1>2 DEF Command

\* The reply gets its slot, or waits for one.
LEMMA EmitInv ==
  ASSUME IInv, TypeOK', Emit
  PROVE  CoreInv'
<1>0. /\ main.at = "emit"
      /\ UNCHANGED <<status, halted, devices, notif, inbox, disk, pending, fresh, sent, applied,
                     deferred, revoked>>
      /\ main \in MainStates /\ main.event \in Events /\ main # Flushing
      /\ queue \in Seq(Events)
  BY MainFields DEF Emit, history, IInv, TypeOK
<1>1. PICK r \in Events : r = main.event
  BY <1>0
<1>2. Held(r) /\ UnderWay(r) /\ IsReply(r) /\ \A d \in Devices : ~IsReport(r, d)
  <2>1. Held(r)
    BY <1>0, <1>1 DEF Held
  <2> QED  BY <2>1 DEF IInv, ReplyAlone, UnderWay, IsReply, IsReport
<1>3. \A i \in DOMAIN queue : ~IsReply(queue[i])
  BY <1>0 DEF IInv, ReplyAlone
<1>4. SerialsSound'
  BY <1>0, SerialsUnchanged
<1>5. CASE Room
  <2>0. main' = Flushing /\ main'.at = "flush"
    BY <1>5, MainFields DEF Emit
  <2>1. /\ DOMAIN queue = 1 .. Len(queue) /\ Len(queue) \in Nat
        /\ DOMAIN queue' = 1 .. Len(queue) + 1
        /\ \A i \in 1 .. Len(queue) : queue'[i] = queue[i]
        /\ queue'[Len(queue) + 1] = r
    BY <1>0, <1>1, <1>5, Appended, DomainOf DEF Emit
  <2>2. \A i \in DOMAIN queue' : \/ i \in DOMAIN queue /\ queue'[i] = queue[i]
                                 \/ i = Len(queue) + 1 /\ queue'[i] = r
    BY <2>1
  <2>3. \A e \in Events : ~Held(e)'
    BY <2>0 DEF Held
  <2>4. NotifCurrent' /\ FreshUnused' /\ RevokedGone'
    BY <1>0, <1>2, <2>2 DEF IInv, TypeOK, NotifCurrent, FreshUnused, RevokedGone
  <2>5. GoneFinal'
    <3>1. \A i \in DOMAIN queue' : \A d \in Devices :
            SaysGone(queue'[i], d) => devices'[d] = Gone /\ d \notin fresh'
      BY <1>0, <1>2, <2>2 DEF IInv, GoneFinal
    <3>2. \A i, j \in DOMAIN queue' : \A d \in Devices :
            i < j /\ SaysGone(queue'[i], d) /\ IsReport(queue'[j], d) => queue'[j].dev = Gone
      <4> SUFFICES ASSUME NEW i \in DOMAIN queue', NEW j \in DOMAIN queue', NEW d \in Devices,
                          i < j, SaysGone(queue'[i], d), IsReport(queue'[j], d)
                   PROVE  queue'[j].dev = Gone
        OBVIOUS
      <4>1. j \in DOMAIN queue /\ queue'[j] = queue[j]
        BY <1>2, <2>2
      <4>2. i \in DOMAIN queue /\ queue'[i] = queue[i]
        BY <2>1, <4>1
      <4> QED  BY <4>1, <4>2 DEF IInv, GoneFinal
    <3> QED  BY <2>3, <3>1, <3>2 DEF GoneFinal, SaysGone, IsReport
  <2>6. ReplyAlone'
    BY <1>3, <2>0, <2>2, <2>3 DEF ReplyAlone, IsReply
  <2>7. DeferralSound'
    <3> SUFFICES ASSUME NEW e \in Events, UnderWay(e)', e.type = "deferred"
                 PROVE  /\ e.op # "unlock"
                        /\ DeferralOf(e) =>
                             /\ Shows(pending, devices[e.d])
                             /\ \/ notif[e.d] # None
                                \/ \E i \in DOMAIN queue' :
                                     queue'[i].type = "device" /\ Reflects(pending, queue'[i])
      BY <1>0 DEF DeferralSound, DeferralOf
    <3>1. UnderWay(e)
      BY <1>2, <2>2, <2>3 DEF UnderWay
    <3>2. \A i \in DOMAIN queue : i \in DOMAIN queue' /\ queue'[i] = queue[i]
      BY <2>1
    <3> QED  BY <3>1, <3>2 DEF IInv, DeferralSound
  <2>8. SyncedInv'
    <3> SUFFICES ASSUME status' # "Stopped", halted' = FALSE, NEW d \in Devices
                 PROVE  Synced(d)' \/ Ahead(d)'
      BY DEF SyncedInv
    <3>1. Synced(d) \/ Ahead(d)
      BY <1>0 DEF IInv, SyncedInv
    <3>2. ASSUME Synced(d)
          PROVE  Synced(d)'
      <4>1. \A i \in DOMAIN queue : i \in DOMAIN queue' /\ queue'[i] = queue[i]
        BY <2>1
      <4>2. \A i \in DOMAIN queue' : IsReport(queue'[i], d) => i \in DOMAIN queue /\ queue'[i] = queue[i]
        BY <1>2, <2>2
      <4>3. \A i \in DOMAIN queue' : LastReport(d, i)' => LastReport(d, i)
        BY <4>1, <4>2 DEF LastReport, IsReport
      <4> QED  BY <1>0, <3>2, <4>1, <4>2, <4>3 DEF Synced, LastReport, IsReport
    <3>3. \A n \in 1 .. sent : \A o \in Devices : Awaited(n, o)' <=> Awaited(n, o)
      BY <1>0 DEF Awaited
    <3> QED  BY <1>0, <3>1, <3>2, <3>3, AheadKept
  <2> QED  BY <1>4, <2>4, <2>5, <2>6, <2>7, <2>8 DEF CoreInv
<1>6. CASE ~Room
  <2>0. queue' = queue /\ main'.at = "wait" /\ main'.event = main.event
    BY <1>0, <1>6, MainFields DEF Emit
  <2>1. \A e \in Events : Held(e)' <=> Held(e)
    BY <1>0, <2>0 DEF Held
  <2>2. NotifCurrent' /\ FreshUnused' /\ RevokedGone'
    BY <1>0, <2>0 DEF IInv, NotifCurrent, FreshUnused, RevokedGone
  <2>3. GoneFinal'
    BY <1>0, <2>0, <2>1 DEF IInv, GoneFinal
  <2>4. ReplyAlone'
    BY <1>3, <2>0, <2>1 DEF IInv, ReplyAlone
  <2>5. DeferralSound'
    BY <1>0, <2>0, <2>1 DEF IInv, DeferralSound, UnderWay, DeferralOf
  <2>6. SyncedInv'
    BY <1>0, <2>0 DEF IInv, SyncedInv, Synced, LastReport, Ahead, Awaited
  <2> QED  BY <1>4, <2>2, <2>3, <2>4, <2>5, <2>6 DEF CoreInv
<1> QED  BY <1>5, <1>6

\* What the desktop makes of an event: a report is written as it is, a deferral
\* as the command that it completes, and only what answers the command completes it.
LEMMA HandleEffect ==
  ASSUME IInv, NEW e \in Events, Handle(e), status # "Stopped"
  PROVE  /\ \A d \in Devices : disk[d] = Gone /\ (IsReport(e, d) => e.dev = Gone) => disk'[d] = Gone
         /\ halted' = FALSE => halted = FALSE /\ \A d \in Devices : IsReport(e, d) => disk'[d] = e.dev
         /\ \A d \in Devices :
              \/ disk'[d] = disk[d]
              \/ IsReport(e, d)
              \/ /\ e.type = "deferred" /\ Answers(e) /\ pending.d = d
                 /\ deferred' = deferred \cup {pending.n}
         /\ pending' \in {pending, None}
         /\ pending' # None => ~Answers(e)
         /\ deferred' = deferred \/ (pending # None /\ deferred' = deferred \cup {pending.n})
         /\ \A d \in revoked' : d \in revoked \/ (SaysGone(e, d) /\ disk'[d] = Gone)
<1>0. /\ disk \in [Devices -> Device \cup {Gone}] /\ pending \in Frames \cup {None} /\ TypeOK
      /\ HaltedSound
  BY DEF IInv, TypeOK
<1>1. CASE status = "Halted"
  BY <1>0, <1>1 DEF Handle, HaltedSound, Answers
<1>2. CASE status # "Halted" /\ Halt /\ UNCHANGED <<disk, revoked, deferred>>
  BY <1>0, <1>2 DEF Halt
<1>3. CASE status # "Halted" /\ disk' \in Saved(e) /\ Complete(e) /\ halted' = halted
  <2>1. /\ disk' \in [Devices -> Device \cup {Gone}]
        /\ e.type \in {"device", "registered"} => disk' = [disk EXCEPT ![e.d] = e.dev]
        /\ e.type = "deferred" /\ Answers(e) => disk' \in Apply(pending)
        /\ ~Writes(e) => disk' = disk
    BY <1>0, <1>3, SavedList
  <2>2. /\ pending' \in {pending, None}
        /\ pending' # None => ~Answers(e)
        /\ deferred' = deferred \/ (pending # None /\ deferred' = deferred \cup {pending.n})
        /\ e.type = "deferred" /\ Answers(e) => deferred' = deferred \cup {pending.n}
    BY <1>3 DEF Complete, Answers
  <2>3. CASE e.type \in {"device", "registered"}
    <3>1. /\ e.d \in Devices /\ disk'[e.d] = e.dev
          /\ \A d \in Devices : d # e.d => disk'[d] = disk[d]
          /\ \A d \in Devices : IsReport(e, d) <=> d = e.d
      BY <1>0, <2>1, <2>3, EventFields DEF IsReport
    <3>2. ASSUME NEW d \in revoked', d \notin revoked
          PROVE  SaysGone(e, d) /\ disk'[d] = Gone
      <4>1. Answers(e) /\ pending.op = "revoke" /\ d = pending.d
        BY <1>3, <3>2 DEF Complete
      <4>2. e.type = "device" /\ Reflects(pending, e)
        BY <2>3, <4>1 DEF Answers
      <4>3. e.d = d /\ e.dev = Gone
        BY <4>1, <4>2 DEF Reflects
      <4> QED  BY <3>1, <4>2, <4>3 DEF SaysGone
    <3> QED  BY <1>3, <2>2, <3>1, <3>2
  <2>4. CASE e.type = "deferred" /\ Answers(e)
    <3>1. pending \in Frames /\ pending.d = e.d /\ pending.op = e.op /\ pending.d \in Devices
      BY <1>0, <2>4, EventFields DEF Answers
    <3>2. /\ \A d \in Devices : d # pending.d => disk'[d] = disk[d]
          /\ pending.op = "revoke" => disk'[pending.d] = Gone
          /\ \A d \in Devices : disk[d] = Gone => disk'[d] = Gone
      BY <1>0, <2>1, <2>4, <3>1, AppliedList
    <3>3. \A d \in revoked' : d \in revoked \/ (SaysGone(e, d) /\ disk'[d] = Gone)
      BY <1>3, <2>4, <3>1, <3>2 DEF Complete, SaysGone
    <3>4. \A d \in Devices : ~IsReport(e, d)
      BY <2>4 DEF IsReport
    <3> QED  BY <1>3, <2>2, <2>4, <3>1, <3>2, <3>3, <3>4
  <2>5. CASE e.type = "error" \/ (e.type = "deferred" /\ ~Answers(e))
    <3>1. disk' = disk /\ revoked' = revoked /\ \A d \in Devices : ~IsReport(e, d)
      BY <1>3, <2>1, <2>5 DEF Complete, Writes, IsReport
    <3> QED  BY <1>3, <2>2, <3>1
  <2> QED  BY <2>3, <2>4, <2>5, EventFields
<1> QED  BY <1>1, <1>2, <1>3 DEF Handle

\* The queue moves up by one; a reply that waits takes the freed slot.
LEMMA DeliverEffect ==
  ASSUME IInv, TypeOK', Deliver
  PROVE  /\ status # "Stopped" /\ queue[1] \in Events /\ Handle(queue[1]) /\ 1 \in DOMAIN queue
         /\ UNCHANGED <<devices, notif, inbox, fresh, sent, applied>>
         /\ DOMAIN queue = 1 .. Len(queue) /\ Len(queue) \in Nat \ {0}
         /\ \A i \in DOMAIN queue : i # 1 => i - 1 \in DOMAIN queue' /\ queue'[i - 1] = queue[i]
         /\ \A i \in DOMAIN queue' :
              /\ i \in Nat \ {0} /\ queue'[i] \in Events
              /\ \/ i + 1 \in DOMAIN queue /\ queue'[i] = queue[i + 1]
                 \/ /\ i = Len(queue) /\ Held(queue'[i]) /\ IsReply(queue'[i])
                    /\ main' = Flushing /\ main # Flushing
         /\ \A e \in Events : Held(e)' => Held(e)
         /\ \A i \in DOMAIN queue' : IsReply(queue'[i]) => main' = Flushing
<1>0. /\ queue # <<>> /\ Handle(Head(queue)) /\ status # "Stopped"
      /\ UNCHANGED <<devices, notif, inbox, fresh, sent, applied>>
      /\ queue \in Seq(Events) /\ queue' \in Seq(Events) /\ main \in MainStates /\ ReplyAlone
  BY StoppedIsQuiet DEF Deliver, IInv, TypeOK
<1>1. /\ Head(queue) = queue[1] /\ queue[1] \in Events /\ Len(queue) \in Nat \ {0}
      /\ DOMAIN queue = 1 .. Len(queue) /\ \A i \in 1 .. Len(queue) : queue[i] \in Events
      /\ Tail(queue) \in Seq(Events) /\ Len(Tail(queue)) = Len(queue) - 1
      /\ \A i \in 1 .. Len(queue) - 1 : Tail(queue)[i] = queue[i + 1]
      /\ DOMAIN Tail(queue) = 1 .. Len(queue) - 1
  BY <1>0, TailOf, DomainOf
<1>2. \A i \in DOMAIN queue' : i \in Nat \ {0} /\ queue'[i] \in Events
  BY <1>0, DomainOf
<1>3. CASE main.at = "wait"
  <2>1. main.event \in Events /\ queue' = Append(Tail(queue), main.event) /\ main' = Flushing
    BY <1>0, <1>3, MainFields DEF Deliver
  <2>2. PICK r \in Events : r = main.event
    BY <2>1
  <2>3. Held(r) /\ IsReply(r) /\ main # Flushing
    BY <1>0, <1>3, <2>2, MainFields DEF Held, ReplyAlone
  <2>4. /\ DOMAIN queue' = 1 .. Len(queue)
        /\ \A i \in 1 .. Len(queue) - 1 : queue'[i] = queue[i + 1]
        /\ queue'[Len(queue)] = r
    BY <1>1, <2>1, <2>2, Appended
  <2>5. \A e \in Events : ~Held(e)'
    BY <2>1, MainFields DEF Held
  <2>6. \A i \in DOMAIN queue : i # 1 => i - 1 \in DOMAIN queue' /\ queue'[i - 1] = queue[i]
    <3>1. ASSUME NEW i \in DOMAIN queue, i # 1
          PROVE  i - 1 \in 1 .. Len(queue) - 1 /\ (i - 1) + 1 = i
      BY <1>1, <3>1
    <3> QED  BY <1>1, <2>4, <3>1
  <2>7. \A i \in DOMAIN queue' : \/ i + 1 \in DOMAIN queue /\ queue'[i] = queue[i + 1]
                                 \/ i = Len(queue) /\ queue'[i] = r
    BY <1>1, <2>4
  <2> QED  BY <1>0, <1>1, <1>2, <2>1, <2>3, <2>5, <2>6, <2>7
<1>4. CASE main.at # "wait"
  <2>1. queue' = Tail(queue) /\ main' = IF IsReply(queue[1]) THEN Idle ELSE main
    BY <1>0, <1>1, <1>4 DEF Deliver, IsReply
  <2>2. \A e \in Events : Held(e)' => Held(e)
    BY <2>1, MainFields DEF Held
  <2>3. \A i \in DOMAIN queue : i # 1 => i - 1 \in DOMAIN queue' /\ queue'[i - 1] = queue[i]
    <3>1. ASSUME NEW i \in DOMAIN queue, i # 1
          PROVE  i - 1 \in 1 .. Len(queue) - 1 /\ (i - 1) + 1 = i
      BY <1>1, <3>1
    <3> QED  BY <1>1, <2>1, <3>1
  <2>4. \A i \in DOMAIN queue' : i + 1 \in DOMAIN queue /\ queue'[i] = queue[i + 1] /\ i + 1 # 1
    BY <1>1, <2>1
  <2>5. 1 \in DOMAIN queue
    BY <1>1
  <2>6. \A i \in DOMAIN queue' : IsReply(queue'[i]) => main' = Flushing
    BY <1>0, <2>1, <2>4, <2>5 DEF ReplyAlone
  <2> QED  BY <1>0, <1>1, <1>2, <2>2, <2>3, <2>4, <2>5, <2>6
<1> QED  BY <1>3, <1>4

LEMMA DeliverInv ==
  ASSUME IInv, TypeOK', Deliver
  PROVE  CoreInv'
<1>0. PICK h \in Events : h = queue[1] /\ Handle(h) /\ status # "Stopped"
  BY DeliverEffect
<1>1. /\ UNCHANGED <<devices, notif, inbox, fresh, sent, applied>> /\ 1 \in DOMAIN queue
      /\ DOMAIN queue = 1 .. Len(queue) /\ Len(queue) \in Nat \ {0}
      /\ \A i \in DOMAIN queue : i # 1 => i - 1 \in DOMAIN queue' /\ queue'[i - 1] = queue[i]
      /\ \A e \in Events : Held(e)' => Held(e)
      /\ \A i \in DOMAIN queue' : IsReply(queue'[i]) => main' = Flushing
  BY DeliverEffect
<1>2. \A i \in DOMAIN queue' :
        /\ i \in Nat \ {0} /\ queue'[i] \in Events
        /\ \/ i + 1 \in DOMAIN queue /\ queue'[i] = queue[i + 1]
           \/ /\ i = Len(queue) /\ Held(queue'[i]) /\ IsReply(queue'[i])
              /\ main' = Flushing /\ main # Flushing
  BY DeliverEffect
<1>3. /\ \A d \in Devices : disk[d] = Gone /\ (IsReport(h, d) => h.dev = Gone) => disk'[d] = Gone
      /\ halted' = FALSE => halted = FALSE /\ \A d \in Devices : IsReport(h, d) => disk'[d] = h.dev
      /\ \A d \in Devices :
           \/ disk'[d] = disk[d]
           \/ IsReport(h, d)
           \/ /\ h.type = "deferred" /\ Answers(h) /\ pending.d = d
              /\ deferred' = deferred \cup {pending.n}
      /\ pending' \in {pending, None}
      /\ pending' # None => ~Answers(h)
      /\ deferred' = deferred \/ (pending # None /\ deferred' = deferred \cup {pending.n})
      /\ \A d \in revoked' : d \in revoked \/ (SaysGone(h, d) /\ disk'[d] = Gone)
  BY <1>0, HandleEffect
<1>4. \A i \in DOMAIN queue' : \A d \in Devices :
        IsReport(queue'[i], d) => i + 1 \in DOMAIN queue /\ queue'[i] = queue[i + 1]
  BY <1>2 DEF IsReport, IsReply
<1>5. NotifCurrent' /\ SerialsSound'
  BY <1>1, <1>3, SerialsUnchanged DEF IInv, NotifCurrent
<1>6. FreshUnused'
  <2> SUFFICES ASSUME NEW d \in fresh
               PROVE  /\ devices[d] = Gone /\ notif[d] = None /\ disk'[d] = Gone
                      /\ \A i \in DOMAIN queue' : ~IsReport(queue'[i], d)
    BY <1>1 DEF FreshUnused
  <2>1. /\ d \in Devices /\ devices[d] = Gone /\ notif[d] = None /\ disk[d] = Gone
        /\ \A i \in DOMAIN queue : ~IsReport(queue[i], d)
    BY DEF IInv, TypeOK, FreshUnused
  <2> QED  BY <1>0, <1>1, <1>3, <1>4, <2>1
<1>7. GoneFinal'
  <2>1. ASSUME NEW i \in DOMAIN queue', NEW d \in Devices, SaysGone(queue'[i], d)
        PROVE  devices[d] = Gone /\ d \notin fresh
    BY <1>2, <2>1 DEF IInv, GoneFinal
  <2>2. ASSUME NEW i \in DOMAIN queue', NEW j \in DOMAIN queue', NEW d \in Devices,
               i < j, SaysGone(queue'[i], d), IsReport(queue'[j], d)
        PROVE  queue'[j].dev = Gone
    <3>1. j + 1 \in DOMAIN queue /\ queue'[j] = queue[j + 1]
      BY <1>4, <2>2
    <3>2. i + 1 \in DOMAIN queue /\ queue'[i] = queue[i + 1] /\ i + 1 < j + 1
      BY <1>1, <1>2, <2>2, <3>1
    <3> QED  BY <2>2, <3>1, <3>2 DEF IInv, GoneFinal
  <2>3. \A e \in Events : \A d \in Devices :
          Held(e)' /\ SaysGone(e, d) => devices[d] = Gone /\ d \notin fresh
    BY <1>1 DEF IInv, GoneFinal
  <2> QED  BY <1>1, <2>1, <2>2, <2>3 DEF GoneFinal, SaysGone, IsReport
<1>8. RevokedGone'
  <2> SUFFICES ASSUME NEW d \in revoked'
               PROVE  /\ disk'[d] = Gone /\ devices[d] = Gone /\ d \notin fresh
                      /\ \A i \in DOMAIN queue' : IsReport(queue'[i], d) => queue'[i].dev = Gone
    BY <1>1 DEF RevokedGone
  <2>0. d \in Devices
    BY DEF TypeOK
  <2>1. CASE d \in revoked
    <3>1. /\ disk[d] = Gone /\ devices[d] = Gone /\ d \notin fresh
          /\ \A i \in DOMAIN queue : IsReport(queue[i], d) => queue[i].dev = Gone
      BY <2>1 DEF IInv, RevokedGone
    <3> QED  BY <1>0, <1>1, <1>3, <1>4, <2>0, <3>1
  <2>2. CASE SaysGone(h, d) /\ disk'[d] = Gone
    <3>1. devices[d] = Gone /\ d \notin fresh
      BY <1>0, <1>1, <2>0, <2>2 DEF IInv, GoneFinal
    <3>2. ASSUME NEW i \in DOMAIN queue', IsReport(queue'[i], d)
          PROVE  queue'[i].dev = Gone
      <4>1. i + 1 \in DOMAIN queue /\ queue'[i] = queue[i + 1] /\ 1 < i + 1
        BY <1>1, <1>2, <1>4, <2>0, <3>2
      <4> QED  BY <1>0, <1>1, <2>0, <2>2, <3>2, <4>1 DEF IInv, GoneFinal
    <3> QED  BY <2>2, <3>1, <3>2
  <2> QED  BY <1>3, <2>1, <2>2
<1>9. ReplyAlone'
  <2>1. \A e \in Events : Held(e)' => IsReply(e)
    BY <1>1 DEF IInv, ReplyAlone
  <2>2. ASSUME NEW i \in DOMAIN queue', NEW j \in DOMAIN queue', IsReply(queue'[i]), IsReply(queue'[j])
        PROVE  i = j
    <3>0. ReplyAlone
      BY DEF IInv
    <3>1. CASE main = Flushing
      <4>1. /\ i + 1 \in DOMAIN queue /\ queue'[i] = queue[i + 1]
            /\ j + 1 \in DOMAIN queue /\ queue'[j] = queue[j + 1]
        BY <1>2, <3>1
      <4>2. i + 1 = j + 1
        BY <2>2, <3>0, <4>1 DEF ReplyAlone
      <4> QED  BY <1>2, <4>2
    <3>2. CASE main # Flushing
      <4>1. \A k \in DOMAIN queue : ~IsReply(queue[k])
        BY <3>0, <3>2 DEF ReplyAlone
      <4>2. i = Len(queue) /\ j = Len(queue)
        BY <1>2, <2>2, <4>1
      <4> QED  BY <4>2
    <3> QED  BY <3>1, <3>2
  <2> QED  BY <1>1, <2>1, <2>2 DEF ReplyAlone, IsReply
<1>10. DeferralSound'
  <2> SUFFICES ASSUME NEW e \in Events, UnderWay(e)', e.type = "deferred"
               PROVE  /\ e.op # "unlock"
                      /\ DeferralOf(e)' =>
                           /\ Shows(pending', devices[e.d])
                           /\ \/ notif[e.d] # None
                              \/ \E i \in DOMAIN queue' :
                                   queue'[i].type = "device" /\ Reflects(pending', queue'[i])
    BY <1>1 DEF DeferralSound, Shows, Reflects, DeferralOf
  <2>1. UnderWay(e)
    BY <1>1, <1>2 DEF UnderWay
  <2>2. e.op # "unlock"
    BY <2>1 DEF IInv, DeferralSound
  <2>3. ASSUME DeferralOf(e)'
        PROVE  /\ Shows(pending', devices[e.d])
               /\ \/ notif[e.d] # None
                  \/ \E i \in DOMAIN queue' :
                       queue'[i].type = "device" /\ Reflects(pending', queue'[i])
    <3>1. pending' = pending /\ pending # None /\ DeferralOf(e) /\ ~Answers(h)
      BY <1>1, <1>3, <2>3 DEF DeferralOf
    <3>2. /\ Shows(pending, devices[e.d])
          /\ \/ notif[e.d] # None
             \/ \E i \in DOMAIN queue : queue[i].type = "device" /\ Reflects(pending, queue[i])
      BY <2>1, <3>1 DEF IInv, DeferralSound
    <3>3. ASSUME NEW i \in DOMAIN queue, queue[i].type = "device", Reflects(pending, queue[i])
          PROVE  i # 1
      BY <1>0, <3>1, <3>3 DEF Answers
    <3> QED  BY <1>1, <3>1, <3>2, <3>3
  <2> QED  BY <2>2, <2>3
<1>11. SyncedInv'
  <2> SUFFICES ASSUME halted' = FALSE, NEW d \in Devices
               PROVE  Synced(d)' \/ Ahead(d)'
    BY DEF SyncedInv
  <2>1. Synced(d) \/ Ahead(d)
    BY <1>0, <1>3 DEF IInv, SyncedInv
  <2>2. \A n \in 1 .. sent : \A o \in Devices : Awaited(n, o)' <=> Awaited(n, o)
    BY <1>1 DEF Awaited
  <2>3. CASE Ahead(d)
    BY <1>1, <1>3, <2>2, <2>3, AheadKept
  <2>4. CASE Synced(d)
    <3> SUFFICES ASSUME notif[d] = None, ~Ahead(d)'
                 PROVE  /\ \A i \in DOMAIN queue' : LastReport(d, i)' => queue'[i].dev = devices[d]
                        /\ (\A i \in DOMAIN queue' : ~IsReport(queue'[i], d)) => disk'[d] = devices[d]
      BY <1>1 DEF Synced, LastReport, IsReport
    <3>1. ASSUME NEW i \in DOMAIN queue', LastReport(d, i)'
          PROVE  queue'[i].dev = devices[d]
      <4>1. /\ IsReport(queue'[i], d) /\ i \in Nat
            /\ \A j \in DOMAIN queue' : i < j => ~IsReport(queue'[j], d)
        BY <1>2, <3>1 DEF LastReport, IsReport
      <4>2. i + 1 \in DOMAIN queue /\ queue'[i] = queue[i + 1]
        BY <1>4, <4>1
      <4>3. ASSUME NEW j \in DOMAIN queue, i + 1 < j
            PROVE  ~IsReport(queue[j], d)
        <5>1. j # 1 /\ i < j - 1
          BY <1>1, <4>1, <4>3
        <5> QED  BY <1>1, <4>1, <4>3, <5>1
      <4>4. LastReport(d, i + 1)
        BY <4>1, <4>2, <4>3 DEF LastReport
      <4> QED  BY <2>4, <4>2, <4>4 DEF Synced
    <3>2. ASSUME \A i \in DOMAIN queue' : ~IsReport(queue'[i], d)
          PROVE  disk'[d] = devices[d]
      <4>1. \A j \in DOMAIN queue : j # 1 => ~IsReport(queue[j], d)
        BY <1>1, <3>2
      <4>2. CASE IsReport(h, d)
        <5>1. LastReport(d, 1)
          BY <1>0, <1>1, <4>1, <4>2 DEF LastReport
        <5>2. h.dev = devices[d]
          BY <1>0, <1>1, <2>4, <5>1 DEF Synced
        <5> QED  BY <1>3, <4>2, <5>2
      <4>3. CASE ~IsReport(h, d)
        <5>1. \A j \in DOMAIN queue : ~IsReport(queue[j], d)
          BY <1>0, <4>1, <4>3
        <5>2. disk[d] = devices[d]
          BY <2>4, <5>1 DEF Synced
        <5>3. ASSUME h.type = "deferred", Answers(h), pending.d = d, deferred' = deferred \cup {pending.n}
              PROVE  FALSE
          <6>0. /\ pending # None /\ pending \in Frames /\ pending.d = h.d /\ pending.op = h.op
                /\ SerialsSound
            BY <5>3 DEF Answers, IInv, TypeOK
          <6>1. CASE pending.n \in applied
            <7>1. UnderWay(h) /\ DeferralOf(h)
              BY <1>0, <1>1, <5>3, <6>0, <6>1 DEF UnderWay, DeferralOf
            <7>2. PICK i \in DOMAIN queue : queue[i].type = "device" /\ Reflects(pending, queue[i])
              BY <5>3, <6>0, <7>1 DEF IInv, DeferralSound
            <7> QED  BY <5>1, <5>3, <7>2 DEF Reflects, IsReport
          <6>2. CASE pending.n \notin applied
            <7>1. ASSUME NEW o \in Devices, Awaited(pending.n, o)
                  PROVE  o = d
              <8>1. PICK i \in DOMAIN inbox :
                      inbox[i] # SHUTDOWN_FRAME /\ inbox[i].n = pending.n /\ inbox[i].d = o
                BY <7>1 DEF Awaited
              <8>2. pending = inbox[i]
                BY <6>0, <8>1 DEF SerialsSound
              <8> QED  BY <5>3, <8>1, <8>2
            <7>2. Awaited(pending.n, d) \/ \A o \in Devices : ~Awaited(pending.n, o)
              BY <7>1
            <7>3. PICK n \in deferred' \ applied' : n = pending.n
              BY <1>1, <5>3, <6>2
            <7>4. Awaited(n, d)' \/ \A o \in Devices : ~Awaited(n, o)'
              BY <1>1, <7>2, <7>3 DEF Awaited
            <7> QED  BY <7>3, <7>4 DEF Ahead
          <6> QED  BY <6>1, <6>2
        <5> QED  BY <1>3, <4>3, <5>2, <5>3
      <4> QED  BY <4>2, <4>3
    <3> QED  BY <3>1, <3>2
  <2> QED  BY <2>1, <2>3, <2>4
<1> QED  BY <1>5, <1>6, <1>7, <1>8, <1>9, <1>10, <1>11 DEF CoreInv

(***************************************************************************)
(* The theorems.                                                           *)
(***************************************************************************)

LEMMA NextInv == IInv /\ [Next]_vars => IInv'
<1> SUFFICES ASSUME IInv, [Next]_vars PROVE IInv'
  OBVIOUS
<1>1. TypeOK'
  BY NextTypes DEF IInv
<1>2. CASE UNCHANGED vars
  <2>0. UNCHANGED <<status, halted, server, announced, devices, notif, dirty, queue, main, inbox,
                   disk, pending, fresh, starts, sent, applied, deferred, revoked>>
    BY <1>2 DEF vars, gateway, history
  <2>1. QuietWhenStopped' /\ HaltedSound' /\ DeferralsBounded'
    BY <2>0 DEF IInv, QuietWhenStopped, HaltedSound, DeferralsBounded
  <2>2. TableStep /\ GrantsKept
    BY <2>0, TableUnchanged
  <2>3. CoreInv'
    BY <1>1, <2>0, <2>2, TableInv
  <2> QED  BY <1>1, <2>1, <2>3 DEF IInv, CoreInv
<1>3. CASE Next
  <2>1. QuietWhenStopped' /\ HaltedSound' /\ DeferralsBounded'
    BY <1>3, NextQuiet, NextBounded
  <2>2. CASE Start
    BY <1>1, <2>1, <2>2, StartInv DEF IInv, CoreInv
  <2>3. CASE Ready \/ Fail \/ Timeout \/ Expire
    <3>1. /\ UNCHANGED <<devices, notif, queue, fresh, main, inbox, disk, revoked, applied, deferred, sent>>
          /\ pending' \in {pending, None} /\ status # "Stopped"
          /\ halted' = FALSE => halted = FALSE
      BY <2>3, StoppedIsQuiet DEF Ready, Fail, Timeout, Expire, Halt, gateway, history
    <3>2. TableStep /\ GrantsKept
      BY <3>1, TableUnchanged
    <3>3. CoreInv'
      BY <1>1, <3>1, <3>2, TableInv
    <3> QED  BY <1>1, <2>1, <3>3 DEF IInv, CoreInv
  <2>4. CASE Exit
    BY <1>1, <2>1, <2>4, ExitInv DEF IInv, CoreInv
  <2>5. CASE Stop
    <3>1. /\ UNCHANGED <<devices, notif, queue, fresh, main, disk, revoked, applied, deferred, sent, pending,
                        halted>>
          /\ status # "Stopped"
          /\ inbox' = inbox \/ inbox' = Append(inbox, SHUTDOWN_FRAME)
      BY <2>5 DEF Stop, history
    <3>2. CASE inbox' = inbox
      <4>1. TableStep /\ GrantsKept
        BY <3>1, TableUnchanged
      <4>2. CoreInv'
        BY <1>1, <3>1, <3>2, <4>1, TableInv
      <4> QED  BY <1>1, <2>1, <4>2 DEF IInv, CoreInv
    <3>3. CASE inbox' = Append(inbox, SHUTDOWN_FRAME)
      <4>1. CoreInv'
        BY <1>1, <3>1, <3>3, FrameInv
      <4> QED  BY <1>1, <2>1, <4>1 DEF IInv, CoreInv
    <3> QED  BY <3>1, <3>2, <3>3
  <2>6. CASE AnnounceExpiry
    <3>1. /\ main = Idle /\ main' = Reply(Error) /\ inbox' = inbox
          /\ UNCHANGED <<devices, notif, queue, fresh, disk, revoked, applied, deferred, sent, pending,
                        status, halted>>
      BY <2>6 DEF AnnounceExpiry, history
    <3>2. CoreInv'
      BY <1>1, <3>1, ErrorInv
    <3> QED  BY <1>1, <2>1, <3>2 DEF IInv, CoreInv
  <2>7. CASE Maintenance
    <3>1. UNCHANGED <<main, inbox, disk, revoked, applied, deferred, sent, pending, status, halted>>
      BY <2>7 DEF Maintenance, history
    <3>2. TableStep /\ GrantsKept
      BY <2>7, MaintenanceStep
    <3>3. CoreInv'
      BY <1>1, <3>1, <3>2, TableInv
    <3> QED  BY <1>1, <2>1, <3>3 DEF IInv, CoreInv
  <2>8. CASE Background
    <3>1. UNCHANGED <<main, inbox, disk, revoked, applied, deferred, sent, pending, status, halted>>
      BY <2>8 DEF Background, Touch, Verified, LockOut, Register, AddCredential, history
    <3>2. TableStep /\ GrantsKept
      BY <2>8, BackgroundStep
    <3>3. CoreInv'
      BY <1>1, <3>1, <3>2, TableInv
    <3> QED  BY <1>1, <2>1, <3>3 DEF IInv, CoreInv
  <2>9. CASE Command
    BY <1>1, <2>1, <2>9, CommandInv DEF IInv, CoreInv
  <2>10. CASE Emit
    BY <1>1, <2>1, <2>10, EmitInv DEF IInv, CoreInv
  <2>11. CASE Deliver
    BY <1>1, <2>1, <2>11, DeliverInv DEF IInv, CoreInv
  <2>12. ASSUME NEW c \in Frames, Request(c)
         PROVE  IInv'
    <3>1. /\ inbox' = Append(inbox, c) /\ c.n = sent + 1 /\ sent' = sent + 1 /\ pending' = c
          /\ pending = None /\ status # "Stopped"
          /\ UNCHANGED <<devices, notif, queue, main, disk, fresh, applied, deferred, revoked, halted>>
      BY <2>12 DEF Request
    <3>2. CoreInv'
      BY <1>1, <3>1, FrameInv
    <3> QED  BY <1>1, <2>1, <3>2 DEF IInv, CoreInv
  <2>13. ASSUME NEW c \in Frames, EditStopped(c)
         PROVE  IInv'
    <3>1. CoreInv'
      BY <1>1, <2>13, EditInv
    <3> QED  BY <1>1, <2>1, <3>1 DEF IInv, CoreInv
  <2> QED  BY <1>3, <2>2, <2>3, <2>4, <2>5, <2>6, <2>7, <2>8, <2>9, <2>10, <2>11, <2>12, <2>13 DEF Next
<1> QED  BY <1>2, <1>3

\* When the queue holds a report of d, one of them is the last.
LEMMA LastReportExists ==
  ASSUME TypeOK, NEW d \in Devices, NEW k \in DOMAIN queue, IsReport(queue[k], d)
  PROVE  \E i \in DOMAIN queue : LastReport(d, i)
<1>0. DOMAIN queue = 1 .. Len(queue) /\ Len(queue) \in Nat
  BY DomainOf DEF TypeOK
<1>1. PICK T \in SUBSET Nat : T = {n \in Nat : \E i \in DOMAIN queue : n = Len(queue) - i /\ IsReport(queue[i], d)}
  OBVIOUS
<1>2. T # {}
  <2>1. Len(queue) - k \in T
    BY <1>0, <1>1
  <2> QED  BY <2>1
<1>3. PICK n \in T : \A m \in T : ~(<<m, n>> \in OpToRel(<, Nat))
  BY <1>1, <1>2, NatLessThanWellFounded, WFMin
<1>4. \A m \in T : ~(m < n)
  BY <1>1, <1>3 DEF OpToRel
<1>5. PICK i \in DOMAIN queue : n = Len(queue) - i /\ IsReport(queue[i], d)
  BY <1>1, <1>3
<1>6. ASSUME NEW j \in DOMAIN queue, i < j, IsReport(queue[j], d)
      PROVE  FALSE
  <2>1. Len(queue) - j \in T /\ Len(queue) - j < n
    BY <1>0, <1>1, <1>5, <1>6
  <2> QED  BY <1>4, <2>1
<1> QED  BY <1>5, <1>6 DEF LastReport

\* Where nothing is ahead of the gateway, the last word on d is the table's.
LEMMA FinalSynced ==
  ASSUME IInv, NEW d \in Devices, Synced(d)
  PROVE  Final(d) = devices[d]
<1>1. CASE notif[d] # None
  BY <1>1 DEF Final, IInv, NotifCurrent
<1>2. CASE notif[d] = None /\ \A i \in DOMAIN queue : ~IsReport(queue[i], d)
  BY <1>2 DEF Final, Synced
<1>3. CASE notif[d] = None /\ \E i \in DOMAIN queue : IsReport(queue[i], d)
  <2>1. \E i \in DOMAIN queue : LastReport(d, i)
    BY <1>3, LastReportExists DEF IInv
  <2>2. PICK l : l = CHOOSE i \in DOMAIN queue : LastReport(d, i)
    OBVIOUS
  <2>3. l \in DOMAIN queue /\ LastReport(d, l)
    BY <2>1, <2>2
  <2>4. Final(d) = queue[l].dev
    BY <1>3, <2>2 DEF Final
  <2> QED  BY <1>3, <2>3, <2>4 DEF Synced
<1> QED  BY <1>1, <1>2, <1>3

LEMMA IInvConverges == IInv => Converges
<1> SUFFICES ASSUME IInv, Alive, ~halted, deferred \subseteq applied, NEW d \in Devices
             PROVE  Final(d) = devices[d]
  BY DEF Converges
<1>1. status # "Stopped" /\ halted = FALSE
  BY Zenon DEF Alive, IInv, TypeOK
<1>2. Synced(d) \/ Ahead(d)
  BY <1>1 DEF IInv, SyncedInv
<1>3. ~Ahead(d)
  BY DEF Ahead
<1> QED  BY <1>2, <1>3, FinalSynced

\* The inductive invariant holds in every reachable state.
THEOREM DeviceSyncInvariant == Spec => []IInv
<1>1. Init => IInv
  BY InitInv
<1>2. IInv /\ [Next]_vars => IInv'
  BY NextInv
<1> QED  BY <1>1, <1>2, PTL DEF Spec

\* Once the desktop has acknowledged a revocation (CompanionManager::revoke), the
\* device is neither on its disk nor in any gateway, whatever is still queued or
\* deferred, and however often the gateway crashes and is started again from the disk.
THEOREM RevocationIsFinal == Spec => []RevokedStaysGone
<1>1. IInv => RevokedStaysGone
  BY DEF IInv, RevokedGone, RevokedStaysGone
<1> QED  BY <1>1, DeviceSyncInvariant, PTL

\* What the desktop will have on disk once it has handled all that is queued and
\* deferred (on_event) is what the gateway's table holds (Identity), as long as the
\* gateway lives and no deferral was taken for that of another command.
THEOREM DesktopConverges == Spec => []Converges
  BY IInvConverges, DeviceSyncInvariant, PTL

\* The deferred snapshots and tombstones (Identity's notifications) and the devices
\* together never outnumber max_devices.
THEOREM DeferralsAreBounded == Spec => []DeferralsBounded
<1>1. IInv => DeferralsBounded
  BY DEF IInv
<1> QED  BY <1>1, DeviceSyncInvariant, PTL
=============================================================================
