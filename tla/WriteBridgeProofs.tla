------------------------- MODULE WriteBridgeProofs -------------------------
(***************************************************************************)
(* The write bridge for every number of peers, writes and slots: it        *)
(* implements WriteOutcome, it stays within its limits at the host, a full *)
(* client finds the control leases of its session released, and a peer     *)
(* never finds its device's write permit taken by its own last job.        *)
(***************************************************************************)
EXTENDS WriteBridge, FiniteSetTheorems, WellFoundedInduction, TLAPS

\* A job before the call of the host, until it gives its write permit back,
\* until its result is sent, and after it returned.
Early == {"handoff", "check", "start", "starting"}
Busy == Early \cup {"host", "returned"}
Running == Busy \cup {"freed"}
Ended == {"returned", "freed", "delivered"}

Held == {"job", "stream", "handoff", "waiting", "cleaning"}
Live(p) == life[p] \in {"alive", "invalid"}

\* A queued write was neither submitted nor answered.
QueueSound ==
  \A p \in Peers : \A w \in queue[p] :
    /\ w \in Admitted /\ req[w].peer = p
    /\ job[w] = "none" /\ answers[w] = <<>> /\ life[p] # "gone"

\* A stream is named by the write that opens it, and kept by its peer.
StreamSound ==
  /\ \A p \in Peers : \A s \in streams[p] : s \in Admitted /\ req[s].peer = p /\ Open(s)
  /\ \A w \in Writes : req[w] # None /\ Open(w) => req[w].stream = w

\* What was not admitted has left no trace.
UnusedSound ==
  \A w \in Writes : req[w] = None => job[w] = "none" /\ answers[w] = <<>> /\ lease[w] = "none"

\* A job that runs is the active one of its peer.
ActiveSound ==
  /\ \A p \in Peers : active[p] # 0 =>
       active[p] \in Admitted /\ req[active[p]].peer = p /\ job[active[p]] # "none"
  /\ \A w \in Writes : job[w] \in Running => active[req[w].peer] = w

\* The active write is owed an answer until it is given, by its own completion,
\* by the watchdog or at the end of the peer.
OwedSound ==
  \A p \in Peers :
    /\ stalled[p] = TRUE => active[p] # 0
    /\ owed[p] = TRUE =>
         active[p] # 0 /\ answers[active[p]] = <<>> /\ Live(p) /\ cancelling[p] = 0
    /\ active[p] # 0 /\ stalled[p] = FALSE /\ Live(p) => owed[p] = TRUE
    /\ cancelling[p] # 0 =>
         cancelling[p] = active[p] /\ answers[active[p]] = <<>> /\ life[p] # "gone"

\* The host is called once the `started` flag is set, and the flag is there as
\* long as anyone reads it.
StartedSound ==
  \A w \in Writes :
    /\ job[w] = "none" \/ job[w] \in Early => w \notin ran
    /\ job[w] \in {"starting", "host"} => w \in started
    /\ job[w] = "host" => w \in ran
    /\ w \in ran /\ w \notin started =>
         job[w] = "delivered" /\ (active[req[w].peer] # w \/ life[req[w].peer] = "gone")

\* What the job returned, for the peer that waits for it.
ResultSound ==
  \A w \in Writes :
    /\ result[w] # "none" => job[w] \in Ended
    /\ result[w] = "ok" => w \in ran
    /\ result[w] = "dropped" => w \notin ran
    /\ job[w] \in {"returned", "freed"} => result[w] # "none"
    /\ job[w] = "delivered" /\ active[req[w].peer] = w /\ life[req[w].peer] # "gone" =>
         result[w] # "none"

\* A result that its stream still waits for comes with the Lease.
KeptSound ==
  \A w \in Writes : result[w] = "ok" /\ Open(w) /\ w \in streams[req[w].peer] => lease[w] = "job"

\* A running job was answered only by a cancellation.
CancelSound ==
  /\ \A w \in Writes : job[w] \in Running /\ answers[w] # <<>> => w \in cancelled
  /\ \A p \in Peers : cancelling[p] # 0 => cancelling[p] \in cancelled

LeaseSound ==
  \A w \in Writes :
    /\ job[w] \in Early \cup {"none", "host"} => lease[w] = "none"
    /\ lease[w] # "none" => w \in Admitted /\ Open(w)
    /\ lease[w] = "stream" => w \in streams[req[w].peer]
    /\ lease[w] = "handoff" => req[w].kind = "control"

\* From the submission of a full.open to the host's call, its peer holds no control
\* lease of the session, and the displaced ones are gone before the first check.
HandoffSound ==
  \A w \in Writes :
    /\ job[w] \in Early \cup {"host"} /\ req[w].kind = "full" =>
         \A s \in Writes : lease[s] = "stream" /\ req[s].kind = "control" /\ req[s].peer = req[w].peer
           => req[s].session # req[w].session
    /\ job[w] \in (Early \ {"handoff"}) \cup {"host"} =>
         \A s \in Writes : lease[s] = "handoff" => req[s].peer # req[w].peer

\* A write permit that is taken is a job's.
PermitSound ==
  \A d \in Devices : d \in deviceFree \/ \E w \in Admitted : Dev(w) = d /\ job[w] \in Busy

\* The open has permits: of a resource, and of the device's full client.
Holds(w) ==
  /\ w \in Admitted /\ Open(w)
  /\ w \in queue[req[w].peer] \/ job[w] \in Early \cup {"host"} \/ lease[w] \in Held

FullSound ==
  \A v \in Writes : Holds(v) /\ req[v].kind = "full" =>
    /\ Dev(v) \notin fullFree
    /\ \A w \in Writes : Holds(w) /\ req[w].kind = "full" /\ Dev(w) = Dev(v) => w = v

Holders == {w \in Writes : Holds(w)}
Jobs == {w \in Writes : job[w] \in Busy}
Cleanups == {w \in Writes : lease[w] = "cleaning"}

PermitsCounted ==
  /\ Cardinality(Holders) + resources <= MAX_RESOURCES
  /\ Cardinality(Jobs) + writeSlots <= WRITE_SLOTS
  /\ Cardinality(Cleanups) + cleanupSlots <= CLEANUP_SLOTS

IInv ==
  /\ TypeOK
  /\ QueueSound
  /\ StreamSound
  /\ UnusedSound
  /\ ActiveSound
  /\ OwedSound
  /\ StartedSound
  /\ ResultSound
  /\ KeptSound
  /\ CancelSound
  /\ LeaseSound
  /\ HandoffSound
  /\ PermitSound
  /\ FullSound
  /\ PermitsCounted

(***************************************************************************)
(* Lemmas about the data.                                                  *)
(***************************************************************************)

LEMMA RequestFields ==
  /\ None \notin Request
  /\ \A r \in Request :
       /\ r.peer \in Peers /\ r.kind \in Kinds /\ r.stream \in 0 .. MaxWrites
       /\ DeviceOf[r.peer] \in Devices
  /\ \A p \in Peers, k \in Kinds, s \in 0 .. MaxWrites, n \in Sessions, u \in Untils :
       LET r == [peer |-> p, kind |-> k, stream |-> s, session |-> n, until |-> u]
       IN  r \in Request /\ r.peer = p /\ r.kind = k /\ r.stream = s /\ r.session = n
<1>1. None \notin Request
  BY DEF None, Request
<1>2. \A r \in Request :
        /\ r.peer \in Peers /\ r.kind \in Kinds /\ r.stream \in 0 .. MaxWrites
        /\ DeviceOf[r.peer] \in Devices
  BY DeviceOfPeers DEF Request
<1>3. ASSUME NEW p \in Peers, NEW k \in Kinds, NEW s \in 0 .. MaxWrites, NEW n \in Sessions, NEW u \in Untils
      PROVE  LET r == [peer |-> p, kind |-> k, stream |-> s, session |-> n, until |-> u]
             IN  r \in Request /\ r.peer = p /\ r.kind = k /\ r.stream = s /\ r.session = n
  BY <1>3 DEF Request
<1> QED  BY <1>1, <1>2, <1>3

LEMMA WritesFinite ==
  /\ IsFiniteSet(Writes) /\ Writes \subseteq Nat /\ 0 \notin Writes
  /\ 0 .. MaxWrites = Writes \cup {0}
  /\ \A S \in SUBSET Writes : IsFiniteSet(S) /\ Cardinality(S) \in Nat
<1>1. /\ IsFiniteSet(Writes) /\ Writes \subseteq Nat /\ 0 \notin Writes
      /\ 0 .. MaxWrites = Writes \cup {0}
  BY BoundsNatural, FS_Interval DEF Writes
<1> QED  BY <1>1, FS_Subset, FS_CardinalityType

LEMMA AdmittedFields ==
  ASSUME TypeOK, NEW w \in Admitted
  PROVE  /\ w \in Writes /\ req[w] \in Request /\ req[w].peer \in Peers /\ req[w].kind \in Kinds
         /\ req[w].stream \in 0 .. MaxWrites /\ Dev(w) \in Devices
  BY RequestFields DEF TypeOK, Admitted, Dev

LEMMA Limits ==
  /\ WRITE_QUEUE \in Nat /\ MAX_STREAMS \in Nat /\ MAX_RESOURCES \in Nat
  /\ WRITE_SLOTS \in Nat /\ CLEANUP_SLOTS \in Nat
  BY LimitsPositive

\* The oldest write of a queue is in it.
LEMMA OldestQueued ==
  ASSUME TypeOK, NEW p \in Peers, queue[p] # {}
  PROVE  Oldest(p) \in queue[p]
<1>1. queue[p] \subseteq Nat
  BY WritesFinite DEF TypeOK
<1>2. PICK w \in queue[p] : \A v \in queue[p] : ~(<<v, w>> \in OpToRel(<, Nat))
  BY <1>1, NatLessThanWellFounded, WFMin
<1>3. ASSUME NEW v \in queue[p]
      PROVE  w <= v
  <2>1. w \in Nat /\ v \in Nat /\ ~(<<v, w>> \in {ss \in Nat \X Nat : ss[1] < ss[2]})
    BY <1>1, <1>2 DEF OpToRel
  <2> QED  BY <2>1
<1> QED  BY <1>2, <1>3 DEF Oldest

\* What leaves a set makes room for as much.
LEMMA RoomMade ==
  ASSUME NEW S, IsFiniteSet(S), NEW n \in Nat, NEW limit \in Nat, Cardinality(S) + n <= limit,
         NEW T \in SUBSET S, NEW U \in SUBSET S, T \cap U = {}
  PROVE  Cardinality(T) + (n + Cardinality(U)) <= limit /\ n + Cardinality(U) \in 0 .. limit
<1>1. /\ IsFiniteSet(T) /\ IsFiniteSet(U) /\ Cardinality(S) \in Nat
      /\ Cardinality(T) \in Nat /\ Cardinality(U) \in Nat
  BY FS_Subset, FS_CardinalityType
<1>2. Cardinality(T \cup U) = Cardinality(T) + Cardinality(U) - Cardinality(T \cap U)
  BY <1>1, FS_Union
<1>3. Cardinality(T \cap U) = 0
  BY FS_EmptySet
<1>4. T \cup U \in SUBSET S
  OBVIOUS
<1>5. Cardinality(T \cup U) <= Cardinality(S)
  BY <1>4, FS_Subset
<1> QED  BY <1>1, <1>2, <1>3, <1>5

(***************************************************************************)
(* Permits.                                                                *)
(***************************************************************************)

LEMMA PermitTypes ==
  ASSUME IInv
  PROVE  /\ resources \in Nat /\ writeSlots \in Nat /\ cleanupSlots \in Nat
         /\ Cardinality(Holders) + resources <= MAX_RESOURCES /\ Holders \in SUBSET Writes
         /\ Cardinality(Jobs) + writeSlots <= WRITE_SLOTS /\ Jobs \in SUBSET Writes
         /\ Cardinality(Cleanups) + cleanupSlots <= CLEANUP_SLOTS /\ Cleanups \in SUBSET Writes
         /\ IsFiniteSet(Holders) /\ IsFiniteSet(Jobs) /\ IsFiniteSet(Cleanups)
<1>1. Holders \in SUBSET Writes /\ Jobs \in SUBSET Writes /\ Cleanups \in SUBSET Writes
  BY DEF Holders, Jobs, Cleanups
<1> QED  BY <1>1, WritesFinite, Limits DEF IInv, TypeOK, PermitsCounted

\* The opens of W give their permits back, and nobody takes one.
LEMMA PermitsBack ==
  ASSUME IInv, NEW W \in SUBSET Admitted, \A w \in W : Open(w) => Holds(w), req' = req,
         DropClosures(W),
         \A v \in Writes : Holds(v)' => Holds(v) /\ (v \in W => ~Open(v))
  PROVE  /\ FullSound' /\ fullFree' \subseteq Devices
         /\ Cardinality(Holders') + resources' <= MAX_RESOURCES
         /\ resources' \in 0 .. MAX_RESOURCES
<1>0. TypeOK /\ FullSound /\ \A w \in W : w \in Writes /\ Dev(w) \in Devices
  BY AdmittedFields DEF IInv, Admitted
<1>1. PICK opens \in SUBSET Holders : opens = {w \in W : Open(w)}
  BY <1>0 DEF Holders
<1>2. PICK fulls \in SUBSET W : fulls = {w \in W : req[w].kind = "full"}
  OBVIOUS
<1>3. /\ resources' = resources + Cardinality(opens)
      /\ fullFree' = fullFree \cup {Dev(w) : w \in fulls}
  BY <1>1, <1>2 DEF DropClosures
<1>4. Holders' \in SUBSET Holders /\ Holders' \cap opens = {}
  BY <1>1 DEF Holders
<1>5. /\ Cardinality(Holders') + resources' <= MAX_RESOURCES
      /\ resources' \in 0 .. MAX_RESOURCES
  BY <1>3, <1>4, PermitTypes, Limits, RoomMade
<1>6. fullFree' \subseteq Devices
  BY <1>0, <1>2, <1>3 DEF TypeOK
<1>7. \A v, w \in Writes : Dev(v)' = Dev(v)
  BY DEF Dev
<1>8. ASSUME NEW v \in Writes, Holds(v)', req[v].kind = "full"
      PROVE  /\ Dev(v) \notin fullFree'
             /\ \A w \in Writes : Holds(w)' /\ req[w].kind = "full" /\ Dev(w) = Dev(v) => w = v
  <2>1. /\ Holds(v) /\ v \notin W /\ Dev(v) \notin fullFree
        /\ \A w \in Writes : Holds(w) /\ req[w].kind = "full" /\ Dev(w) = Dev(v) => w = v
    BY <1>0, <1>8 DEF FullSound, Open
  <2>2. \A w \in fulls : w \in W /\ w \in Writes /\ Holds(w) /\ req[w].kind = "full"
    BY <1>0, <1>2 DEF Open
  <2>3. Dev(v) \notin {Dev(w) : w \in fulls}
    BY <2>1, <2>2
  <2> QED  BY <1>3, <2>1, <2>3
<1> QED  BY <1>5, <1>6, <1>7, <1>8 DEF FullSound

\* Nobody takes or gives a permit of an open.
LEMMA PermitsKept ==
  ASSUME IInv, UNCHANGED <<req, resources, fullFree>>, \A v \in Writes : Holds(v)' => Holds(v)
  PROVE  /\ FullSound' /\ fullFree' \subseteq Devices
         /\ Cardinality(Holders') + resources' <= MAX_RESOURCES
         /\ resources' \in 0 .. MAX_RESOURCES
<1>1. Holders' \in SUBSET Holders
  BY DEF Holders
<1>2. {} \in SUBSET Holders /\ Holders' \cap {} = {} /\ Cardinality({}) = 0
  BY FS_EmptySet
<1>3. Cardinality(Holders') + (resources + 0) <= MAX_RESOURCES /\ resources + 0 \in 0 .. MAX_RESOURCES
  BY <1>1, <1>2, PermitTypes, Limits, RoomMade
<1>4. FullSound'
  BY DEF IInv, FullSound, Dev
<1> QED  BY <1>3, <1>4, PermitTypes DEF IInv, TypeOK

\* A slot for a job is given back, kept, or taken.
LEMMA SlotsCounted ==
  ASSUME IInv,
         \/ writeSlots' = writeSlots /\ Jobs' \subseteq Jobs
         \/ writeSlots' = writeSlots + 1 /\ \E w \in Jobs : Jobs' = Jobs \ {w}
         \/ writeSlots > 0 /\ writeSlots' = writeSlots - 1 /\ \E w \in Writes : Jobs' = Jobs \cup {w}
  PROVE  Cardinality(Jobs') + writeSlots' <= WRITE_SLOTS /\ writeSlots' \in 0 .. WRITE_SLOTS
<1>0. Cardinality(Jobs) \in Nat /\ writeSlots \in Nat /\ WRITE_SLOTS \in Nat
  BY PermitTypes, Limits, FS_CardinalityType
<1>1. CASE writeSlots' = writeSlots /\ Jobs' \subseteq Jobs
  <2>1. Cardinality(Jobs') <= Cardinality(Jobs) /\ Cardinality(Jobs') \in Nat
    BY <1>1, PermitTypes, FS_Subset, FS_CardinalityType
  <2> QED  BY <1>0, <1>1, <2>1, PermitTypes
<1>2. CASE writeSlots' = writeSlots + 1 /\ \E w \in Jobs : Jobs' = Jobs \ {w}
  <2>1. PICK w \in Jobs : Jobs' = Jobs \ {w}
    BY <1>2
  <2>2. Cardinality(Jobs \ {w}) = Cardinality(Jobs) - 1 /\ IsFiniteSet(Jobs \ {w})
    BY PermitTypes, FS_RemoveElement
  <2>3. Cardinality(Jobs') = Cardinality(Jobs) - 1 /\ Cardinality(Jobs') \in Nat
    BY <2>1, <2>2, FS_CardinalityType
  <2> QED  BY <1>0, <1>2, <2>3, PermitTypes
<1>3. CASE /\ writeSlots > 0 /\ writeSlots' = writeSlots - 1
           /\ \E w \in Writes : Jobs' = Jobs \cup {w}
  <2>1. PICK w \in Writes : Jobs' = Jobs \cup {w}
    BY <1>3
  <2>2. Cardinality(Jobs \cup {w}) <= Cardinality(Jobs) + 1 /\ IsFiniteSet(Jobs \cup {w})
    <3>1. IsFiniteSet(Jobs)
      BY PermitTypes
    <3>2. /\ IsFiniteSet(Jobs \cup {w})
          /\ Cardinality(Jobs \cup {w}) =
               IF w \in Jobs THEN Cardinality(Jobs) ELSE Cardinality(Jobs) + 1
      BY <3>1, FS_AddElement
    <3> QED  BY <1>0, <3>2
  <2>3. Cardinality(Jobs') <= Cardinality(Jobs) + 1 /\ Cardinality(Jobs') \in Nat
    BY <2>1, <2>2, FS_CardinalityType
  <2> QED  BY <1>0, <1>3, <2>3, PermitTypes
<1> QED  BY <1>1, <1>2, <1>3

\* A slot for a release is given back, kept, or taken.
LEMMA CleanupsCounted ==
  ASSUME IInv,
         \/ cleanupSlots' = cleanupSlots /\ Cleanups' \subseteq Cleanups
         \/ cleanupSlots' = cleanupSlots + 1 /\ \E w \in Cleanups : Cleanups' = Cleanups \ {w}
         \/ /\ cleanupSlots > 0 /\ cleanupSlots' = cleanupSlots - 1
            /\ \E w \in Writes : Cleanups' = Cleanups \cup {w}
  PROVE  Cardinality(Cleanups') + cleanupSlots' <= CLEANUP_SLOTS /\ cleanupSlots' \in 0 .. CLEANUP_SLOTS
<1>0. Cardinality(Cleanups) \in Nat /\ cleanupSlots \in Nat /\ CLEANUP_SLOTS \in Nat
  BY PermitTypes, Limits, FS_CardinalityType
<1>1. CASE cleanupSlots' = cleanupSlots /\ Cleanups' \subseteq Cleanups
  <2>1. Cardinality(Cleanups') <= Cardinality(Cleanups) /\ Cardinality(Cleanups') \in Nat
    BY <1>1, PermitTypes, FS_Subset, FS_CardinalityType
  <2> QED  BY <1>0, <1>1, <2>1, PermitTypes
<1>2. CASE cleanupSlots' = cleanupSlots + 1 /\ \E w \in Cleanups : Cleanups' = Cleanups \ {w}
  <2>1. PICK w \in Cleanups : Cleanups' = Cleanups \ {w}
    BY <1>2
  <2>2. Cardinality(Cleanups \ {w}) = Cardinality(Cleanups) - 1 /\ IsFiniteSet(Cleanups \ {w})
    BY PermitTypes, FS_RemoveElement
  <2>3. Cardinality(Cleanups') = Cardinality(Cleanups) - 1 /\ Cardinality(Cleanups') \in Nat
    BY <2>1, <2>2, FS_CardinalityType
  <2> QED  BY <1>0, <1>2, <2>3, PermitTypes
<1>3. CASE /\ cleanupSlots > 0 /\ cleanupSlots' = cleanupSlots - 1
           /\ \E w \in Writes : Cleanups' = Cleanups \cup {w}
  <2>1. PICK w \in Writes : Cleanups' = Cleanups \cup {w}
    BY <1>3
  <2>2. Cardinality(Cleanups \cup {w}) <= Cardinality(Cleanups) + 1 /\ IsFiniteSet(Cleanups \cup {w})
    <3>1. IsFiniteSet(Cleanups)
      BY PermitTypes
    <3>2. /\ IsFiniteSet(Cleanups \cup {w})
          /\ Cardinality(Cleanups \cup {w}) =
               IF w \in Cleanups THEN Cardinality(Cleanups) ELSE Cardinality(Cleanups) + 1
      BY <3>1, FS_AddElement
    <3> QED  BY <1>0, <3>2
  <2>3. Cardinality(Cleanups') <= Cardinality(Cleanups) + 1 /\ Cardinality(Cleanups') \in Nat
    BY <2>1, <2>2, FS_CardinalityType
  <2> QED  BY <1>0, <1>3, <2>3, PermitTypes
<1> QED  BY <1>1, <1>2, <1>3

(***************************************************************************)
(* Jobs and releases.                                                      *)
(***************************************************************************)

\* A job goes on: nothing that its peer keeps depends on how far it is.
LEMMA JobPeers ==
  ASSUME IInv, NEW w \in Writes, job[w] \in Running, NEW stage \in Running \cup {"delivered"},
         job' = [job EXCEPT ![w] = stage],
         UNCHANGED <<req, life, queue, active, owed, stalled, cancelling, streams, answers>>,
         \A v \in Writes : v # w /\ lease[v] = "none" => lease'[v] = "none"
  PROVE  /\ QueueSound' /\ StreamSound' /\ UnusedSound' /\ ActiveSound' /\ OwedSound'
         /\ job' \in [Writes -> {"none", "handoff", "check", "start", "starting", "host",
                                 "returned", "freed", "delivered"}]
         /\ w \in Admitted /\ Admitted' = Admitted /\ job[w] # "none" /\ stage # "none"
         /\ job'[w] = stage /\ \A v \in Writes : v # w => job'[v] = job[v]
<1>0. /\ job \in [Writes -> {"none", "handoff", "check", "start", "starting", "host",
                             "returned", "freed", "delivered"}]
      /\ job[w] # "none" /\ stage # "none" /\ req[w] # None /\ w \in Admitted
  BY DEF IInv, TypeOK, UnusedSound, Running, Busy, Early, Admitted
<1>1. /\ job' \in [Writes -> {"none", "handoff", "check", "start", "starting", "host",
                              "returned", "freed", "delivered"}]
      /\ job'[w] = stage /\ \A v \in Writes : v # w => job'[v] = job[v]
  BY <1>0 DEF Running, Busy, Early
<1>2. Admitted' = Admitted /\ (\A v \in Writes : Open(v)' = Open(v))
  BY DEF Admitted, Open
<1>3. QueueSound'
  <2>1. \A p \in Peers : \A v \in queue[p] : v \in Writes /\ v # w
    BY <1>0 DEF IInv, QueueSound, Admitted
  <2> QED  BY <1>1, <1>2, <2>1 DEF IInv, QueueSound
<1>4. StreamSound'
  BY <1>2 DEF IInv, StreamSound, Admitted
<1>5. UnusedSound'
  BY <1>0, <1>1 DEF IInv, UnusedSound
<1>6. ActiveSound'
  <2>1. \A p \in Peers : active[p] # 0 =>
          active[p] \in Admitted /\ req[active[p]].peer = p /\ job'[active[p]] # "none"
    BY <1>0, <1>1 DEF IInv, ActiveSound, Admitted
  <2>2. \A v \in Writes : job'[v] \in Running => active[req[v].peer] = v
    BY <1>1 DEF IInv, ActiveSound
  <2> QED  BY <1>2, <2>1, <2>2 DEF ActiveSound
<1>7. OwedSound'
  BY DEF IInv, OwedSound, Live
<1> QED  BY <1>0, <1>1, <1>2, <1>3, <1>4, <1>5, <1>6, <1>7

\* The steps of a job up to the call of the host.
LEMMA EarlyInv ==
  ASSUME IInv, NEW w \in Writes, job[w] \in Early, NEW stage \in (Early \ {"handoff"}) \cup {"host"},
         job' = [job EXCEPT ![w] = stage],
         UNCHANGED <<now, req, life, queue, active, owed, stalled, cancelling, streams, closed, answers,
                     lease, result, cancelled, resources, fullFree, deviceFree, writeSlots, cleanupSlots>>,
         started' = started \/ started' = started \cup {w},
         IF stage = "host" THEN ran' = ran \cup {w} ELSE ran' = ran,
         stage \in {"starting", "host"} => w \in started',
         job[w] = "handoff" => Handoff(w) = {}
  PROVE  IInv'
<1>0. /\ job[w] \in Running /\ stage \in Running \cup {"delivered"} /\ job[w] \in Busy /\ stage \in Busy
      /\ stage \in Early \cup {"host"} /\ job[w] \notin Ended /\ stage \notin Ended
  BY DEF Running, Busy, Early, Ended
<1>1. /\ QueueSound' /\ StreamSound' /\ UnusedSound' /\ ActiveSound' /\ OwedSound'
      /\ job' \in [Writes -> {"none", "handoff", "check", "start", "starting", "host",
                              "returned", "freed", "delivered"}]
      /\ w \in Admitted /\ Admitted' = Admitted
      /\ job'[w] = stage /\ \A v \in Writes : v # w => job'[v] = job[v]
  BY <1>0, JobPeers
<1>2. TypeOK'
  BY <1>1 DEF IInv, TypeOK
<1>3. StartedSound'
  BY <1>0, <1>1 DEF IInv, StartedSound, Early
<1>4. ResultSound'
  BY <1>0, <1>1 DEF IInv, ResultSound, Ended
<1>5. CancelSound'
  BY <1>0, <1>1 DEF IInv, CancelSound
<1>6. LeaseSound'
  BY <1>0, <1>1 DEF IInv, LeaseSound, Open
<1>7. HandoffSound'
  <2>1. \A s \in Writes : lease[s] = "handoff" => req[s].peer # req[w].peer
    BY <1>0 DEF IInv, HandoffSound, Handoff
  <2>2. ASSUME NEW v \in Writes
        PROVE  /\ job'[v] \in Early \cup {"host"} => job[v] \in Early \cup {"host"}
               /\ v # w => job'[v] = job[v]
    BY <1>0, <1>1
  <2>3. \A v \in Writes : job'[v] \in Early \cup {"host"} /\ req[v].kind = "full" =>
          \A s \in Writes : lease[s] = "stream" /\ req[s].kind = "control" /\ req[s].peer = req[v].peer
            => req[s].session # req[v].session
    BY <2>2 DEF IInv, HandoffSound
  <2>4. \A v \in Writes : job'[v] \in (Early \ {"handoff"}) \cup {"host"} =>
          \A s \in Writes : lease[s] = "handoff" => req[s].peer # req[v].peer
    BY <2>1, <2>2 DEF IInv, HandoffSound
  <2> QED  BY <2>3, <2>4 DEF HandoffSound
<1>8. PermitSound'
  BY <1>0, <1>1 DEF IInv, PermitSound, Dev, Admitted
<1>9. \A v \in Writes : Holds(v)' => Holds(v)
  BY <1>0, <1>1 DEF Holds, Open
<1>10. Jobs' = Jobs /\ Cleanups' = Cleanups
  BY <1>0, <1>1 DEF Jobs, Cleanups
<1>11. PermitsCounted' /\ FullSound'
  BY <1>9, <1>10, PermitsKept, SlotsCounted, CleanupsCounted DEF PermitsCounted
<1>k. KeptSound'
  BY DEF IInv, KeptSound, Open
<1> QED  BY <1>k, <1>1, <1>2, <1>3, <1>4, <1>5, <1>6, <1>7, <1>8, <1>11 DEF IInv

\* The job returns without a Lease.
LEMMA FailInv ==
  ASSUME IInv, NEW w \in Writes, job[w] \in Early \cup {"host"},
         NEW code \in {"dropped", "unknown", "failed", "stalled"}, Fail(w, code),
         code = "dropped" => w \notin ran,
         UNCHANGED <<now, req, life, queue, active, owed, stalled, cancelling, streams, closed, answers,
                     cancelled, started, ran>>
  PROVE  IInv'
<1>0. /\ job[w] \in Running /\ "returned" \in Running \cup {"delivered"} /\ job[w] \in Busy
      /\ "returned" \in Busy /\ "returned" \in Ended /\ "returned" \notin Early
      /\ job[w] \notin Ended
  BY DEF Running, Busy, Early, Ended
<1>1. /\ job' = [job EXCEPT ![w] = "returned"] /\ result' = [result EXCEPT ![w] = code]
      /\ DropClosures({w}) /\ UNCHANGED <<lease, deviceFree, writeSlots, cleanupSlots>>
  BY DEF Fail
<1>2. /\ QueueSound' /\ StreamSound' /\ UnusedSound' /\ ActiveSound' /\ OwedSound'
      /\ job' \in [Writes -> {"none", "handoff", "check", "start", "starting", "host",
                              "returned", "freed", "delivered"}]
      /\ w \in Admitted /\ Admitted' = Admitted
      /\ job'[w] = "returned" /\ \A v \in Writes : v # w => job'[v] = job[v]
  BY <1>0, <1>1, JobPeers
<1>3. /\ result' \in [Writes -> {"none", "ok", "dropped", "unknown", "failed", "stalled"}]
      /\ result'[w] = code /\ \A v \in Writes : v # w => result'[v] = result[v]
  BY <1>1 DEF IInv, TypeOK
<1>4. StartedSound'
  BY <1>0, <1>2 DEF IInv, StartedSound, Early
<1>5. ResultSound'
  BY <1>0, <1>2, <1>3 DEF IInv, ResultSound
<1>6. CancelSound'
  BY <1>0, <1>2 DEF IInv, CancelSound
<1>7. LeaseSound' /\ lease[w] = "none"
  BY <1>0, <1>1, <1>2 DEF IInv, LeaseSound, Open
<1>8. HandoffSound'
  BY <1>0, <1>1, <1>2 DEF IInv, HandoffSound
<1>9. PermitSound'
  BY <1>0, <1>1, <1>2 DEF IInv, PermitSound, Dev, Admitted
<1>10. \A v \in Writes : Holds(v)' => Holds(v) /\ (v \in {w} => ~Open(v))
  <2>1. w \notin queue[req[w].peer]
    <3>1. req[w].peer \in Peers /\ job[w] # "none"
      BY <1>0, <1>2, AdmittedFields DEF IInv, Running, Busy, Early
    <3> QED  BY <3>1 DEF IInv, QueueSound
  <2>2. ~Holds(w)'
    BY <1>0, <1>1, <1>2, <1>7, <2>1 DEF Holds, Held
  <2> QED  BY <1>1, <1>2, <2>2 DEF Holds, Open
<1>11. Open(w) => Holds(w)
  BY <1>2 DEF Holds
<1>12. Jobs' = Jobs /\ Cleanups' = Cleanups
  BY <1>0, <1>1, <1>2 DEF Jobs, Cleanups
<1>13. /\ PermitsCounted' /\ FullSound' /\ fullFree' \subseteq Devices
       /\ resources' \in 0 .. MAX_RESOURCES
  <2>1. {w} \in SUBSET Admitted
    BY <1>2
  <2>2. /\ FullSound' /\ fullFree' \subseteq Devices
        /\ Cardinality(Holders') + resources' <= MAX_RESOURCES
        /\ resources' \in 0 .. MAX_RESOURCES
    BY <1>1, <1>10, <1>11, <2>1, PermitsBack
  <2> QED  BY <1>1, <1>12, <2>2, SlotsCounted, CleanupsCounted DEF PermitsCounted
<1>14. TypeOK'
  BY <1>1, <1>2, <1>3, <1>13 DEF IInv, TypeOK
<1>k. KeptSound'
  BY <1>1, <1>3 DEF IInv, KeptSound, Open
<1> QED  BY <1>k, <1>2, <1>4, <1>5, <1>6, <1>7, <1>8, <1>9, <1>13, <1>14 DEF IInv

\* The host returns in time, or an open too late for its peer.
LEMMA ReturnInv ==
  ASSUME IInv, NEW w \in Writes, job[w] = "host", NEW code \in {"ok", "unknown"}, NEW place \in {"job", "waiting"},
         job' = [job EXCEPT ![w] = "returned"], result' = [result EXCEPT ![w] = code],
         lease' = IF Open(w) THEN [lease EXCEPT ![w] = place] ELSE lease,
         code = "ok" => w \in ran /\ place = "job",
         UNCHANGED <<now, req, life, queue, active, owed, stalled, cancelling, streams, closed, answers,
                     cancelled, started, ran, resources, fullFree, deviceFree, writeSlots, cleanupSlots>>
  PROVE  IInv'
<1>0. /\ job[w] \in Running /\ "returned" \in Running \cup {"delivered"} /\ job[w] \in Busy
      /\ "returned" \in Busy /\ "returned" \in Ended /\ "returned" \notin Early /\ job[w] \notin Ended
      /\ lease[w] = "none"
  BY DEF Running, Busy, Early, Ended, IInv, LeaseSound
<1>a. /\ lease' \in [Writes -> {"none", "job", "stream", "handoff", "waiting", "cleaning", "gone"}]
      /\ Open(w) => lease'[w] = place
      /\ ~Open(w) => lease' = lease
      /\ \A v \in Writes : v # w => lease'[v] = lease[v]
  BY DEF IInv, TypeOK
<1>2. /\ QueueSound' /\ StreamSound' /\ UnusedSound' /\ ActiveSound' /\ OwedSound'
      /\ job' \in [Writes -> {"none", "handoff", "check", "start", "starting", "host",
                              "returned", "freed", "delivered"}]
      /\ w \in Admitted /\ Admitted' = Admitted
      /\ job'[w] = "returned" /\ \A v \in Writes : v # w => job'[v] = job[v]
  BY <1>0, <1>a, JobPeers
<1>3. /\ result' \in [Writes -> {"none", "ok", "dropped", "unknown", "failed", "stalled"}]
      /\ result'[w] = code /\ \A v \in Writes : v # w => result'[v] = result[v]
  BY DEF IInv, TypeOK
<1>4. StartedSound'
  BY <1>0, <1>2 DEF IInv, StartedSound, Early
<1>5. ResultSound'
  BY <1>0, <1>2, <1>3 DEF IInv, ResultSound
<1>6. CancelSound'
  BY <1>0, <1>2 DEF IInv, CancelSound
<1>7. LeaseSound'
  BY <1>0, <1>a, <1>2 DEF IInv, LeaseSound, Open
<1>8. HandoffSound'
  BY <1>0, <1>a, <1>2 DEF IInv, HandoffSound
<1>9. PermitSound'
  BY <1>0, <1>2 DEF IInv, PermitSound, Dev, Admitted
<1>10. \A v \in Writes : Holds(v)' => Holds(v)
  BY <1>0, <1>a, <1>2 DEF Holds, Open
<1>11. Jobs' = Jobs /\ Cleanups' = Cleanups
  BY <1>0, <1>a, <1>2 DEF Jobs, Cleanups
<1>12. PermitsCounted' /\ FullSound'
  BY <1>10, <1>11, PermitsKept, SlotsCounted, CleanupsCounted DEF PermitsCounted
<1>13. TypeOK'
  BY <1>a, <1>2, <1>3 DEF IInv, TypeOK
<1>k. KeptSound'
  <2>1. \A v \in Writes : v # w /\ result'[v] = "ok" /\ Open(v) /\ v \in streams[req[v].peer]
          => lease'[v] = "job"
    BY <1>a, <1>3 DEF IInv, KeptSound
  <2>2. result'[w] = "ok" /\ Open(w) => lease'[w] = "job"
    BY <1>a, <1>3
  <2> QED  BY <2>1, <2>2 DEF KeptSound, Open
<1> QED  BY <1>k, <1>2, <1>4, <1>5, <1>6, <1>7, <1>8, <1>9, <1>12, <1>13 DEF IInv

LEMMA FreeInv ==
  ASSUME IInv, NEW w \in Writes, JobFree(w)
  PROVE  IInv'
<1>0. /\ job[w] = "returned" /\ job' = [job EXCEPT ![w] = "freed"]
      /\ deviceFree' = deviceFree \cup {Dev(w)} /\ writeSlots' = writeSlots + 1
      /\ UNCHANGED <<now, req, life, queue, active, owed, stalled, cancelling, streams, closed, answers,
                     cancelled, started, result, ran, lease, resources, fullFree, cleanupSlots>>
  BY DEF JobFree, peerUnchanged, peerVars
<1>1. /\ job[w] \in Running /\ "freed" \in Running /\ job[w] \in Busy
      /\ "freed" \notin Busy /\ "freed" \in Ended /\ "freed" \notin Early
  BY <1>0 DEF Running, Busy, Early, Ended
<1>2. /\ QueueSound' /\ StreamSound' /\ UnusedSound' /\ ActiveSound' /\ OwedSound'
      /\ job' \in [Writes -> {"none", "handoff", "check", "start", "starting", "host",
                              "returned", "freed", "delivered"}]
      /\ w \in Admitted /\ Admitted' = Admitted
      /\ job'[w] = "freed" /\ \A v \in Writes : v # w => job'[v] = job[v]
  BY <1>0, <1>1, JobPeers
<1>3. StartedSound' /\ ResultSound'
  BY <1>0, <1>1, <1>2 DEF IInv, StartedSound, ResultSound
<1>4. CancelSound'
  BY <1>0, <1>1, <1>2 DEF IInv, CancelSound
<1>5. LeaseSound' /\ HandoffSound'
  BY <1>0, <1>1, <1>2 DEF IInv, LeaseSound, HandoffSound, Open
<1>6. PermitSound' /\ Dev(w) \in Devices
  <2>1. Dev(w) \in Devices
    BY <1>2, AdmittedFields DEF IInv
  <2>2. \A v \in Writes : Dev(v)' = Dev(v)
    BY <1>0 DEF Dev
  <2>3. ASSUME NEW d \in Devices, d \notin deviceFree'
        PROVE  \E v \in Admitted : Dev(v) = d /\ job'[v] \in Busy
    <3>1. PICK v \in Admitted : Dev(v) = d /\ job[v] \in Busy
      BY <1>0, <2>3 DEF IInv, PermitSound
    <3>2. v # w /\ v \in Writes
      BY <1>0, <2>3, <3>1 DEF Admitted
    <3> QED  BY <1>2, <3>1, <3>2
  <2>4. \A d \in Devices : d \in deviceFree' \/ \E v \in Admitted' : Dev(v)' = d /\ job'[v] \in Busy
    BY <1>2, <2>2, <2>3 DEF Admitted
  <2> QED  BY <2>1, <2>4 DEF PermitSound
<1>7. \A v \in Writes : Holds(v)' => Holds(v)
  BY <1>0, <1>1, <1>2 DEF Holds, Open
<1>8. Jobs' = Jobs \ {w} /\ w \in Jobs /\ Cleanups' = Cleanups
  BY <1>0, <1>1, <1>2 DEF Jobs, Cleanups
<1>9. PermitsCounted' /\ FullSound' /\ writeSlots' \in 0 .. WRITE_SLOTS
  BY <1>0, <1>7, <1>8, PermitsKept, SlotsCounted, CleanupsCounted DEF PermitsCounted
<1>10. TypeOK'
  BY <1>0, <1>2, <1>6, <1>9 DEF IInv, TypeOK
<1>k. KeptSound'
  BY <1>0 DEF IInv, KeptSound, Open
<1> QED  BY <1>k, <1>2, <1>3, <1>4, <1>5, <1>6, <1>9, <1>10 DEF IInv

LEMMA DeliverInv ==
  ASSUME IInv, NEW w \in Writes, JobDeliver(w)
  PROVE  IInv'
<1>0. /\ job[w] = "freed" /\ job' = [job EXCEPT ![w] = "delivered"]
      /\ UNCHANGED <<now, req, life, queue, active, owed, stalled, cancelling, streams, closed, answers,
                     ran, resources, fullFree, deviceFree, writeSlots, cleanupSlots>>
  BY DEF JobDeliver, peerVars, permitVars
<1>1. /\ job[w] \in Running /\ job[w] \notin Busy /\ "delivered" \notin Running
      /\ "delivered" \notin Busy /\ "delivered" \in Ended /\ "delivered" \notin Early
  BY <1>0 DEF Running, Busy, Early, Ended
<1>a. /\ lease' \in [Writes -> {"none", "job", "stream", "handoff", "waiting", "cleaning", "gone"}]
      /\ \A v \in Writes : v # w => lease'[v] = lease[v]
      /\ \/ lease'[w] = lease[w]
         \/ lease[w] \in {"stream", "job"} /\ lease'[w] = "waiting"
  BY DEF JobDeliver, Released, IInv, TypeOK
<1>b. /\ result' \in [Writes -> {"none", "ok", "dropped", "unknown", "failed", "stalled"}]
      /\ \A v \in Writes : v # w => result'[v] = result[v]
      /\ result'[w] = result[w] \/ (result'[w] = "none" /\ life[req[w].peer] = "gone")
      /\ started' \subseteq started /\ cancelled' \subseteq cancelled
      /\ \A v \in Writes : v # w => (v \in started => v \in started') /\ (v \in cancelled => v \in cancelled')
      /\ w \in started => (w \in started' \/ life[req[w].peer] = "gone")
      /\ w \in cancelled => (w \in cancelled' \/ life[req[w].peer] = "gone")
  BY DEF JobDeliver, DropFlags, IInv, TypeOK
<1>2. /\ QueueSound' /\ StreamSound' /\ UnusedSound' /\ ActiveSound' /\ OwedSound'
      /\ job' \in [Writes -> {"none", "handoff", "check", "start", "starting", "host",
                              "returned", "freed", "delivered"}]
      /\ w \in Admitted /\ Admitted' = Admitted
      /\ job'[w] = "delivered" /\ \A v \in Writes : v # w => job'[v] = job[v]
  BY <1>0, <1>1, <1>a, JobPeers
<1>3. StartedSound'
  BY <1>0, <1>1, <1>b, <1>2 DEF IInv, StartedSound
<1>4. ResultSound'
  BY <1>0, <1>1, <1>b, <1>2 DEF IInv, ResultSound
<1>5. CancelSound'
  <2>1. \A v \in Writes : job'[v] \in Running /\ answers[v] # <<>> => v \in cancelled'
    BY <1>0, <1>1, <1>b, <1>2 DEF IInv, CancelSound
  <2>2. ASSUME NEW p \in Peers, cancelling[p] # 0
        PROVE  cancelling[p] \in cancelled'
    <3>1. /\ cancelling[p] = active[p] /\ life[p] # "gone" /\ cancelling[p] \in cancelled
          /\ cancelling[p] \in Writes /\ req[cancelling[p]].peer = p
      BY <2>2 DEF IInv, OwedSound, CancelSound, ActiveSound, Admitted
    <3> QED  BY <1>b, <3>1
  <2> QED  BY <1>0, <2>1, <2>2 DEF CancelSound
<1>6. LeaseSound'
  BY <1>0, <1>1, <1>a, <1>2 DEF IInv, LeaseSound, Open
<1>7. HandoffSound'
  BY <1>0, <1>1, <1>a, <1>2 DEF IInv, HandoffSound
<1>8. PermitSound'
  BY <1>0, <1>1, <1>2 DEF IInv, PermitSound, Dev, Admitted
<1>9. \A v \in Writes : Holds(v)' => Holds(v)
  BY <1>0, <1>1, <1>a, <1>2 DEF Holds, Open, Held
<1>10. Jobs' = Jobs /\ Cleanups' = Cleanups
  BY <1>0, <1>1, <1>a, <1>2 DEF Jobs, Cleanups
<1>11. PermitsCounted' /\ FullSound'
  BY <1>0, <1>9, <1>10, PermitsKept, SlotsCounted, CleanupsCounted DEF PermitsCounted
<1>12. TypeOK'
  BY <1>0, <1>a, <1>b, <1>2 DEF IInv, TypeOK
<1>k. KeptSound'
  <2>1. result'[w] = "none" \/ (result'[w] = result[w] /\ lease'[w] = lease[w])
    BY DEF JobDeliver, DropFlags, IInv, TypeOK
  <2>2. \A v \in Writes : Open(v)' = Open(v)
    BY <1>0 DEF Open
  <2> QED  BY <1>0, <1>a, <1>b, <2>1, <2>2 DEF IInv, KeptSound
<1> QED  BY <1>k, <1>2, <1>3, <1>4, <1>5, <1>6, <1>7, <1>8, <1>11, <1>12 DEF IInv

\* A Lease is released: handed off, scheduled, or done.
LEMMA ReleaseInv ==
  ASSUME IInv, NEW w \in Writes, NEW place \in {"cleaning", "gone"}, lease[w] \in {"handoff", "waiting", "cleaning"},
         lease' = [lease EXCEPT ![w] = place],
         UNCHANGED <<now, req, life, queue, active, owed, stalled, cancelling, streams, closed, answers,
                     job, cancelled, started, result, ran, deviceFree, writeSlots>>,
         \/ lease[w] = "handoff" /\ place = "gone" /\ DropClosures({w}) /\ cleanupSlots' = cleanupSlots
         \/ /\ lease[w] = "waiting" /\ place = "cleaning" /\ UNCHANGED <<resources, fullFree>>
            /\ cleanupSlots > 0 /\ cleanupSlots' = cleanupSlots - 1
         \/ /\ lease[w] = "cleaning" /\ place = "gone" /\ DropClosures({w})
            /\ cleanupSlots' = cleanupSlots + 1
  PROVE  IInv'
<1>0. /\ lease' \in [Writes -> {"none", "job", "stream", "handoff", "waiting", "cleaning", "gone"}]
      /\ lease'[w] = place /\ \A v \in Writes : v # w => lease'[v] = lease[v]
  BY DEF IInv, TypeOK
<1>1. /\ w \in Admitted /\ Open(w) /\ job[w] \notin Early \cup {"none", "host"} /\ Admitted' = Admitted
      /\ w \notin queue[req[w].peer] /\ req[w].peer \in Peers
  <2>1. w \in Admitted /\ Open(w) /\ job[w] \notin Early \cup {"none", "host"} /\ Admitted' = Admitted
    BY DEF IInv, LeaseSound, Admitted
  <2>2. req[w].peer \in Peers
    BY <2>1, AdmittedFields DEF IInv
  <2> QED  BY <2>1, <2>2 DEF IInv, QueueSound
<1>2. QueueSound' /\ StreamSound' /\ ActiveSound' /\ OwedSound'
  BY DEF IInv, QueueSound, StreamSound, ActiveSound, OwedSound, Admitted, Open, Live
<1>3. UnusedSound'
  BY <1>0, <1>1 DEF IInv, UnusedSound, Admitted
<1>4. StartedSound' /\ ResultSound' /\ CancelSound'
  BY DEF IInv, StartedSound, ResultSound, CancelSound
<1>5. LeaseSound'
  BY <1>0, <1>1 DEF IInv, LeaseSound, Open
<1>6. HandoffSound'
  BY <1>0 DEF IInv, HandoffSound
<1>7. PermitSound' /\ Jobs' = Jobs
  BY DEF IInv, PermitSound, Dev, Admitted, Jobs
<1>8. Holds(w) /\ \A v \in Writes : Holds(v)' => Holds(v)
  BY <1>0, <1>1 DEF Holds, Held, Open
<1>9. place = "gone" => ~Holds(w)'
  BY <1>0, <1>1 DEF Holds, Held
<1>10. /\ FullSound' /\ fullFree' \subseteq Devices
       /\ Cardinality(Holders') + resources' <= MAX_RESOURCES
       /\ resources' \in 0 .. MAX_RESOURCES
  <2>1. {w} \in SUBSET Admitted
    BY <1>1
  <2>2. CASE place = "gone"
    BY <1>8, <1>9, <2>1, <2>2, PermitsBack
  <2>3. CASE place = "cleaning"
    BY <1>8, <2>3, PermitsKept
  <2> QED  BY <2>2, <2>3
<1>11. Cardinality(Cleanups') + cleanupSlots' <= CLEANUP_SLOTS /\ cleanupSlots' \in 0 .. CLEANUP_SLOTS
  <2>1. CASE lease[w] = "handoff"
    BY <1>0, <2>1, CleanupsCounted DEF Cleanups
  <2>2. CASE lease[w] = "waiting"
    <3>1. Cleanups' = Cleanups \cup {w}
      BY <1>0, <2>2 DEF Cleanups
    <3> QED  BY <2>2, <3>1, CleanupsCounted
  <2>3. CASE lease[w] = "cleaning"
    <3>1. Cleanups' = Cleanups \ {w} /\ w \in Cleanups
      BY <1>0, <2>3 DEF Cleanups
    <3> QED  BY <2>3, <3>1, CleanupsCounted
  <2> QED  BY <2>1, <2>2, <2>3
<1>12. PermitsCounted'
  BY <1>7, <1>10, <1>11, SlotsCounted DEF PermitsCounted
<1>13. TypeOK'
  BY <1>0, <1>10, <1>11 DEF IInv, TypeOK
<1>k. KeptSound'
  <2>1. result[w] = "ok" /\ Open(w) /\ w \in streams[req[w].peer] => lease[w] = "job"
    BY DEF IInv, KeptSound
  <2>2. \A v \in Writes : Open(v)' = Open(v)
    BY DEF Open
  <2> QED  BY <1>0, <2>1, <2>2 DEF IInv, KeptSound
<1> QED  BY <1>k, <1>2, <1>3, <1>4, <1>5, <1>6, <1>7, <1>10, <1>12, <1>13 DEF IInv

\* Every step of a job, and of a release.
LEMMA JobInv ==
  ASSUME IInv, NEW w \in Writes, JobStep(w) \/ HostStep(w)
  PROVE  IInv'
<1>1. CASE JobHandoff(w)
  <2>0. /\ job[w] = "handoff"
        /\ UNCHANGED <<now, req, life, queue, active, owed, stalled, cancelling, streams, closed, answers,
                       cancelled, started, result, ran, fullFree, deviceFree, writeSlots, cleanupSlots>>
    BY <1>1 DEF JobHandoff, peerUnchanged, peerVars
  <2>1. CASE Handoff(w) = {}
    <3>1. job' = [job EXCEPT ![w] = "check"] /\ UNCHANGED <<lease, resources>>
      BY <1>1, <2>1 DEF JobHandoff
    <3> QED  BY <2>0, <2>1, <3>1, EarlyInv DEF Early
  <2>2. CASE Handoff(w) # {}
    <3>1. PICK s \in Handoff(w) : lease' = [lease EXCEPT ![s] = "gone"]
      BY <1>1, <2>2 DEF JobHandoff
    <3>2. resources' = resources + 1 /\ job' = job
      BY <1>1, <2>2 DEF JobHandoff
    <3>3. s \in Writes /\ lease[s] = "handoff" /\ req[s].kind = "control"
      BY DEF Handoff, IInv, LeaseSound
    <3>4. DropClosures({s})
      <4>1. {v \in {s} : Open(v)} = {s} /\ {v \in {s} : req[v].kind = "full"} = {} /\ Cardinality({s}) = 1
        BY <3>3, FS_Singleton DEF Open
      <4> QED  BY <2>0, <3>2, <4>1 DEF DropClosures
    <3> QED  BY <2>0, <3>1, <3>2, <3>3, <3>4, ReleaseInv
  <2> QED  BY <2>1, <2>2
<1>2. CASE JobCheck(w)
  <2>0. /\ job[w] = "check" /\ w \notin ran
        /\ UNCHANGED <<now, req, life, queue, active, owed, stalled, cancelling, streams, closed, answers,
                       cancelled, started, ran>>
    BY <1>2 DEF JobCheck, peerUnchanged, peerVars, IInv, StartedSound, Early
  <2>1. CASE Fail(w, "dropped") \/ Fail(w, "failed")
    BY <2>0, <2>1, FailInv DEF Early
  <2>2. CASE job' = [job EXCEPT ![w] = "start"] /\ UNCHANGED <<result, lease, permitVars>>
    BY <2>0, <2>2, EarlyInv DEF Early, permitVars
  <2> QED  BY <1>2, <2>1, <2>2 DEF JobCheck
<1>3. CASE JobStart(w)
  <2>0. /\ job[w] = "start" /\ job' = [job EXCEPT ![w] = "starting"] /\ started' = started \cup {w}
        /\ UNCHANGED <<now, req, life, queue, active, owed, stalled, cancelling, streams, closed, answers,
                       cancelled, result, ran, lease, resources, fullFree, deviceFree, writeSlots, cleanupSlots>>
    BY <1>3 DEF JobStart, peerUnchanged, peerVars, permitVars
  <2> QED  BY <2>0, EarlyInv DEF Early
<1>4. CASE JobStartCheck(w)
  <2>0. /\ job[w] = "starting" /\ w \in started
        /\ UNCHANGED <<now, req, life, queue, active, owed, stalled, cancelling, streams, closed, answers,
                       cancelled, started>>
    BY <1>4 DEF JobStartCheck, peerUnchanged, peerVars, IInv, StartedSound
  <2>1. CASE Fail(w, Verdict(w)) /\ UNCHANGED ran
    <3>1. Verdict(w) = "unknown"
      BY <2>0 DEF Verdict
    <3> QED  BY <2>0, <2>1, <3>1, FailInv DEF Early
  <2>2. CASE /\ job' = [job EXCEPT ![w] = "host"] /\ ran' = ran \cup {w}
             /\ UNCHANGED <<result, lease, permitVars>>
    BY <2>0, <2>2, EarlyInv DEF Early, permitVars
  <2> QED  BY <1>4, <2>1, <2>2 DEF JobStartCheck
<1>5. CASE JobReturn(w)
  <2>0. /\ job[w] = "host"
        /\ UNCHANGED <<now, req, life, queue, active, owed, stalled, cancelling, streams, closed, answers,
                       cancelled, started, ran>>
    BY <1>5 DEF JobReturn, peerUnchanged, peerVars
  <2>1. CASE Fail(w, "failed") \/ Fail(w, "stalled")
    BY <2>0, <2>1, FailInv DEF Early
  <2>2. CASE ~(Fail(w, "failed") \/ Fail(w, "stalled"))
    <3>1. /\ job' = [job EXCEPT ![w] = "returned"] /\ UNCHANGED permitVars
          /\ \E late \in BOOLEAN :
               /\ result' = [result EXCEPT ![w] = IF late THEN "unknown" ELSE "ok"]
               /\ lease' = IF Open(w) THEN [lease EXCEPT ![w] = IF late THEN "waiting" ELSE "job"]
                           ELSE lease
      BY <1>5, <2>2 DEF JobReturn
    <3>2. PICK code \in {"ok", "unknown"}, place \in {"job", "waiting"} :
            /\ result' = [result EXCEPT ![w] = code]
            /\ lease' = IF Open(w) THEN [lease EXCEPT ![w] = place] ELSE lease
            /\ code = "ok" => place = "job"
      BY <3>1
    <3>3. w \in ran
      BY <2>0 DEF IInv, StartedSound
    <3> QED  BY <2>0, <3>1, <3>2, <3>3, ReturnInv DEF permitVars
  <2> QED  BY <2>1, <2>2
<1>6. CASE JobFree(w) \/ JobDeliver(w)
  BY <1>6, FreeInv, DeliverInv
<1>7. CASE CleanupStart(w)
  <2>0. /\ lease[w] = "waiting" /\ cleanupSlots > 0 /\ lease' = [lease EXCEPT ![w] = "cleaning"]
        /\ cleanupSlots' = cleanupSlots - 1
        /\ UNCHANGED <<now, req, life, queue, active, owed, stalled, cancelling, streams, closed, answers,
                       job, cancelled, started, result, ran, resources, fullFree, deviceFree, writeSlots>>
    BY <1>7 DEF CleanupStart, peerUnchanged, peerVars, jobVars
  <2> QED  BY <2>0, ReleaseInv
<1>8. CASE CleanupEnd(w)
  <2>0. /\ lease[w] = "cleaning" /\ lease' = [lease EXCEPT ![w] = "gone"] /\ DropClosures({w})
        /\ cleanupSlots' = cleanupSlots + 1
        /\ UNCHANGED <<now, req, life, queue, active, owed, stalled, cancelling, streams, closed, answers,
                       job, cancelled, started, result, ran, deviceFree, writeSlots>>
    BY <1>8 DEF CleanupEnd, peerUnchanged, peerVars, jobVars
  <2> QED  BY <2>0, ReleaseInv
<1> QED  BY <1>1, <1>2, <1>3, <1>4, <1>5, <1>6, <1>7, <1>8 DEF JobStep, HostStep

(***************************************************************************)
(* Peers: what their steps have in common.                                 *)
(***************************************************************************)

Codes == {"ok", "dropped", "unknown", "busy", "failed"}

\* Nothing is performed, and whoever is answered is answered once and truly.
AnswerStep ==
  /\ ran' = ran
  /\ \A v \in Writes : answers'[v] # answers[v] =>
       /\ answers[v] = <<>>
       /\ \E c \in Codes :
            /\ answers'[v] = <<c>>
            /\ c = "ok" => v \in ran
            /\ c \in {"dropped", "busy"} => v \notin ran

LEMMA FirstAnswer ==
  ASSUME TypeOK, NEW v \in Writes, answers[v] = <<>>, NEW c \in Codes
  PROVE  Append(answers[v], c) = <<c>> /\ Append(answers[v], c) \in Seq(Codes)
<1>1. answers[v] \in Seq(Codes)
  BY DEF TypeOK, Codes
<1> QED  BY <1>1

\* The first answer of w, and true.
TrueAnswer(w, code) ==
  /\ answers[w] = <<>>
  /\ code = "ok" => w \in ran
  /\ code \in {"dropped", "busy"} => w \notin ran

\* w is told `code`, and the queued writes of D are dropped.
Answered(w, code, D) ==
  answers' = [v \in Writes |-> IF v = w THEN Append(answers[v], code)
                              ELSE IF v \in D THEN Append(answers[v], "dropped")
                              ELSE answers[v]]

\* The writes of D were queued, and w is answered for another reason.
LEMMA AnswersGiven ==
  ASSUME IInv, NEW p \in Peers, NEW D \in SUBSET queue[p], ran' = ran,
         NEW w \in Writes \cup {0}, NEW code \in Codes, w \notin D,
         w # 0 => TrueAnswer(w, code),
         Answered(w, code, D)
  PROVE  /\ AnswerStep
         /\ answers' \in [Writes -> Seq(Codes)]
         /\ \A v \in Writes : v # w /\ v \notin D => answers'[v] = answers[v]
<1>1. \A v \in D : v \in Writes /\ answers[v] = <<>> /\ v \notin ran /\ job[v] = "none"
  BY DEF IInv, QueueSound, StartedSound, Admitted
<1>2. 0 \notin Writes /\ "dropped" \in Codes /\ answers \in [Writes -> Seq(Codes)] /\ TypeOK
  BY WritesFinite DEF Codes, IInv, TypeOK
<1>3. ASSUME NEW v \in Writes, v = w
      PROVE  /\ answers'[v] = <<code>> /\ answers'[v] \in Seq(Codes) /\ answers[v] = <<>>
             /\ code = "ok" => v \in ran
             /\ code \in {"dropped", "busy"} => v \notin ran
  BY <1>2, <1>3, FirstAnswer DEF Answered, TrueAnswer
<1>4. ASSUME NEW v \in Writes, v # w, v \in D
      PROVE  answers'[v] = <<"dropped">> /\ answers'[v] \in Seq(Codes) /\ answers[v] = <<>> /\ v \notin ran
  BY <1>1, <1>2, <1>4, FirstAnswer DEF Answered
<1>5. ASSUME NEW v \in Writes, v # w, v \notin D
      PROVE  answers'[v] = answers[v] /\ answers'[v] \in Seq(Codes)
  BY <1>2, <1>5 DEF Answered
<1>6. answers' \in [Writes -> Seq(Codes)]
  BY <1>3, <1>4, <1>5 DEF Answered
<1>7. AnswerStep
  BY <1>2, <1>3, <1>4, <1>5 DEF AnswerStep
<1> QED  BY <1>5, <1>6, <1>7

\* Queued writes of a peer are dropped with their permits, its streams are removed, and
\* Leases are given to be released; the Lease of a completed open may go to its stream.
LEMMA DropInv ==
  ASSUME IInv, NEW p \in Peers, NEW D \in SUBSET queue[p],
         queue' = [queue EXCEPT ![p] = @ \ D], DropClosures(D),
         UNCHANGED <<req, job, deviceFree, writeSlots, cleanupSlots>>,
         lease' \in [Writes -> {"none", "job", "stream", "handoff", "waiting", "cleaning", "gone"}],
         \A s \in Writes :
           \/ lease'[s] = lease[s]
           \/ lease[s] \in {"stream", "job"} /\ lease'[s] = "waiting"
           \/ /\ lease[s] = "job" /\ lease'[s] = "stream"
              /\ s = active[p] /\ s \in streams'[p] /\ job[s] = "delivered",
         \A q \in Peers : streams'[q] \subseteq streams[q],
         \A q \in Peers : \A s \in streams[q] : s \in streams'[q] \/ lease'[s] # "stream",
         \A q \in Peers : life'[q] = "gone" => life[q] = "gone" \/ queue'[q] = {},
         \A v \in Writes : answers'[v] = answers[v] \/ v \in D \/ job[v] # "none"
  PROVE  /\ QueueSound' /\ StreamSound' /\ UnusedSound' /\ LeaseSound' /\ HandoffSound'
         /\ PermitSound' /\ FullSound' /\ PermitsCounted'
         /\ queue' \in [Peers -> SUBSET Writes] /\ fullFree' \subseteq Devices
         /\ resources' \in 0 .. MAX_RESOURCES
<1>0. /\ queue \in [Peers -> SUBSET Writes] /\ Admitted' = Admitted /\ Admitted \subseteq Writes
      /\ \A v \in Writes : Open(v)' = Open(v) /\ Dev(v)' = Dev(v)
      /\ D \in SUBSET Admitted /\ \A v \in D : job[v] = "none" /\ req[v].peer = p
  BY DEF IInv, TypeOK, Admitted, Open, Dev, QueueSound
<1>1. /\ queue' \in [Peers -> SUBSET Writes]
      /\ \A q \in Peers : \A v \in queue'[q] : v \in queue[q] /\ v \in Writes /\ v \notin D
  <2>1. \A q \in Peers : q # p => \A v \in queue[q] : v \notin D
    BY <1>0 DEF IInv, QueueSound
  <2> QED  BY <1>0, <2>1
<1>2. QueueSound'
  <2> SUFFICES ASSUME NEW q \in Peers, NEW v \in queue'[q]
               PROVE  /\ v \in Admitted /\ req[v].peer = q
                      /\ job[v] = "none" /\ answers'[v] = <<>> /\ life'[q] # "gone"
    BY <1>0 DEF QueueSound
  <2>1. v \in queue[q] /\ v \in Writes /\ v \notin D
    BY <1>1
  <2> QED  BY <2>1 DEF IInv, QueueSound
<1>3. StreamSound'
  BY <1>0 DEF IInv, StreamSound
<1>4. UnusedSound'
  BY <1>0 DEF IInv, UnusedSound, Admitted
<1>5. LeaseSound'
  <2> SUFFICES ASSUME NEW w \in Writes
               PROVE  /\ job[w] \in Early \cup {"none", "host"} => lease'[w] = "none"
                      /\ lease'[w] # "none" => w \in Admitted /\ Open(w)
                      /\ lease'[w] = "stream" => w \in streams'[req[w].peer]
                      /\ lease'[w] = "handoff" => req[w].kind = "control"
    BY <1>0 DEF LeaseSound
  <2>1. /\ job[w] \in Early \cup {"none", "host"} => lease[w] = "none"
        /\ lease[w] # "none" => w \in Admitted /\ Open(w)
        /\ lease[w] = "stream" => w \in streams[req[w].peer]
        /\ lease[w] = "handoff" => req[w].kind = "control"
    BY DEF IInv, LeaseSound
  <2>2. CASE lease'[w] = lease[w]
    <3>1. w \in Admitted => req[w].peer \in Peers
      BY AdmittedFields DEF IInv
    <3> QED  BY <2>1, <2>2, <3>1
  <2>3. CASE lease[w] \in {"stream", "job"} /\ lease'[w] = "waiting"
    BY <2>1, <2>3
  <2>4. CASE /\ lease[w] = "job" /\ lease'[w] = "stream"
             /\ w = active[p] /\ w \in streams'[p] /\ job[w] = "delivered"
    <3>1. req[w].peer = p
      BY <2>4, WritesFinite DEF IInv, ActiveSound
    <3> QED  BY <2>1, <2>4, <3>1 DEF Early
  <2> QED  BY <2>2, <2>3, <2>4
<1>6. HandoffSound'
  <2> SUFFICES ASSUME NEW w \in Writes
               PROVE  /\ job[w] \in Early \cup {"host"} /\ req[w].kind = "full" =>
                           \A s \in Writes :
                             lease'[s] = "stream" /\ req[s].kind = "control" /\ req[s].peer = req[w].peer
                               => req[s].session # req[w].session
                      /\ job[w] \in (Early \ {"handoff"}) \cup {"host"} =>
                           \A s \in Writes : lease'[s] = "handoff" => req[s].peer # req[w].peer
    BY DEF HandoffSound
  <2>1. ASSUME NEW s \in Writes, lease'[s] = "stream", lease[s] # "stream", job[w] \in Early \cup {"host"}
        PROVE  req[s].peer # req[w].peer
    <3>1. s = active[p] /\ job[s] = "delivered" /\ req[s].peer = p
      BY <2>1, WritesFinite DEF IInv, ActiveSound
    <3>2. job[w] \in Running /\ active[req[w].peer] = w
      BY <2>1 DEF IInv, ActiveSound, Running, Busy
    <3>3. job[w] # "delivered"
      BY <2>1 DEF Early
    <3> QED  BY <3>1, <3>2, <3>3
  <2>2. \A s \in Writes : lease'[s] = "handoff" => lease[s] = "handoff"
    OBVIOUS
  <2> QED  BY <2>1, <2>2 DEF IInv, HandoffSound
<1>7. PermitSound'
  BY <1>0 DEF IInv, PermitSound
<1>8. \A v \in Writes : Holds(v)' => Holds(v) /\ (v \in D => ~Open(v))
  <2> SUFFICES ASSUME NEW v \in Writes, Holds(v)'
               PROVE  Holds(v) /\ v \notin D
    OBVIOUS
  <2>0. v \in Admitted /\ req[v].peer \in Peers /\ Open(v)
    BY <1>0, AdmittedFields DEF Holds, IInv
  <2>1. lease'[v] \in Held => lease[v] \in Held
    BY DEF Held
  <2>2. v \in D => job[v] = "none" /\ lease'[v] = "none" /\ v \notin queue'[req[v].peer]
    BY <1>0, <1>1, <1>5, <2>0 DEF LeaseSound
  <2>3. "none" \notin Early /\ "none" \notin Held
    BY DEF Early, Held
  <2> QED  BY <1>0, <1>1, <2>0, <2>1, <2>2, <2>3 DEF Holds
<1>9. \A v \in D : Open(v) => Holds(v)
  BY <1>0 DEF Holds
<1>10. /\ FullSound' /\ fullFree' \subseteq Devices
       /\ Cardinality(Holders') + resources' <= MAX_RESOURCES
       /\ resources' \in 0 .. MAX_RESOURCES
  BY <1>0, <1>8, <1>9, PermitsBack
<1>11. Jobs' = Jobs /\ Cleanups' \subseteq Cleanups
  BY DEF Jobs, Cleanups
<1>12. PermitsCounted'
  BY <1>10, <1>11, SlotsCounted, CleanupsCounted DEF PermitsCounted
<1> QED  BY <1>1, <1>2, <1>3, <1>4, <1>5, <1>6, <1>7, <1>10, <1>12

LEMMA ReleasedEffect ==
  ASSUME TypeOK, NEW S, lease' = Released(S)
  PROVE  /\ lease' \in [Writes -> {"none", "job", "stream", "handoff", "waiting", "cleaning", "gone"}]
         /\ \A s \in Writes :
              lease'[s] = lease[s] \/ (lease[s] \in {"stream", "job"} /\ lease'[s] = "waiting")
         /\ \A s \in Writes : s \in S => lease'[s] # "stream"
         /\ \A s \in Writes : lease'[s] = lease[s] \/ s \in S
  BY DEF TypeOK, Released

\* The streams of S are removed after w was answered (0: nobody was).
Removal(p, S, w, code) ==
  \/ w = 0 /\ RemoveStreams(p, S, answers)
  \/ w # 0 /\ RemoveStreams(p, S, Tell({w}, code))

RemovalAnswered(p, S, w, code) ==
  \E D \in SUBSET queue[p] :
    /\ streams' = [streams EXCEPT ![p] = @ \ S] /\ queue' = [queue EXCEPT ![p] = @ \ D]
    /\ DropClosures(D) /\ w \notin D
    /\ Answered(w, code, D)

\* Leases are given to be released, those of S among them, or the completed
\* open's goes to its stream.
LeasesMove(p, S) ==
  /\ lease' \in [Writes -> {"none", "job", "stream", "handoff", "waiting", "cleaning", "gone"}]
  /\ \A s \in Writes :
       \/ lease'[s] = lease[s]
       \/ lease[s] \in {"stream", "job"} /\ lease'[s] = "waiting"
       \/ /\ lease[s] = "job" /\ lease'[s] = "stream"
          /\ s = active[p] /\ s \in streams[p] \ S /\ job[s] = "delivered"
  /\ \A s \in Writes : s \in S => lease'[s] # "stream"

\* What holds after a removal; w is answered, 0 when nobody is.
RemovalKeeps(w) ==
  /\ QueueSound' /\ StreamSound' /\ UnusedSound' /\ LeaseSound' /\ HandoffSound'
  /\ PermitSound' /\ FullSound' /\ PermitsCounted'
  /\ queue' \in [Peers -> SUBSET Writes] /\ fullFree' \subseteq Devices
  /\ resources' \in 0 .. MAX_RESOURCES
  /\ streams' \in [Peers -> SUBSET Writes]
  /\ AnswerStep /\ answers' \in [Writes -> Seq(Codes)]
  /\ \A v \in Writes : v # w /\ job[v] # "none" => answers'[v] = answers[v]

\* Who is answered when the streams of S are removed: w for another reason (0:
\* nobody), and the queued writes of S.
LEMMA RemoveEffect ==
  ASSUME IInv, NEW p \in Peers, NEW S \in SUBSET Writes, NEW w \in Writes \cup {0}, NEW code \in Codes,
         w # 0 => job[w] # "none",
         Removal(p, S, w, code)
  PROVE  RemovalAnswered(p, S, w, code)
<1>0. 0 \notin Writes /\ \A v \in queue[p] : v \in Writes /\ job[v] = "none"
  BY WritesFinite DEF IInv, QueueSound, Admitted
<1>1. PICK D \in SUBSET queue[p] : D = Queued(p, S)
  BY DEF Queued
<1>2. w \notin D /\ D \subseteq Writes
  BY <1>0
<1>3. answers \in [Writes -> Seq(Codes)]
  BY DEF IInv, TypeOK, Codes
<1>4. CASE w = 0 /\ RemoveStreams(p, S, answers)
  <2>1. /\ streams' = [streams EXCEPT ![p] = @ \ S] /\ queue' = [queue EXCEPT ![p] = @ \ D]
        /\ DropClosures(D)
        /\ answers' = [v \in Writes |-> IF v \in D THEN Append(answers[v], "dropped") ELSE answers[v]]
    BY <1>1, <1>4 DEF RemoveStreams
  <2>2. answers' = [v \in Writes |-> IF v = w THEN Append(answers[v], code)
                                     ELSE IF v \in D THEN Append(answers[v], "dropped")
                                     ELSE answers[v]]
    BY <1>0, <1>4, <2>1
  <2> QED  BY <1>2, <2>1, <2>2 DEF RemovalAnswered, Answered
<1>5. CASE w # 0 /\ RemoveStreams(p, S, Tell({w}, code))
  <2>1. /\ streams' = [streams EXCEPT ![p] = @ \ S] /\ queue' = [queue EXCEPT ![p] = @ \ D]
        /\ DropClosures(D)
        /\ answers' = [v \in Writes |-> IF v \in D THEN Append(Tell({w}, code)[v], "dropped")
                                        ELSE Tell({w}, code)[v]]
    BY <1>1, <1>5 DEF RemoveStreams
  <2>2. \A v \in Writes : Tell({w}, code)[v] = IF v = w THEN Append(answers[v], code) ELSE answers[v]
    BY DEF Tell
  <2>3. answers' = [v \in Writes |-> IF v = w THEN Append(answers[v], code)
                                     ELSE IF v \in D THEN Append(answers[v], "dropped")
                                     ELSE answers[v]]
    BY <1>2, <2>1, <2>2
  <2> QED  BY <1>2, <2>1, <2>3 DEF RemovalAnswered, Answered
<1> QED  BY <1>4, <1>5 DEF Removal

\* discard_write_stream of the streams of S, after w was answered (0: nobody was).
LEMMA RemoveInv ==
  ASSUME IInv, NEW p \in Peers, NEW S \in SUBSET Writes, NEW w \in Writes \cup {0}, NEW code \in Codes,
         w # 0 => job[w] # "none" /\ TrueAnswer(w, code),
         Removal(p, S, w, code),
         UNCHANGED <<req, job, ran, life, deviceFree, writeSlots, cleanupSlots>>,
         LeasesMove(p, S)
  PROVE  RemovalKeeps(w)
<1>0. /\ streams \in [Peers -> SUBSET Writes] /\ 0 \notin Writes
      /\ \A q \in Peers : \A v \in queue[q] : v \in Writes /\ job[v] = "none"
  BY WritesFinite DEF IInv, TypeOK, QueueSound, Admitted
<1>1. RemovalAnswered(p, S, w, code)
  BY RemoveEffect
<1>2. PICK D \in SUBSET queue[p] :
        /\ streams' = [streams EXCEPT ![p] = @ \ S] /\ queue' = [queue EXCEPT ![p] = @ \ D]
        /\ DropClosures(D) /\ w \notin D /\ Answered(w, code, D)
  BY <1>1 DEF RemovalAnswered
<1>5. /\ AnswerStep /\ answers' \in [Writes -> Seq(Codes)]
      /\ \A v \in Writes : v # w /\ v \notin D => answers'[v] = answers[v]
  <2>1. ran' = ran /\ (w # 0 => TrueAnswer(w, code))
    OBVIOUS
  <2> QED  BY <1>2, <2>1, AnswersGiven
<1>6. /\ streams' \in [Peers -> SUBSET Writes] /\ streams'[p] = streams[p] \ S
      /\ \A q \in Peers : streams'[q] \subseteq streams[q]
      /\ \A q \in Peers : \A s \in streams[q] : s \in streams'[q] \/ lease'[s] # "stream"
  BY <1>0, <1>2 DEF LeasesMove
<1>7. \A v \in Writes : answers'[v] = answers[v] \/ v \in D \/ job[v] # "none"
  BY <1>0, <1>5
<1>8. /\ QueueSound' /\ StreamSound' /\ UnusedSound' /\ LeaseSound' /\ HandoffSound'
      /\ PermitSound' /\ FullSound' /\ PermitsCounted'
      /\ queue' \in [Peers -> SUBSET Writes] /\ fullFree' \subseteq Devices
      /\ resources' \in 0 .. MAX_RESOURCES
  <2>1. \A s \in Writes :
          \/ lease'[s] = lease[s]
          \/ lease[s] \in {"stream", "job"} /\ lease'[s] = "waiting"
          \/ /\ lease[s] = "job" /\ lease'[s] = "stream"
             /\ s = active[p] /\ s \in streams'[p] /\ job[s] = "delivered"
    BY <1>6 DEF LeasesMove
  <2>2. lease' \in [Writes -> {"none", "job", "stream", "handoff", "waiting", "cleaning", "gone"}]
    BY DEF LeasesMove
  <2> QED  BY <1>2, <1>6, <1>7, <2>1, <2>2, DropInv
<1>9. \A v \in Writes : v # w /\ job[v] # "none" => answers'[v] = answers[v]
  BY <1>0, <1>5
<1> QED  BY <1>5, <1>6, <1>8, <1>9 DEF RemovalKeeps

\* A result keeps its Lease as long as it keeps its stream.
LEMMA RemovalKept ==
  ASSUME IInv, NEW p \in Peers, NEW S \in SUBSET streams[p],
         streams' = [streams EXCEPT ![p] = @ \ S], req' = req,
         \A v \in Writes : result'[v] = "none" \/ result'[v] = result[v],
         \A v \in Writes : lease'[v] = lease[v] \/ v \in S \/ result'[v] = "none"
  PROVE  KeptSound'
<1> SUFFICES ASSUME NEW v \in Writes, result'[v] = "ok", Open(v), v \in streams'[req[v].peer]
             PROVE  lease'[v] = "job"
  BY DEF KeptSound, Open
<1>1. v \in Admitted /\ result[v] = "ok"
  <2>1. result[v] = "ok"
    OBVIOUS
  <2> QED  BY <2>1 DEF IInv, ResultSound, UnusedSound, Admitted, Ended
<1>2. req[v].peer \in Peers /\ streams \in [Peers -> SUBSET Writes]
  BY <1>1, AdmittedFields DEF IInv, TypeOK
<1>3. v \in streams[req[v].peer]
  BY <1>2
<1>4. lease[v] = "job"
  BY <1>1, <1>3 DEF IInv, KeptSound
<1>5. v \notin S
  <2>1. v \in S => req[v].peer = p
    BY DEF IInv, StreamSound
  <2> QED  BY <1>2, <2>1
<1> QED  BY <1>4, <1>5

\* Streams are removed while nobody else is answered: Tighten and Sweep.
LEMMA SweepInv ==
  ASSUME IInv, NEW p \in Peers, NEW S \in SUBSET streams[p], RemoveStreams(p, S, answers), lease' = Released(S),
         UNCHANGED <<now, req, life, active, owed, stalled, cancelling, jobVars, cancelled,
                     deviceFree, writeSlots, cleanupSlots>>,
         closed' \subseteq Writes
  PROVE  IInv' /\ AnswerStep
<1>0. UNCHANGED <<job, started, result, ran>> /\ 0 \notin Writes /\ S \in SUBSET Writes
  BY WritesFinite DEF jobVars, IInv, TypeOK
<1>1. /\ lease' \in [Writes -> {"none", "job", "stream", "handoff", "waiting", "cleaning", "gone"}]
      /\ \A s \in Writes :
           lease'[s] = lease[s] \/ (lease[s] \in {"stream", "job"} /\ lease'[s] = "waiting")
      /\ \A s \in Writes : s \in S => lease'[s] # "stream"
  BY ReleasedEffect DEF IInv
<1>2. /\ QueueSound' /\ StreamSound' /\ UnusedSound' /\ LeaseSound' /\ HandoffSound'
      /\ PermitSound' /\ FullSound' /\ PermitsCounted'
      /\ queue' \in [Peers -> SUBSET Writes] /\ fullFree' \subseteq Devices
      /\ resources' \in 0 .. MAX_RESOURCES
      /\ streams' \in [Peers -> SUBSET Writes]
      /\ AnswerStep /\ answers' \in [Writes -> Seq(Codes)]
      /\ \A v \in Writes : v # 0 /\ job[v] # "none" => answers'[v] = answers[v]
  <2>1. PICK w \in Writes \cup {0} : w = 0
    OBVIOUS
  <2>2. PICK code \in Codes : TRUE
    BY DEF Codes
  <2>3. Removal(p, S, w, code) /\ w = 0
    BY <2>1 DEF Removal
  <2>4. LeasesMove(p, S)
    BY <1>1 DEF LeasesMove
  <2>5. UNCHANGED <<req, job, ran, life, deviceFree, writeSlots, cleanupSlots>>
    BY <1>0
  <2>6. RemovalKeeps(w)
    BY <1>0, <2>3, <2>4, <2>5, RemoveInv
  <2> QED  BY <2>1, <2>6 DEF RemovalKeeps
<1>3. ActiveSound'
  BY <1>0 DEF IInv, ActiveSound, Admitted
<1>4. OwedSound'
  <2>1. \A q \in Peers : active[q] # 0 => answers'[active[q]] = answers[active[q]]
    BY <1>2 DEF IInv, ActiveSound, Admitted
  <2> QED  BY <2>1 DEF IInv, OwedSound, Live
<1>5. StartedSound' /\ ResultSound'
  BY <1>0 DEF IInv, StartedSound, ResultSound
<1>6. CancelSound'
  <2>1. "none" \notin Running
    BY DEF Running, Busy, Early
  <2> QED  BY <1>0, <1>2, <2>1 DEF IInv, CancelSound
<1>7. TypeOK'
  BY <1>0, <1>1, <1>2 DEF IInv, TypeOK, Codes
<1>k. KeptSound'
  <2>1. streams' = [streams EXCEPT ![p] = @ \ S]
    BY DEF RemoveStreams
  <2>2. \A v \in Writes : lease'[v] = lease[v] \/ v \in S
    BY ReleasedEffect DEF IInv
  <2> QED  BY <1>0, <2>1, <2>2, RemovalKept
<1> QED  BY <1>k, <1>2, <1>3, <1>4, <1>5, <1>6, <1>7 DEF IInv

\* What is told of a cancelled write that its peer waits for is true.
LEMMA VerdictTrue ==
  ASSUME IInv, NEW p \in Peers, cancelling[p] # 0
  PROVE  /\ cancelling[p] \in Writes /\ cancelling[p] = active[p] /\ req[cancelling[p]].peer = p
         /\ job[cancelling[p]] # "none" /\ answers[cancelling[p]] = <<>> /\ life[p] # "gone"
         /\ Verdict(cancelling[p]) \in {"dropped", "unknown"}
         /\ Verdict(cancelling[p]) = "dropped" => cancelling[p] \notin ran
<1>1. /\ cancelling[p] \in Writes /\ cancelling[p] = active[p] /\ req[cancelling[p]].peer = p
      /\ job[cancelling[p]] # "none" /\ answers[cancelling[p]] = <<>> /\ life[p] # "gone"
  BY DEF IInv, OwedSound, ActiveSound, Admitted
<1>2. cancelling[p] \in ran => cancelling[p] \in started
  BY <1>1 DEF IInv, StartedSound
<1> QED  BY <1>1, <1>2 DEF Verdict

\* What the watchdog's step says of the write it gave up, and the end of write_tick.
LEMMA StallReplyInv ==
  ASSUME IInv, NEW p \in Peers, StallReply(p)
  PROVE  IInv' /\ AnswerStep
<1>1. PICK w \in Writes : w = cancelling[p]
  BY VerdictTrue DEF StallReply
<1>2. PICK S \in SUBSET Writes : S = Dead(p, closed \cup Expired(p), lease)
  BY DEF Dead, IInv, TypeOK
<1>3. PICK code \in Codes : code = Verdict(w)
  BY DEF Verdict, Codes
<1>4. /\ w # 0 /\ w = active[p] /\ req[w].peer = p /\ job[w] # "none" /\ TrueAnswer(w, code)
  BY <1>1, <1>3, VerdictTrue, WritesFinite DEF TrueAnswer
<1>5. /\ cancelling' = [cancelling EXCEPT ![p] = 0] /\ closed' = closed \cup Expired(p)
      /\ lease' = Released(S) /\ RemoveStreams(p, S, Tell({w}, code))
      /\ UNCHANGED <<now, req, life, active, owed, stalled, job, started, result, ran, cancelled,
                     deviceFree, writeSlots, cleanupSlots>>
  BY <1>1, <1>2, <1>3 DEF StallReply, jobVars
<1>6. Removal(p, S, w, code) /\ UNCHANGED <<req, job, ran, life, deviceFree, writeSlots, cleanupSlots>>
  BY <1>4, <1>5 DEF Removal
<1>7. LeasesMove(p, S)
  BY <1>5, ReleasedEffect DEF LeasesMove, IInv
<1>8. RemovalKeeps(w)
  BY <1>4, <1>6, <1>7, RemoveInv
<1>9. ActiveSound' /\ StartedSound' /\ ResultSound'
  BY <1>5 DEF IInv, ActiveSound, StartedSound, ResultSound, Admitted
<1>10. /\ cancelling' \in [Peers -> 0 .. MaxWrites] /\ cancelling'[p] = 0
       /\ \A q \in Peers : q # p => cancelling'[q] = cancelling[q]
  BY <1>5, BoundsNatural DEF IInv, TypeOK
<1>11. OwedSound'
  <2>1. \A q \in Peers : q # p /\ active[q] # 0 => answers'[active[q]] = answers[active[q]]
    BY <1>4, <1>8 DEF IInv, ActiveSound, Admitted, RemovalKeeps
  <2> SUFFICES ASSUME NEW q \in Peers
               PROVE  /\ stalled[q] = TRUE => active[q] # 0
                      /\ owed[q] = TRUE => /\ active[q] # 0 /\ answers'[active[q]] = <<>>
                                           /\ Live(q) /\ cancelling'[q] = 0
                      /\ active[q] # 0 /\ stalled[q] = FALSE /\ Live(q) => owed[q] = TRUE
                      /\ cancelling'[q] # 0 =>
                           cancelling'[q] = active[q] /\ answers'[active[q]] = <<>> /\ life[q] # "gone"
    BY <1>5 DEF OwedSound, Live
  <2>2. CASE q = p
    BY <1>1, <1>4, <1>10, <2>2 DEF IInv, OwedSound
  <2>3. CASE q # p
    BY <1>10, <2>1, <2>3 DEF IInv, OwedSound
  <2> QED  BY <2>2, <2>3
<1>12. CancelSound'
  <2>1. "none" \notin Running
    BY DEF Running, Busy, Early
  <2>2. w \in cancelled
    BY <1>1, <1>4 DEF IInv, CancelSound
  <2> QED  BY <1>5, <1>8, <1>10, <2>1, <2>2 DEF IInv, CancelSound, RemovalKeeps
<1>13. TypeOK'
  <2>1. closed' \subseteq Writes
    BY <1>5 DEF Expired, IInv, TypeOK
  <2> QED  BY <1>5, <1>7, <1>8, <1>10, <2>1 DEF IInv, TypeOK, Codes, RemovalKeeps, LeasesMove
<1>k. KeptSound'
  <2>1. streams' = [streams EXCEPT ![p] = @ \ S] /\ S \in SUBSET streams[p]
    BY <1>2, <1>5 DEF RemoveStreams, Dead
  <2>2. \A v \in Writes : lease'[v] = lease[v] \/ v \in S
    BY <1>5, ReleasedEffect DEF IInv
  <2> QED  BY <1>5, <2>1, <2>2, RemovalKept
<1> QED  BY <1>k, <1>8, <1>9, <1>11, <1>12, <1>13 DEF IInv, RemovalKeeps

\* The watchdog gives the active write up.
LEMMA StallInv ==
  ASSUME IInv, NEW p \in Peers, Stall(p)
  PROVE  IInv' /\ AnswerStep
<1>1. PICK w \in Writes : w = active[p] /\ w # 0
  BY WritesFinite DEF Stall, Armed, IInv, TypeOK
<1>2. PICK S \in SUBSET Writes : S = {t \in streams[p] : t = req[w].stream /\ lease[t] = "none"}
  BY DEF IInv, TypeOK
<1>3. /\ life[p] \in {"alive", "invalid"} /\ cancelling[p] = 0
      /\ stalled' = [stalled EXCEPT ![p] = TRUE]
      /\ closed' = IF req[w].stream \in streams[p] THEN closed \cup {req[w].stream} ELSE closed
      /\ owed' = [owed EXCEPT ![p] = FALSE] /\ cancelling' = [cancelling EXCEPT ![p] = w]
      /\ cancelled' = cancelled \cup {w} /\ RemoveStreams(p, S, answers)
      /\ UNCHANGED <<now, req, life, active, lease, job, started, result, ran, deviceFree, writeSlots, cleanupSlots>>
  BY <1>1, <1>2 DEF Stall, Looping, jobVars
<1>4. stalled[p] = FALSE
  <2>1. ~stalled[p] /\ stalled[p] \in BOOLEAN
    BY DEF Stall, Armed, IInv, TypeOK
  <2> QED  BY <2>1
<1>5. owed[p] = TRUE /\ answers[w] = <<>> /\ req[w].peer = p /\ job[w] # "none"
  BY <1>1, <1>3, <1>4 DEF IInv, OwedSound, Live, ActiveSound
<1>6. PICK u \in Writes \cup {0}, code \in Codes : u = 0
  BY DEF Codes
<1>7. /\ Removal(p, S, u, code) /\ UNCHANGED <<req, job, ran, life, deviceFree, writeSlots, cleanupSlots>>
      /\ u = 0
  BY <1>3, <1>6 DEF Removal
<1>8. LeasesMove(p, S)
  <2>1. \A s \in Writes : s \in S => lease[s] # "stream"
    BY <1>2
  <2> QED  BY <1>3, <2>1 DEF LeasesMove, IInv, TypeOK
<1>9. RemovalKeeps(u)
  BY <1>7, <1>8, RemoveInv
<1>10. \A v \in Writes : job[v] # "none" => answers'[v] = answers[v]
  BY <1>7, <1>9, WritesFinite DEF RemovalKeeps
<1>11. ActiveSound' /\ StartedSound' /\ ResultSound'
  BY <1>3 DEF IInv, ActiveSound, StartedSound, ResultSound, Admitted
<1>12. /\ cancelling' \in [Peers -> 0 .. MaxWrites] /\ cancelling'[p] = w
       /\ \A q \in Peers : q # p => cancelling'[q] = cancelling[q]
  BY <1>3, WritesFinite DEF IInv, TypeOK
<1>13. /\ owed' \in [Peers -> BOOLEAN] /\ stalled' \in [Peers -> BOOLEAN]
       /\ owed'[p] = FALSE /\ stalled'[p] = TRUE
       /\ \A q \in Peers : q # p => owed'[q] = owed[q] /\ stalled'[q] = stalled[q]
  BY <1>3 DEF IInv, TypeOK
<1>14. OwedSound'
  <2>1. \A q \in Peers : active[q] # 0 => answers'[active[q]] = answers[active[q]]
    BY <1>10 DEF IInv, ActiveSound, Admitted
  <2> SUFFICES ASSUME NEW q \in Peers
               PROVE  /\ stalled'[q] = TRUE => active[q] # 0
                      /\ owed'[q] = TRUE => /\ active[q] # 0 /\ answers'[active[q]] = <<>>
                                            /\ Live(q) /\ cancelling'[q] = 0
                      /\ active[q] # 0 /\ stalled'[q] = FALSE /\ Live(q) => owed'[q] = TRUE
                      /\ cancelling'[q] # 0 =>
                           cancelling'[q] = active[q] /\ answers'[active[q]] = <<>> /\ life[q] # "gone"
    BY <1>3 DEF OwedSound, Live
  <2>2. CASE q = p
    BY <1>1, <1>3, <1>5, <1>12, <1>13, <2>1, <2>2
  <2>3. CASE q # p
    BY <1>12, <1>13, <2>1, <2>3 DEF IInv, OwedSound
  <2> QED  BY <2>2, <2>3
<1>15. CancelSound'
  <2>1. "none" \notin Running
    BY DEF Running, Busy, Early
  <2> QED  BY <1>3, <1>10, <1>12, <2>1 DEF IInv, CancelSound
<1>16. TypeOK'
  <2>1. closed' \subseteq Writes
    BY <1>3 DEF IInv, TypeOK
  <2> QED  BY <1>3, <1>9, <1>12, <1>13, <2>1 DEF IInv, TypeOK, Codes, RemovalKeeps
<1>k. KeptSound'
  <2>1. streams' = [streams EXCEPT ![p] = @ \ S] /\ S \in SUBSET streams[p]
    BY <1>2, <1>3 DEF RemoveStreams
  <2> QED  BY <1>3, <2>1, RemovalKept
<1> QED  BY <1>k, <1>9, <1>11, <1>14, <1>15, <1>16 DEF IInv, RemovalKeeps

\* terminal.release, full.close, and the sweep of closed streams.
LEMMA CloseInv ==
  ASSUME IInv, NEW p \in Peers, (\E s \in Writes : Tighten(p, s)) \/ Sweep(p)
  PROVE  IInv' /\ AnswerStep
<1>1. ASSUME NEW s \in Writes, Tighten(p, s)
      PROVE  IInv' /\ AnswerStep
  <2>1. PICK S \in SUBSET streams[p] : S = {s}
    BY <1>1 DEF Tighten
  <2>2. /\ RemoveStreams(p, S, answers) /\ lease' = Released(S) /\ closed' \subseteq Writes
        /\ UNCHANGED <<now, req, life, active, owed, stalled, cancelling, jobVars, cancelled,
                       deviceFree, writeSlots, cleanupSlots>>
    BY <1>1, <2>1 DEF Tighten, IInv, TypeOK
  <2> QED  BY <2>2, SweepInv
<1>2. CASE Sweep(p)
  <2>1. PICK S \in SUBSET streams[p] : S = Dead(p, closed \cup Expired(p), lease)
    BY DEF Dead
  <2>2. /\ RemoveStreams(p, S, answers) /\ lease' = Released(S) /\ closed' \subseteq Writes
        /\ UNCHANGED <<now, req, life, active, owed, stalled, cancelling, jobVars, cancelled,
                       deviceFree, writeSlots, cleanupSlots>>
    BY <1>2, <2>1 DEF Sweep, Expired, IInv, TypeOK
  <2> QED  BY <2>2, SweepInv
<1> QED  BY <1>1, <1>2

\* The loop of the peer ends.
LEMMA CancelInv ==
  ASSUME IInv, NEW p \in Peers, Cancel(p)
  PROVE  IInv' /\ AnswerStep
<1>1. /\ life[p] \in {"alive", "invalid"} /\ cancelling[p] = 0
      /\ life' = [life EXCEPT ![p] = "closing"] /\ closed' = closed \cup streams[p]
      /\ owed' = [owed EXCEPT ![p] = FALSE]
      /\ cancelling' = [cancelling EXCEPT ![p] = IF owed[p] THEN active[p] ELSE 0]
      /\ cancelled' = IF owed[p] THEN cancelled \cup {active[p]} ELSE cancelled
      /\ UNCHANGED <<now, req, queue, active, stalled, streams, lease, job, started, result, ran,
                     answers, resources, fullFree, deviceFree, writeSlots, cleanupSlots>>
  BY DEF Cancel, Looping, jobVars, permitVars
<1>2. owed \in [Peers -> BOOLEAN] /\ cancelling \in [Peers -> 0 .. MaxWrites]
      /\ active \in [Peers -> 0 .. MaxWrites]
      /\ life \in [Peers -> {"alive", "invalid", "closing", "gone"}] /\ 0 \in 0 .. MaxWrites
  BY BoundsNatural DEF IInv, TypeOK
<1>3. owed[p] = TRUE => active[p] \in Writes /\ answers[active[p]] = <<>>
  BY DEF IInv, OwedSound, ActiveSound, Admitted
<1>4. /\ \/ owed[p] = TRUE /\ cancelling'[p] = active[p] /\ cancelled' = cancelled \cup {active[p]}
         \/ owed[p] = FALSE /\ cancelling'[p] = 0 /\ cancelled' = cancelled
      /\ owed'[p] = FALSE /\ life'[p] = "closing"
      /\ \A q \in Peers : q # p =>
           cancelling'[q] = cancelling[q] /\ owed'[q] = owed[q] /\ life'[q] = life[q]
      /\ owed' \in [Peers -> BOOLEAN] /\ cancelling' \in [Peers -> 0 .. MaxWrites]
      /\ life' \in [Peers -> {"alive", "invalid", "closing", "gone"}]
  <2>1. CASE owed[p] = TRUE
    BY <1>1, <1>2, <2>1
  <2>2. CASE owed[p] = FALSE
    BY <1>1, <1>2, <2>2
  <2> QED  BY <1>2, <2>1, <2>2
<1>5. \A q \in Peers : life'[q] = "gone" <=> life[q] = "gone"
  BY <1>1, <1>4
<1>6. QueueSound' /\ StreamSound' /\ UnusedSound' /\ ActiveSound' /\ KeptSound' /\ LeaseSound' /\ HandoffSound'
  BY <1>1, <1>5 DEF IInv, QueueSound, StreamSound, UnusedSound, ActiveSound, KeptSound, LeaseSound,
                    HandoffSound, Admitted, Open
<1>7. StartedSound' /\ ResultSound'
  <2>1. \A w \in Writes : job[w] = "delivered" /\ (w \in ran \/ active[req[w].peer] = w) => req[w].peer \in Peers
    <3>1. ASSUME NEW w \in Writes, job[w] = "delivered"
          PROVE  req[w].peer \in Peers
      <4>1. w \in Admitted
        BY <3>1 DEF IInv, UnusedSound, Admitted
      <4> QED  BY <4>1, AdmittedFields DEF IInv
    <3> QED  BY <3>1
  <2>2. StartedSound'
    BY <1>1, <1>5, <2>1 DEF IInv, StartedSound
  <2>3. ResultSound'
    BY <1>1, <1>5, <2>1 DEF IInv, ResultSound
  <2> QED  BY <2>2, <2>3
<1>8. OwedSound'
  <2> SUFFICES ASSUME NEW q \in Peers
               PROVE  /\ stalled[q] = TRUE => active[q] # 0
                      /\ owed'[q] = TRUE => /\ active[q] # 0 /\ answers[active[q]] = <<>>
                                            /\ life'[q] \in {"alive", "invalid"} /\ cancelling'[q] = 0
                      /\ active[q] # 0 /\ stalled[q] = FALSE /\ life'[q] \in {"alive", "invalid"} => owed'[q] = TRUE
                      /\ cancelling'[q] # 0 =>
                           cancelling'[q] = active[q] /\ answers[active[q]] = <<>> /\ life'[q] # "gone"
    BY <1>1 DEF OwedSound, Live
  <2>2. CASE q = p
    BY <1>3, <1>4, <2>2 DEF IInv, OwedSound
  <2>3. CASE q # p
    BY <1>4, <2>3 DEF IInv, OwedSound, Live
  <2> QED  BY <2>2, <2>3
<1>9. CancelSound'
  BY <1>1, <1>4 DEF IInv, CancelSound
<1>10. PermitSound' /\ FullSound' /\ PermitsCounted'
  BY <1>1 DEF IInv, PermitSound, FullSound, PermitsCounted, Holders, Holds, Jobs, Cleanups, Admitted, Open, Dev
<1>11. TypeOK'
  <2>1. closed' \subseteq Writes /\ cancelled' \subseteq Writes
    BY <1>1, <1>3, <1>4 DEF IInv, TypeOK
  <2> QED  BY <1>1, <1>4, <2>1 DEF IInv, TypeOK
<1>12. AnswerStep
  BY <1>1 DEF AnswerStep
<1> QED  BY <1>6, <1>7, <1>8, <1>9, <1>10, <1>11, <1>12 DEF IInv

\* What `finish` answers is the first answer of the write, and true.
LEMMA OutcomeTrue ==
  ASSUME IInv, NEW p \in Peers, NEW w \in Writes, w = active[p], job[w] = "delivered",
         life[p] \in {"alive", "invalid"}
  PROVE  /\ w \in Admitted /\ req[w].peer = p /\ result[w] # "none"
         /\ ~Silent(p) => TrueAnswer(w, Outcome(p, w)) /\ Outcome(p, w) \in Codes
<1>1. w \in Admitted /\ req[w].peer = p /\ result[w] # "none" /\ w # 0
  BY WritesFinite DEF IInv, ActiveSound, ResultSound
<1>2. result[w] \in {"ok", "dropped", "unknown", "failed", "stalled"}
  BY <1>1 DEF IInv, TypeOK
<1>3. ASSUME ~Silent(p)
      PROVE  answers[w] = <<>>
  <2>1. stalled[p] \in BOOLEAN /\ ~stalled[p] /\ life[p] = "alive"
    BY <1>3 DEF Silent, IInv, TypeOK
  <2>2. stalled[p] = FALSE
    BY <2>1
  <2> QED  BY <1>1, <2>1, <2>2 DEF IInv, OwedSound, Live
<1>4. Outcome(p, w) = "failed" \/ (Outcome(p, w) = result[w] /\ result[w] # "stalled")
  BY <1>2 DEF Outcome
<1>5. result[w] = "ok" => w \in ran
  BY DEF IInv, ResultSound
<1>6. result[w] = "dropped" => w \notin ran
  BY DEF IInv, ResultSound
<1>7. ASSUME ~Silent(p)
      PROVE  TrueAnswer(w, Outcome(p, w)) /\ Outcome(p, w) \in Codes
  <2>1. answers[w] = <<>>
    BY <1>3, <1>7
  <2> QED  BY <1>2, <1>4, <1>5, <1>6, <2>1 DEF TrueAnswer, Codes
<1> QED  BY <1>1, <1>7

\* The parts of a completion: which streams close, and where the Leases are.
FinishParts(p, w, lost, gone, shut, leased, dead) ==
  /\ lost = (~Silent(p) /\ result[w] # "ok" /\ req[w].stream \in streams[p])
  /\ gone = IF lost /\ lease[req[w].stream] = "none" THEN {req[w].stream} ELSE {}
  /\ shut = IF lost /\ (lease[req[w].stream] = "none" \/ result[w] = "stalled")
            THEN closed \cup {req[w].stream} ELSE closed
  /\ leased = IF Keeps(p, w) THEN [lease EXCEPT ![w] = "stream"] ELSE lease
  /\ dead = Dead(p, shut, leased)
  /\ closed' = shut
  /\ lease' = [v \in Writes |-> IF v \in dead \/ (v = w /\ leased[v] = "job") THEN "waiting" ELSE leased[v]]
  /\ RemoveStreams(p, gone \cup dead, IF Silent(p) THEN answers ELSE Tell({w}, Outcome(p, w)))

LEMMA FinishForm ==
  ASSUME NEW p \in Peers, Finish(p)
  PROVE  \E lost, gone, shut, leased, dead : FinishParts(p, active[p], lost, gone, shut, leased, dead)
<1> DEFINE w == active[p]
           s == req[w].stream
           lost == ~Silent(p) /\ result[w] # "ok" /\ s \in streams[p]
           gone == IF lost /\ lease[s] = "none" THEN {s} ELSE {}
           shut == IF lost /\ (lease[s] = "none" \/ result[w] = "stalled") THEN closed \cup {s} ELSE closed
           leased == IF Keeps(p, w) THEN [lease EXCEPT ![w] = "stream"] ELSE lease
           dead == Dead(p, shut, leased)
<1>1. /\ closed' = shut
      /\ lease' = [v \in Writes |-> IF v \in dead \/ (v = w /\ leased[v] = "job")
                                    THEN "waiting" ELSE leased[v]]
      /\ RemoveStreams(p, gone \cup dead, IF Silent(p) THEN answers ELSE Tell({w}, Outcome(p, w)))
  BY DEF Finish
<1>2. FinishParts(p, w, lost, gone, shut, leased, dead)
  BY <1>1 DEF FinishParts
<1> HIDE DEF lost, gone, shut, leased, dead
<1> QED  BY <1>2

\* The completion of the active write.
LEMMA FinishInv ==
  ASSUME IInv, NEW p \in Peers, Finish(p)
  PROVE  IInv' /\ AnswerStep
<1>1. PICK w \in Writes : w = active[p] /\ w # 0 /\ job[w] = "delivered"
  BY WritesFinite DEF Finish, IInv, TypeOK
<1>2. /\ life[p] \in {"alive", "invalid"} /\ cancelling[p] = 0
      /\ active' = [active EXCEPT ![p] = 0] /\ owed' = [owed EXCEPT ![p] = FALSE]
      /\ stalled' = [stalled EXCEPT ![p] = FALSE] /\ DropFlags(w)
      /\ UNCHANGED <<now, req, life, cancelling, job, ran, deviceFree, writeSlots, cleanupSlots>>
  BY <1>1 DEF Finish, Looping
<1>3. /\ w \in Admitted /\ req[w].peer = p /\ result[w] # "none"
      /\ ~Silent(p) => TrueAnswer(w, Outcome(p, w)) /\ Outcome(p, w) \in Codes
  BY <1>1, <1>2, OutcomeTrue
<1>4. PICK lost, gone, shut, leased, dead : FinishParts(p, w, lost, gone, shut, leased, dead)
  BY <1>1, FinishForm
<1>5. lost = (~Silent(p) /\ result[w] # "ok" /\ req[w].stream \in streams[p])
  BY <1>4 DEF FinishParts
<1>6. gone = IF lost /\ lease[req[w].stream] = "none" THEN {req[w].stream} ELSE {}
  BY <1>4 DEF FinishParts
<1>7. shut = IF lost /\ (lease[req[w].stream] = "none" \/ result[w] = "stalled")
             THEN closed \cup {req[w].stream} ELSE closed
  BY <1>4 DEF FinishParts
<1>8. leased = IF Keeps(p, w) THEN [lease EXCEPT ![w] = "stream"] ELSE lease
  BY <1>4 DEF FinishParts
<1>9. /\ dead = Dead(p, shut, leased) /\ closed' = shut
      /\ lease' = [v \in Writes |-> IF v \in dead \/ (v = w /\ leased[v] = "job")
                                    THEN "waiting" ELSE leased[v]]
      /\ RemoveStreams(p, gone \cup dead, IF Silent(p) THEN answers ELSE Tell({w}, Outcome(p, w)))
  BY <1>4 DEF FinishParts
<1>10. /\ gone \subseteq streams[p] /\ dead \subseteq streams[p] /\ shut \subseteq Writes
       /\ streams[p] \subseteq Writes
       /\ \A t \in gone : lease[t] = "none"
       /\ gone = {} \/ ~Keeps(p, w)
       /\ \A t \in dead : leased[t] = "stream"
  <2>1. streams[p] \subseteq Writes /\ closed \subseteq Writes
    BY DEF IInv, TypeOK
  <2>2. Keeps(p, w) => ~lost
    BY <1>5 DEF Keeps
  <2>3. lost => req[w].stream \in streams[p]
    BY <1>5
  <2> QED  BY <1>6, <1>7, <1>9, <2>1, <2>2, <2>3 DEF Dead
<1>11. PICK S \in SUBSET streams[p] : S = gone \cup dead
  BY <1>10
<1>12. lease \in [Writes -> {"none", "job", "stream", "handoff", "waiting", "cleaning", "gone"}]
  BY DEF IInv, TypeOK
<1>13. Keeps(p, w) => lease[w] = "job" /\ w \in streams[p] /\ leased[w] = "stream"
  BY <1>3, <1>8, <1>12 DEF Keeps, IInv, KeptSound
<1>14. (~Keeps(p, w) => leased = lease) /\ (\A v \in Writes : v # w => leased[v] = lease[v])
  BY <1>8, <1>12
<1>15. LeasesMove(p, S)
  <2>1. ASSUME NEW v \in Writes, v # w
        PROVE  /\ lease'[v] = lease[v] \/ (lease[v] = "stream" /\ lease'[v] = "waiting")
               /\ v \in S => lease'[v] # "stream"
    BY <1>9, <1>10, <1>11, <1>14, <2>1
  <2>2. CASE Keeps(p, w)
    <3>1. lease[w] = "job" /\ (lease'[w] = "waiting" \/ (lease'[w] = "stream" /\ w \notin S))
      BY <1>9, <1>10, <1>11, <1>13, <2>2
    <3>2. lease' \in [Writes -> {"none", "job", "stream", "handoff", "waiting", "cleaning", "gone"}]
      BY <1>9, <1>12, <2>1, <3>1
    <3> QED  BY <1>1, <1>13, <2>1, <2>2, <3>1, <3>2 DEF LeasesMove
  <2>3. CASE ~Keeps(p, w)
    <3>1. /\ lease'[w] = lease[w] \/ (lease[w] \in {"stream", "job"} /\ lease'[w] = "waiting")
          /\ w \in S => lease'[w] # "stream"
      BY <1>9, <1>10, <1>11, <1>14, <2>3
    <3>2. lease' \in [Writes -> {"none", "job", "stream", "handoff", "waiting", "cleaning", "gone"}]
      BY <1>9, <1>12, <2>1, <3>1
    <3> QED  BY <2>1, <3>1, <3>2 DEF LeasesMove
  <2> QED  BY <2>2, <2>3
<1>16. PICK u \in Writes \cup {0}, code \in Codes :
         \/ Silent(p) /\ u = 0
         \/ ~Silent(p) /\ u = w /\ code = Outcome(p, w)
  BY <1>3 DEF Codes
<1>17. /\ Removal(p, S, u, code) /\ S \in SUBSET Writes
       /\ u # 0 => u = w /\ job[u] # "none" /\ TrueAnswer(u, code)
  BY <1>1, <1>3, <1>9, <1>10, <1>11, <1>16 DEF Removal
<1>18. RemovalKeeps(u)
  BY <1>2, <1>15, <1>17, RemoveInv
<1>19. \A v \in Writes : v # w /\ job[v] # "none" => answers'[v] = answers[v]
  BY <1>17, <1>18, WritesFinite DEF RemovalKeeps
<1>20. /\ active' \in [Peers -> 0 .. MaxWrites] /\ owed' \in [Peers -> BOOLEAN] /\ stalled' \in [Peers -> BOOLEAN]
       /\ active'[p] = 0 /\ owed'[p] = FALSE /\ stalled'[p] = FALSE
       /\ \A q \in Peers : q # p => active'[q] = active[q] /\ owed'[q] = owed[q] /\ stalled'[q] = stalled[q]
  BY <1>2, BoundsNatural DEF IInv, TypeOK
<1>21. /\ started' = started \ {w} /\ cancelled' = cancelled \ {w}
       /\ result' \in [Writes -> {"none", "ok", "dropped", "unknown", "failed", "stalled"}]
       /\ result'[w] = "none" /\ \A v \in Writes : v # w => result'[v] = result[v]
  BY <1>2 DEF DropFlags, IInv, TypeOK
<1>22. /\ "delivered" \notin Running /\ "none" \notin Running /\ 0 \notin Writes
       /\ \A v \in Writes : job[v] # "none" => req[v].peer \in Peers
  <2>1. ASSUME NEW v \in Writes, job[v] # "none"
        PROVE  req[v].peer \in Peers
    <3>1. v \in Admitted
      BY <2>1 DEF IInv, UnusedSound, Admitted
    <3> QED  BY <3>1, AdmittedFields DEF IInv
  <2> QED  BY <2>1, WritesFinite DEF Running, Busy, Early
<1>23. ActiveSound'
  <2>1. \A q \in Peers : active'[q] # 0 =>
          active'[q] \in Admitted /\ req[active'[q]].peer = q /\ job[active'[q]] # "none"
    BY <1>20 DEF IInv, ActiveSound
  <2>2. ASSUME NEW v \in Writes, job[v] \in Running
        PROVE  active'[req[v].peer] = v
    <3>1. active[req[v].peer] = v /\ req[v].peer \in Peers /\ v # w
      BY <1>1, <1>22, <2>2 DEF IInv, ActiveSound
    <3> QED  BY <1>1, <1>20, <3>1
  <2> QED  BY <1>2, <2>1, <2>2 DEF ActiveSound, Admitted
<1>24. OwedSound'
  <2>1. \A q \in Peers : q # p /\ active[q] # 0 => answers'[active[q]] = answers[active[q]]
    BY <1>3, <1>19 DEF IInv, ActiveSound, Admitted
  <2> SUFFICES ASSUME NEW q \in Peers
               PROVE  /\ stalled'[q] = TRUE => active'[q] # 0
                      /\ owed'[q] = TRUE => /\ active'[q] # 0 /\ answers'[active'[q]] = <<>>
                                            /\ Live(q) /\ cancelling[q] = 0
                      /\ active'[q] # 0 /\ stalled'[q] = FALSE /\ Live(q) => owed'[q] = TRUE
                      /\ cancelling[q] # 0 =>
                           cancelling[q] = active'[q] /\ answers'[active'[q]] = <<>> /\ life[q] # "gone"
    BY <1>2 DEF OwedSound, Live
  <2>2. CASE q = p
    BY <1>2, <1>20, <2>2
  <2>3. CASE q # p
    BY <1>20, <2>1, <2>3 DEF IInv, OwedSound
  <2> QED  BY <2>2, <2>3
<1>25. \A v \in Writes : job[v] # "none" => (active'[req[v].peer] = v => active[req[v].peer] = v /\ v # w)
  BY <1>1, <1>3, <1>20, <1>22
<1>26. StartedSound'
  BY <1>1, <1>2, <1>21, <1>25 DEF IInv, StartedSound, Early
<1>27. ResultSound'
  BY <1>1, <1>2, <1>21, <1>25 DEF IInv, ResultSound
<1>28. CancelSound'
  <2>1. \A v \in Writes : job[v] \in Running /\ answers'[v] # <<>> => v \in cancelled'
    BY <1>1, <1>19, <1>21, <1>22 DEF IInv, CancelSound
  <2>2. \A q \in Peers : cancelling[q] # 0 => cancelling[q] \in cancelled /\ cancelling[q] # w
    BY <1>2, <1>3 DEF IInv, CancelSound, OwedSound, ActiveSound
  <2> QED  BY <1>2, <1>21, <2>1, <2>2 DEF CancelSound
<1>29. KeptSound'
  <2>1. streams' = [streams EXCEPT ![p] = @ \ S]
    BY <1>9, <1>11 DEF RemoveStreams
  <2>2. \A v \in Writes : lease'[v] = lease[v] \/ v \in S \/ result'[v] = "none"
    BY <1>9, <1>11, <1>14, <1>21
  <2> QED  BY <1>2, <1>21, <2>1, <2>2, RemovalKept
<1>30. TypeOK'
  <2>1. closed' \subseteq Writes
    BY <1>9, <1>10
  <2> QED  BY <1>2, <1>15, <1>18, <1>20, <1>21, <2>1 DEF IInv, TypeOK, Codes, RemovalKeeps, LeasesMove
<1> QED  BY <1>18, <1>23, <1>24, <1>26, <1>27, <1>28, <1>29, <1>30 DEF IInv, RemovalKeeps

\* The rest of cancel_writes, and the end of the peer.
LEMMA DropReadsInv ==
  ASSUME IInv, NEW p \in Peers, DropReads(p)
  PROVE  IInv' /\ AnswerStep
<1>1. PICK done \in SUBSET Writes :
        done = IF active[p] # 0 /\ job[active[p]] = "delivered" THEN {active[p]} ELSE {}
  BY WritesFinite DEF IInv, TypeOK
<1>2. /\ life[p] = "closing" /\ life' = [life EXCEPT ![p] = "gone"]
      /\ cancelling' = [cancelling EXCEPT ![p] = 0] /\ queue' = [queue EXCEPT ![p] = {}]
      /\ streams' = [streams EXCEPT ![p] = {}] /\ DropClosures(queue[p])
      /\ lease' = Released(streams[p] \cup done)
      /\ UNCHANGED <<now, req, active, owed, stalled, closed, job, started, result, ran, cancelled,
                     deviceFree, writeSlots, cleanupSlots>>
  BY <1>1 DEF DropReads, jobVars
<1>3. /\ answers' = [v \in Writes |-> IF v = cancelling[p] THEN Append(answers[v], Verdict(v))
                                      ELSE IF v \in queue[p] THEN Append(answers[v], "dropped")
                                      ELSE answers[v]]
  BY DEF DropReads
<1>4. PICK w \in Writes \cup {0} : w = cancelling[p]
  BY WritesFinite DEF IInv, TypeOK
<1>5. PICK code \in Codes : code = Verdict(w)
  BY DEF Verdict, Codes
<1>6. w # 0 => /\ w \in Writes /\ w = active[p] /\ req[w].peer = p /\ job[w] # "none" /\ TrueAnswer(w, code)
               /\ w \in cancelled
  <2>1. CASE w = 0
    BY <2>1
  <2>2. CASE w # 0
    <3>1. /\ w \in Writes /\ w = active[p] /\ req[w].peer = p /\ job[w] # "none" /\ answers[w] = <<>>
          /\ code \in {"dropped", "unknown"} /\ (code = "dropped" => w \notin ran)
      BY <1>4, <1>5, <2>2, VerdictTrue
    <3>2. w \in cancelled
      BY <1>4, <2>2 DEF IInv, CancelSound
    <3> QED  BY <3>1, <3>2 DEF TrueAnswer
  <2> QED  BY <2>1, <2>2
<1>7. PICK D \in SUBSET queue[p] : D = queue[p]
  OBVIOUS
<1>8. /\ w \notin D /\ 0 \notin Writes
      /\ \A q \in Peers : \A v \in queue[q] : v \in Writes /\ job[v] = "none"
  BY <1>6, WritesFinite DEF IInv, QueueSound, Admitted
<1>9. Answered(w, code, D)
  BY <1>3, <1>4, <1>5, <1>7 DEF Answered
<1>10. /\ AnswerStep /\ answers' \in [Writes -> Seq(Codes)]
       /\ \A v \in Writes : v # w /\ v \notin D => answers'[v] = answers[v]
  <2>1. ran' = ran /\ (w # 0 => TrueAnswer(w, code))
    BY <1>2, <1>6
  <2> QED  BY <1>8, <1>9, <2>1, AnswersGiven
<1>11. \A v \in Writes : v # w /\ job[v] # "none" => answers'[v] = answers[v]
  BY <1>8, <1>10
<1>12. /\ streams' \in [Peers -> SUBSET Writes] /\ streams'[p] = {}
       /\ cancelling' \in [Peers -> 0 .. MaxWrites] /\ cancelling'[p] = 0
       /\ life' \in [Peers -> {"alive", "invalid", "closing", "gone"}] /\ life'[p] = "gone"
       /\ queue' = [queue EXCEPT ![p] = @ \ D] /\ queue'[p] = {} /\ DropClosures(D)
       /\ \A q \in Peers : q # p => /\ streams'[q] = streams[q] /\ cancelling'[q] = cancelling[q]
                                    /\ life'[q] = life[q]
  <2>1. /\ streams' \in [Peers -> SUBSET Writes] /\ streams'[p] = {}
        /\ \A q \in Peers : q # p => streams'[q] = streams[q]
    BY <1>2 DEF IInv, TypeOK
  <2>2. /\ cancelling' \in [Peers -> 0 .. MaxWrites] /\ cancelling'[p] = 0
        /\ \A q \in Peers : q # p => cancelling'[q] = cancelling[q]
    BY <1>2, BoundsNatural DEF IInv, TypeOK
  <2>3. /\ life' \in [Peers -> {"alive", "invalid", "closing", "gone"}] /\ life'[p] = "gone"
        /\ \A q \in Peers : q # p => life'[q] = life[q]
    BY <1>2 DEF IInv, TypeOK
  <2>4. queue' = [queue EXCEPT ![p] = @ \ D] /\ queue'[p] = {}
    <3>1. queue[p] \ D = {} /\ queue \in [Peers -> SUBSET Writes]
      BY <1>7 DEF IInv, TypeOK
    <3> QED  BY <1>2, <3>1
  <2>5. DropClosures(D)
    BY <1>2, <1>7
  <2> QED  BY <2>1, <2>2, <2>3, <2>4, <2>5
<1>13. /\ lease' \in [Writes -> {"none", "job", "stream", "handoff", "waiting", "cleaning", "gone"}]
       /\ \A s \in Writes :
            lease'[s] = lease[s] \/ (lease[s] \in {"stream", "job"} /\ lease'[s] = "waiting")
       /\ \A s \in Writes : s \in streams[p] => lease'[s] # "stream"
       /\ \A s \in Writes : lease'[s] = lease[s] \/ s \in streams[p] \/ s \in done
  <2>1. PICK S : S = streams[p] \cup done
    OBVIOUS
  <2>2. lease' = Released(S) /\ TypeOK
    BY <1>2, <2>1 DEF IInv
  <2>3. /\ lease' \in [Writes -> {"none", "job", "stream", "handoff", "waiting", "cleaning", "gone"}]
        /\ \A s \in Writes :
             lease'[s] = lease[s] \/ (lease[s] \in {"stream", "job"} /\ lease'[s] = "waiting")
        /\ \A s \in Writes : s \in S => lease'[s] # "stream"
        /\ \A s \in Writes : lease'[s] = lease[s] \/ s \in S
    BY <2>2, ReleasedEffect
  <2> QED  BY <2>1, <2>3
<1>14. /\ QueueSound' /\ StreamSound' /\ UnusedSound' /\ LeaseSound' /\ HandoffSound'
       /\ PermitSound' /\ FullSound' /\ PermitsCounted'
       /\ queue' \in [Peers -> SUBSET Writes] /\ fullFree' \subseteq Devices
       /\ resources' \in 0 .. MAX_RESOURCES
  <2>1. \A s \in Writes :
          \/ lease'[s] = lease[s]
          \/ lease[s] \in {"stream", "job"} /\ lease'[s] = "waiting"
          \/ /\ lease[s] = "job" /\ lease'[s] = "stream"
             /\ s = active[p] /\ s \in streams'[p] /\ job[s] = "delivered"
    BY <1>13
  <2>2. /\ \A q \in Peers : streams'[q] \subseteq streams[q]
        /\ \A q \in Peers : \A s \in streams[q] : s \in streams'[q] \/ lease'[s] # "stream"
    BY <1>12, <1>13 DEF IInv, TypeOK
  <2>3. \A q \in Peers : life'[q] = "gone" => life[q] = "gone" \/ queue'[q] = {}
    BY <1>12
  <2>4. \A v \in Writes : answers'[v] = answers[v] \/ v \in D \/ job[v] # "none"
    BY <1>6, <1>8, <1>10
  <2>5. UNCHANGED <<req, job, deviceFree, writeSlots, cleanupSlots>>
    BY <1>2
  <2> QED  BY <1>12, <1>13, <2>1, <2>2, <2>3, <2>4, <2>5, DropInv
<1>15. ActiveSound'
  BY <1>2 DEF IInv, ActiveSound, Admitted
<1>16. OwedSound'
  <2>1. \A q \in Peers : q # p /\ active[q] # 0 => answers'[active[q]] = answers[active[q]]
    BY <1>6, <1>8, <1>11 DEF IInv, ActiveSound, Admitted
  <2> SUFFICES ASSUME NEW q \in Peers
               PROVE  /\ stalled[q] = TRUE => active[q] # 0
                      /\ owed[q] = TRUE => /\ active[q] # 0 /\ answers'[active[q]] = <<>>
                                           /\ life'[q] \in {"alive", "invalid"} /\ cancelling'[q] = 0
                      /\ active[q] # 0 /\ stalled[q] = FALSE /\ life'[q] \in {"alive", "invalid"} => owed[q] = TRUE
                      /\ cancelling'[q] # 0 =>
                           cancelling'[q] = active[q] /\ answers'[active[q]] = <<>> /\ life'[q] # "gone"
    BY <1>2 DEF OwedSound, Live
  <2>2. CASE q = p
    BY <1>2, <1>12, <2>2 DEF IInv, OwedSound, Live
  <2>3. CASE q # p
    BY <1>12, <2>1, <2>3 DEF IInv, OwedSound, Live
  <2> QED  BY <2>2, <2>3
<1>17. \A v \in Writes : job[v] # "none" => req[v].peer \in Peers
  <2>1. ASSUME NEW v \in Writes, job[v] # "none"
        PROVE  req[v].peer \in Peers
    <3>1. v \in Admitted
      BY <2>1 DEF IInv, UnusedSound, Admitted
    <3> QED  BY <3>1, AdmittedFields DEF IInv
  <2> QED  BY <2>1
<1>18. \A q \in Peers : life[q] = "gone" => life'[q] = "gone"
  BY <1>12
<1>19. StartedSound'
  BY <1>2, <1>17, <1>18 DEF IInv, StartedSound
<1>20. ResultSound'
  BY <1>2, <1>17, <1>18 DEF IInv, ResultSound
<1>21. CancelSound'
  <2>1. "none" \notin Running
    BY DEF Running, Busy, Early
  <2>2. \A v \in Writes : job[v] \in Running /\ answers'[v] # <<>> => v \in cancelled
    BY <1>6, <1>8, <1>11, <2>1 DEF IInv, CancelSound
  <2> QED  BY <1>2, <1>12, <2>2 DEF IInv, CancelSound
<1>22. KeptSound'
  <2> SUFFICES ASSUME NEW v \in Writes, result[v] = "ok", Open(v), v \in streams'[req[v].peer]
               PROVE  lease'[v] = "job"
    BY <1>2 DEF KeptSound, Open
  <2>1. job[v] # "none"
    BY DEF IInv, ResultSound, Ended
  <2>2. req[v].peer # p /\ v \in streams[req[v].peer]
    BY <1>12, <1>17, <2>1
  <2>3. v \notin streams[p]
    BY <2>2 DEF IInv, StreamSound
  <2>4. v \notin done
    BY <1>1, <2>2 DEF IInv, ActiveSound
  <2> QED  BY <1>13, <2>2, <2>3, <2>4 DEF IInv, KeptSound
<1>23. TypeOK'
  BY <1>2, <1>10, <1>12, <1>13, <1>14 DEF IInv, TypeOK, Codes
<1> QED  BY <1>10, <1>14, <1>15, <1>16, <1>19, <1>20, <1>21, <1>22, <1>23 DEF IInv

\* The executor refuses the job of the oldest write.
LEMMA PumpRefusedInv ==
  ASSUME IInv, NEW p \in Peers, PumpRefused(p)
  PROVE  IInv' /\ AnswerStep
<1> DEFINE w == Oldest(p)
<1>1. w \in queue[p]
  BY OldestQueued DEF PumpRefused, IInv
<1>2. /\ queue' = [queue EXCEPT ![p] = @ \ {w}]
      /\ streams' = [streams EXCEPT ![p] = IF Open(w) THEN @ \ {w} ELSE @]
      /\ closed' = IF Open(w) THEN closed \cup {w} ELSE closed
      /\ DropClosures({w}) /\ answers' = Tell({w}, "busy")
      /\ UNCHANGED <<now, req, life, active, owed, stalled, cancelling, lease, job, started, result, ran,
                     cancelled, deviceFree, writeSlots, cleanupSlots>>
  BY DEF PumpRefused, jobVars
<1> HIDE DEF w
<1>3. w \in Writes /\ job[w] = "none" /\ answers[w] = <<>> /\ w \notin ran /\ lease[w] = "none"
  <2>1. w \in Writes /\ job[w] = "none" /\ answers[w] = <<>>
    BY <1>1 DEF IInv, QueueSound, Admitted
  <2> QED  BY <2>1 DEF IInv, StartedSound, LeaseSound
<1>4. PICK code \in Codes : code = "busy"
  BY DEF Codes
<1>5. PICK D \in SUBSET queue[p] : D = {w}
  BY <1>1
<1>6. PICK E \in SUBSET queue[p] : E = {}
  OBVIOUS
<1>7. /\ AnswerStep /\ answers' \in [Writes -> Seq(Codes)]
      /\ \A v \in Writes : v # w => answers'[v] = answers[v]
  <2>1. Answered(w, code, E)
    BY <1>2, <1>4, <1>6 DEF Answered, Tell
  <2>2. TrueAnswer(w, code) /\ ran' = ran /\ w \in Writes \cup {0} /\ w \notin E
    BY <1>2, <1>3, <1>4, <1>6 DEF TrueAnswer
  <2>3. /\ AnswerStep /\ answers' \in [Writes -> Seq(Codes)]
        /\ \A v \in Writes : v # w /\ v \notin E => answers'[v] = answers[v]
    BY <2>1, <2>2, AnswersGiven
  <2> QED  BY <1>6, <2>3
<1>8. \A v \in Writes : job[v] # "none" => answers'[v] = answers[v]
  BY <1>3, <1>7
<1>9. /\ streams' \in [Peers -> SUBSET Writes]
      /\ \A q \in Peers : streams'[q] \subseteq streams[q]
      /\ \A q \in Peers : \A s \in streams[q] : s \in streams'[q] \/ s = w
  BY <1>2 DEF IInv, TypeOK
<1>10. /\ QueueSound' /\ StreamSound' /\ UnusedSound' /\ LeaseSound' /\ HandoffSound'
       /\ PermitSound' /\ FullSound' /\ PermitsCounted'
       /\ queue' \in [Peers -> SUBSET Writes] /\ fullFree' \subseteq Devices
       /\ resources' \in 0 .. MAX_RESOURCES
  <2>1. /\ lease' \in [Writes -> {"none", "job", "stream", "handoff", "waiting", "cleaning", "gone"}]
        /\ lease' = lease
    BY <1>2 DEF IInv, TypeOK
  <2>2. \A q \in Peers : \A s \in streams[q] : s \in streams'[q] \/ lease'[s] # "stream"
    BY <1>3, <1>9, <2>1
  <2>3. \A q \in Peers : life'[q] = "gone" => life[q] = "gone" \/ queue'[q] = {}
    BY <1>2
  <2>4. \A v \in Writes : answers'[v] = answers[v] \/ v \in D \/ job[v] # "none"
    BY <1>5, <1>7
  <2>5. /\ UNCHANGED <<req, job, deviceFree, writeSlots, cleanupSlots>>
        /\ queue' = [queue EXCEPT ![p] = @ \ D] /\ DropClosures(D)
    BY <1>2, <1>5
  <2>6. \A s \in Writes :
          \/ lease'[s] = lease[s]
          \/ lease[s] \in {"stream", "job"} /\ lease'[s] = "waiting"
          \/ /\ lease[s] = "job" /\ lease'[s] = "stream"
             /\ s = active[p] /\ s \in streams'[p] /\ job[s] = "delivered"
    BY <2>1
  <2> QED  BY <1>9, <2>1, <2>2, <2>3, <2>4, <2>5, <2>6, DropInv
<1>11. ActiveSound'
  BY <1>2 DEF IInv, ActiveSound, Admitted
<1>12. OwedSound'
  <2>1. \A q \in Peers : active[q] # 0 => answers'[active[q]] = answers[active[q]]
    BY <1>8 DEF IInv, ActiveSound, Admitted
  <2> QED  BY <1>2, <2>1 DEF IInv, OwedSound, Live
<1>13. StartedSound' /\ ResultSound'
  BY <1>2 DEF IInv, StartedSound, ResultSound
<1>14. CancelSound'
  <2>1. "none" \notin Running
    BY DEF Running, Busy, Early
  <2> QED  BY <1>2, <1>8, <2>1 DEF IInv, CancelSound
<1>15. KeptSound'
  <2> SUFFICES ASSUME NEW v \in Writes, result[v] = "ok", Open(v), v \in streams'[req[v].peer]
               PROVE  lease[v] = "job"
    BY <1>2 DEF KeptSound, Open
  <2>1. v \in Admitted
    BY DEF IInv, ResultSound, UnusedSound, Admitted, Ended
  <2>2. req[v].peer \in Peers
    BY <2>1, AdmittedFields DEF IInv
  <2> QED  BY <1>9, <2>2 DEF IInv, KeptSound
<1>16. TypeOK'
  <2>1. closed' \subseteq Writes
    BY <1>2, <1>3 DEF IInv, TypeOK
  <2> QED  BY <1>2, <1>7, <1>9, <1>10, <2>1 DEF IInv, TypeOK, Codes
<1> QED  BY <1>7, <1>10, <1>11, <1>12, <1>13, <1>14, <1>15, <1>16 DEF IInv

\* The oldest write is submitted, and takes the control leases of its session over.
LEMMA PumpInv ==
  ASSUME IInv, NEW p \in Peers, Pump(p)
  PROVE  IInv' /\ AnswerStep
<1> DEFINE w == Oldest(p)
           shut == Displaced(p, w)
           dropped == Queued(p, shut)
<1>1. w \in queue[p]
  BY OldestQueued DEF Pump, IInv
<1>2. /\ life[p] \in {"alive", "invalid"} /\ cancelling[p] = 0 /\ active[p] = 0 /\ writeSlots > 0
      /\ streams' = [streams EXCEPT ![p] = @ \ shut] /\ queue' = [queue EXCEPT ![p] = @ \ ({w} \cup dropped)]
      /\ DropClosures(dropped) /\ answers' = Tell(dropped, "dropped") /\ closed' = closed \cup shut
      /\ lease' = [s \in Writes |-> IF s \in shut /\ lease[s] = "stream" THEN "handoff" ELSE lease[s]]
      /\ active' = [active EXCEPT ![p] = w] /\ owed' = [owed EXCEPT ![p] = TRUE]
      /\ job' = [job EXCEPT ![w] = "handoff"] /\ deviceFree' = deviceFree \ {Dev(w)}
      /\ writeSlots' = writeSlots - 1
      /\ UNCHANGED <<now, req, life, stalled, cancelling, started, cancelled, result, ran, cleanupSlots>>
  BY DEF Pump, Looping
<1>3. /\ w \in Writes /\ w \in Admitted /\ job[w] = "none" /\ answers[w] = <<>> /\ w \notin ran
      /\ lease[w] = "none" /\ result[w] = "none" /\ req[w].peer = p /\ w # 0
  <2>1. w \in Writes /\ w \in Admitted /\ job[w] = "none" /\ answers[w] = <<>> /\ req[w].peer = p
    BY <1>1 DEF IInv, QueueSound, Admitted
  <2>2. w \notin ran /\ lease[w] = "none"
    BY <2>1 DEF IInv, StartedSound, LeaseSound
  <2>3. result[w] = "none"
    BY <2>1 DEF IInv, ResultSound, Ended
  <2> QED  BY <2>1, <2>2, <2>3, WritesFinite
<1>4. /\ \A s \in shut : s \in streams[p] /\ s \in Writes /\ req[w].kind = "full" /\ req[s].kind = "control"
      /\ \A s \in streams[p] : req[w].kind = "full" /\ req[s].kind = "control"
                               /\ req[s].session = req[w].session => s \in shut
  BY DEF Displaced, IInv, TypeOK
<1>5. /\ dropped \subseteq queue[p] /\ w \notin dropped
      /\ \A v \in dropped : v \in Writes /\ v \in Admitted /\ job[v] = "none"
  <2>1. dropped \subseteq queue[p]
    BY DEF Queued
  <2>2. w \notin dropped
    <3>1. req[w].kind = "full" => req[w].stream = w
      BY <1>3 DEF IInv, StreamSound, Open, Admitted
    <3>2. ASSUME w \in dropped
          PROVE  FALSE
      <4>1. req[w].stream \in shut
        BY <3>2 DEF Queued
      <4> QED  BY <1>4, <3>1, <4>1
    <3> QED  BY <3>2
  <2> QED  BY <2>1, <2>2 DEF IInv, QueueSound, Admitted
<1> HIDE DEF w, shut, dropped
<1>6. /\ job' \in [Writes -> {"none", "handoff", "check", "start", "starting", "host",
                              "returned", "freed", "delivered"}]
      /\ job'[w] = "handoff" /\ \A v \in Writes : v # w => job'[v] = job[v]
  BY <1>2, <1>3 DEF IInv, TypeOK
<1>7. /\ active' \in [Peers -> 0 .. MaxWrites] /\ owed' \in [Peers -> BOOLEAN]
      /\ active'[p] = w /\ owed'[p] = TRUE
      /\ \A q \in Peers : q # p => active'[q] = active[q] /\ owed'[q] = owed[q]
  BY <1>2, <1>3, WritesFinite DEF IInv, TypeOK
<1>8. /\ lease' \in [Writes -> {"none", "job", "stream", "handoff", "waiting", "cleaning", "gone"}]
      /\ \A s \in Writes : \/ lease'[s] = lease[s] /\ (s \notin shut \/ lease[s] # "stream")
                           \/ lease'[s] = "handoff" /\ lease[s] = "stream" /\ s \in shut
  BY <1>2 DEF IInv, TypeOK
<1>9. /\ streams' \in [Peers -> SUBSET Writes] /\ streams'[p] = streams[p] \ shut
      /\ queue' \in [Peers -> SUBSET Writes]
      /\ \A q \in Peers : q # p => streams'[q] = streams[q]
      /\ \A q \in Peers : \A v \in queue'[q] : v \in queue[q] /\ v \in Writes /\ v # w /\ v \notin dropped
  <2>1. \A q \in Peers : q # p => w \notin queue[q] /\ \A v \in dropped : v \notin queue[q]
    BY <1>1, <1>5 DEF IInv, QueueSound
  <2>2. streams \in [Peers -> SUBSET Writes] /\ queue \in [Peers -> SUBSET Writes]
    BY DEF IInv, TypeOK
  <2> QED  BY <1>2, <2>1, <2>2
<1>10. /\ AnswerStep /\ answers' \in [Writes -> Seq(Codes)]
       /\ \A v \in Writes : v \notin dropped => answers'[v] = answers[v]
  <2>1. PICK u \in Writes \cup {0}, code \in Codes : u = 0
    BY DEF Codes
  <2>2. PICK D \in SUBSET queue[p] : D = dropped
    BY <1>5
  <2>3. Answered(u, code, D) /\ u \notin D /\ 0 \notin Writes
    BY <1>2, <1>5, <2>1, <2>2, WritesFinite DEF Answered, Tell
  <2>4. ran' = ran /\ (u # 0 => TrueAnswer(u, code))
    BY <1>2, <2>1
  <2>5. /\ AnswerStep /\ answers' \in [Writes -> Seq(Codes)]
        /\ \A v \in Writes : v # u /\ v \notin D => answers'[v] = answers[v]
    BY <2>3, <2>4, AnswersGiven
  <2> QED  BY <2>1, <2>2, <2>3, <2>5
<1>11. \A v \in Writes : job[v] # "none" => req[v].peer \in Peers /\ v \notin dropped
  <2>1. ASSUME NEW v \in Writes, job[v] # "none"
        PROVE  req[v].peer \in Peers
    <3>1. v \in Admitted
      BY <2>1 DEF IInv, UnusedSound, Admitted
    <3> QED  BY <3>1, AdmittedFields DEF IInv
  <2> QED  BY <1>5, <2>1
<1>12. Admitted' = Admitted /\ \A v \in Writes : Open(v)' = Open(v) /\ Dev(v)' = Dev(v)
  BY <1>2 DEF Admitted, Open, Dev
<1>13. QueueSound'
  <2> SUFFICES ASSUME NEW q \in Peers, NEW v \in queue'[q]
               PROVE  /\ v \in Admitted /\ req[v].peer = q
                      /\ job'[v] = "none" /\ answers'[v] = <<>> /\ life[q] # "gone"
    BY <1>2, <1>12 DEF QueueSound
  <2>1. v \in queue[q] /\ v \in Writes /\ v # w /\ v \notin dropped
    BY <1>9
  <2> QED  BY <1>6, <1>10, <2>1 DEF IInv, QueueSound
<1>14. StreamSound'
  <2>1. \A q \in Peers : streams'[q] \subseteq streams[q]
    BY <1>9
  <2>2. \A q \in Peers : \A s \in streams'[q] : s \in Admitted' /\ req'[s].peer = q /\ Open(s)'
    <3>1. \A q \in Peers : \A s \in streams[q] : s \in Admitted /\ req[s].peer = q /\ Open(s)
      BY DEF IInv, StreamSound
    <3> QED  BY <1>2, <1>12, <2>1, <3>1 DEF Admitted
  <2>3. \A v \in Writes : req'[v] # None /\ Open(v)' => req'[v].stream = v
    BY <1>2, <1>12 DEF IInv, StreamSound
  <2> QED  BY <2>2, <2>3 DEF StreamSound
<1>15. UnusedSound'
  BY <1>2, <1>3, <1>5, <1>6, <1>8, <1>10 DEF IInv, UnusedSound, Admitted
<1>16. \A v \in Writes : job[v] \in Running => v # w /\ req[v].peer # p /\ active[req[v].peer] = v
  <2>1. "none" \notin Running
    BY DEF Running, Busy, Early
  <2> QED  BY <1>2, <1>3, <2>1, WritesFinite DEF IInv, ActiveSound
<1>17. ActiveSound'
  <2>1. \A q \in Peers : active'[q] # 0 =>
          active'[q] \in Admitted /\ req[active'[q]].peer = q /\ job'[active'[q]] # "none"
    BY <1>3, <1>6, <1>7 DEF IInv, ActiveSound, Admitted
  <2>2. ASSUME NEW v \in Writes, job'[v] \in Running
        PROVE  active'[req[v].peer] = v
    <3>1. CASE v = w
      BY <1>3, <1>7, <3>1
    <3>2. CASE v # w
      <4>1. job[v] \in Running /\ job[v] # "none"
        BY <1>6, <2>2, <3>2 DEF Running, Busy, Early
      <4> QED  BY <1>7, <1>11, <1>16, <4>1
    <3> QED  BY <3>1, <3>2
  <2> QED  BY <1>2, <1>12, <2>1, <2>2 DEF ActiveSound
<1>18. OwedSound'
  <2>1. \A q \in Peers : active[q] # 0 => answers'[active[q]] = answers[active[q]]
    BY <1>10, <1>11 DEF IInv, ActiveSound, Admitted
  <2>2. answers'[w] = <<>>
    BY <1>3, <1>5, <1>10
  <2> SUFFICES ASSUME NEW q \in Peers
               PROVE  /\ stalled[q] = TRUE => active'[q] # 0
                      /\ owed'[q] = TRUE => /\ active'[q] # 0 /\ answers'[active'[q]] = <<>>
                                            /\ Live(q) /\ cancelling[q] = 0
                      /\ active'[q] # 0 /\ stalled[q] = FALSE /\ Live(q) => owed'[q] = TRUE
                      /\ cancelling[q] # 0 =>
                           cancelling[q] = active'[q] /\ answers'[active'[q]] = <<>> /\ life[q] # "gone"
    BY <1>2 DEF OwedSound, Live
  <2>3. CASE q = p
    BY <1>2, <1>3, <1>7, <2>2, <2>3 DEF Live
  <2>4. CASE q # p
    BY <1>7, <2>1, <2>4 DEF IInv, OwedSound
  <2> QED  BY <2>3, <2>4
<1>19. \A v \in Writes : v # w /\ job[v] # "none" /\ active'[req[v].peer] = v => active[req[v].peer] = v
  BY <1>7, <1>11
<1>20. \A v \in Writes : v # w /\ job[v] # "none" /\ active'[req[v].peer] # v => active[req[v].peer] # v
  BY <1>2, <1>7, <1>11, WritesFinite
<1>21. StartedSound'
  <2>1. ASSUME NEW v \in Writes, v # w
        PROVE  v \in ran /\ v \notin started =>
                 job[v] = "delivered" /\ (active'[req[v].peer] # v \/ life[req[v].peer] = "gone")
    BY <1>19, <2>1 DEF IInv, StartedSound
  <2> QED  BY <1>2, <1>3, <1>6, <2>1 DEF IInv, StartedSound
<1>22. ResultSound'
  BY <1>2, <1>3, <1>6, <1>19 DEF IInv, ResultSound
<1>23. KeptSound'
  <2> SUFFICES ASSUME NEW v \in Writes, result[v] = "ok", Open(v), v \in streams'[req[v].peer]
               PROVE  lease'[v] = "job"
    BY <1>2, <1>12 DEF KeptSound
  <2>1. job[v] # "none"
    BY DEF IInv, ResultSound, Ended
  <2>2. v \in streams[req[v].peer]
    BY <1>9, <1>11, <2>1
  <2>3. lease[v] = "job"
    BY <2>2 DEF IInv, KeptSound
  <2> QED  BY <1>8, <2>3
<1>24. CancelSound'
  <2>1. ASSUME NEW v \in Writes, job'[v] \in Running, answers'[v] # <<>>
        PROVE  v \in cancelled
    <3>1. v # w
      BY <1>3, <1>5, <1>10, <2>1
    <3>2. job[v] \in Running /\ job[v] # "none"
      BY <1>6, <2>1, <3>1 DEF Running, Busy, Early
    <3> QED  BY <1>10, <1>11, <2>1, <3>2 DEF IInv, CancelSound
  <2> QED  BY <1>2, <2>1 DEF IInv, CancelSound
<1>25. LeaseSound'
  <2> SUFFICES ASSUME NEW v \in Writes
               PROVE  /\ job'[v] \in Early \cup {"none", "host"} => lease'[v] = "none"
                      /\ lease'[v] # "none" => v \in Admitted /\ Open(v)
                      /\ lease'[v] = "stream" => v \in streams'[req[v].peer]
                      /\ lease'[v] = "handoff" => req[v].kind = "control"
    BY <1>2, <1>12 DEF LeaseSound
  <2>1. /\ job[v] \in Early \cup {"none", "host"} => lease[v] = "none"
        /\ lease[v] # "none" => v \in Admitted /\ Open(v)
        /\ lease[v] = "stream" => v \in streams[req[v].peer]
        /\ lease[v] = "handoff" => req[v].kind = "control"
    BY DEF IInv, LeaseSound
  <2>2. job'[v] \in Early \cup {"none", "host"} => lease[v] = "none"
    BY <1>3, <1>6, <2>1
  <2>3. ASSUME lease'[v] = "stream"
        PROVE  v \in streams'[req[v].peer]
    <3>1. lease[v] = "stream" /\ v \notin shut /\ req[v].peer \in Peers
      BY <1>8, <2>1, <2>3, AdmittedFields DEF IInv
    <3> QED  BY <1>9, <2>1, <3>1
  <2> QED  BY <1>4, <1>8, <2>1, <2>2, <2>3
<1>26. HandoffSound'
  <2>1. ASSUME NEW v \in Writes, job'[v] \in Early \cup {"host"}, req[v].kind = "full",
               NEW s \in Writes, lease'[s] = "stream", req[s].kind = "control", req[s].peer = req[v].peer
        PROVE  req[s].session # req[v].session
    <3>0. lease[s] = "stream" /\ s \notin shut
      BY <1>8, <2>1
    <3>1. CASE v = w
      <4>1. s \in streams[p]
        BY <1>3, <2>1, <3>0, <3>1 DEF IInv, LeaseSound
      <4> QED  BY <1>4, <2>1, <3>0, <3>1, <4>1
    <3>2. CASE v # w
      BY <1>6, <2>1, <3>0, <3>2 DEF IInv, HandoffSound
    <3> QED  BY <3>1, <3>2
  <2>2. ASSUME NEW v \in Writes, job'[v] \in (Early \ {"handoff"}) \cup {"host"},
               NEW s \in Writes, lease'[s] = "handoff"
        PROVE  req[s].peer # req[v].peer
    <3>0. v # w /\ job[v] \in (Early \ {"handoff"}) \cup {"host"} /\ job[v] \in Running
      BY <1>6, <2>2 DEF Running, Busy
    <3>1. CASE lease[s] = "handoff"
      BY <2>2, <3>0, <3>1 DEF IInv, HandoffSound
    <3>2. CASE lease[s] # "handoff"
      <4>1. s \in shut
        BY <1>8, <2>2, <3>2
      <4>2. req[s].peer = p
        BY <1>4, <4>1 DEF IInv, StreamSound
      <4> QED  BY <1>16, <3>0, <4>2
    <3> QED  BY <3>1, <3>2
  <2> QED  BY <1>2, <2>1, <2>2 DEF HandoffSound
<1>27. PermitSound'
  <2>1. ASSUME NEW d \in Devices, d \notin deviceFree'
        PROVE  \E v \in Admitted : Dev(v) = d /\ job'[v] \in Busy
    <3>1. CASE d = Dev(w)
      BY <1>3, <1>6, <3>1 DEF Busy, Early
    <3>2. CASE d # Dev(w)
      <4>1. PICK v \in Admitted : Dev(v) = d /\ job[v] \in Busy
        BY <1>2, <2>1, <3>2 DEF IInv, PermitSound
      <4>2. v # w /\ v \in Writes
        BY <3>2, <4>1 DEF Admitted
      <4> QED  BY <1>6, <4>1, <4>2
    <3> QED  BY <3>1, <3>2
  <2>2. \A d \in Devices : d \in deviceFree' \/ \E v \in Admitted' : Dev(v)' = d /\ job'[v] \in Busy
    BY <1>12, <2>1 DEF Admitted
  <2> QED  BY <2>2 DEF PermitSound
<1>28. \A v \in Writes : Holds(v)' => Holds(v) /\ (v \in dropped => ~Open(v))
  <2> SUFFICES ASSUME NEW v \in Writes, Holds(v)'
               PROVE  Holds(v) /\ v \notin dropped
    OBVIOUS
  <2>0. v \in Admitted /\ req[v].peer \in Peers /\ Open(v)
    BY <1>12, AdmittedFields DEF Holds, IInv
  <2>1. lease'[v] \in Held => lease[v] \in Held
    BY <1>8 DEF Held
  <2>2. CASE v = w
    BY <1>1, <1>3, <1>5, <2>0, <2>2 DEF Holds
  <2>3. CASE v # w
    <3>1. \/ v \in queue'[req[v].peer] \/ job[v] \in Early \cup {"host"} \/ lease[v] \in Held
      BY <1>2, <1>6, <2>1, <2>3 DEF Holds
    <3>2. v \in dropped => v \notin queue'[req[v].peer] /\ job[v] = "none" /\ lease[v] = "none"
      BY <1>5, <1>9, <2>0 DEF IInv, LeaseSound
    <3>3. "none" \notin Early /\ "none" \notin Held
      BY DEF Early, Held
    <3> QED  BY <1>9, <2>0, <3>1, <3>2, <3>3 DEF Holds
  <2> QED  BY <2>2, <2>3
<1>29. \A v \in dropped : Open(v) => Holds(v)
  <2>1. \A v \in dropped : req[v].peer = p /\ v \in queue[p]
    BY <1>5 DEF IInv, QueueSound
  <2> QED  BY <1>5, <2>1 DEF Holds
<1>30. /\ FullSound' /\ fullFree' \subseteq Devices
       /\ Cardinality(Holders') + resources' <= MAX_RESOURCES
       /\ resources' \in 0 .. MAX_RESOURCES
  <2>1. dropped \in SUBSET Admitted
    BY <1>5
  <2> QED  BY <1>2, <1>28, <1>29, <2>1, PermitsBack
<1>31. Cardinality(Jobs') + writeSlots' <= WRITE_SLOTS /\ writeSlots' \in 0 .. WRITE_SLOTS
  <2>1. Jobs' = Jobs \cup {w}
    BY <1>3, <1>6 DEF Jobs, Busy, Early
  <2>2. \E v \in Writes : Jobs' = Jobs \cup {v}
    BY <1>3, <2>1
  <2>3. writeSlots > 0 /\ writeSlots' = writeSlots - 1
    BY <1>2
  <2> QED  BY <2>2, <2>3, SlotsCounted
<1>32. PermitsCounted'
  <2>1. Cleanups' = Cleanups
    BY <1>8 DEF Cleanups
  <2> QED  BY <1>2, <1>30, <1>31, <2>1, CleanupsCounted DEF PermitsCounted
<1>33. TypeOK'
  <2>1. closed' \subseteq Writes
    BY <1>2, <1>4 DEF IInv, TypeOK
  <2>2. deviceFree' \subseteq Devices
    BY <1>2 DEF IInv, TypeOK
  <2> QED  BY <1>2, <1>6, <1>7, <1>8, <1>9, <1>10, <1>30, <1>31, <2>1, <2>2 DEF IInv, TypeOK, Codes
<1>34. /\ QueueSound' /\ StreamSound' /\ UnusedSound' /\ ActiveSound' /\ OwedSound' /\ StartedSound'
       /\ ResultSound' /\ KeptSound' /\ CancelSound' /\ LeaseSound' /\ HandoffSound' /\ PermitSound'
  BY <1>13, <1>14, <1>15, <1>17, <1>18, <1>21, <1>22, <1>23, <1>24, <1>25, <1>26, <1>27
<1> QED  BY <1>10, <1>30, <1>32, <1>33, <1>34 DEF IInv

(***************************************************************************)
(* Admission, the clock and the identity.                                  *)
(***************************************************************************)

\* A permit of a resource is taken.
LEMMA PermitTaken ==
  ASSUME IInv, NEW w \in Writes, Holders' \subseteq Holders \cup {w}, resources > 0, resources' = resources - 1
  PROVE  Cardinality(Holders') + resources' <= MAX_RESOURCES /\ resources' \in 0 .. MAX_RESOURCES
<1>0. /\ Cardinality(Holders) \in Nat /\ resources \in Nat /\ MAX_RESOURCES \in Nat /\ IsFiniteSet(Holders)
      /\ Cardinality(Holders) + resources <= MAX_RESOURCES
  BY PermitTypes, Limits, FS_CardinalityType
<1>1. /\ IsFiniteSet(Holders \cup {w})
      /\ Cardinality(Holders \cup {w}) = IF w \in Holders THEN Cardinality(Holders) ELSE Cardinality(Holders) + 1
  BY <1>0, FS_AddElement
<1>2. /\ Cardinality(Holders') <= Cardinality(Holders \cup {w}) /\ Cardinality(Holders') \in Nat
  BY <1>1, FS_Subset, FS_CardinalityType
<1>3. Cardinality(Holders \cup {w}) <= Cardinality(Holders) + 1 /\ Cardinality(Holders \cup {w}) \in Nat
  BY <1>0, <1>1
<1> QED  BY <1>0, <1>2, <1>3

\* A write enters the queue, with its permits and its stream if it is an open.
LEMMA EnterInv ==
  ASSUME IInv, NEW p \in Peers, NEW w \in Writes, req[w] = None, life[p] = "alive", NEW r \in Request,
         r.peer = p, r.kind \in {"control", "full"} => r.stream = w,
         req' = [req EXCEPT ![w] = r], queue' = [queue EXCEPT ![p] = @ \cup {w}],
         \/ /\ r.kind \in {"control", "full"} /\ streams' = [streams EXCEPT ![p] = @ \cup {w}]
            /\ resources > 0 /\ resources' = resources - 1
            /\ IF r.kind = "full" THEN DeviceOf[p] \in fullFree /\ fullFree' = fullFree \ {DeviceOf[p]}
               ELSE fullFree' = fullFree
         \/ r.kind \notin {"control", "full"} /\ UNCHANGED <<streams, resources, fullFree>>,
         UNCHANGED <<now, life, active, owed, stalled, cancelling, closed, lease, job, started, result, ran,
                     cancelled, answers, deviceFree, writeSlots, cleanupSlots>>
  PROVE  IInv' /\ AnswerStep
<1>1. /\ req' \in [Writes -> Request \cup {None}] /\ req'[w] = r /\ req'[w] # None
      /\ \A v \in Writes : v # w => req'[v] = req[v]
  BY RequestFields DEF IInv, TypeOK
<1>2. /\ Admitted' = Admitted \cup {w} /\ w \notin Admitted /\ Admitted \subseteq Writes
      /\ \A v \in Admitted : v # w /\ req'[v] = req[v] /\ Open(v)' = Open(v) /\ Dev(v)' = Dev(v)
  <2>1. Admitted' = Admitted \cup {w} /\ w \notin Admitted /\ Admitted \subseteq Writes
    BY <1>1 DEF Admitted
  <2>2. \A v \in Admitted : v # w /\ req'[v] = req[v]
    BY <1>1, <2>1
  <2> QED  BY <2>1, <2>2 DEF Open, Dev
<1>3. /\ job[w] = "none" /\ answers[w] = <<>> /\ lease[w] = "none" /\ result[w] = "none" /\ w \notin ran
      /\ \A v \in Writes : v # w /\ (job[v] # "none" \/ lease[v] # "none") => v \in Admitted
  <2>1. /\ job[w] = "none" /\ answers[w] = <<>> /\ lease[w] = "none"
        /\ \A v \in Writes : v # w /\ (job[v] # "none" \/ lease[v] # "none") => v \in Admitted
    BY DEF IInv, UnusedSound, Admitted
  <2>2. w \notin ran
    BY <2>1 DEF IInv, StartedSound
  <2>3. result[w] = "none"
    BY <2>1 DEF IInv, ResultSound, Ended
  <2> QED  BY <2>1, <2>2, <2>3
<1>4. /\ queue' \in [Peers -> SUBSET Writes] /\ streams' \in [Peers -> SUBSET Writes]
      /\ queue'[p] = queue[p] \cup {w} /\ \A q \in Peers : q # p => queue'[q] = queue[q]
      /\ \A q \in Peers : q # p => streams'[q] = streams[q]
      /\ streams'[p] = streams[p] \/ (streams'[p] = streams[p] \cup {w} /\ r.kind \in {"control", "full"})
  <2>1. queue \in [Peers -> SUBSET Writes] /\ streams \in [Peers -> SUBSET Writes]
    BY DEF IInv, TypeOK
  <2>2. /\ queue' \in [Peers -> SUBSET Writes]
        /\ queue'[p] = queue[p] \cup {w} /\ \A q \in Peers : q # p => queue'[q] = queue[q]
    BY <2>1
  <2>3. CASE r.kind \in {"control", "full"}
    <3>1. streams' = [streams EXCEPT ![p] = @ \cup {w}]
      BY <2>3
    <3> QED  BY <2>1, <2>2, <2>3, <3>1
  <2>4. CASE r.kind \notin {"control", "full"}
    <3>1. streams' = streams
      BY <2>4
    <3> QED  BY <2>1, <2>2, <3>1
  <2> QED  BY <2>3, <2>4
<1>5. QueueSound'
  <2> SUFFICES ASSUME NEW q \in Peers, NEW v \in queue'[q]
               PROVE  /\ v \in Admitted' /\ req'[v].peer = q
                      /\ job[v] = "none" /\ answers[v] = <<>> /\ life[q] # "gone"
    BY DEF QueueSound
  <2>1. CASE v = w
    <3>1. q = p
      BY <1>2, <1>4, <2>1 DEF IInv, QueueSound
    <3> QED  BY <1>1, <1>2, <1>3, <2>1, <3>1
  <2>2. CASE v # w
    <3>1. v \in queue[q]
      BY <1>4, <2>2
    <3> QED  BY <1>2, <3>1 DEF IInv, QueueSound
  <2> QED  BY <2>1, <2>2
<1>6. StreamSound'
  <2>1. ASSUME NEW q \in Peers, NEW s \in streams'[q]
        PROVE  s \in Admitted' /\ req'[s].peer = q /\ Open(s)'
    <3>1. CASE s = w
      <4>1. q = p /\ r.kind \in {"control", "full"}
        BY <1>2, <1>4, <3>1 DEF IInv, StreamSound
      <4> QED  BY <1>1, <1>2, <3>1, <4>1 DEF Open
    <3>2. CASE s # w
      <4>1. s \in streams[q]
        BY <1>4, <3>2
      <4> QED  BY <1>2, <4>1 DEF IInv, StreamSound
    <3> QED  BY <3>1, <3>2
  <2>2. ASSUME NEW v \in Writes, req'[v] # None, Open(v)'
        PROVE  req'[v].stream = v
    <3>1. CASE v = w
      BY <1>1, <2>2, <3>1 DEF Open
    <3>2. CASE v # w
      BY <1>1, <2>2, <3>2 DEF IInv, StreamSound, Open
    <3> QED  BY <3>1, <3>2
  <2> QED  BY <2>1, <2>2 DEF StreamSound
<1>7. UnusedSound'
  BY <1>1 DEF IInv, UnusedSound
<1>8. ActiveSound'
  <2>1. \A q \in Peers : active[q] # 0 =>
          active[q] \in Admitted' /\ req'[active[q]].peer = q /\ job[active[q]] # "none"
    BY <1>2 DEF IInv, ActiveSound
  <2>2. ASSUME NEW v \in Writes, job[v] \in Running
        PROVE  active[req'[v].peer] = v
    <3>1. job[v] # "none"
      BY <2>2 DEF Running, Busy, Early
    <3>2. req'[v] = req[v]
      BY <1>1, <1>3, <3>1
    <3> QED  BY <2>2, <3>2 DEF IInv, ActiveSound
  <2> QED  BY <2>1, <2>2 DEF ActiveSound
<1>9. OwedSound' /\ CancelSound'
  BY DEF IInv, OwedSound, CancelSound, Live
<1>10. \A v \in Writes : req'[v] = req[v] \/ (v = w /\ job[v] = "none")
  BY <1>1, <1>3
<1>11. StartedSound' /\ ResultSound'
  <2>1. StartedSound'
    BY <1>3, <1>10 DEF IInv, StartedSound
  <2>2. ResultSound'
    BY <1>3, <1>10 DEF IInv, ResultSound
  <2> QED  BY <2>1, <2>2
<1>12. KeptSound'
  <2> SUFFICES ASSUME NEW v \in Writes, result[v] = "ok", Open(v)', v \in streams'[req'[v].peer]
               PROVE  lease[v] = "job"
    BY DEF KeptSound
  <2>1. v \in Admitted
    <3>1. job[v] # "none"
      BY DEF IInv, ResultSound, Ended
    <3> QED  BY <1>3, <3>1
  <2>2. v # w /\ req'[v] = req[v] /\ Open(v) /\ req[v].peer \in Peers
    BY <1>2, <2>1, AdmittedFields DEF IInv
  <2>3. v \in streams[req[v].peer]
    BY <1>4, <2>2
  <2> QED  BY <2>2, <2>3 DEF IInv, KeptSound
<1>13. LeaseSound'
  <2> SUFFICES ASSUME NEW v \in Writes
               PROVE  /\ job[v] \in Early \cup {"none", "host"} => lease[v] = "none"
                      /\ lease[v] # "none" => v \in Admitted' /\ Open(v)'
                      /\ lease[v] = "stream" => v \in streams'[req'[v].peer]
                      /\ lease[v] = "handoff" => req'[v].kind = "control"
    BY DEF LeaseSound
  <2>1. CASE v = w
    BY <1>3, <2>1
  <2>2. CASE v # w
    <3>1. lease[v] # "none" => v \in Admitted /\ req[v].peer \in Peers
      BY <1>3, <2>2, AdmittedFields DEF IInv
    <3> QED  BY <1>2, <1>4, <3>1 DEF IInv, LeaseSound
  <2> QED  BY <2>1, <2>2
<1>14. HandoffSound'
  <2>1. \A v \in Writes : job[v] \in Early \cup {"host"} => req'[v] = req[v]
    BY <1>10 DEF Early
  <2>2. \A v \in Writes : job[v] \in (Early \ {"handoff"}) \cup {"host"} => req'[v] = req[v]
    BY <1>10 DEF Early
  <2>3. \A s \in Writes : lease[s] # "none" => req'[s] = req[s]
    BY <1>1, <1>3
  <2> QED  BY <2>1, <2>2, <2>3 DEF IInv, HandoffSound
<1>15. PermitSound'
  <2>1. \A d \in Devices : d \in deviceFree \/ \E v \in Admitted' : Dev(v)' = d /\ job[v] \in Busy
    BY <1>2 DEF IInv, PermitSound
  <2> QED  BY <2>1 DEF PermitSound
<1>16. /\ \A v \in Writes : v # w => (Holds(v)' <=> Holds(v))
       /\ Holds(w)' => r.kind \in {"control", "full"}
       /\ ~Holds(w) /\ Dev(w)' = DeviceOf[p]
  <2>1. ASSUME NEW v \in Writes, v # w
        PROVE  Holds(v)' <=> Holds(v)
    <3>1. CASE v \in Admitted
      <4>1. req[v].peer \in Peers
        BY <3>1, AdmittedFields DEF IInv
      <4>2. v \in queue'[req[v].peer] <=> v \in queue[req[v].peer]
        BY <1>4, <2>1, <4>1
      <4> QED  BY <1>2, <3>1, <4>2 DEF Holds
    <3>2. CASE v \notin Admitted
      BY <1>2, <2>1, <3>2 DEF Holds
    <3> QED  BY <3>1, <3>2
  <2>2. Holds(w)' => r.kind \in {"control", "full"}
    BY <1>1 DEF Holds, Open
  <2>3. ~Holds(w) /\ Dev(w)' = DeviceOf[p]
    BY <1>1, <1>2 DEF Holds, Dev
  <2> QED  BY <2>1, <2>2, <2>3
<1>17. \A v \in Writes : Holds(v) => v \in Admitted /\ Dev(v)' = Dev(v) /\ req'[v] = req[v]
  BY <1>2 DEF Holds
<1>18. FullSound'
  <2> SUFFICES ASSUME NEW v \in Writes, Holds(v)', req'[v].kind = "full"
               PROVE  /\ Dev(v)' \notin fullFree'
                      /\ \A u \in Writes : Holds(u)' /\ req'[u].kind = "full" /\ Dev(u)' = Dev(v)' => u = v
    BY DEF FullSound
  <2>0. fullFree' \subseteq fullFree
    OBVIOUS
  <2>1. \A u \in Writes : Holds(u) /\ req[u].kind = "full" =>
          Dev(u) \notin fullFree /\ \A x \in Writes : Holds(x) /\ req[x].kind = "full" /\ Dev(x) = Dev(u) => x = u
    BY DEF IInv, FullSound
  <2>2. Holds(w)' /\ req'[w].kind = "full" => DeviceOf[p] \in fullFree /\ fullFree' = fullFree \ {DeviceOf[p]}
    BY <1>1, <1>16
  <2>3. CASE v = w
    <3>1. Dev(v)' = DeviceOf[p] /\ DeviceOf[p] \in fullFree /\ DeviceOf[p] \notin fullFree'
      BY <1>16, <2>2, <2>3
    <3>2. ASSUME NEW u \in Writes, Holds(u)', req'[u].kind = "full", Dev(u)' = Dev(v)', u # w
          PROVE  FALSE
      <4>1. Holds(u) /\ req[u].kind = "full" /\ Dev(u) = DeviceOf[p]
        BY <1>16, <1>17, <3>1, <3>2
      <4> QED  BY <2>1, <3>1, <4>1
    <3> QED  BY <2>3, <3>1, <3>2
  <2>4. CASE v # w
    <3>1. Holds(v) /\ req[v].kind = "full" /\ Dev(v)' = Dev(v) /\ Dev(v) \notin fullFree
      BY <1>16, <1>17, <2>1, <2>4
    <3>2. ASSUME NEW u \in Writes, Holds(u)', req'[u].kind = "full", Dev(u)' = Dev(v)'
          PROVE  u = v
      <4>1. u # w
        BY <1>16, <2>2, <3>1, <3>2
      <4>2. Holds(u) /\ req[u].kind = "full" /\ Dev(u) = Dev(v)
        BY <1>16, <1>17, <3>1, <3>2, <4>1
      <4> QED  BY <2>1, <3>1, <4>2
    <3> QED  BY <2>0, <3>1, <3>2
  <2> QED  BY <2>3, <2>4
<1>19. /\ Cardinality(Holders') + resources' <= MAX_RESOURCES /\ resources' \in 0 .. MAX_RESOURCES
       /\ fullFree' \subseteq Devices
  <2>1. fullFree' \subseteq Devices
    BY DEF IInv, TypeOK
  <2>2. CASE r.kind \in {"control", "full"}
    <3>1. Holders' \subseteq Holders \cup {w}
      BY <1>16 DEF Holders
    <3> QED  BY <2>1, <2>2, <3>1, PermitTaken
  <2>3. CASE r.kind \notin {"control", "full"}
    <3>1. Holders' = Holders
      BY <1>16, <2>3 DEF Holders
    <3> QED  BY <2>1, <2>3, <3>1 DEF IInv, TypeOK, PermitsCounted
  <2> QED  BY <2>2, <2>3
<1>20. PermitsCounted'
  <2>1. Jobs' = Jobs /\ Cleanups' = Cleanups
    BY DEF Jobs, Cleanups
  <2> QED  BY <1>19, <2>1 DEF IInv, PermitsCounted
<1>21. TypeOK'
  BY <1>1, <1>4, <1>19 DEF IInv, TypeOK
<1>22. AnswerStep
  BY DEF AnswerStep
<1>23. /\ QueueSound' /\ StreamSound' /\ UnusedSound' /\ ActiveSound' /\ OwedSound' /\ StartedSound'
       /\ ResultSound' /\ KeptSound' /\ CancelSound' /\ LeaseSound' /\ HandoffSound' /\ PermitSound'
  BY <1>5, <1>6, <1>7, <1>8, <1>9, <1>11, <1>12, <1>13, <1>14, <1>15
<1> QED  BY <1>18, <1>20, <1>21, <1>22, <1>23 DEF IInv

LEMMA AdmitInv ==
  ASSUME IInv, NEW p \in Peers, NEW w \in Writes, Admit(p, w)
  PROVE  IInv' /\ AnswerStep
<1>1. PICK session \in Sessions, until \in Untils :
        \/ \E kind \in Methods \cap {"control", "full"} : AdmitOpen(p, w, kind, session, until)
        \/ \E s \in Writes \cup {0} : AdmitWrite(p, w, s, session, until)
  BY DEF Admit
<1>2. ASSUME NEW kind \in {"control", "full"}, AdmitOpen(p, w, kind, session, until)
      PROVE  IInv' /\ AnswerStep
  <2>1. PICK r : r = [peer |-> p, kind |-> kind, stream |-> w, session |-> session, until |-> until]
    OBVIOUS
  <2>2. r \in Request /\ r.peer = p /\ r.kind = kind /\ r.stream = w
    <3>1. kind \in Kinds /\ w \in 0 .. MaxWrites
      BY WritesFinite DEF Kinds
    <3> QED  BY <2>1, <3>1, RequestFields
  <2>3. /\ req[w] = None /\ life[p] = "alive" /\ req' = [req EXCEPT ![w] = r]
        /\ queue' = [queue EXCEPT ![p] = @ \cup {w}] /\ streams' = [streams EXCEPT ![p] = @ \cup {w}]
        /\ resources > 0 /\ resources' = resources - 1
        /\ kind = "full" => DeviceOf[p] \in fullFree
        /\ fullFree' = IF kind = "full" THEN fullFree \ {DeviceOf[p]} ELSE fullFree
        /\ UNCHANGED <<now, life, active, owed, stalled, cancelling, closed, lease, job, started, result, ran,
                       cancelled, answers, deviceFree, writeSlots, cleanupSlots>>
    BY <1>2, <2>1 DEF AdmitOpen, NextWrite, Admits, jobVars
  <2> QED  BY <2>2, <2>3, EnterInv
<1>3. ASSUME NEW s \in Writes \cup {0}, AdmitWrite(p, w, s, session, until)
      PROVE  IInv' /\ AnswerStep
  <2>1. PICK kind \in {"prompt", "operation"} : kind = IF s = 0 THEN "prompt" ELSE "operation"
    OBVIOUS
  <2>2. PICK r : r = [peer |-> p, kind |-> kind, stream |-> s, session |-> session, until |-> until]
    OBVIOUS
  <2>3. r \in Request /\ r.peer = p /\ r.kind = kind
    <3>1. kind \in Kinds /\ s \in 0 .. MaxWrites
      BY WritesFinite DEF Kinds
    <3> QED  BY <2>2, <3>1, RequestFields
  <2>4. /\ req[w] = None /\ life[p] = "alive" /\ req' = [req EXCEPT ![w] = r]
        /\ queue' = [queue EXCEPT ![p] = @ \cup {w}]
        /\ UNCHANGED <<streams, resources, fullFree>>
        /\ UNCHANGED <<now, life, active, owed, stalled, cancelling, closed, lease, job, started, result, ran,
                       cancelled, answers, deviceFree, writeSlots, cleanupSlots>>
    BY <1>3, <2>1, <2>2 DEF AdmitWrite, NextWrite, Admits, jobVars, permitVars
  <2>5. kind \notin {"control", "full"}
    BY <2>1
  <2> QED  BY <2>3, <2>4, <2>5, EnterInv
<1> QED  BY <1>1, <1>2, <1>3

\* The clock ticks, a callback closes a stream, an identity ends.
LEMMA IdleInv ==
  ASSUME IInv, now' \in 0 .. MaxTime, closed' \subseteq Writes,
         life' = life \/ \E p \in Peers : life[p] = "alive" /\ life' = [life EXCEPT ![p] = "invalid"],
         UNCHANGED <<req, queue, active, owed, stalled, cancelling, streams, lease, job, started, result, ran,
                     cancelled, answers, resources, fullFree, deviceFree, writeSlots, cleanupSlots>>
  PROVE  IInv' /\ AnswerStep
<1>1. /\ life' \in [Peers -> {"alive", "invalid", "closing", "gone"}]
      /\ \A q \in Peers : /\ life'[q] = "gone" <=> life[q] = "gone"
                          /\ life'[q] \in {"alive", "invalid"} <=> life[q] \in {"alive", "invalid"}
  BY DEF IInv, TypeOK
<1>2. QueueSound' /\ StreamSound' /\ UnusedSound' /\ ActiveSound' /\ KeptSound' /\ LeaseSound' /\ HandoffSound'
  BY <1>1 DEF IInv, QueueSound, StreamSound, UnusedSound, ActiveSound, KeptSound, LeaseSound,
              HandoffSound, Admitted, Open
<1>3. OwedSound' /\ CancelSound'
  BY <1>1 DEF IInv, OwedSound, CancelSound, Live
<1>4. \A v \in Writes : job[v] # "none" => req[v].peer \in Peers
  <2>1. ASSUME NEW v \in Writes, job[v] # "none"
        PROVE  req[v].peer \in Peers
    <3>1. v \in Admitted
      BY <2>1 DEF IInv, UnusedSound, Admitted
    <3> QED  BY <3>1, AdmittedFields DEF IInv
  <2> QED  BY <2>1
<1>5. StartedSound'
  BY <1>1, <1>4 DEF IInv, StartedSound
<1>6. ResultSound'
  BY <1>1, <1>4 DEF IInv, ResultSound
<1>7. PermitSound' /\ FullSound' /\ PermitsCounted'
  BY DEF IInv, PermitSound, FullSound, PermitsCounted, Holders, Holds, Jobs, Cleanups, Admitted, Open, Dev
<1>8. TypeOK'
  BY <1>1 DEF IInv, TypeOK
<1>9. AnswerStep
  BY DEF AnswerStep
<1> QED  BY <1>2, <1>3, <1>5, <1>6, <1>7, <1>8, <1>9 DEF IInv

(***************************************************************************)
(* Every step.                                                             *)
(***************************************************************************)

LEMMA InitInv ==
  ASSUME Init
  PROVE  IInv
<1>1. /\ req = [w \in Writes |-> None] /\ life = [p \in Peers |-> "alive"] /\ queue = [p \in Peers |-> {}]
      /\ active = [p \in Peers |-> 0] /\ cancelling = [p \in Peers |-> 0] /\ streams = [p \in Peers |-> {}]
      /\ closed = {} /\ lease = [w \in Writes |-> "none"] /\ job = [w \in Writes |-> "none"]
      /\ started = {} /\ cancelled = {} /\ ran = {} /\ result = [w \in Writes |-> "none"]
      /\ answers = [w \in Writes |-> <<>>] /\ resources = MAX_RESOURCES
      /\ fullFree = Devices /\ deviceFree = Devices /\ writeSlots = WRITE_SLOTS
      /\ cleanupSlots = CLEANUP_SLOTS /\ now = 0
  BY DEF Init
<1>2. /\ owed = [p \in Peers |-> FALSE] /\ stalled = [p \in Peers |-> FALSE]
      /\ owed \in [Peers -> BOOLEAN] /\ stalled \in [Peers -> BOOLEAN]
  BY Zenon DEF Init
<1>3. TypeOK
  <2>1. <<>> \in Seq({"ok", "dropped", "unknown", "busy", "failed"})
    OBVIOUS
  <2> QED  BY <1>1, <1>2, <2>1, Limits, BoundsNatural DEF TypeOK
<1>4. Admitted = {}
  BY <1>1 DEF Admitted
<1>5. QueueSound /\ StreamSound /\ UnusedSound /\ ActiveSound
  BY <1>1, <1>4 DEF QueueSound, StreamSound, UnusedSound, ActiveSound, Running, Busy, Early
<1>6. OwedSound
  <2>1. \A p \in Peers : owed[p] = FALSE /\ stalled[p] = FALSE
    BY <1>2
  <2> QED  BY <1>1, <2>1 DEF OwedSound
<1>7. StartedSound /\ ResultSound /\ KeptSound /\ CancelSound
  BY <1>1 DEF StartedSound, ResultSound, KeptSound, CancelSound
<1>8. LeaseSound /\ HandoffSound /\ PermitSound
  BY <1>1 DEF LeaseSound, HandoffSound, PermitSound, Early
<1>9. Holders = {} /\ Jobs = {} /\ Cleanups = {} /\ FullSound
  BY <1>1, <1>4 DEF Holders, Holds, FullSound, Jobs, Cleanups, Busy, Early
<1>10. PermitsCounted
  BY <1>1, <1>9, FS_EmptySet, Limits DEF PermitsCounted
<1> QED  BY <1>3, <1>5, <1>6, <1>7, <1>8, <1>9, <1>10 DEF IInv

\* A job is started once, and only while nobody was told what became of it.
PerformStep(w) ==
  /\ w \notin ran /\ answers[w] = <<>> /\ ran' = ran \cup {w} /\ answers' = answers

LEMMA JobAnswers ==
  ASSUME IInv, NEW w \in Writes, JobStep(w) \/ HostStep(w)
  PROVE  AnswerStep \/ PerformStep(w)
<1>1. answers' = answers
  BY DEF JobStep, HostStep, JobCheck, JobStart, JobStartCheck, JobFree, JobDeliver, CleanupStart,
         JobHandoff, JobReturn, CleanupEnd, peerUnchanged
<1>2. CASE ran' = ran
  BY <1>1, <1>2 DEF AnswerStep
<1>3. CASE ran' # ran
  <2>1. JobStartCheck(w)
    BY <1>3 DEF JobStep, HostStep, JobCheck, JobStart, JobFree, JobDeliver, CleanupStart,
                JobHandoff, JobReturn, CleanupEnd, jobVars
  <2>2. job[w] = "starting" /\ Valid(w) /\ ran' = ran \cup {w}
    BY <1>3, <2>1 DEF JobStartCheck
  <2>3. w \notin cancelled
    BY <2>2 DEF Valid
  <2>4. job[w] \in Running /\ job[w] \in Early
    BY <2>2 DEF Running, Busy, Early
  <2>5. answers[w] = <<>>
    BY <2>3, <2>4 DEF IInv, CancelSound
  <2>6. w \notin ran
    BY <2>4 DEF IInv, StartedSound
  <2> QED  BY <1>1, <2>2, <2>5, <2>6 DEF PerformStep
<1> QED  BY <1>2, <1>3

LEMMA NextInv ==
  ASSUME IInv, [Next]_vars
  PROVE  IInv' /\ (AnswerStep \/ \E w \in Writes : PerformStep(w))
<1>0. TypeOK
  BY DEF IInv
<1>1. ASSUME NEW p \in Peers, NEW w \in Writes, Admit(p, w) \/ Tighten(p, w)
      PROVE  IInv' /\ AnswerStep
  BY <1>1, AdmitInv, CloseInv
<1>2. ASSUME NEW p \in Peers, PeerStep(p) \/ Stall(p) \/ Cancel(p)
      PROVE  IInv' /\ AnswerStep
  BY <1>2, PumpInv, PumpRefusedInv, FinishInv, StallReplyInv, CloseInv, DropReadsInv, StallInv, CancelInv
     DEF PeerStep
<1>3. ASSUME NEW p \in Peers, Invalidate(p)
      PROVE  IInv' /\ AnswerStep
  <2>1. /\ life[p] = "alive" /\ life' = [life EXCEPT ![p] = "invalid"]
        /\ UNCHANGED <<now, closed, req, queue, active, owed, stalled, cancelling, streams, lease, job, started,
                       result, ran, cancelled, answers, resources, fullFree, deviceFree, writeSlots, cleanupSlots>>
    BY <1>3 DEF Invalidate, jobVars, permitVars
  <2>2. now' \in 0 .. MaxTime /\ closed' \subseteq Writes
    BY <1>0, <2>1 DEF TypeOK
  <2> QED  BY <2>1, <2>2, IdleInv
<1>4. ASSUME NEW w \in Writes, JobStep(w) \/ HostStep(w)
      PROVE  IInv' /\ (AnswerStep \/ PerformStep(w))
  BY <1>4, JobInv, JobAnswers
<1>5. ASSUME NEW w \in Writes, HostCloses(w)
      PROVE  IInv' /\ AnswerStep
  <2>1. /\ closed' = closed \cup {w}
        /\ UNCHANGED <<now, life, req, queue, active, owed, stalled, cancelling, streams, lease, job, started,
                       result, ran, cancelled, answers, resources, fullFree, deviceFree, writeSlots, cleanupSlots>>
    BY <1>5 DEF HostCloses, peerVars, jobVars, permitVars
  <2>2. now' \in 0 .. MaxTime /\ closed' \subseteq Writes
    BY <1>0, <2>1 DEF TypeOK
  <2> QED  BY <2>1, <2>2, IdleInv
<1>6. CASE Tick
  <2>1. /\ now < MaxTime /\ now' = now + 1
        /\ UNCHANGED <<closed, life, req, queue, active, owed, stalled, cancelling, streams, lease, job, started,
                       result, ran, cancelled, answers, resources, fullFree, deviceFree, writeSlots, cleanupSlots>>
    BY <1>6 DEF Tick, peerVars, jobVars, permitVars
  <2>2. now' \in 0 .. MaxTime /\ closed' \subseteq Writes
    BY <1>0, <2>1, BoundsNatural DEF TypeOK
  <2> QED  BY <2>1, <2>2, IdleInv
<1>7. CASE UNCHANGED vars
  <2>1. UNCHANGED <<now, closed, life, req, queue, active, owed, stalled, cancelling, streams, lease, job, started,
                    result, ran, cancelled, answers, resources, fullFree, deviceFree, writeSlots, cleanupSlots>>
    BY <1>7 DEF vars, peerVars, jobVars, permitVars
  <2>2. now' \in 0 .. MaxTime /\ closed' \subseteq Writes
    BY <1>0, <2>1 DEF TypeOK
  <2> QED  BY <2>1, <2>2, IdleInv
<1> QED  BY <1>1, <1>2, <1>3, <1>4, <1>5, <1>6, <1>7 DEF Next

\* The conjunction of the named parts is an invariant of the bridge.
THEOREM WriteBridgeInvariant == Spec => []IInv
<1>1. Init => IInv
  BY InitInv
<1>2. IInv /\ [Next]_vars => IInv'
  BY NextInv
<1> QED  BY <1>1, <1>2, PTL DEF Spec

\* Every variable keeps its type, whatever the number of peers, writes and slots.
THEOREM WriteBridgeTypes == Spec => []TypeOK
<1>1. IInv => TypeOK
  BY DEF IInv
<1> QED  BY <1>1, WriteBridgeInvariant, PTL

\* No sequence of connections, opens, stalls and releases passes a limit at the host: what
\* it holds is covered by permits of Jobs.resources until its release has returned, and it
\* has at most one full client of a device.
THEOREM HostStaysWithinLimits == Spec => []HostWithinLimits
<1>1. ASSUME IInv
      PROVE  HostWithinPermits
  <2>1. HostHolds \in SUBSET Holders
    BY <1>1 DEF HostHolds, Holders, Holds, Held, IInv, LeaseSound
  <2>2. /\ IsFiniteSet(Holders) /\ resources \in Nat /\ Cardinality(Holders) + resources <= MAX_RESOURCES
    BY <1>1, PermitTypes
  <2>3. Cardinality(HostHolds) <= Cardinality(Holders) /\ IsFiniteSet(HostHolds)
    BY <2>1, <2>2, FS_Subset
  <2>4. Cardinality(HostHolds) \in Nat /\ Cardinality(Holders) \in Nat
    BY <2>2, <2>3, FS_CardinalityType
  <2> QED  BY <2>2, <2>3, <2>4, Limits DEF HostWithinPermits
<1>2. ASSUME IInv
      PROVE  OneFullPerDevice
  <2>1. \A v \in Admitted : req[v].kind = "full" /\ (v \in HostHolds \/ job[v] = "host") => v \in Writes /\ Holds(v)
    BY DEF HostHolds, Holds, Held, Open, Admitted
  <2> QED  BY <1>2, <2>1 DEF OneFullPerDevice, IInv, FullSound, Admitted
<1>3. IInv => HostWithinLimits
  BY <1>1, <1>2 DEF HostWithinLimits
<1> QED  BY <1>3, WriteBridgeInvariant, PTL

\* When the host opens a full client, the control leases of the peer's streams of that
\* session, which pump_writes took over, were released.
THEOREM FullFindsNoControl == Spec => []ControlYieldsToFull
<1>1. ASSUME IInv, NEW w \in Admitted, req[w].kind = "full", job[w] = "host",
             NEW s \in Admitted, req[s].kind = "control", req[s].peer = req[w].peer,
             req[s].session = req[w].session
      PROVE  lease[s] \notin {"stream", "handoff"}
  <2>1. w \in Writes /\ s \in Writes
    BY DEF Admitted
  <2> QED  BY <1>1, <2>1 DEF IInv, HandoffSound
<1>2. IInv => ControlYieldsToFull
  BY <1>1 DEF ControlYieldsToFull
<1> QED  BY <1>2, WriteBridgeInvariant, PTL

\* A peer without a job is refused only for another peer's job: submit_device gives the
\* device's write permit back before it sends the result.
THEOREM NoRefusalByOwnJob == Spec => []NoSelfRefusal
<1>1. ASSUME IInv, NEW p \in Peers, active[p] = 0, DeviceOf[p] \notin deviceFree
      PROVE  \E w \in Admitted : /\ req[w].peer # p /\ Dev(w) = DeviceOf[p]
                                 /\ job[w] \notin {"none", "freed", "delivered"}
  <2>1. DeviceOf[p] \in Devices
    BY DeviceOfPeers
  <2>2. PICK w \in Admitted : Dev(w) = DeviceOf[p] /\ job[w] \in Busy
    BY <1>1, <2>1 DEF IInv, PermitSound
  <2>3. w \in Writes /\ job[w] \in Running /\ job[w] \notin {"none", "freed", "delivered"} /\ w # 0
    BY <2>2, WritesFinite DEF Admitted, Running, Busy, Early
  <2>4. req[w].peer # p
    BY <1>1, <2>3 DEF IInv, ActiveSound
  <2> QED  BY <2>2, <2>3, <2>4
<1>2. IInv => NoSelfRefusal
  BY <1>1 DEF NoSelfRefusal
<1> QED  BY <1>2, WriteBridgeInvariant, PTL

\* Nobody is answered twice.
Once == \A w \in Writes : answers[w] = <<>> \/ \E c \in Codes : answers[w] = <<c>>

LEMMA ToldOnce ==
  /\ \A w \in Writes : answers[w] = <<>> => Told(w) = "none"
  /\ \A w \in Writes : \A c \in Codes : answers[w] = <<c>> => Told(w) = c
<1>1. \A c \in Codes : <<c>> # <<>> /\ Len(<<c>>) = 1 /\ <<c>>[1] = c
  OBVIOUS
<1> QED  BY <1>1 DEF Told

LEMMA OnceKept ==
  ASSUME Once, AnswerStep \/ answers' = answers
  PROVE  Once'
  BY DEF Once, AnswerStep

LEMMA PromiseAnswer ==
  ASSUME Once, AnswerStep
  PROVE  Promise!Answer
<1>1. Once'
  BY OnceKept
<1>2. /\ \A w \in Writes : answers'[w] = <<>> => Told(w)' = "none"
      /\ \A w \in Writes : \A c \in Codes : answers'[w] = <<c>> => Told(w)' = c
  <2>1. \A c \in Codes : <<c>> # <<>> /\ Len(<<c>>) = 1 /\ <<c>>[1] = c
    OBVIOUS
  <2>2. ASSUME NEW w \in Writes, answers'[w] = <<>>
        PROVE  Told(w)' = "none"
    <3>1. Len(answers'[w]) # 1
      BY <2>2
    <3> QED  BY <2>2, <3>1, Zenon DEF Told
  <2>3. ASSUME NEW w \in Writes, NEW c \in Codes, answers'[w] = <<c>>
        PROVE  Told(w)' = c
    <3>1. answers'[w] # <<>> /\ Len(answers'[w]) = 1 /\ answers'[w][1] = c
      BY <2>1, <2>3
    <3> QED  BY <3>1, Zenon DEF Told
  <2> QED  BY <2>2, <2>3
<1>3. \A w \in Writes : Told(w)' \in Codes \cup {"none"}
  BY <1>1, <1>2 DEF Once
<1>4. ASSUME NEW w \in Writes, Told(w)' # Told(w)
      PROVE  /\ Told(w) = "none"
             /\ Told(w)' = "ok" => w \in ran
             /\ Told(w)' \in {"dropped", "busy"} => w \notin ran
  <2>1. answers'[w] # answers[w]
    BY <1>4 DEF Told
  <2>2. /\ answers[w] = <<>>
        /\ \E c \in Codes : /\ answers'[w] = <<c>>
                            /\ c = "ok" => w \in ran
                            /\ c \in {"dropped", "busy"} => w \notin ran
    BY <2>1 DEF AnswerStep
  <2> QED  BY <1>2, <2>2, ToldOnce
<1>5. ran' = ran
  BY DEF AnswerStep
<1> QED  BY <1>3, <1>4, <1>5 DEF Promise!Answer, Promise!Answers, Codes

LEMMA PromisePerform ==
  ASSUME NEW w \in Writes, PerformStep(w)
  PROVE  Promise!Perform(w)
<1>1. Told(w) = "none" /\ \A v \in Writes : Told(v)' = Told(v)
  BY ToldOnce DEF PerformStep, Told
<1> QED  BY <1>1 DEF Promise!Perform, PerformStep

\* The bridge implements WriteOutcome: a write is answered at most once, "ok" is said of
\* what the host performed, and a write whose caller was told it was dropped or refused is
\* never performed, however its cancellation races the start of its job.
THEOREM BridgeKeepsPromise == Spec => KeepsPromise
<1>1. Init => IInv /\ Once /\ Promise!Init
  <2>1. Init => Once
    BY DEF Init, Once
  <2>2. Init => Promise!Init
    BY ToldOnce DEF Init, Promise!Init
  <2> QED  BY <2>1, <2>2, InitInv
<1>2. IInv /\ Once /\ [Next]_vars => IInv' /\ Once' /\ [Promise!Next]_(Promise!vars)
  <2> SUFFICES ASSUME IInv, Once, [Next]_vars
               PROVE  IInv' /\ Once' /\ [Promise!Next]_(Promise!vars)
    OBVIOUS
  <2>1. IInv' /\ (AnswerStep \/ \E w \in Writes : PerformStep(w))
    BY NextInv
  <2>2. Once'
    BY <2>1, OnceKept DEF PerformStep
  <2>3. CASE AnswerStep
    BY <2>1, <2>2, <2>3, PromiseAnswer DEF Promise!Next
  <2>4. CASE \E w \in Writes : PerformStep(w)
    BY <2>1, <2>2, <2>4, PromisePerform DEF Promise!Next
  <2> QED  BY <2>1, <2>3, <2>4
<1> QED  BY <1>1, <1>2, PTL DEF Spec, KeepsPromise, Promise!Spec
=============================================================================
