------------------------- MODULE StreamAuditProofs -------------------------
(***************************************************************************)
(* The audit of write streams, for any number of streams and devices and   *)
(* every size of the queue: its capacity, what it owes the desktop, the    *)
(* order in which it tells it, and what the page makes of it.              *)
(***************************************************************************)
EXTENDS StreamAudit, Integers, FiniteSetTheorems, SequenceTheorems, TLAPS

(***************************************************************************)
(* The invariant.                                                          *)
(***************************************************************************)
Stages == {"new", "reserved", "refused", "leased", "live", "open", "dropping",
           "unannounced", "gone"}

Bundles(k) == {<< >>, <<Released(k)>>, <<Closed(k)>>, <<Released(k), Closed(k)>>}

Snapshots == [type : {"snapshot"}, id : 0 .. MaxTimeouts, streams : SUBSET Streams]

BridgeTypes ==
  /\ stage \in [Streams -> Stages]
  /\ closed \subseteq Streams /\ holds \subseteq Streams /\ live \subseteq Streams
  /\ follows \in [Streams -> SUBSET Streams]

InputTypes ==
  /\ job \in [Streams -> {"idle", "checked", "audited"}]
  /\ bucket \in [Streams -> Nat]
  /\ sent \in [Streams -> Nat] /\ audited \in [Streams -> Nat]

QueueTypes ==
  /\ queue \in Seq(Events)
  /\ DOMAIN pending = Streams /\ \A k \in Streams : pending[k] \in Bundles(k)
  /\ record \in [plain : Nat, tight : Nat]
  /\ untold \in [plain : Int, tight : Int]

PageTypes ==
  /\ asked \in Seq(0 .. MaxTimeouts) /\ waiting \in BOOLEAN
  /\ answer = << >> \/ \E s \in Snapshots : answer = <<s>>
  /\ reply \in [kind : {"none", "failed", "replied"}, streams : SUBSET Streams]
  /\ inbox \in Seq(Events)
  /\ running \in BOOLEAN /\ shown \subseteq Streams /\ seen \in [Streams -> 0 .. 2]
  /\ recon \in [on : BOOLEAN, attempt : 0 .. ATTEMPTS, raced : BOOLEAN]
  /\ plain \in Nat /\ lifecycle \in Nat /\ timeouts \in 0 .. MaxTimeouts
  /\ crashes \in Nat
  /\ heard \subseteq Streams /\ settled \subseteq Streams

\* What the stages of a stream say of the rest of its state.
StageInv ==
  \A k \in Streams :
    /\ stage[k] = "live" => k \in holds
    /\ k \in holds => stage[k] # "new"
    /\ k \in live <=> stage[k] \in {"live", "open"}
    /\ stage[k] \in {"dropping", "unannounced", "gone", "refused"} => k \in closed
    /\ pending[k] # << >> => stage[k] = "gone"

\* A reserved slot is there when it is used.
WithinCapacity ==
  /\ Len(queue) + Cardinality(holds) + Cardinality(Buckets(bucket)) <= QUEUE
  /\ Cardinality(Ordinary(queue)) + Cardinality(holds)
       + Cardinality(Buckets(bucket)) <= AUDIT

\* An input that was audited and may still start is accounted for already.
InputInv ==
  /\ InputAudited
  /\ \A k \in Streams : job[k] # "idle" /\ k \notin closed => stage[k] = "open"
  /\ \A k \in Streams : job[k] = "audited" /\ k \notin closed =>
       sent[k] + 1 <= audited[k] + bucket[k]

\* The order of opens and closes.
Announced(k) == k \in heard \/ Opened(k) \in Range(queue)

OrderInv ==
  /\ \A k \in Streams : Announced(k) => stage[k] \in {"open", "dropping", "gone"}
  /\ \A k \in Streams : Announced(k) /\ stage[k] = "gone" =>
       k \in settled \/ Closed(k) \in Range(queue) \union Range(pending[k])
  /\ \A k \in Streams : stage[k] = "new" => follows[k] = {}
  /\ \A k \in Streams : \A j \in follows[k] : stage[j] = "gone" /\ pending[j] = << >>
  /\ \A k \in Streams : \A j \in follows[k] : \A i, m \in DOMAIN queue :
       queue[i] = Opened(k) /\ queue[m] = Closed(j) => m < i
  /\ \A k \in heard : \A j \in follows[k] : Closed(j) \notin Range(queue)

\* The answers to the request that the page waits for, and where they are: the
\* request or its answer is in one place, once, and nowhere when nobody waits.
MineOf(t) == {Snapshot(t, S) : S \in SUBSET Streams}

Once(q, M) == \A i, j \in DOMAIN q : q[i] \in M /\ q[j] \in M => i = j

Has(q, M) == \E e \in M : e \in Range(q)

RequestAt(as, an, q, w, t) ==
  /\ \A i \in Range(as) : i <= t
  /\ \A e \in Range(an) \union Range(q) : e.type = "snapshot" => e.id <= t
  /\ Once(as, {t}) /\ Once(q, MineOf(t))
  /\ ~(Has(as, {t}) /\ Has(an, MineOf(t)))
  /\ ~(Has(as, {t}) /\ Has(q, MineOf(t)))
  /\ ~(Has(an, MineOf(t)) /\ Has(q, MineOf(t)))
  /\ Has(as, {t}) \/ Has(an, MineOf(t)) \/ Has(q, MineOf(t)) => w

RequestInv ==
  /\ waiting => recon.on /\ reply = NoReply
  /\ reply # NoReply => recon.on
  /\ RequestAt(asked, answer, queue, waiting, timeouts)

\* What the page has not handled yet: e comes after every Down.
DownAhead == Down \in Range(inbox)

AheadIn(ib, e) ==
  \E i \in DOMAIN ib : ib[i] = e /\ \A m \in DOMAIN ib : m > i => ib[m] # Down

Ahead(e) == AheadIn(inbox, e)

\* Stages of a stream that was live once.
Past == {"live", "open", "dropping", "gone"}

\* A stream the page may show, and an open one it need not show yet.
Owed(k) == \/ k \in live \union settled \/ stage[k] = "dropping"
           \/ Closed(k) \in Range(queue) \union Range(pending[k])

Coming(k) == stage[k] = "live" \/ Opened(k) \in Range(queue) \/ Ahead(Opened(k))

\* A set of streams that may be shown.
Fits(S) ==
  /\ \A k \in S : DownAhead \/ (Owed(k) /\ stage[k] \in Past)
  /\ \A k \in live : Coming(k) \/ (k \in S /\ ~DownAhead)
  /\ \A k \in live : ~DownAhead /\ seen[k] > 0 => k \in S

\* The answers that the page may still apply.
Current(S) ==
  \/ reply = Replied(S)
  \/ waiting /\ Snapshot(timeouts, S) \in Range(queue) \union Range(answer)

PageInv ==
  /\ Fits(shown)
  /\ \A S \in SUBSET Streams : Current(S) /\ ~recon.raced => Fits(S)
  /\ \A k \in Streams : ~DownAhead /\ seen[k] > 0 => stage[k] \in Past
  /\ \A k \in Streams : Ahead(Opened(k)) => k \in heard
  /\ \A k \in Streams : Closed(k) \in Range(queue) => stage[k] = "gone"
  /\ \A k \in Streams : Ahead(Closed(k)) => stage[k] = "gone" /\ k \in settled

-----------------------------------------------------------------------------
(***************************************************************************)
(* Sums, and the places of a queue.                                        *)
(***************************************************************************)

\* The unit places that a sum counts.
Units(w) == UNION {{i} \X (1 .. w[i]) : i \in DOMAIN w}

\* Units(w) as a set of pairs.
LEMMA UnitsMember ==
  ASSUME NEW w \in Seq(Nat), NEW p
  PROVE  p \in Units(w) <=>
           \E i \in 1 .. Len(w) : \E j \in 1 .. w[i] : p = <<i, j>>
<1>1. DOMAIN w = 1 .. Len(w)
  OBVIOUS
<1> QED
  BY <1>1 DEF Units

\* A sum of one number.
LEMMA UnitsOfOne ==
  ASSUME NEW n \in Nat
  PROVE  IsFiniteSet(Units(<<n>>)) /\ Cardinality(Units(<<n>>)) = n
<1>0. PICK w : w = <<n>>
  OBVIOUS
<1>1. w \in Seq(Nat) /\ Len(w) = 1 /\ w[1] = n
  BY <1>0
<1> DEFINE f == [j \in 1 .. n |-> <<1, j>>]
<1>2. \A p : p \in Units(w) <=> \E j \in 1 .. n : p = <<1, j>>
  <2> TAKE p
  <2>1. p \in Units(w) <=> \E i \in 1 .. Len(w) : \E j \in 1 .. w[i] : p = <<i, j>>
    BY <1>1, UnitsMember
  <2>2. \A i : i \in 1 .. Len(w) <=> i = 1
    BY <1>1
  <2> QED
    BY <1>1, <2>1, <2>2
<1>3. f \in Bijection(1 .. n, Units(w))
  <2>1. f \in [1 .. n -> Units(w)]
    BY <1>2
  <2>2. \A i, j \in 1 .. n : f[i] = f[j] => i = j
    OBVIOUS
  <2>3. \A p \in Units(w) : \E j \in 1 .. n : f[j] = p
    BY <1>2
  <2> HIDE DEF f
  <2> QED
    BY <2>1, <2>2, <2>3 DEF Bijection, Injection, Surjection, IsInjective
<1>4. ExistsBijection(1 .. n, Units(w))
  BY <1>3 DEF ExistsBijection
<1>5. IsFiniteSet(1 .. n) /\ Cardinality(1 .. n) = n
  BY FS_Interval
<1>6. IsFiniteSet(Units(w)) /\ Cardinality(Units(w)) = n
  BY <1>4, <1>5, FS_Bijection
<1> QED
  BY <1>0, <1>6

\* The sum of no numbers is zero.
LEMMA UnitsOfNone ==
  Units(<< >>) = {}
BY DEF Units

\* Two sequences of numbers, one after the other.
LEMMA UnitsConcat ==
  ASSUME NEW w \in Seq(Nat), NEW u \in Seq(Nat), IsFiniteSet(Units(w)),
         IsFiniteSet(Units(u))
  PROVE  /\ IsFiniteSet(Units(w \o u))
         /\ Cardinality(Units(w \o u)) = Cardinality(Units(w)) + Cardinality(Units(u))
<1>1. PICK n \in Nat : n = Len(w)
  OBVIOUS
<1>0. PICK v : v = w \o u
  OBVIOUS
<1>2. /\ v \in Seq(Nat) /\ Len(v) = n + Len(u)
      /\ \A i \in 1 .. n : v[i] = w[i]
      /\ \A i \in 1 .. Len(u) : v[n + i] = u[i]
  BY <1>0, <1>1
<1>15. \A p : p \in Units(v) <=>
         \E i \in 1 .. Len(v) : \E j \in 1 .. v[i] : p = <<i, j>>
  BY <1>2, UnitsMember
<1> DEFINE f == [p \in Units(u) |-> <<n + p[1], p[2]>>]
           T == {f[p] : p \in Units(u)}
<1>3. \A p \in Units(u) : /\ p[1] \in 1 .. Len(u) /\ p[2] \in 1 .. u[p[1]]
                          /\ p = <<p[1], p[2]>>
  BY UnitsMember
<1>4. f \in Bijection(Units(u), T)
  <2>1. f \in [Units(u) -> T]
    OBVIOUS
  <2>2. ASSUME NEW p \in Units(u), NEW r \in Units(u), f[p] = f[r]
        PROVE  p = r
    <3>1. <<n + p[1], p[2]>> = <<n + r[1], r[2]>>
      BY <2>2
    <3>2. n + p[1] = n + r[1] /\ p[2] = r[2]
      BY <3>1
    <3>3. p[1] \in Int /\ r[1] \in Int
      BY <1>3
    <3>4. p[1] = r[1]
      BY <3>2, <3>3
    <3> QED
      BY <1>3, <3>2, <3>4
  <2>3. \A t \in T : \E p \in Units(u) : f[p] = t
    OBVIOUS
  <2> HIDE DEF f, T
  <2> QED
    BY <2>1, <2>2, <2>3 DEF Bijection, Injection, Surjection, IsInjective
<1>5. ExistsBijection(Units(u), T)
  BY <1>4 DEF ExistsBijection
<1>6. IsFiniteSet(T) /\ Cardinality(T) = Cardinality(Units(u))
  BY <1>5, FS_Bijection
<1>7. \A p \in T : p \in Units(v) /\ p[1] > n
  <2> SUFFICES ASSUME NEW p \in Units(u)
               PROVE  f[p] \in Units(v) /\ f[p][1] > n
    OBVIOUS
  <2>1. f[p] = <<n + p[1], p[2]>>
    OBVIOUS
  <2>2. n + p[1] \in 1 .. Len(v) /\ p[2] \in 1 .. v[n + p[1]]
    <3>1. PICK a : a = p[1]
      OBVIOUS
    <3>2. a \in 1 .. Len(u) /\ p[2] \in 1 .. u[a] /\ Len(u) \in Nat
      BY <1>3, <3>1
    <3>3. v[n + a] = u[a] /\ n + a \in 1 .. Len(v)
      BY <1>2, <3>2
    <3> QED
      BY <3>1, <3>2, <3>3
  <2>3. f[p] \in Units(v)
    <3>1. PICK i, j : i = n + p[1] /\ j = p[2]
      OBVIOUS
    <3>2. i \in 1 .. Len(v) /\ j \in 1 .. v[i] /\ f[p] = <<i, j>>
      BY <2>1, <2>2, <3>1
    <3> QED
      BY <1>15, <3>2
  <2> QED
    BY <1>3, <2>1, <2>3
<1>8. \A p \in Units(w) : p \in Units(v) /\ p[1] <= n
  <2> TAKE p \in Units(w)
  <2>1. PICK i \in 1 .. Len(w) : \E j \in 1 .. w[i] : p = <<i, j>>
    BY UnitsMember
  <2>2. PICK j \in 1 .. w[i] : p = <<i, j>>
    BY <2>1
  <2>3. i \in 1 .. Len(v) /\ j \in 1 .. v[i]
    BY <1>1, <1>2, <2>1, <2>2
  <2>4. p \in Units(v)
    BY <1>15, <2>2, <2>3
  <2>5. p[1] = i
    BY <2>2
  <2> QED
    BY <1>1, <2>4, <2>5
<1>9. \A p \in Units(v) : p \in Units(w) \/ p \in T
  <2> TAKE p \in Units(v)
  <2>1. PICK i \in 1 .. Len(v) : \E j \in 1 .. v[i] : p = <<i, j>>
    BY <1>15
  <2>2. PICK j \in 1 .. v[i] : p = <<i, j>>
    BY <2>1
  <2>3. CASE i <= n
    <3>1. i \in 1 .. Len(w) /\ j \in 1 .. w[i]
      BY <1>1, <1>2, <2>1, <2>2, <2>3
    <3> QED
      BY <2>2, <3>1, UnitsMember
  <2>4. CASE ~(i <= n)
    <3>1. i - n \in 1 .. Len(u) /\ v[n + (i - n)] = u[i - n] /\ n + (i - n) = i
      <4>1. i - n \in 1 .. Len(u) /\ n + (i - n) = i
        BY <1>2, <2>1, <2>4
      <4> QED
        BY <1>2, <4>1
    <3>2. j \in 1 .. u[i - n]
      <4>1. v[i] = u[i - n]
        BY <3>1
      <4> QED
        BY <2>2, <4>1
    <3>3. <<i - n, j>> \in Units(u)
      <4>1. PICK m : m = i - n
        OBVIOUS
      <4>2. m \in 1 .. Len(u) /\ j \in 1 .. u[m]
        BY <3>1, <3>2, <4>1
      <4>3. <<m, j>> \in Units(u)
        BY <4>2, UnitsMember
      <4> QED
        BY <4>1, <4>3
    <3>4. f[<<i - n, j>>] = <<i, j>>
      <4>1. <<i - n, j>>[1] = i - n /\ <<i - n, j>>[2] = j
        OBVIOUS
      <4>2. f[<<i - n, j>>] = <<n + (i - n), j>>
        BY <3>3, <4>1
      <4> QED
        BY <3>1, <4>2
    <3> QED
      BY <2>2, <3>3, <3>4
  <2> QED
    BY <2>3, <2>4
<1> HIDE DEF f, T
<1>10. Units(v) = Units(w) \cup T
  BY <1>7, <1>8, <1>9
<1>13. Units(w) \cap T = {}
  <2> SUFFICES ASSUME NEW p \in Units(w), p \in T
               PROVE  FALSE
    OBVIOUS
  <2>1. p[1] > n /\ p[1] <= n
    BY <1>7, <1>8
  <2>2. p[1] \in Int
    BY UnitsMember
  <2> QED
    BY <2>1, <2>2
<1>11. Cardinality(Units(w) \cup T) = Cardinality(Units(w)) + Cardinality(T) - Cardinality(Units(w) \cap T)
       /\ IsFiniteSet(Units(w) \cup T)
  BY <1>6, FS_Union
<1>12. Cardinality(Units(w)) \in Nat /\ Cardinality(Units(u)) \in Nat
  BY FS_CardinalityType
<1>14. Cardinality(Units(w) \cap T) = 0
  BY <1>13, FS_EmptySet
<1> QED
  BY <1>0, <1>6, <1>10, <1>11, <1>12, <1>14

\* The values of a function on an initial segment of the numbers are finitely
\* many.
LEMMA FiniteFamily ==
  ASSUME NEW n \in Nat, NEW f, DOMAIN f = 1 .. n
  PROVE  IsFiniteSet({f[i] : i \in 1 .. n})
<1> DEFINE T == {f[i] : i \in 1 .. n}
           g == [i \in 1 .. n |-> f[i]]
<1>1. g \in Surjection(1 .. n, T)
  BY DEF Surjection
<1>2. IsFiniteSet(1 .. n)
  BY FS_Interval
<1> HIDE DEF g, T
<1>3. IsFiniteSet(T)
  BY <1>1, <1>2, FS_Surjection
<1> QED
  BY <1>3 DEF T

\* Only finitely many units make up a sum.
LEMMA UnitsFinite ==
  ASSUME NEW w \in Seq(Nat)
  PROVE  IsFiniteSet(Units(w))
<1>1. PICK n \in Nat : n = Len(w)
  OBVIOUS
<1> DEFINE f == [i \in 1 .. n |-> {i} \X (1 .. w[i])]
           F == {f[i] : i \in 1 .. n}
<1>2. IsFiniteSet(F)
  BY FiniteFamily
<1>3. \A T \in F : IsFiniteSet(T)
  <2> SUFFICES ASSUME NEW i \in 1 .. n
               PROVE  IsFiniteSet({i} \X (1 .. w[i]))
    OBVIOUS
  <2>1. IsFiniteSet({i})
    BY FS_Singleton
  <2>2. w[i] \in Int
    BY <1>1
  <2>3. IsFiniteSet(1 .. w[i])
    BY <2>2, FS_Interval
  <2> QED
    BY <2>1, <2>3, FS_Product
<1>4. IsFiniteSet(UNION F)
  BY <1>2, <1>3, FS_UNION
<1>5. UNION F = Units(w)
  <2>1. DOMAIN w = 1 .. n
    BY <1>1
  <2> QED
    BY <2>1 DEF Units
<1> QED
  BY <1>4, <1>5

\* What the types of events say of their fields.
LEMMA EventFields ==
  ASSUME NEW e \in Events
  PROVE  /\ e.type \in {"opened", "closed", "released", "input"} =>
              e.stream \in Streams
         /\ e.type = "opened" => e = Opened(e.stream)
         /\ e.type = "closed" => e = Closed(e.stream)
         /\ e.type = "dropped" =>
              e.lost \in [plain : Nat, tight : Nat]
         /\ e.type = "snapshot" => e \in Snapshots
         /\ e.type = "down" => e = Down
         /\ e.type = "up" => e = Up
         /\ e.type = "plain" => e = Plain
<1>1. CASE e \in [type : {"opened", "closed", "released", "input"}, stream : Streams]
  BY <1>1 DEF Opened, Closed
<1>2. CASE e \in {Plain, Lifecycle, Down, Up}
  BY <1>2 DEF Plain, Lifecycle, Down, Up
<1>3. CASE e \in [type : {"dropped"}, lost : [plain : Nat, tight : Nat]]
  BY <1>3
<1>4. CASE e \in Snapshots
  BY <1>4 DEF Snapshots
<1> QED
  BY <1>1, <1>2, <1>3, <1>4 DEF Events, Snapshots

\* The events the gateway makes are events.
LEMMA EventsMade ==
  /\ \A k \in Streams : {Opened(k), Closed(k), Released(k), Input(k)} \subseteq Events
  /\ {Plain, Lifecycle, Down, Up} \subseteq Events
  /\ \A r \in [plain : Nat, tight : Nat] : Dropped(r) \in Events
  /\ Snapshots \subseteq Events
  /\ \A i \in 0 .. MaxTimeouts : \A S \in SUBSET Streams : Snapshot(i, S) \in Snapshots
<1>1. \A k \in Streams : {Opened(k), Closed(k), Released(k), Input(k)} \subseteq Events
  BY DEF Events, Opened, Closed, Released, Input
<1>2. {Plain, Lifecycle, Down, Up} \subseteq Events
  BY DEF Events
<1>3. \A r \in [plain : Nat, tight : Nat] : Dropped(r) \in Events
  BY DEF Events, Dropped
<1>4. Snapshots \subseteq Events
  BY DEF Events, Snapshots
<1>5. \A i \in 0 .. MaxTimeouts : \A S \in SUBSET Streams : Snapshot(i, S) \in Snapshots
  BY DEF Snapshots, Snapshot
<1> QED
  BY <1>1, <1>2, <1>3, <1>4, <1>5

\* What an event counts for.
LEMMA EventWeights ==
  ASSUME NEW e \in Events
  PROVE  /\ Tight(e) \in Nat /\ Small(e) \in Nat
         /\ e.type \in {"released", "closed"} => Tight(e) = 1 /\ Small(e) = 0
         /\ e.type = "plain" => Tight(e) = 0 /\ Small(e) = 1
         /\ e.type = "dropped" => Tight(e) = e.lost.tight /\ Small(e) = e.lost.plain
         /\ e.type \notin {"released", "closed", "plain", "dropped"} =>
              Tight(e) = 0 /\ Small(e) = 0
<1>1. e.type = "dropped" => e.lost.tight \in Nat /\ e.lost.plain \in Nat
  BY EventFields
<1>2. CASE e.type \in {"released", "closed"}
  BY <1>2 DEF Tight, Small
<1>3. CASE e.type = "plain"
  BY <1>3 DEF Tight, Small
<1>4. CASE e.type = "dropped"
  BY <1>1, <1>4 DEF Tight, Small
<1>5. CASE e.type \notin {"released", "closed", "plain", "dropped"}
  BY <1>5 DEF Tight, Small
<1> QED
  BY <1>2, <1>3, <1>4, <1>5

\* The weights of a queue.
LEMMA QueueWeights ==
  ASSUME NEW q \in Seq(Events)
  PROVE  /\ [i \in DOMAIN q |-> Tight(q[i])] \in Seq(Nat)
         /\ [i \in DOMAIN q |-> Small(q[i])] \in Seq(Nat)
         /\ TightIn(q) = Cardinality(Units([i \in DOMAIN q |-> Tight(q[i])]))
         /\ SmallIn(q) = Cardinality(Units([i \in DOMAIN q |-> Small(q[i])]))
         /\ TightIn(q) \in Nat /\ SmallIn(q) \in Nat
<1>1. \A i \in DOMAIN q : Tight(q[i]) \in Nat /\ Small(q[i]) \in Nat
  BY EventWeights
<1>2. DOMAIN q = 1 .. Len(q) /\ Len(q) \in Nat
  OBVIOUS
<1>3. /\ [i \in DOMAIN q |-> Tight(q[i])] \in Seq(Nat)
      /\ [i \in DOMAIN q |-> Small(q[i])] \in Seq(Nat)
  BY <1>1, <1>2
<1>4. /\ TightIn(q) = Cardinality(Units([i \in DOMAIN q |-> Tight(q[i])]))
      /\ SmallIn(q) = Cardinality(Units([i \in DOMAIN q |-> Small(q[i])]))
  BY DEF TightIn, SmallIn, Total, Units
<1>5. PICK w, u : /\ w = [i \in DOMAIN q |-> Tight(q[i])]
                  /\ u = [i \in DOMAIN q |-> Small(q[i])]
  OBVIOUS
<1>6. IsFiniteSet(Units(w)) /\ IsFiniteSet(Units(u))
  BY <1>3, <1>5, UnitsFinite
<1>7. Cardinality(Units(w)) \in Nat /\ Cardinality(Units(u)) \in Nat
  BY <1>6, FS_CardinalityType
<1> QED
  BY <1>3, <1>4, <1>5, <1>7

\* A sequence that consists of two.
LEMMA ConcatIs ==
  ASSUME NEW v \in Seq(Nat), NEW w \in Seq(Nat), NEW u \in Seq(Nat),
         Len(v) = Len(w) + Len(u), \A i \in 1 .. Len(w) : v[i] = w[i],
         \A i \in 1 .. Len(u) : v[Len(w) + i] = u[i]
  PROVE  v = w \o u
<1>1. PICK t : t = w \o u
  OBVIOUS
<1>2. /\ t \in Seq(Nat) /\ Len(t) = Len(w) + Len(u)
      /\ \A i \in 1 .. Len(w) : t[i] = w[i]
      /\ \A i \in 1 .. Len(u) : t[Len(w) + i] = u[i]
  BY <1>1
<1>3. ASSUME NEW i \in 1 .. Len(v)
      PROVE  v[i] = t[i]
  <2>1. CASE i <= Len(w)
    BY <1>2, <2>1
  <2>2. CASE ~(i <= Len(w))
    <3>1. PICK j : j = i - Len(w)
      OBVIOUS
    <3>2. j \in 1 .. Len(u) /\ i = Len(w) + j
      BY <2>2, <3>1
    <3> QED
      BY <1>2, <3>2
  <2> QED
    BY <2>1, <2>2
<1>4. v = t
  BY <1>2, <1>3, SeqEqual
<1> QED
  BY <1>1, <1>4

\* The sums of two queues, one behind the other.
LEMMA SumConcat ==
  ASSUME NEW q \in Seq(Events), NEW r \in Seq(Events)
  PROVE  /\ TightIn(q \o r) = TightIn(q) + TightIn(r)
         /\ SmallIn(q \o r) = SmallIn(q) + SmallIn(r)
<1>1. PICK t : t = q \o r
  OBVIOUS
<1>2. /\ t \in Seq(Events) /\ Len(t) = Len(q) + Len(r)
      /\ \A i \in 1 .. Len(q) : t[i] = q[i]
      /\ \A i \in 1 .. Len(r) : t[Len(q) + i] = r[i]
  BY <1>1
<1>3. PICK w, u, v : /\ w = [i \in DOMAIN q |-> Tight(q[i])]
                     /\ u = [i \in DOMAIN r |-> Tight(r[i])]
                     /\ v = [i \in DOMAIN t |-> Tight(t[i])]
  OBVIOUS
<1>4. PICK x, y, z : /\ x = [i \in DOMAIN q |-> Small(q[i])]
                     /\ y = [i \in DOMAIN r |-> Small(r[i])]
                     /\ z = [i \in DOMAIN t |-> Small(t[i])]
  OBVIOUS
<1>5. {w, u, v, x, y, z} \subseteq Seq(Nat)
  BY <1>2, <1>3, <1>4, QueueWeights
<1>6. DOMAIN q = 1 .. Len(q) /\ DOMAIN r = 1 .. Len(r) /\ DOMAIN t = 1 .. Len(t)
  BY <1>2
<1>7. v = w \o u
  <2>1. Len(w) = Len(q) /\ Len(u) = Len(r) /\ Len(v) = Len(t)
    BY <1>3, <1>6
  <2>2. ASSUME NEW i \in 1 .. Len(q)
        PROVE  v[i] = w[i]
    <3>1. i \in DOMAIN q /\ i \in DOMAIN t /\ t[i] = q[i]
      BY <1>2, <1>6
    <3> QED
      BY <1>3, <3>1
  <2>3. ASSUME NEW i \in 1 .. Len(r)
        PROVE  v[Len(q) + i] = u[i]
    <3>1. i \in DOMAIN r /\ Len(q) + i \in DOMAIN t /\ t[Len(q) + i] = r[i]
      BY <1>2, <1>6
    <3> QED
      BY <1>3, <3>1
  <2>4. v \in Seq(Nat) /\ w \in Seq(Nat) /\ u \in Seq(Nat)
    BY <1>5
  <2>5. Len(v) = Len(w) + Len(u)
    BY <1>2, <2>1
  <2>6. \A i \in 1 .. Len(w) : v[i] = w[i]
    BY <2>1, <2>2
  <2>7. \A i \in 1 .. Len(u) : v[Len(w) + i] = u[i]
    BY <2>1, <2>3
  <2> QED
    BY <2>4, <2>5, <2>6, <2>7, ConcatIs
<1>8. z = x \o y
  <2>1. Len(x) = Len(q) /\ Len(y) = Len(r) /\ Len(z) = Len(t)
    BY <1>4, <1>6
  <2>2. ASSUME NEW i \in 1 .. Len(q)
        PROVE  z[i] = x[i]
    <3>1. i \in DOMAIN q /\ i \in DOMAIN t /\ t[i] = q[i]
      BY <1>2, <1>6
    <3> QED
      BY <1>4, <3>1
  <2>3. ASSUME NEW i \in 1 .. Len(r)
        PROVE  z[Len(q) + i] = y[i]
    <3>1. i \in DOMAIN r /\ Len(q) + i \in DOMAIN t /\ t[Len(q) + i] = r[i]
      BY <1>2, <1>6
    <3> QED
      BY <1>4, <3>1
  <2>4. z \in Seq(Nat) /\ x \in Seq(Nat) /\ y \in Seq(Nat)
    BY <1>5
  <2>5. Len(z) = Len(x) + Len(y)
    BY <1>2, <2>1
  <2>6. \A i \in 1 .. Len(x) : z[i] = x[i]
    BY <2>1, <2>2
  <2>7. \A i \in 1 .. Len(y) : z[Len(x) + i] = y[i]
    BY <2>1, <2>3
  <2> QED
    BY <2>4, <2>5, <2>6, <2>7, ConcatIs
<1>9. /\ IsFiniteSet(Units(w)) /\ IsFiniteSet(Units(u))
      /\ IsFiniteSet(Units(x)) /\ IsFiniteSet(Units(y))
  BY <1>5, UnitsFinite
<1>10. Cardinality(Units(v)) = Cardinality(Units(w)) + Cardinality(Units(u))
  BY <1>5, <1>7, <1>9, UnitsConcat
<1>11. Cardinality(Units(z)) = Cardinality(Units(x)) + Cardinality(Units(y))
  BY <1>5, <1>8, <1>9, UnitsConcat
<1>12. /\ TightIn(q) = Cardinality(Units(w)) /\ TightIn(r) = Cardinality(Units(u))
       /\ SmallIn(q) = Cardinality(Units(x)) /\ SmallIn(r) = Cardinality(Units(y))
  BY <1>3, <1>4, QueueWeights
<1>13. TightIn(t) = Cardinality(Units(v)) /\ SmallIn(t) = Cardinality(Units(z))
  BY <1>2, <1>3, <1>4, QueueWeights
<1> QED
  BY <1>1, <1>10, <1>11, <1>12, <1>13

\* The sums of an empty queue and of one event.
LEMMA SumSmall ==
  /\ TightIn(<< >>) = 0 /\ SmallIn(<< >>) = 0
  /\ \A e \in Events : TightIn(<<e>>) = Tight(e) /\ SmallIn(<<e>>) = Small(e)
<1>1. TightIn(<< >>) = 0 /\ SmallIn(<< >>) = 0
  <2>1. << >> \in Seq(Events)
    OBVIOUS
  <2>2. [i \in DOMAIN << >> |-> Tight(<< >>[i])] = << >> /\ [i \in DOMAIN << >> |-> Small(<< >>[i])] = << >>
    OBVIOUS
  <2> QED
    BY <2>1, <2>2, QueueWeights, UnitsOfNone, FS_EmptySet
<1>2. ASSUME NEW e \in Events
      PROVE  TightIn(<<e>>) = Tight(e) /\ SmallIn(<<e>>) = Small(e)
  <2>1. PICK q : q = <<e>>
    OBVIOUS
  <2>2. q \in Seq(Events) /\ DOMAIN q = {1} /\ q[1] = e
    BY <2>1
  <2>3. [i \in DOMAIN q |-> Tight(q[i])] = <<Tight(e)>> /\ [i \in DOMAIN q |-> Small(q[i])] = <<Small(e)>>
    BY <2>2
  <2>4. Tight(e) \in Nat /\ Small(e) \in Nat
    BY EventWeights
  <2>5. TightIn(q) = Cardinality(Units(<<Tight(e)>>)) /\ SmallIn(q) = Cardinality(Units(<<Small(e)>>))
    BY <2>2, <2>3, QueueWeights
  <2> QED
    BY <2>1, <2>4, <2>5, UnitsOfOne
<1> QED
  BY <1>1, <1>2

\* An event more, at the end.
LEMMA SumAppend ==
  ASSUME NEW q \in Seq(Events), NEW e \in Events
  PROVE  /\ TightIn(Append(q, e)) = TightIn(q) + Tight(e)
         /\ SmallIn(Append(q, e)) = SmallIn(q) + Small(e)
<1>1. Append(q, e) = q \o <<e>>
  BY AppendIsConcat
<1>2. <<e>> \in Seq(Events)
  OBVIOUS
<1> QED
  BY <1>1, <1>2, SumConcat, SumSmall

\* An event less, at the front.
LEMMA SumTail ==
  ASSUME NEW q \in Seq(Events), q # << >>
  PROVE  /\ TightIn(q) = Tight(Head(q)) + TightIn(Tail(q))
         /\ SmallIn(q) = Small(Head(q)) + SmallIn(Tail(q))
         /\ Head(q) \in Events /\ Tail(q) \in Seq(Events)
<1>1. Head(q) \in Events /\ Tail(q) \in Seq(Events)
  OBVIOUS
<1>2. PICK h, t : h = <<Head(q)>> /\ t = Tail(q)
  OBVIOUS
<1>3. h \in Seq(Events) /\ t \in Seq(Events)
  BY <1>1, <1>2
<1>4. q = h \o t
  BY <1>2
<1>5. TightIn(q) = TightIn(h) + TightIn(t) /\ SmallIn(q) = SmallIn(h) + SmallIn(t)
  BY <1>3, <1>4, SumConcat
<1> QED
  BY <1>1, <1>2, <1>5, SumSmall

\* A list of tightening events.
LEMMA SumTight ==
  ASSUME NEW q \in Seq(Events),
         \A i \in DOMAIN q : q[i].type \in {"released", "closed"}
  PROVE  TightIn(q) = Len(q) /\ SmallIn(q) = 0
<1>1. \A i \in DOMAIN q : Tight(q[i]) = 1 /\ Small(q[i]) = 0
  BY EventWeights
<1>2. DOMAIN q = 1 .. Len(q) /\ Len(q) \in Nat
  OBVIOUS
<1>3. PICK w, x : w = [i \in DOMAIN q |-> Tight(q[i])] /\ x = [i \in DOMAIN q |-> Small(q[i])]
  OBVIOUS
<1>4. w \in Seq(Nat) /\ x \in Seq(Nat)
  BY <1>3, QueueWeights
<1>5. Units(x) = {}
  <2>1. Len(x) = Len(q) /\ \A i \in 1 .. Len(x) : x[i] = 0
    BY <1>1, <1>2, <1>3
  <2>2. \A p : p \in Units(x) <=> \E i \in 1 .. Len(x) : \E j \in 1 .. x[i] : p = <<i, j>>
    BY <1>4, UnitsMember
  <2> QED
    BY <2>1, <2>2
<1>6. Cardinality(Units(w)) = Len(q)
  <2>1. Len(w) = Len(q) /\ \A i \in 1 .. Len(w) : w[i] = 1
    BY <1>1, <1>2, <1>3
  <2>2. \A p : p \in Units(w) <=> \E i \in 1 .. Len(q) : p = <<i, 1>>
    <3> TAKE p
    <3>1. p \in Units(w) <=> \E i \in 1 .. Len(w) : \E j \in 1 .. w[i] : p = <<i, j>>
      BY <1>4, UnitsMember
    <3>2. \A j : j \in 1 .. 1 <=> j = 1
      OBVIOUS
    <3> QED
      BY <2>1, <3>1, <3>2
  <2> DEFINE f == [i \in 1 .. Len(q) |-> <<i, 1>>]
  <2>3. f \in Bijection(1 .. Len(q), Units(w))
    <3>1. f \in [1 .. Len(q) -> Units(w)]
      BY <2>2
    <3>2. \A i, j \in 1 .. Len(q) : f[i] = f[j] => i = j
      OBVIOUS
    <3>3. \A p \in Units(w) : \E j \in 1 .. Len(q) : f[j] = p
      BY <2>2
    <3> HIDE DEF f
    <3> QED
      BY <3>1, <3>2, <3>3 DEF Bijection, Injection, Surjection, IsInjective
  <2>4. ExistsBijection(1 .. Len(q), Units(w))
    BY <2>3 DEF ExistsBijection
  <2> QED
    BY <1>2, <2>4, FS_CountingElements
<1>7. Cardinality(Units(x)) = 0
  BY <1>5, FS_EmptySet
<1> QED
  BY <1>3, <1>6, <1>7, QueueWeights

\* The places of the ordinary events.
LEMMA OrdinaryAppend ==
  ASSUME NEW q \in Seq(Events), NEW e \in Events
  PROVE  /\ IsFiniteSet(Ordinary(q)) /\ Cardinality(Ordinary(q)) \in Nat
         /\ Cardinality(Ordinary(Append(q, e))) =
              Cardinality(Ordinary(q)) + (IF IsOrdinary(e) THEN 1 ELSE 0)
<1>1. PICK t : t = Append(q, e)
  OBVIOUS
<1>2. /\ DOMAIN q = 1 .. Len(q) /\ Len(q) \in Nat
      /\ DOMAIN t = 1 .. Len(q) + 1 /\ t[Len(q) + 1] = e
      /\ \A i \in 1 .. Len(q) : t[i] = q[i]
  BY <1>1
<1>3. IsFiniteSet(Ordinary(q))
  <2>1. IsFiniteSet(1 .. Len(q))
    BY <1>2, FS_Interval
  <2>2. Ordinary(q) \in SUBSET (1 .. Len(q))
    BY <1>2 DEF Ordinary
  <2> QED
    BY <2>1, <2>2, FS_Subset
<1>4. Cardinality(Ordinary(q)) \in Nat
  BY <1>3, FS_CardinalityType
<1>5. Len(q) + 1 \notin Ordinary(q)
  BY <1>2 DEF Ordinary
<1>6. CASE IsOrdinary(e)
  <2>1. Ordinary(t) = Ordinary(q) \cup {Len(q) + 1}
    BY <1>2, <1>6 DEF Ordinary
  <2>2. Cardinality(Ordinary(q) \cup {Len(q) + 1}) = Cardinality(Ordinary(q)) + 1
    BY <1>3, <1>5, FS_AddElement
  <2> QED
    BY <1>1, <1>3, <1>4, <1>6, <2>1, <2>2
<1>7. CASE ~IsOrdinary(e)
  <2>1. Ordinary(t) = Ordinary(q)
    BY <1>2, <1>7 DEF Ordinary
  <2> QED
    BY <1>1, <1>3, <1>4, <1>7, <2>1
<1> QED
  BY <1>6, <1>7

\* A list of others takes no such place.
LEMMA OrdinaryConcat ==
  ASSUME NEW q \in Seq(Events), NEW r \in Seq(Events),
         \A i \in DOMAIN r : ~IsOrdinary(r[i])
  PROVE  Ordinary(q \o r) = Ordinary(q)
<1>1. PICK t : t = q \o r
  OBVIOUS
<1>2. /\ DOMAIN q = 1 .. Len(q) /\ Len(q) \in Nat /\ Len(r) \in Nat /\ DOMAIN r = 1 .. Len(r)
      /\ DOMAIN t = 1 .. Len(q) + Len(r)
      /\ \A i \in 1 .. Len(q) : t[i] = q[i]
      /\ \A i \in 1 .. Len(q) + Len(r) : i > Len(q) => t[i] = r[i - Len(q)] /\ i - Len(q) \in 1 .. Len(r)
  BY <1>1
<1>3. \A i \in DOMAIN t : IsOrdinary(t[i]) => i \in DOMAIN q
  BY <1>2
<1>4. Ordinary(t) = Ordinary(q)
  BY <1>2, <1>3 DEF Ordinary
<1> QED
  BY <1>1, <1>4

\* Delivering an event frees places.
LEMMA OrdinaryTail ==
  ASSUME NEW q \in Seq(Events), q # << >>
  PROVE  /\ IsFiniteSet(Ordinary(Tail(q)))
         /\ Cardinality(Ordinary(Tail(q))) \in Nat
         /\ Cardinality(Ordinary(Tail(q))) <= Cardinality(Ordinary(q))
<1>1. PICK t : t = Tail(q)
  OBVIOUS
<1>2. /\ DOMAIN q = 1 .. Len(q) /\ Len(q) \in Nat /\ Len(q) > 0
      /\ DOMAIN t = 1 .. Len(q) - 1
      /\ \A i \in DOMAIN t : t[i] = q[i + 1] /\ i + 1 \in DOMAIN q
  BY <1>1
<1> DEFINE f == [i \in Ordinary(t) |-> i + 1]
<1>3. f \in Injection(Ordinary(t), Ordinary(q))
  <2>1. f \in [Ordinary(t) -> Ordinary(q)]
    BY <1>2 DEF Ordinary
  <2>2. \A i, j \in Ordinary(t) : f[i] = f[j] => i = j
    BY <1>2 DEF Ordinary
  <2> HIDE DEF f
  <2> QED
    BY <2>1, <2>2 DEF Injection, IsInjective
<1>4. IsFiniteSet(Ordinary(q))
  <2>1. IsFiniteSet(1 .. Len(q))
    BY <1>2, FS_Interval
  <2>2. Ordinary(q) \in SUBSET (1 .. Len(q))
    BY <1>2 DEF Ordinary
  <2> QED
    BY <2>1, <2>2, FS_Subset
<1> HIDE DEF f
<1>5. IsFiniteSet(Ordinary(t)) /\ Cardinality(Ordinary(t)) <= Cardinality(Ordinary(q))
  BY <1>3, <1>4, FS_Injection
<1> QED
  BY <1>1, <1>5, FS_CardinalityType

-----------------------------------------------------------------------------
(***************************************************************************)
(* The compound operations: a stream's tightening events, and a flush.     *)
(***************************************************************************)

Types == BridgeTypes /\ InputTypes /\ QueueTypes /\ PageTypes

\* The tightening events are not ordinary, and told apart by their stream.
LEMMA TighteningEvents ==
  /\ \A k \in Streams : Released(k) \in Events /\ Closed(k) \in Events
  /\ \A k : /\ Released(k).type = "released" /\ Closed(k).type = "closed"
            /\ Released(k).stream = k /\ Closed(k).stream = k
            /\ ~IsOrdinary(Released(k)) /\ ~IsOrdinary(Closed(k))
  /\ \A j, k : Released(j) # Closed(k)
  /\ \A j, k : Released(j) = Released(k) => j = k
  /\ \A j, k : Closed(j) = Closed(k) => j = k
<1>1. \A k : /\ Released(k).type = "released" /\ Closed(k).type = "closed"
             /\ Released(k).stream = k /\ Closed(k).stream = k
  BY DEF Released, Closed
<1>2. \A k \in Streams : Released(k) \in Events /\ Closed(k) \in Events
  BY EventsMade
<1>3. \A k : ~IsOrdinary(Released(k)) /\ ~IsOrdinary(Closed(k))
  BY <1>1 DEF IsOrdinary
<1> QED
  BY <1>1, <1>2, <1>3

\* The slots in use, as numbers.
LEMMA Numbers ==
  ASSUME Types
  PROVE  /\ Len(queue) \in Nat
         /\ IsFiniteSet(Ordinary(queue)) /\ Cardinality(Ordinary(queue)) \in Nat
         /\ IsFiniteSet(holds) /\ Cardinality(holds) \in Nat
         /\ IsFiniteSet(Buckets(bucket)) /\ Cardinality(Buckets(bucket)) \in Nat
         /\ QUEUE \in Nat /\ AUDIT \in Nat
<1>1. Len(queue) \in Nat /\ queue \in Seq(Events)
  BY DEF Types, QueueTypes
<1>2. IsFiniteSet(Ordinary(queue)) /\ Cardinality(Ordinary(queue)) \in Nat
  BY <1>1, EventsMade, OrdinaryAppend
<1>3. IsFiniteSet(Streams)
  BY LimitsAssumption
<1>4. holds \in SUBSET Streams /\ Buckets(bucket) \in SUBSET Streams
  BY DEF Types, BridgeTypes, Buckets
<1>5. IsFiniteSet(holds) /\ IsFiniteSet(Buckets(bucket))
  BY <1>3, <1>4, FS_Subset
<1>6. QUEUE \in Nat /\ AUDIT \in Nat
  BY LimitsAssumption
<1> QED
  BY <1>1, <1>2, <1>5, <1>6, FS_CardinalityType

\* Emitting one event, or two, until one finds no place.
LEMMA EmittedOne ==
  ASSUME NEW a, NEW q \in Seq(Events), NEW h, NEW c
  PROVE  \/ Emitted(q, h, c, <<a>>) = 0
         \/ Emitted(q, h, c, <<a>>) = 1 /\ CanEmit(q, h, c, a)
<1>1. PICK es : es = <<a>>
  OBVIOUS
<1>2. /\ Len(es) = 1 /\ es[1] = a /\ es[0 + 1] = a
      /\ q \o SubSeq(es, 1, 0) = q /\ q \o SubSeq(es, 1, 1 - 1) = q
  BY <1>1
<1> DEFINE E(i) == CanEmit(q \o SubSeq(es, 1, i - 1), h, c, es[i])
           F(n) == CanEmit(q \o SubSeq(es, 1, n), h, c, es[n + 1])
           P(n) == /\ \A i \in 1 .. n : E(i)
                   /\ n < Len(es) => ~F(n)
<1>3. (E(1) <=> CanEmit(q, h, c, a)) /\ (F(0) <=> CanEmit(q, h, c, a))
  BY <1>2, Zenon
<1>4. PICK n : n = CHOOSE m \in 0 .. Len(es) : P(m)
  OBVIOUS
<1>5. Emitted(q, h, c, es) = n
  BY <1>4 DEF Emitted
<1> HIDE DEF E, F
<1>6. \E m \in 0 .. Len(es) : P(m)
  <2>1. CASE E(1)
    <3>1. \A i \in 1 .. 1 : i = 1
      OBVIOUS
    <3>2. P(1)
      BY <1>2, <2>1, <3>1
    <3> QED
      BY <1>2, <3>2
  <2>2. CASE ~E(1)
    <3>1. P(0)
      BY <1>2, <1>3, <2>2
    <3> QED
      BY <1>2, <3>1
  <2> QED
    BY <2>1, <2>2
<1>7. n \in 0 .. Len(es) /\ P(n)
  <2> HIDE DEF P
  <2> QED
    BY <1>4, <1>6
<1>8. n = 0 \/ (n = 1 /\ E(1))
  BY <1>2, <1>7
<1> QED
  BY <1>1, <1>3, <1>5, <1>8

\* How many of two events find a place.
LEMMA EmittedPair ==
  ASSUME NEW a, NEW b, NEW q \in Seq(Events), NEW h, NEW c
  PROVE  \/ Emitted(q, h, c, <<a, b>>) = 0
         \/ Emitted(q, h, c, <<a, b>>) = 1 /\ CanEmit(q, h, c, a)
         \/ Emitted(q, h, c, <<a, b>>) = 2 /\ CanEmit(q, h, c, a)
              /\ CanEmit(q \o <<a>>, h, c, b)
<1>1. PICK es : es = <<a, b>>
  OBVIOUS
<1>2. /\ Len(es) = 2 /\ es[1] = a /\ es[0 + 1] = a
      /\ q \o SubSeq(es, 1, 0) = q /\ q \o SubSeq(es, 1, 1 - 1) = q
  BY <1>1
<1>9. SubSeq(es, 1, 1) = <<a>>
  <2>1. es \in Seq({a, b}) /\ \A i \in 1 .. 1 : es[i] \in {a, b}
    BY <1>1
  <2>2. SubSeq(es, 1, 1) \in Seq({a, b}) /\ Len(SubSeq(es, 1, 1)) = 1 /\ SubSeq(es, 1, 1)[1] = es[1]
    BY <2>1, SubSeqProperties
  <2>3. <<a>> \in Seq({a, b}) /\ Len(<<a>>) = 1 /\ <<a>>[1] = a
    OBVIOUS
  <2>4. \A i \in 1 .. 1 : i = 1
    OBVIOUS
  <2> QED
    BY <1>2, <2>2, <2>3, <2>4, SeqEqual
<1>10. 2 - 1 = 1 /\ es[2] = b /\ es[1 + 1] = b
  BY <1>1
<1> DEFINE E(i) == CanEmit(q \o SubSeq(es, 1, i - 1), h, c, es[i])
           F(n) == CanEmit(q \o SubSeq(es, 1, n), h, c, es[n + 1])
           P(n) == /\ \A i \in 1 .. n : E(i)
                   /\ n < Len(es) => ~F(n)
<1>3. (E(1) <=> CanEmit(q, h, c, a)) /\ (F(0) <=> CanEmit(q, h, c, a))
  BY <1>2, Zenon
<1>11. /\ E(2) <=> CanEmit(q \o <<a>>, h, c, b)
       /\ F(1) <=> CanEmit(q \o <<a>>, h, c, b)
  BY <1>9, <1>10, Zenon
<1>4. PICK n : n = CHOOSE m \in 0 .. Len(es) : P(m)
  OBVIOUS
<1>5. Emitted(q, h, c, es) = n
  BY <1>4 DEF Emitted
<1> HIDE DEF E, F
<1>6. \E m \in 0 .. Len(es) : P(m)
  <2>1. CASE E(1) /\ E(2)
    <3>1. \A i \in 1 .. 2 : i = 1 \/ i = 2
      OBVIOUS
    <3>2. P(2)
      BY <1>2, <2>1, <3>1
    <3> QED
      BY <1>2, <3>2
  <2>2. CASE E(1) /\ ~E(2)
    <3>1. \A i \in 1 .. 1 : i = 1
      OBVIOUS
    <3>2. P(1)
      BY <1>2, <1>11, <2>2, <3>1
    <3> QED
      BY <1>2, <3>2
  <2>3. CASE ~E(1)
    <3>1. P(0)
      BY <1>2, <1>3, <2>3
    <3> QED
      BY <1>2, <3>1
  <2> QED
    BY <2>1, <2>2, <2>3
<1>7. n \in 0 .. Len(es) /\ P(n)
  <2> HIDE DEF P
  <2> QED
    BY <1>4, <1>6
<1>8. n = 0 \/ (n = 1 /\ E(1)) \/ (n = 2 /\ E(1) /\ E(2))
  BY <1>2, <1>7
<1> QED
  BY <1>1, <1>3, <1>5, <1>8, <1>11

\* Short sequences and their parts.
LEMMA OneSubSeq ==
  ASSUME NEW s, NEW m \in Int
  PROVE  SubSeq(s, m, m) = <<s[m]>>
<1>1. PICK x, t, S : x = s[m] /\ t = SubSeq(s, m, m) /\ S = {x}
  OBVIOUS
<1>2. \A i \in m .. m : s[i] \in S
  BY <1>1
<1>3. /\ t \in Seq(S) /\ Len(t) = (IF m <= m THEN m - m + 1 ELSE 0)
      /\ \A i \in 1 .. m - m + 1 : t[i] = s[m + i - 1]
  BY <1>1, <1>2, SubSeqProperties
<1>4. m - m + 1 = 1 /\ m + 1 - 1 = m
  OBVIOUS
<1>5. Len(t) = 1 /\ t[1] = x
  BY <1>1, <1>3, <1>4
<1>6. <<x>> \in Seq(S) /\ Len(<<x>>) = 1 /\ <<x>>[1] = x
  BY <1>1
<1>7. \A i \in 1 .. Len(t) : t[i] = <<x>>[i]
  BY <1>5, <1>6
<1>8. t = <<x>>
  BY <1>3, <1>5, <1>6, <1>7, SeqEqual
<1> QED
  BY <1>1, <1>8

\* The parts of a bundle of two.
LEMMA ShortParts ==
  ASSUME NEW a, NEW b
  PROVE  /\ SubSeq(<<a, b>>, 1, 0) = << >> /\ SubSeq(<<a, b>>, 1, 1) = <<a>>
         /\ SubSeq(<<a, b>>, 1, 2) = <<a, b>>
         /\ SubSeq(<<a>>, 1, 0) = << >> /\ SubSeq(<<a>>, 1, 1) = <<a>>
         /\ Rest(<<a, b>>, 0) = <<a, b>> /\ Rest(<<a, b>>, 1) = <<b>>
         /\ Rest(<<a, b>>, 2) = << >>
         /\ Rest(<<a>>, 0) = <<a>> /\ Rest(<<a>>, 1) = << >>
         /\ Rest(<< >>, 0) = << >>
<1>1. PICK p, s : p = <<a, b>> /\ s = <<a>>
  OBVIOUS
<1>2. /\ Len(p) = 2 /\ p[1] = a /\ p[2] = b /\ Len(s) = 1 /\ s[1] = a
      /\ p \in Seq({a, b}) /\ s \in Seq({a, b}) /\ Len(<< >>) = 0
  BY <1>1
<1>3. /\ SubSeq(p, 1, 0) = << >> /\ SubSeq(s, 1, 0) = << >>
      /\ SubSeq(p, 3, 2) = << >> /\ SubSeq(s, 2, 1) = << >> /\ SubSeq(<< >>, 1, 0) = << >>
  BY SubSeqEmpty
<1>4. /\ SubSeq(p, 1, 1) = <<a>> /\ SubSeq(p, 2, 2) = <<b>> /\ SubSeq(s, 1, 1) = <<a>>
  BY <1>2, OneSubSeq
<1>5. SubSeq(p, 1, 2) = p
  BY <1>2, SubSeqFull
<1>6. 0 + 1 = 1 /\ 1 + 1 = 2 /\ 2 + 1 = 3
  OBVIOUS
<1>7. /\ Rest(p, 0) = p /\ Rest(p, 1) = <<b>> /\ Rest(p, 2) = << >>
      /\ Rest(s, 0) = s /\ Rest(s, 1) = << >> /\ Rest(<< >>, 0) = << >>
  BY <1>1, <1>2, <1>3, <1>4, <1>5, <1>6 DEF Rest
<1> QED
  BY <1>1, <1>3, <1>4, <1>5, <1>7

\* The places and the events of the bundles.
LEMMA ShortRanges ==
  ASSUME NEW a, NEW b
  PROVE  /\ DOMAIN << >> = {} /\ DOMAIN <<a>> = {1} /\ DOMAIN <<a, b>> = {1, 2}
         /\ Range(<< >>) = {} /\ Range(<<a>>) = {a} /\ Range(<<a, b>>) = {a, b}
<1>1. DOMAIN << >> = {} /\ DOMAIN <<a>> = {1} /\ DOMAIN <<a, b>> = {1, 2}
  OBVIOUS
<1>2. <<a>>[1] = a /\ <<a, b>>[1] = a /\ <<a, b>>[2] = b
  OBVIOUS
<1>3. PICK e, p, s : e = << >> /\ p = <<a, b>> /\ s = <<a>>
  OBVIOUS
<1>4. Range(e) = {} /\ Range(s) = {a} /\ Range(p) = {a, b}
  BY <1>1, <1>2, <1>3 DEF Range
<1> QED
  BY <1>1, <1>3, <1>4

\* What Audit::tightened emits of the events of a stream, and what is left.
TightSplit(k, out, rest) ==
  \/ /\ stage[k] = "unannounced"
     /\ \/ out = << >> /\ rest = <<Released(k)>>
        \/ out = <<Released(k)>> /\ rest = << >>
  \/ /\ stage[k] = "dropping"
     /\ \/ out = << >> /\ rest = <<Released(k), Closed(k)>>
        \/ out = <<Released(k)>> /\ rest = <<Closed(k)>>
        \/ out = <<Released(k), Closed(k)>> /\ rest = << >>

\* Its parts.
LEMMA TightSplitParts ==
  ASSUME NEW k \in Streams, NEW out, NEW rest, TightSplit(k, out, rest)
  PROVE  /\ out \in Seq(Events) /\ rest \in Bundles(k)
         /\ Len(out) \in Nat /\ Len(rest) \in Nat
         /\ \A i \in DOMAIN out : out[i].type \in {"released", "closed"} /\ out[i].stream = k
                                  /\ ~IsOrdinary(out[i])
         /\ Range(out) \subseteq {Released(k), Closed(k)}
         /\ Cardinality(Range(rest)) = Len(rest) /\ IsFiniteSet(Range(rest))
         /\ Range(rest) \subseteq {Released(k), Closed(k)}
         /\ stage[k] = "dropping" => Closed(k) \in Range(out) \cup Range(rest)
         /\ Closed(k) \in Range(out) \cup Range(rest) => stage[k] = "dropping"
<1>1. /\ Released(k) \in Events /\ Closed(k) \in Events
      /\ Released(k).type = "released" /\ Closed(k).type = "closed"
      /\ Released(k).stream = k /\ Closed(k).stream = k /\ Released(k) # Closed(k)
      /\ ~IsOrdinary(Released(k)) /\ ~IsOrdinary(Closed(k))
  BY TighteningEvents
<1>2. PICK r, c : r = Released(k) /\ c = Closed(k)
  OBVIOUS
<1>3. /\ Range(<< >>) = {} /\ Range(<<r>>) = {r} /\ Range(<<c>>) = {c}
      /\ Range(<<r, c>>) = {r, c}
      /\ DOMAIN << >> = {} /\ DOMAIN <<r>> = {1} /\ DOMAIN <<r, c>> = {1, 2}
      /\ <<r>>[1] = r /\ <<r, c>>[1] = r /\ <<r, c>>[2] = c
  BY ShortRanges
<1>4. /\ Cardinality({}) = 0 /\ Cardinality({r}) = 1 /\ Cardinality({c}) = 1
      /\ IsFiniteSet({}) /\ IsFiniteSet({r}) /\ IsFiniteSet({c})
  BY FS_EmptySet, FS_Singleton
<1>5. Cardinality({r, c}) = 2 /\ IsFiniteSet({r, c})
  <2>1. {r, c} = {r} \cup {c} /\ c \notin {r}
    BY <1>1, <1>2
  <2> QED
    BY <1>4, <2>1, FS_AddElement
<1>6. \/ stage[k] = "unannounced" /\ out = << >> /\ rest = <<r>>
      \/ stage[k] = "unannounced" /\ out = <<r>> /\ rest = << >>
      \/ stage[k] = "dropping" /\ out = << >> /\ rest = <<r, c>>
      \/ stage[k] = "dropping" /\ out = <<r>> /\ rest = <<c>>
      \/ stage[k] = "dropping" /\ out = <<r, c>> /\ rest = << >>
  BY <1>2 DEF TightSplit
<1>7. out \in Seq(Events) /\ rest \in Bundles(k) /\ Len(out) \in Nat /\ Len(rest) \in Nat
  <2>1. r \in Events /\ c \in Events
    BY <1>1, <1>2
  <2>2. << >> \in Seq(Events) /\ <<r>> \in Seq(Events) /\ <<r, c>> \in Seq(Events) /\ <<c>> \in Seq(Events)
    BY <2>1
  <2>3. {<< >>, <<r>>, <<c>>, <<r, c>>} = Bundles(k)
    BY <1>2 DEF Bundles
  <2>4. out \in Seq(Events) /\ rest \in Seq(Events)
    BY <1>6, <2>2
  <2>5. rest \in {<< >>, <<r>>, <<c>>, <<r, c>>}
    BY <1>6
  <2> QED
    BY <2>3, <2>4, <2>5
<1>8. \A i \in DOMAIN out : out[i] = r \/ out[i] = c
  BY <1>3, <1>6
<1>9. Range(out) \subseteq {r, c} /\ Range(rest) \subseteq {r, c}
  BY <1>3, <1>6
<1>10. Cardinality(Range(rest)) = Len(rest) /\ IsFiniteSet(Range(rest))
  BY <1>3, <1>4, <1>5, <1>6
<1>11. (stage[k] = "dropping") <=> (c \in Range(out) \cup Range(rest))
  BY <1>1, <1>2, <1>3, <1>6
<1> QED
  BY <1>1, <1>2, <1>7, <1>8, <1>9, <1>10, <1>11

\* Audit::tightened.
LEMMA TightenedEffect ==
  ASSUME Types, NEW k \in Streams, Tightened(k)
  PROVE  \E out, rest :
           /\ TightSplit(k, out, rest)
           /\ queue' = queue \o out
           /\ out = << >> \/ Len(queue) + Len(out) + Cardinality(holds)
                              + Cardinality(Buckets(bucket)) <= QUEUE
           /\ untold' = [untold EXCEPT !.tight = @ + (Len(out) + Len(rest))]
           /\ \/ /\ rest # << >> /\ record' = [record EXCEPT !.tight = @ + Len(rest)]
                 /\ settled' = settled \union {k} /\ pending' = pending
              \/ /\ pending' = [pending EXCEPT ![k] = rest]
                 /\ record' = record /\ settled' = settled
<1>1. PICK es, n, out, rest :
        /\ es = Tightening(k) /\ n = Emitted(queue, holds, bucket, es)
        /\ out = SubSeq(es, 1, n) /\ rest = Rest(es, n)
  OBVIOUS
<1>2. /\ queue' = queue \o out
      /\ untold' = [untold EXCEPT !.tight = @ + Len(es)]
      /\ \/ /\ rest # << >> /\ record' = [record EXCEPT !.tight = @ + Len(rest)]
            /\ settled' = settled \union {k} /\ pending' = pending
         \/ /\ pending' = [pending EXCEPT ![k] = rest]
            /\ record' = record /\ settled' = settled
  BY <1>1 DEF Tightened
<1>3. PICK r, c : r = Released(k) /\ c = Closed(k)
  OBVIOUS
<1>4. r \in Events /\ c \in Events /\ queue \in Seq(Events)
  BY <1>3, TighteningEvents DEF Types, QueueTypes
<1>5. \A e \in Events : CanEmit(queue, holds, bucket, e) =>
        Len(queue) + 1 + Cardinality(holds) + Cardinality(Buckets(bucket)) <= QUEUE
  BY Numbers DEF CanEmit, Room
<1>6. CanEmit(queue \o <<r>>, holds, bucket, c) =>
        Len(queue) + 2 + Cardinality(holds) + Cardinality(Buckets(bucket)) <= QUEUE
  <2>1. Len(queue \o <<r>>) = Len(queue) + 1
    BY <1>4
  <2> QED
    BY <2>1, Numbers DEF CanEmit, Room
<1>7. CASE stage[k] = "dropping"
  <2>1. es = <<r, c>>
    BY <1>1, <1>3, <1>7 DEF Tightening
  <2>2. \/ n = 0
        \/ n = 1 /\ CanEmit(queue, holds, bucket, r)
        \/ n = 2 /\ CanEmit(queue \o <<r>>, holds, bucket, c)
    BY <1>1, <1>4, <2>1, EmittedPair
  <2>6. /\ SubSeq(es, 1, 0) = << >> /\ SubSeq(es, 1, 1) = <<r>>
        /\ SubSeq(es, 1, 2) = <<r, c>>
        /\ Rest(es, 0) = <<r, c>> /\ Rest(es, 1) = <<c>> /\ Rest(es, 2) = << >>
    BY <2>1, ShortParts
  <2>3. CASE n = 0
    <3>1. out = << >> /\ rest = <<r, c>>
      BY <1>1, <2>3, <2>6
    <3>2. TightSplit(k, out, rest)
      BY <1>3, <1>7, <3>1 DEF TightSplit
    <3>3. Len(es) = Len(out) + Len(rest)
      BY <2>1, <3>1
    <3> QED
      BY <1>2, <3>1, <3>2, <3>3
  <2>4. CASE n = 1
    <3>1. out = <<r>> /\ rest = <<c>>
      BY <1>1, <2>4, <2>6
    <3>2. TightSplit(k, out, rest)
      BY <1>3, <1>7, <3>1 DEF TightSplit
    <3>3. Len(es) = Len(out) + Len(rest) /\ Len(out) = 1
      BY <2>1, <3>1
    <3>4. Len(queue) + Len(out) + Cardinality(holds) + Cardinality(Buckets(bucket)) <= QUEUE
      BY <1>4, <1>5, <2>2, <2>4, <3>3
    <3> QED
      BY <1>2, <3>2, <3>3, <3>4
  <2>5. CASE n = 2
    <3>1. out = <<r, c>> /\ rest = << >>
      BY <1>1, <2>5, <2>6
    <3>2. TightSplit(k, out, rest)
      BY <1>3, <1>7, <3>1 DEF TightSplit
    <3>3. Len(es) = Len(out) + Len(rest) /\ Len(out) = 2
      BY <2>1, <3>1
    <3>4. Len(queue) + Len(out) + Cardinality(holds) + Cardinality(Buckets(bucket)) <= QUEUE
      BY <1>6, <2>2, <2>5, <3>3
    <3> QED
      BY <1>2, <3>2, <3>3, <3>4
  <2> QED
    BY <2>2, <2>3, <2>4, <2>5
<1>8. CASE stage[k] = "unannounced"
  <2>1. es = <<r>>
    BY <1>1, <1>3, <1>8 DEF Tightening
  <2>2. \/ n = 0
        \/ n = 1 /\ CanEmit(queue, holds, bucket, r)
    BY <1>1, <1>4, <2>1, EmittedOne
  <2>3. CASE n = 0
    <3>1. out = << >> /\ rest = <<r>>
      BY <1>1, <2>1, <2>3, ShortParts
    <3>2. TightSplit(k, out, rest)
      BY <1>3, <1>8, <3>1 DEF TightSplit
    <3>3. Len(es) = Len(out) + Len(rest)
      BY <2>1, <3>1
    <3> QED
      BY <1>2, <3>1, <3>2, <3>3
  <2>4. CASE n = 1
    <3>1. out = <<r>> /\ rest = << >>
      BY <1>1, <2>1, <2>4, ShortParts
    <3>2. TightSplit(k, out, rest)
      BY <1>3, <1>8, <3>1 DEF TightSplit
    <3>3. Len(es) = Len(out) + Len(rest) /\ Len(out) = 1
      BY <2>1, <3>1
    <3>4. Len(queue) + Len(out) + Cardinality(holds) + Cardinality(Buckets(bucket)) <= QUEUE
      BY <1>4, <1>5, <2>2, <2>4, <3>3
    <3> QED
      BY <1>2, <3>2, <3>3, <3>4
  <2> QED
    BY <2>2, <2>3, <2>4
<1> QED
  BY <1>7, <1>8 DEF Tightened

\* The part of a bundle that a flush tells, and the rest of it.
LEMMA BundleParts ==
  ASSUME NEW k \in Streams, NEW b \in Bundles(k), NEW m \in 0 .. 2, m <= Len(b)
  PROVE  /\ Rest(b, m) \in Bundles(k)
         /\ Range(b) \subseteq {Released(k), Closed(k)}
         /\ {b[i] : i \in 1 .. m} \subseteq Range(b)
         /\ Range(Rest(b, m)) = Range(b) \ {b[i] : i \in 1 .. m}
         /\ m > 0 => b # << >>
<1>1. PICK r, c : r = Released(k) /\ c = Closed(k)
  OBVIOUS
<1>2. r # c
  BY <1>1, TighteningEvents
<1>3. \/ b = << >> /\ m = 0
      \/ \E x \in {r, c} : b = <<x>> /\ m \in {0, 1}
      \/ b = <<r, c>> /\ m \in {0, 1, 2}
  <2>1. b = << >> => Len(b) = 0
    OBVIOUS
  <2>2. \A x : b = <<x>> => Len(b) = 1
    OBVIOUS
  <2>3. b = << >> \/ b = <<r>> \/ b = <<c>> \/ b = <<r, c>>
    BY <1>1 DEF Bundles
  <2> QED
    BY <2>1, <2>2, <2>3
<1>4. Bundles(k) = {<< >>, <<r>>, <<c>>, <<r, c>>}
  BY <1>1 DEF Bundles
<1> DEFINE P(s, j) == {s[i] : i \in 1 .. j}
<1>5. \A s : P(s, 0) = {} /\ P(s, 1) = {s[1]} /\ P(s, 2) = {s[1], s[2]}
  <2>1. \A i : (i \in 1 .. 1 <=> i = 1) /\ (i \in 1 .. 2 <=> i = 1 \/ i = 2) /\ ~(i \in 1 .. 0)
    OBVIOUS
  <2> QED
    BY <2>1
<1> HIDE DEF P
<1> SUFFICES /\ Rest(b, m) \in Bundles(k) /\ Range(b) \subseteq {r, c}
             /\ P(b, m) \subseteq Range(b)
             /\ Range(Rest(b, m)) = Range(b) \ P(b, m)
             /\ m > 0 => b # << >>
  BY <1>1 DEF P
<1>6. CASE b = << >> /\ m = 0
  <2>1. Rest(b, m) = << >> /\ Range(b) = {} /\ P(b, m) = {}
    BY <1>5, <1>6, ShortParts, ShortRanges
  <2> QED
    BY <1>4, <1>6, <2>1
<1>7. ASSUME NEW x \in {r, c}, b = <<x>>, m \in {0, 1}
      PROVE  /\ Rest(b, m) \in Bundles(k) /\ Range(b) \subseteq {r, c}
             /\ P(b, m) \subseteq Range(b)
             /\ Range(Rest(b, m)) = Range(b) \ P(b, m)
             /\ m > 0 => b # << >>
  <2>1. /\ Range(b) = {x} /\ Range(<< >>) = {} /\ b[1] = x /\ b # << >>
        /\ Rest(b, 0) = b /\ Rest(b, 1) = << >>
    BY <1>7, ShortParts, ShortRanges
  <2>2. P(b, 0) = {} /\ P(b, 1) = {x}
    BY <1>5, <2>1
  <2>3. CASE m = 0
    BY <1>4, <1>7, <2>1, <2>2, <2>3
  <2>4. CASE m = 1
    BY <1>4, <1>7, <2>1, <2>2, <2>4
  <2> QED
    BY <1>7, <2>3, <2>4
<1>8. CASE b = <<r, c>> /\ m \in {0, 1, 2}
  <2>1. /\ Range(b) = {r, c} /\ Range(<< >>) = {} /\ Range(<<c>>) = {c}
        /\ b[1] = r /\ b[2] = c /\ b # << >>
        /\ Rest(b, 0) = b /\ Rest(b, 1) = <<c>> /\ Rest(b, 2) = << >>
    BY <1>8, ShortParts, ShortRanges
  <2>2. P(b, 0) = {} /\ P(b, 1) = {r} /\ P(b, 2) = {r, c}
    BY <1>5, <2>1
  <2>3. CASE m = 0
    BY <1>4, <1>8, <2>1, <2>2, <2>3
  <2>4. CASE m = 1
    BY <1>2, <1>4, <1>8, <2>1, <2>2, <2>4
  <2>5. CASE m = 2
    BY <1>4, <1>8, <2>1, <2>2, <2>5
  <2> QED
    BY <1>8, <2>3, <2>4, <2>5
<1> QED
  BY <1>3, <1>6, <1>7, <1>8

\* The deferred events before and after a flush.
LEMMA FlushKept ==
  ASSUME Types, NEW n \in [Streams -> 0 .. 2],
         \A k \in Streams : n[k] <= Len(pending[k]),
         pending' = [k \in Streams |-> Rest(pending[k], n[k])]
  PROVE  /\ DOMAIN pending' = Streams
         /\ \A k \in Streams : pending'[k] \in Bundles(k)
         /\ Told(n) \subseteq Kept
         /\ Kept' = Kept \ Told(n)
         /\ \A k \in Streams : Range(pending'[k]) = Range(pending[k]) \ Told(n)
         /\ \A e \in Told(n) : \E k \in Streams : e \in Range(pending[k])
         /\ \A k \in Streams : pending[k] = << >> => pending'[k] = << >>
<1> DEFINE P(k) == {pending[k][i] : i \in 1 .. n[k]}
<1>1. \A k \in Streams :
        /\ pending[k] \in Bundles(k) /\ n[k] \in 0 .. 2 /\ n[k] <= Len(pending[k])
        /\ pending'[k] = Rest(pending[k], n[k])
  BY DEF Types, QueueTypes
<1>2. \A k \in Streams :
        /\ pending'[k] \in Bundles(k)
        /\ Range(pending[k]) \subseteq {Released(k), Closed(k)}
        /\ P(k) \subseteq Range(pending[k])
        /\ Range(pending'[k]) = Range(pending[k]) \ P(k)
        /\ n[k] > 0 => pending[k] # << >>
  BY <1>1, BundleParts
<1>3. Told(n) = UNION {P(k) : k \in Streams}
  BY DEF Told
<1> HIDE DEF P
<1>4. \A j, k \in Streams : \A e \in P(j) : e \in Range(pending[k]) => j = k
  <2> SUFFICES ASSUME NEW j \in Streams, NEW k \in Streams, NEW e \in P(j),
                      e \in Range(pending[k])
               PROVE  j = k
    OBVIOUS
  <2>1. e \in {Released(j), Closed(j)} /\ e \in {Released(k), Closed(k)}
    BY <1>2
  <2> QED
    BY <2>1, TighteningEvents
<1>5. \A k \in Streams : Range(pending'[k]) = Range(pending[k]) \ Told(n)
  BY <1>2, <1>3, <1>4
<1>6. Kept' = UNION {Range(pending'[k]) : k \in Streams}
  BY DEF Kept
<1>7. Kept = UNION {Range(pending[k]) : k \in Streams}
  BY DEF Kept
<1>8. Told(n) \subseteq Kept /\ \A e \in Told(n) : \E k \in Streams : e \in Range(pending[k])
  BY <1>2, <1>3, <1>7
<1>9. Kept' = Kept \ Told(n)
  BY <1>5, <1>6, <1>7
<1>10. \A k \in Streams : pending[k] = << >> => pending'[k] = << >>
  <2> SUFFICES ASSUME NEW k \in Streams, pending[k] = << >>
               PROVE  pending'[k] = << >>
    OBVIOUS
  <2>1. n[k] = 0
    BY <1>1, <1>2
  <2> QED
    BY <1>1, <2>1, ShortParts
<1> QED
  BY <1>2, <1>5, <1>8, <1>9, <1>10

\* The deferred events are finitely many tightening events.
LEMMA KeptFinite ==
  ASSUME Types
  PROVE  /\ IsFiniteSet(Kept) /\ Cardinality(Kept) \in Nat
         /\ \A e \in Kept : e \in Events /\ e.type \in {"released", "closed"}
                            /\ ~IsOrdinary(e)
<1>1. \A k \in Streams : Range(pending[k]) \subseteq {Released(k), Closed(k)}
  <2> TAKE k \in Streams
  <2>1. PICK r, c : r = Released(k) /\ c = Closed(k)
    OBVIOUS
  <2>2. pending[k] \in {<< >>, <<r>>, <<c>>, <<r, c>>}
    BY <2>1 DEF Types, QueueTypes, Bundles
  <2>3. /\ Range(<< >>) = {} /\ Range(<<r>>) = {r} /\ Range(<<c>>) = {c}
        /\ Range(<<r, c>>) = {r, c}
    BY ShortRanges
  <2> QED
    BY <2>1, <2>2, <2>3
<1>2. PICK R, C : R = [k \in Streams |-> Released(k)] /\ C = [k \in Streams |-> Closed(k)]
  OBVIOUS
<1>3. IsFiniteSet(Streams)
  BY LimitsAssumption
<1>4. R \in Surjection(Streams, {R[k] : k \in Streams})
  BY <1>2 DEF Surjection
<1>5. C \in Surjection(Streams, {C[k] : k \in Streams})
  BY <1>2 DEF Surjection
<1>6. IsFiniteSet({R[k] : k \in Streams}) /\ IsFiniteSet({C[k] : k \in Streams})
  BY <1>3, <1>4, <1>5, FS_Surjection
<1>7. PICK X : X = {R[k] : k \in Streams} \cup {C[k] : k \in Streams}
  OBVIOUS
<1>8. IsFiniteSet(X)
  BY <1>6, <1>7, FS_Union
<1>9. Kept \in SUBSET X
  BY <1>1, <1>2, <1>7 DEF Kept
<1>10. IsFiniteSet(Kept)
  BY <1>8, <1>9, FS_Subset
<1>11. \A e \in Kept : \E k \in Streams : e \in {Released(k), Closed(k)}
  BY <1>1 DEF Kept
<1> QED
  BY <1>10, <1>11, FS_CardinalityType, TighteningEvents

\* Deferred::flush, the events it tells.
FlushTells(n, out) ==
  /\ n \in [Streams -> 0 .. 2] /\ \A k \in Streams : n[k] <= Len(pending[k])
  /\ pending' = [k \in Streams |-> Rest(pending[k], n[k])]
  /\ out \in Seq(Events)
  /\ Range(out) = Told(n) /\ Len(out) = Cardinality(Told(n))
  /\ \A i \in DOMAIN out : out[i].type \in {"released", "closed"} /\ ~IsOrdinary(out[i])
  /\ out = << >> \/ Len(queue) + Len(out) + Cardinality(holds)
                      + Cardinality(Buckets(bucket)) <= QUEUE

FlushReports(q) ==
  \/ queue' = q /\ record' = record
  \/ /\ CanEmit(q, holds, bucket, Dropped(record))
     /\ queue' = Append(q, Dropped(record)) /\ record' = [plain |-> 0, tight |-> 0]

\* Deferred::flush.
LEMMA FlushEffect ==
  ASSUME Types, Flush
  PROVE  \E n, out : FlushTells(n, out) /\ FlushReports(queue \o out)
<1>1. PICK n \in [Streams -> 0 .. 2] :
        /\ \A k \in Streams : n[k] <= Len(pending[k])
        /\ \E out \in SetToSeqs(Told(n)) :
             LET q      == queue \o out
                 report == /\ record # [plain |-> 0, tight |-> 0]
                           /\ CanEmit(q, holds, bucket, Dropped(record))
             IN  /\ Bundled(n, out)
                 /\ \A i \in DOMAIN out :
                      CanEmit(queue \o SubSeq(out, 1, i - 1), holds, bucket, out[i])
                 /\ (\E k \in Streams : n[k] < Len(pending[k]))
                      => ~Room(q, holds, bucket)
                 /\ out # << >> \/ report
                 /\ queue' = IF report THEN Append(q, Dropped(record)) ELSE q
                 /\ record' = IF report THEN [plain |-> 0, tight |-> 0] ELSE record
        /\ pending' = [k \in Streams |-> Rest(pending[k], n[k])]
  BY Zenon DEF Flush
<1>2. PICK out \in SetToSeqs(Told(n)) :
        LET q      == queue \o out
            report == /\ record # [plain |-> 0, tight |-> 0]
                      /\ CanEmit(q, holds, bucket, Dropped(record))
        IN  /\ Bundled(n, out)
            /\ \A i \in DOMAIN out :
                 CanEmit(queue \o SubSeq(out, 1, i - 1), holds, bucket, out[i])
            /\ (\E k \in Streams : n[k] < Len(pending[k]))
                 => ~Room(q, holds, bucket)
            /\ out # << >> \/ report
            /\ queue' = IF report THEN Append(q, Dropped(record)) ELSE q
            /\ record' = IF report THEN [plain |-> 0, tight |-> 0] ELSE record
  BY <1>1, Zenon
<1>3. FlushReports(queue \o out)
  BY <1>2 DEF FlushReports
<1>4. \A i \in DOMAIN out :
        CanEmit(queue \o SubSeq(out, 1, i - 1), holds, bucket, out[i])
  BY <1>2
<1>5. Told(n) \subseteq Kept
  BY <1>1, FlushKept
<1>6. PICK c, T : T = Told(n) /\ c = Cardinality(T)
  OBVIOUS
<1>7. IsFiniteSet(T) /\ c \in Nat /\ T \subseteq Events
      /\ \A e \in T : e.type \in {"released", "closed"} /\ ~IsOrdinary(e)
  <2>1. IsFiniteSet(Kept) /\ T \in SUBSET Kept
    BY <1>5, <1>6, KeptFinite
  <2>2. IsFiniteSet(T)
    BY <2>1, FS_Subset
  <2> QED
    BY <1>6, <2>1, <2>2, FS_CardinalityType, KeptFinite
<1>8. out \in [1 .. c -> T] /\ \A i, j \in 1 .. c : i # j => out[i] # out[j]
  BY <1>2, <1>6 DEF SetToSeqs
<1>9. /\ out \in Seq(Events) /\ Len(out) = c /\ DOMAIN out = 1 .. c
      /\ \A i \in DOMAIN out : out[i] \in T
  BY <1>7, <1>8
<1>10. Range(out) = T
  <2>1. out \in Injection(1 .. c, T)
    BY <1>8 DEF Injection, IsInjective
  <2>2. IsFiniteSet(1 .. c) /\ Cardinality(1 .. c) = c
    <3>1. IsFiniteSet(1 .. c) /\ Cardinality(1 .. c) = (IF 1 > c THEN 0 ELSE c - 1 + 1)
      BY <1>7, FS_Interval
    <3> QED
      BY <1>7, <3>1
  <2>3. out \in Surjection(1 .. c, T)
    BY <1>6, <1>7, <2>1, <2>2, FS_Injection
  <2> QED
    BY <1>9, <2>3 DEF Surjection, Range
<1>11. out = << >> \/ Len(queue) + Len(out) + Cardinality(holds)
                        + Cardinality(Buckets(bucket)) <= QUEUE
  <2>1. CASE c = 0
    BY <1>9, <2>1
  <2>2. CASE c # 0
    <3>1. c \in DOMAIN out
      BY <1>7, <1>9, <2>2
    <3>2. Room(queue \o SubSeq(out, 1, c - 1), holds, bucket)
      BY <1>4, <3>1, Zenon DEF CanEmit
    <3>3. PICK s : s = SubSeq(out, 1, c - 1)
      OBVIOUS
    <3>4. c - 1 \in Int /\ \A i \in 1 .. c - 1 : out[i] \in Events
      BY <1>7, <1>9
    <3>5. s \in Seq(Events) /\ Len(s) = (IF 1 <= c - 1 THEN (c - 1) - 1 + 1 ELSE 0)
      BY <3>3, <3>4, SubSeqProperties
    <3>6. Len(s) = c - 1
      BY <1>7, <2>2, <3>5
    <3>7. Len(queue \o s) = Len(queue) + (c - 1)
      <4>1. queue \in Seq(Events)
        BY DEF Types, QueueTypes
      <4> QED
        BY <3>5, <3>6, <4>1, ConcatProperties
    <3>8. Len(queue \o s) + Cardinality(holds) + Cardinality(Buckets(bucket)) < QUEUE
      BY <3>2, <3>3 DEF Room
    <3> QED
      BY <1>7, <1>9, <3>7, <3>8, Numbers
  <2> QED
    BY <2>1, <2>2
<1>12. FlushTells(n, out)
  BY <1>1, <1>6, <1>7, <1>9, <1>10, <1>11 DEF FlushTells
<1> QED
  BY <1>3, <1>12

-----------------------------------------------------------------------------
(***************************************************************************)
(* Types and stages.                                                       *)
(***************************************************************************)

\* Every action keeps the types of the bridge.
LEMMA BridgeTypesKept ==
  ASSUME Types, [Next]_vars
  PROVE  BridgeTypes'
<1>1. ASSUME NEW k \in Streams, StreamNext(k)
      PROVE  BridgeTypes'
  <2>1. CASE OpenJob(k)
    BY <2>1 DEF OpenJob, bridgeVars, Types, BridgeTypes, Stages
  <2>2. CASE OpenRefused(k)
    BY <2>2 DEF OpenRefused, BestEffort, bridgeVars, Types, BridgeTypes, Stages
  <2>3. CASE HostRefuses(k)
    BY <2>3 DEF HostRefuses, BestEffort, bridgeVars, Types, BridgeTypes, Stages
  <2>4. CASE AnnounceLive(k)
    BY <2>4 DEF AnnounceLive, bridgeVars, Types, BridgeTypes, Stages
  <2>5. CASE AnnounceEmit(k)
    BY <2>5 DEF AnnounceEmit, bridgeVars, Types, BridgeTypes, Stages
  <2>6. CASE OpenJobEnds(k)
    BY <2>6 DEF OpenJobEnds, bridgeVars, Types, BridgeTypes, Stages
  <2>7. CASE Close(k)
    BY <2>7 DEF Close, bridgeVars, Types, BridgeTypes, Stages
  <2>8. CASE Drop(k)
    BY <2>8 DEF Drop, bridgeVars, Types, BridgeTypes, Stages
  <2>9. CASE Tightened(k)
    BY <2>9 DEF Tightened, bridgeVars, Types, BridgeTypes, Stages
  <2>10. CASE InputChecks(k)
    BY <2>10 DEF InputChecks, bridgeVars, Types, BridgeTypes, Stages
  <2>11. CASE InputAudits(k)
    BY <2>11 DEF InputAudits, bridgeVars, Types, BridgeTypes, Stages
  <2>12. CASE InputStarts(k)
    BY <2>12 DEF InputStarts, bridgeVars, Types, BridgeTypes, Stages
  <2>13. CASE BucketDue(k)
    BY <2>13 DEF BucketDue, bridgeVars, Types, BridgeTypes, Stages
  <2>14. CASE OpenStarts(k)
    BY <2>14 DEF OpenStarts, bridgeVars, Types, BridgeTypes, Stages
  <2>15. CASE OpenFailed(k)
    BY <2>15 DEF OpenFailed, BestEffort, bridgeVars, Types, BridgeTypes, Stages
  <2> QED
    BY <1>1, <2>1, <2>2, <2>3, <2>4, <2>5, <2>6, <2>7, <2>8, <2>9, <2>10, <2>11, <2>12,
       <2>13, <2>14, <2>15 DEF StreamNext
<1>2. CASE Flush
  BY <1>2 DEF Flush, bridgeVars, Types, BridgeTypes, Stages
<1>3. CASE PlainAudit
  BY <1>3 DEF PlainAudit, BestEffort, bridgeVars, Types, BridgeTypes, Stages
<1>4. CASE OtherEvent
  BY <1>4 DEF OtherEvent, bridgeVars, Types, BridgeTypes, Stages
<1>5. CASE Deliver
  BY <1>5 DEF Deliver, bridgeVars, Types, BridgeTypes, Stages
<1>6. CASE Reconcile
  BY <1>6 DEF Reconcile, Ask, bridgeVars, Types, BridgeTypes, Stages
<1>7. CASE Answer
  BY <1>7 DEF Answer, bridgeVars, Types, BridgeTypes, Stages
<1>8. CASE AnswerQueued
  BY <1>8 DEF AnswerQueued, bridgeVars, Types, BridgeTypes, Stages
<1>9. CASE GiveUp
  BY <1>9 DEF GiveUp, bridgeVars, Types, BridgeTypes, Stages
<1>10. CASE PageReply
  BY <1>10 DEF PageReply, Ask, bridgeVars, Types, BridgeTypes, Stages
<1>11. CASE PageEvent
  BY <1>11 DEF PageEvent, bridgeVars, Types, BridgeTypes, Stages
<1>12. CASE Crash
  BY <1>12 DEF Crash, bridgeVars, Types, BridgeTypes, Stages
<1>13. CASE UNCHANGED vars
  BY <1>13 DEF vars, bridgeVars, Types, BridgeTypes, Stages
<1> QED
  BY <1>1, <1>2, <1>3, <1>4, <1>5, <1>6, <1>7, <1>8, <1>9, <1>10, <1>11, <1>12, <1>13
     DEF Next

\* Every action keeps the types of the input jobs.
LEMMA InputTypesKept ==
  ASSUME Types, [Next]_vars
  PROVE  InputTypes'
<1>1. ASSUME NEW k \in Streams, StreamNext(k)
      PROVE  InputTypes'
  <2>1. CASE OpenJob(k)
    BY <2>1 DEF OpenJob, inputVars, Types, InputTypes
  <2>2. CASE OpenRefused(k)
    BY <2>2 DEF OpenRefused, BestEffort, inputVars, Types, InputTypes
  <2>3. CASE HostRefuses(k)
    BY <2>3 DEF HostRefuses, BestEffort, inputVars, Types, InputTypes
  <2>4. CASE AnnounceLive(k)
    BY <2>4 DEF AnnounceLive, inputVars, Types, InputTypes
  <2>5. CASE AnnounceEmit(k)
    BY <2>5 DEF AnnounceEmit, inputVars, Types, InputTypes
  <2>6. CASE OpenJobEnds(k)
    BY <2>6 DEF OpenJobEnds, inputVars, Types, InputTypes
  <2>7. CASE Close(k)
    BY <2>7 DEF Close, inputVars, Types, InputTypes
  <2>8. CASE Drop(k)
    <3>1. CASE bucket[k] = 0
      BY <2>8, <3>1 DEF Drop, Types, InputTypes
    <3>2. CASE bucket[k] # 0
      <4>1. /\ audited' = [audited EXCEPT ![k] = @ + bucket[k]]
            /\ bucket' = [bucket EXCEPT ![k] = 0] /\ UNCHANGED <<job, sent>>
        BY <2>8, <3>2 DEF Drop
      <4>2. audited[k] + bucket[k] \in Nat
        BY DEF Types, InputTypes
      <4> QED
        BY <4>1, <4>2 DEF Types, InputTypes
    <3> QED
      BY <3>1, <3>2
  <2>9. CASE Tightened(k)
    BY <2>9 DEF Tightened, inputVars, Types, InputTypes
  <2>10. CASE InputChecks(k)
    BY <2>10 DEF InputChecks, inputVars, Types, InputTypes
  <2>11. CASE InputAudits(k)
    BY <2>11 DEF InputAudits, inputVars, Types, InputTypes
  <2>12. CASE InputStarts(k)
    BY <2>12 DEF InputStarts, inputVars, Types, InputTypes
  <2>13. CASE BucketDue(k)
    BY <2>13 DEF BucketDue, inputVars, Types, InputTypes
  <2>14. CASE OpenStarts(k)
    BY <2>14 DEF OpenStarts, inputVars, Types, InputTypes
  <2>15. CASE OpenFailed(k)
    BY <2>15 DEF OpenFailed, BestEffort, inputVars, Types, InputTypes
  <2> QED
    BY <1>1, <2>1, <2>2, <2>3, <2>4, <2>5, <2>6, <2>7, <2>8, <2>9, <2>10, <2>11, <2>12,
       <2>13, <2>14, <2>15 DEF StreamNext
<1>2. CASE Flush
  BY <1>2 DEF Flush, inputVars, Types, InputTypes
<1>3. CASE PlainAudit
  BY <1>3 DEF PlainAudit, BestEffort, inputVars, Types, InputTypes
<1>4. CASE OtherEvent
  BY <1>4 DEF OtherEvent, inputVars, Types, InputTypes
<1>5. CASE Deliver
  BY <1>5 DEF Deliver, inputVars, Types, InputTypes
<1>6. CASE Reconcile
  BY <1>6 DEF Reconcile, Ask, inputVars, Types, InputTypes
<1>7. CASE Answer
  BY <1>7 DEF Answer, inputVars, Types, InputTypes
<1>8. CASE AnswerQueued
  BY <1>8 DEF AnswerQueued, inputVars, Types, InputTypes
<1>9. CASE GiveUp
  BY <1>9 DEF GiveUp, inputVars, Types, InputTypes
<1>10. CASE PageReply
  BY <1>10 DEF PageReply, Ask, inputVars, Types, InputTypes
<1>11. CASE PageEvent
  BY <1>11 DEF PageEvent, inputVars, Types, InputTypes
<1>12. CASE Crash
  BY <1>12 DEF Crash, inputVars, Types, InputTypes
<1>13. CASE UNCHANGED vars
  BY <1>13 DEF vars, inputVars, Types, InputTypes
<1> QED
  BY <1>1, <1>2, <1>3, <1>4, <1>5, <1>6, <1>7, <1>8, <1>9, <1>10, <1>11, <1>12, <1>13
     DEF Next

\* Every action keeps what the stages say.
LEMMA StageKept ==
  ASSUME Types, StageInv, [Next]_vars
  PROVE  StageInv'
<1>1. ASSUME NEW k \in Streams, StreamNext(k)
      PROVE  StageInv'
  <2>1. CASE OpenJob(k)
    BY <2>1 DEF OpenJob, bridgeVars, queueVars, Types, BridgeTypes, QueueTypes, Stages,
       StageInv
  <2>2. CASE OpenRefused(k)
    BY <2>2 DEF OpenRefused, BestEffort, bridgeVars, queueVars, Types, BridgeTypes,
       QueueTypes, Stages, StageInv
  <2>3. CASE HostRefuses(k)
    BY <2>3 DEF HostRefuses, BestEffort, bridgeVars, queueVars, Types, BridgeTypes,
       QueueTypes, Stages, StageInv
  <2>4. CASE AnnounceLive(k)
    BY <2>4 DEF AnnounceLive, bridgeVars, queueVars, Types, BridgeTypes, QueueTypes,
       Stages, StageInv
  <2>5. CASE AnnounceEmit(k)
    BY <2>5 DEF AnnounceEmit, bridgeVars, queueVars, Types, BridgeTypes, QueueTypes,
       Stages, StageInv
  <2>6. CASE OpenJobEnds(k)
    BY <2>6 DEF OpenJobEnds, bridgeVars, queueVars, Types, BridgeTypes, QueueTypes,
       Stages, StageInv
  <2>7. CASE Close(k)
    BY <2>7 DEF Close, bridgeVars, queueVars, Types, BridgeTypes, QueueTypes, Stages,
       StageInv
  <2>8. CASE Drop(k)
    BY <2>8 DEF Drop, bridgeVars, queueVars, Types, BridgeTypes, QueueTypes, Stages,
       StageInv
  <2>9. CASE Tightened(k)
    <3>1. /\ \A j \in Streams \ {k} : pending'[j] = pending[j] /\ stage'[j] = stage[j]
          /\ stage'[k] = "gone" /\ stage[k] \in {"dropping", "unannounced"}
          /\ UNCHANGED <<closed, holds, live>>
      <4>1. pending' = pending \/ \E r : pending' = [pending EXCEPT ![k] = r]
        BY <2>9 DEF Tightened
      <4> QED
        BY <2>9, <4>1 DEF Tightened, Types, BridgeTypes, QueueTypes
    <3> QED
      BY <3>1 DEF StageInv
  <2>10. CASE InputChecks(k)
    BY <2>10 DEF InputChecks, bridgeVars, queueVars, Types, BridgeTypes, QueueTypes,
       Stages, StageInv
  <2>11. CASE InputAudits(k)
    BY <2>11 DEF InputAudits, bridgeVars, queueVars, Types, BridgeTypes, QueueTypes,
       Stages, StageInv
  <2>12. CASE InputStarts(k)
    BY <2>12 DEF InputStarts, bridgeVars, queueVars, Types, BridgeTypes, QueueTypes,
       Stages, StageInv
  <2>13. CASE BucketDue(k)
    BY <2>13 DEF BucketDue, bridgeVars, queueVars, Types, BridgeTypes, QueueTypes,
       Stages, StageInv
  <2>14. CASE OpenStarts(k)
    BY <2>14 DEF OpenStarts, bridgeVars, queueVars, Types, BridgeTypes, QueueTypes,
       Stages, StageInv
  <2>15. CASE OpenFailed(k)
    BY <2>15 DEF OpenFailed, BestEffort, bridgeVars, queueVars, Types, BridgeTypes,
       QueueTypes, Stages, StageInv
  <2> QED
    BY <1>1, <2>1, <2>2, <2>3, <2>4, <2>5, <2>6, <2>7, <2>8, <2>9, <2>10, <2>11, <2>12,
       <2>13, <2>14, <2>15 DEF StreamNext
<1>2. CASE Flush
  <2>1. PICK n, out : FlushTells(n, out)
    BY <1>2, FlushEffect
  <2>2. \A j \in Streams : pending[j] = << >> => pending'[j] = << >>
    BY <2>1, FlushKept DEF FlushTells
  <2>3. UNCHANGED <<stage, closed, holds, live>>
    BY <1>2 DEF Flush, bridgeVars
  <2> QED
    BY <2>2, <2>3 DEF StageInv
<1>3. CASE PlainAudit
  BY <1>3 DEF PlainAudit, BestEffort, bridgeVars, queueVars, Types, BridgeTypes,
     QueueTypes, Stages, StageInv
<1>4. CASE OtherEvent
  BY <1>4 DEF OtherEvent, bridgeVars, queueVars, Types, BridgeTypes, QueueTypes, Stages,
     StageInv
<1>5. CASE Deliver
  BY <1>5 DEF Deliver, bridgeVars, queueVars, Types, BridgeTypes, QueueTypes, Stages,
     StageInv
<1>6. CASE Reconcile
  BY <1>6 DEF Reconcile, Ask, bridgeVars, queueVars, Types, BridgeTypes, QueueTypes,
     Stages, StageInv
<1>7. CASE Answer
  BY <1>7 DEF Answer, bridgeVars, queueVars, Types, BridgeTypes, QueueTypes, Stages,
     StageInv
<1>8. CASE AnswerQueued
  BY <1>8 DEF AnswerQueued, bridgeVars, queueVars, Types, BridgeTypes, QueueTypes,
     Stages, StageInv
<1>9. CASE GiveUp
  BY <1>9 DEF GiveUp, bridgeVars, queueVars, Types, BridgeTypes, QueueTypes, Stages,
     StageInv
<1>10. CASE PageReply
  BY <1>10 DEF PageReply, Ask, bridgeVars, queueVars, Types, BridgeTypes, QueueTypes,
     Stages, StageInv
<1>11. CASE PageEvent
  BY <1>11 DEF PageEvent, bridgeVars, queueVars, Types, BridgeTypes, QueueTypes, Stages,
     StageInv
<1>12. CASE Crash
  BY <1>12 DEF Crash, bridgeVars, queueVars, Types, BridgeTypes, QueueTypes, Stages,
     StageInv
<1>13. CASE UNCHANGED vars
  BY <1>13 DEF vars, bridgeVars, queueVars, Types, BridgeTypes, QueueTypes, Stages,
     StageInv
<1> QED
  BY <1>1, <1>2, <1>3, <1>4, <1>5, <1>6, <1>7, <1>8, <1>9, <1>10, <1>11, <1>12, <1>13
     DEF Next

\* A best-effort audit keeps the types of the queue.
LEMMA BestEffortTypes ==
  ASSUME QueueTypes, NEW h, NEW b, BestEffort(queue, h, b)
  PROVE  /\ queue' \in Seq(Events)
         /\ record' \in [plain : Nat, tight : Nat]
         /\ untold' \in [plain : Int, tight : Int]
<1>1. Plain \in Events
  BY EventsMade
<1>2. queue' = Append(queue, Plain) \/ queue' = queue
  BY DEF BestEffort
<1>3. record' = record \/ record' = [record EXCEPT !.plain = @ + 1]
  BY DEF BestEffort
<1>4. untold' = [untold EXCEPT !.plain = @ + 1]
  BY DEF BestEffort
<1>5. record' \in [plain : Nat, tight : Nat]
  BY <1>3 DEF QueueTypes
<1>6. untold' \in [plain : Int, tight : Int]
  BY <1>4 DEF QueueTypes
<1>7. queue' \in Seq(Events)
  <2>1. queue \in Seq(Events)
    BY DEF QueueTypes
  <2>2. Append(queue, Plain) \in Seq(Events)
    BY <1>1, <2>1, AppendProperties
  <2> QED
    BY <1>2, <2>1, <2>2
<1> QED
  BY <1>5, <1>6, <1>7

\* A delivered event is told no more.
LEMMA DeliveredCount ==
  ASSUME NEW u \in [plain : Int, tight : Int], NEW e \in Events
  PROVE  (CASE e.type = "plain" -> [u EXCEPT !.plain = @ - 1]
            [] e.type \in {"released", "closed"} -> [u EXCEPT !.tight = @ - 1]
            [] e.type = "dropped" ->
                 [plain |-> u.plain - e.lost.plain, tight |-> u.tight - e.lost.tight]
            [] OTHER -> u)
         = [plain |-> u.plain - Small(e), tight |-> u.tight - Tight(e)]
<1>1. u = [plain |-> u.plain, tight |-> u.tight] /\ u.plain \in Int /\ u.tight \in Int
  OBVIOUS
<1>2. CASE e.type \in {"released", "closed"}
  <2>1. Tight(e) = 1 /\ Small(e) = 0
    BY <1>2, EventWeights
  <2> QED
    BY <1>1, <1>2, <2>1
<1>3. CASE e.type = "plain"
  <2>1. Tight(e) = 0 /\ Small(e) = 1
    BY <1>3, EventWeights
  <2> QED
    BY <1>1, <1>3, <2>1
<1>4. CASE e.type = "dropped"
  <2>1. Tight(e) = e.lost.tight /\ Small(e) = e.lost.plain
    BY <1>4, EventWeights
  <2> QED
    BY <1>1, <1>4, <2>1
<1>5. CASE e.type \notin {"released", "closed", "plain", "dropped"}
  <2>1. Tight(e) = 0 /\ Small(e) = 0
    BY <1>5, EventWeights
  <2> QED
    BY <1>1, <1>5, <2>1
<1> QED
  BY <1>2, <1>3, <1>4, <1>5

\* Every action keeps the types of the queue.
LEMMA QueueTypesKept ==
  ASSUME Types, [Next]_vars
  PROVE  QueueTypes'
<1>1. ASSUME NEW k \in Streams, StreamNext(k)
      PROVE  QueueTypes'
  <2>1. CASE OpenJob(k)
    <3>1. /\ queue' = Append(queue, Plain) /\ UNCHANGED <<pending, record>>
          /\ untold' = [untold EXCEPT !.plain = @ + 1]
      BY <2>1 DEF OpenJob
    <3> QED
      BY <3>1, EventsMade DEF Types, QueueTypes
  <2>2. CASE OpenRefused(k)
    <3>1. BestEffort(queue, holds, bucket) /\ pending' = pending
      BY <2>2 DEF OpenRefused
    <3> QED
      BY <3>1, BestEffortTypes DEF Types, QueueTypes
  <2>3. CASE HostRefuses(k)
    <3>1. BestEffort(queue, holds \ {k}, bucket) /\ pending' = pending
      BY <2>3 DEF HostRefuses
    <3> QED
      BY <3>1, BestEffortTypes DEF Types, QueueTypes
  <2>4. CASE AnnounceLive(k)
    BY <2>4 DEF AnnounceLive, queueVars, Types, QueueTypes
  <2>5. CASE AnnounceEmit(k)
    <3>1. queue' = Append(queue, Opened(k)) /\ UNCHANGED <<pending, record, untold>>
      BY <2>5 DEF AnnounceEmit
    <3> QED
      BY <3>1, EventsMade DEF Types, QueueTypes
  <2>6. CASE OpenJobEnds(k)
    BY <2>6 DEF OpenJobEnds, queueVars, Types, QueueTypes
  <2>7. CASE Close(k)
    BY <2>7 DEF Close, queueVars, Types, QueueTypes
  <2>8. CASE Drop(k)
    <3>1. (queue' = queue \/ queue' = Append(queue, Input(k))) /\ UNCHANGED <<pending, record, untold>>
      BY <2>8 DEF Drop
    <3> QED
      BY <3>1, EventsMade DEF Types, QueueTypes
  <2>9. CASE Tightened(k)
    <3>1. PICK out, rest :
            /\ TightSplit(k, out, rest) /\ queue' = queue \o out
            /\ untold' = [untold EXCEPT !.tight = @ + (Len(out) + Len(rest))]
            /\ \/ record' = [record EXCEPT !.tight = @ + Len(rest)] /\ pending' = pending
               \/ pending' = [pending EXCEPT ![k] = rest] /\ record' = record
      BY <2>9, TightenedEffect
    <3>2. out \in Seq(Events) /\ rest \in Bundles(k) /\ Len(out) \in Nat /\ Len(rest) \in Nat
      BY <3>1, TightSplitParts
    <3>3. queue' \in Seq(Events)
      <4>1. queue \in Seq(Events)
        BY DEF Types, QueueTypes
      <4> QED
        BY <3>1, <3>2, <4>1, ConcatProperties
    <3>4. untold' \in [plain : Int, tight : Int]
      BY <3>1, <3>2 DEF Types, QueueTypes
    <3>5. record' \in [plain : Nat, tight : Nat]
      BY <3>1, <3>2 DEF Types, QueueTypes
    <3>6. DOMAIN pending' = Streams /\ \A j \in Streams : pending'[j] \in Bundles(j)
      BY <3>1, <3>2 DEF Types, QueueTypes
    <3> QED
      BY <3>3, <3>4, <3>5, <3>6 DEF QueueTypes
  <2>10. CASE InputChecks(k)
    BY <2>10 DEF InputChecks, queueVars, Types, QueueTypes
  <2>11. CASE InputAudits(k)
    <3>1. (queue' = queue \/ queue' = Append(queue, Input(k))) /\ UNCHANGED <<pending, record, untold>>
      BY <2>11 DEF InputAudits
    <3> QED
      BY <3>1, EventsMade DEF Types, QueueTypes
  <2>12. CASE InputStarts(k)
    BY <2>12 DEF InputStarts, queueVars, Types, QueueTypes
  <2>13. CASE BucketDue(k)
    <3>1. queue' = Append(queue, Input(k)) /\ UNCHANGED <<pending, record, untold>>
      BY <2>13 DEF BucketDue
    <3> QED
      BY <3>1, EventsMade DEF Types, QueueTypes
  <2>14. CASE OpenStarts(k)
    BY <2>14 DEF OpenStarts, queueVars, Types, QueueTypes
  <2>15. CASE OpenFailed(k)
    <3>1. BestEffort(queue, holds, bucket) /\ pending' = pending
      BY <2>15 DEF OpenFailed
    <3> QED
      BY <3>1, BestEffortTypes DEF Types, QueueTypes
  <2> QED
    BY <1>1, <2>1, <2>2, <2>3, <2>4, <2>5, <2>6, <2>7, <2>8, <2>9, <2>10, <2>11, <2>12,
       <2>13, <2>14, <2>15 DEF StreamNext
<1>2. CASE Flush
  <2>1. PICK n, out : FlushTells(n, out) /\ FlushReports(queue \o out)
    BY <1>2, FlushEffect
  <2>2. DOMAIN pending' = Streams /\ \A j \in Streams : pending'[j] \in Bundles(j)
    BY <2>1, FlushKept DEF FlushTells
  <2>3. PICK q : q = queue \o out
    OBVIOUS
  <2>4. q \in Seq(Events)
    <3>1. queue \in Seq(Events) /\ out \in Seq(Events)
      BY <2>1 DEF Types, QueueTypes, FlushTells
    <3> QED
      BY <2>3, <3>1, ConcatProperties
  <2>5. /\ queue' = q \/ queue' = Append(q, Dropped(record))
        /\ record' = record \/ record' = [plain |-> 0, tight |-> 0]
    BY <2>1, <2>3 DEF FlushReports
  <2>6. Dropped(record) \in Events
    BY EventsMade DEF Types, QueueTypes
  <2>7. queue' \in Seq(Events)
    BY <2>4, <2>5, <2>6
  <2>8. untold' = untold
    BY <1>2 DEF Flush
  <2> QED
    BY <2>2, <2>5, <2>7, <2>8 DEF Types, QueueTypes
<1>3. CASE PlainAudit
  <2>1. BestEffort(queue, holds, bucket) /\ pending' = pending
    BY <1>3 DEF PlainAudit
  <2> QED
    BY <2>1, BestEffortTypes DEF Types, QueueTypes
<1>4. CASE OtherEvent
  <2>1. queue' = Append(queue, Lifecycle) /\ UNCHANGED <<pending, record, untold>>
    BY <1>4 DEF OtherEvent
  <2> QED
    BY <2>1, EventsMade DEF Types, QueueTypes
<1>5. CASE Deliver
  <2>1. PICK e : e = Head(queue)
    OBVIOUS
  <2>2. queue # << >> /\ queue' = Tail(queue) /\ UNCHANGED <<pending, record>>
    BY <1>5 DEF Deliver
  <2>3. /\ queue' \in Seq(Events) /\ e \in Events
    BY <2>1, <2>2, SumTail DEF Types, QueueTypes
  <2>4. untold' = CASE e.type = "plain" -> [untold EXCEPT !.plain = @ - 1]
                    [] e.type \in {"released", "closed"} ->
                         [untold EXCEPT !.tight = @ - 1]
                    [] e.type = "dropped" ->
                         [plain |-> untold.plain - e.lost.plain,
                          tight |-> untold.tight - e.lost.tight]
                    [] OTHER -> untold
    BY <1>5, <2>1 DEF Deliver
  <2>5. e.type = "dropped" => e.lost.plain \in Int /\ e.lost.tight \in Int
    BY <2>3, EventFields
  <2>6. untold' = [plain |-> untold.plain - Small(e), tight |-> untold.tight - Tight(e)]
    BY <2>3, <2>4, DeliveredCount DEF Types, QueueTypes
  <2>7. Small(e) \in Nat /\ Tight(e) \in Nat
    BY <2>3, EventWeights
  <2>8. untold' \in [plain : Int, tight : Int]
    BY <2>6, <2>7 DEF Types, QueueTypes
  <2> QED
    BY <2>2, <2>3, <2>8 DEF Types, QueueTypes
<1>6. CASE Reconcile
  BY <1>6 DEF Reconcile, Ask, queueVars, Types, QueueTypes
<1>7. CASE Answer
  BY <1>7 DEF Answer, queueVars, Types, QueueTypes
<1>8. CASE AnswerQueued
  <2>1. queue' = queue \o answer /\ UNCHANGED <<pending, record, untold>> /\ answer # << >>
    BY <1>8 DEF AnswerQueued
  <2>2. PICK s \in Snapshots : answer = <<s>>
    BY <2>1 DEF Types, PageTypes
  <2>3. s \in Events /\ queue \in Seq(Events)
    BY EventsMade DEF Types, QueueTypes
  <2>4. answer \in Seq(Events)
    BY <2>2, <2>3
  <2>5. queue' \in Seq(Events)
    BY <2>1, <2>3, <2>4, ConcatProperties
  <2> QED
    BY <2>1, <2>5 DEF Types, QueueTypes
<1>9. CASE GiveUp
  BY <1>9 DEF GiveUp, queueVars, Types, QueueTypes
<1>10. CASE PageReply
  BY <1>10 DEF PageReply, Ask, queueVars, Types, QueueTypes
<1>11. CASE PageEvent
  BY <1>11 DEF PageEvent, queueVars, Types, QueueTypes
<1>12. CASE Crash
  <2>1. /\ queue' = << >> /\ pending' = [k \in Streams |-> << >>]
        /\ record' = [plain |-> 0, tight |-> 0] /\ untold' = [plain |-> 0, tight |-> 0]
    BY <1>12 DEF Crash
  <2> QED
    BY <2>1 DEF QueueTypes, Bundles
<1>13. CASE UNCHANGED vars
  BY <1>13 DEF vars, queueVars, Types, QueueTypes
<1> QED
  BY <1>1, <1>2, <1>3, <1>4, <1>5, <1>6, <1>7, <1>8, <1>9, <1>10, <1>11, <1>12, <1>13
     DEF Next

\* What the page does with an event.
StreamSeq(e) == IF e.type = "opened" THEN 1 ELSE 2

IsNew(e) == e.type \in {"opened", "closed"} /\ StreamSeq(e) > seen[e.stream]

\* applyEvent, one case of an event at a time.
LEMMA PageEventCases ==
  ASSUME PageEvent, NEW e, e = Head(inbox)
  PROVE
         /\ e.type = "down" =>
              shown' = {} /\ seen' = [k \in Streams |-> 0] /\ running' = FALSE
         /\ e.type = "opened" /\ IsNew(e) =>
              /\ shown' = shown \union {e.stream}
              /\ seen' = [seen EXCEPT ![e.stream] = StreamSeq(e)] /\ running' = running
         /\ e.type = "closed" /\ IsNew(e) =>
              /\ shown' = shown \ {e.stream}
              /\ seen' = [seen EXCEPT ![e.stream] = StreamSeq(e)] /\ running' = running
         /\ e.type # "down" /\ ~IsNew(e) => shown' = shown /\ seen' = seen
         /\ running' = FALSE \/ running' = TRUE \/ running' = running
<1>1. /\ shown' = CASE e.type = "down" -> {}
                    [] IsNew(e) /\ e.type = "opened" -> shown \union {e.stream}
                    [] IsNew(e) /\ e.type = "closed" -> shown \ {e.stream}
                    [] OTHER -> shown
      /\ seen' = CASE e.type = "down" -> [k \in Streams |-> 0]
                   [] IsNew(e) -> [seen EXCEPT ![e.stream] = StreamSeq(e)]
                   [] OTHER -> seen
      /\ running' = CASE e.type = "down" -> FALSE
                      [] e.type = "up" -> TRUE
                      [] OTHER -> running
  BY Zenon DEF PageEvent, IsNew, StreamSeq
<1>2. e.type = "down" => ~IsNew(e) /\ e.type # "up"
  BY DEF IsNew
<1>3. e.type = "opened" => e.type # "closed" /\ e.type # "down" /\ e.type # "up"
  OBVIOUS
<1>4. e.type = "closed" => e.type # "opened" /\ e.type # "down" /\ e.type # "up"
  OBVIOUS
<1>5. CASE e.type = "down"
  BY <1>1, <1>2, <1>5, Zenon
<1>6. CASE e.type = "opened" /\ IsNew(e)
  <2>1. shown' = shown \union {e.stream}
    BY <1>1, <1>3, <1>6, Zenon
  <2>2. seen' = [seen EXCEPT ![e.stream] = StreamSeq(e)]
    BY <1>1, <1>3, <1>6, Zenon
  <2>3. running' = running
    BY <1>1, <1>3, <1>6, Zenon
  <2> QED
    BY <1>3, <1>6, <2>1, <2>2, <2>3
<1>7. CASE e.type = "closed" /\ IsNew(e)
  <2>1. shown' = shown \ {e.stream}
    BY <1>1, <1>4, <1>7, Zenon
  <2>2. seen' = [seen EXCEPT ![e.stream] = StreamSeq(e)]
    BY <1>1, <1>4, <1>7, Zenon
  <2>3. running' = running
    BY <1>1, <1>4, <1>7, Zenon
  <2> QED
    BY <1>4, <1>7, <2>1, <2>2, <2>3
<1>8. CASE e.type # "down" /\ ~IsNew(e)
  <2>1. shown' = shown
    BY <1>1, <1>8, Zenon
  <2>2. seen' = seen
    BY <1>1, <1>8, Zenon
  <2>3. running' = TRUE \/ running' = running
    <3>1. CASE e.type = "up"
      BY <1>1, <1>8, <3>1, Zenon
    <3>2. CASE e.type # "up"
      BY <1>1, <1>8, <3>2, Zenon
    <3> QED
      BY <3>1, <3>2
  <2> QED
    BY <1>8, <2>1, <2>2, <2>3
<1>9. IsNew(e) => e.type = "opened" \/ e.type = "closed"
  BY DEF IsNew
<1> QED
  BY <1>3, <1>4, <1>5, <1>6, <1>7, <1>8, <1>9

\* Every action keeps the types of the desktop side.
LEMMA PageTypesKept ==
  ASSUME Types, [Next]_vars
  PROVE  PageTypes'
<1>1. ASSUME NEW k \in Streams, StreamNext(k)
      PROVE  PageTypes'
  <2>1. CASE OpenJob(k)
    BY <2>1 DEF OpenJob, replyVars, pageVars, countVars, historyVars, Types, PageTypes
  <2>2. CASE OpenRefused(k)
    BY <2>2 DEF OpenRefused, BestEffort, replyVars, pageVars, countVars, historyVars,
       Types, PageTypes
  <2>3. CASE HostRefuses(k)
    BY <2>3 DEF HostRefuses, BestEffort, replyVars, pageVars, countVars, historyVars,
       Types, PageTypes
  <2>4. CASE AnnounceLive(k)
    BY <2>4 DEF AnnounceLive, replyVars, pageVars, countVars, historyVars, Types,
       PageTypes
  <2>5. CASE AnnounceEmit(k)
    BY <2>5 DEF AnnounceEmit, replyVars, pageVars, countVars, historyVars, Types,
       PageTypes
  <2>6. CASE OpenJobEnds(k)
    BY <2>6 DEF OpenJobEnds, replyVars, pageVars, countVars, historyVars, Types, PageTypes
  <2>7. CASE Close(k)
    BY <2>7 DEF Close, replyVars, pageVars, countVars, historyVars, Types, PageTypes
  <2>8. CASE Drop(k)
    BY <2>8 DEF Drop, replyVars, pageVars, countVars, historyVars, Types, PageTypes
  <2>9. CASE Tightened(k)
    BY <2>9 DEF Tightened, replyVars, pageVars, countVars, historyVars, Types, PageTypes
  <2>10. CASE InputChecks(k)
    BY <2>10 DEF InputChecks, replyVars, pageVars, countVars, historyVars, Types,
       PageTypes
  <2>11. CASE InputAudits(k)
    BY <2>11 DEF InputAudits, replyVars, pageVars, countVars, historyVars, Types,
       PageTypes
  <2>12. CASE InputStarts(k)
    BY <2>12 DEF InputStarts, replyVars, pageVars, countVars, historyVars, Types,
       PageTypes
  <2>13. CASE BucketDue(k)
    BY <2>13 DEF BucketDue, replyVars, pageVars, countVars, historyVars, Types, PageTypes
  <2>14. CASE OpenStarts(k)
    BY <2>14 DEF OpenStarts, replyVars, pageVars, countVars, historyVars, Types,
       PageTypes
  <2>15. CASE OpenFailed(k)
    BY <2>15 DEF OpenFailed, BestEffort, replyVars, pageVars, countVars, historyVars,
       Types, PageTypes
  <2> QED
    BY <1>1, <2>1, <2>2, <2>3, <2>4, <2>5, <2>6, <2>7, <2>8, <2>9, <2>10, <2>11, <2>12,
       <2>13, <2>14, <2>15 DEF StreamNext
<1>2. CASE Flush
  BY <1>2 DEF Flush, replyVars, pageVars, countVars, historyVars, Types, PageTypes
<1>3. CASE PlainAudit
  BY <1>3 DEF PlainAudit, BestEffort, replyVars, pageVars, countVars, historyVars,
     Types, PageTypes
<1>4. CASE OtherEvent
  BY <1>4 DEF OtherEvent, replyVars, pageVars, countVars, historyVars, Types, PageTypes
<1>5. CASE Deliver
  <2>1. PICK e : e = Head(queue)
    OBVIOUS
  <2>2. queue # << >>
    BY <1>5 DEF Deliver
  <2>3. e \in Events
    BY <2>1, <2>2, SumTail DEF Types, QueueTypes
  <2>4. /\ e.type \in {"opened", "closed"} => e.stream \in Streams
        /\ e.type = "snapshot" => e.streams \in SUBSET Streams
    BY <2>3, EventFields DEF Snapshots
  <2>5. /\ waiting' \in BOOLEAN
        /\ reply' = reply \/ (reply' = Replied(e.streams) /\ e.type = "snapshot")
        /\ inbox' = inbox \/ inbox' = Append(inbox, e)
        /\ heard' = heard \/ (heard' = heard \union {e.stream} /\ e.type = "opened")
        /\ settled' = settled \/ (settled' = settled \union {e.stream} /\ e.type = "closed")
        /\ UNCHANGED <<asked, answer, running, shown, seen, recon, countVars>>
    BY <1>5, <2>1 DEF Deliver
  <2>6. reply' \in [kind : {"none", "failed", "replied"}, streams : SUBSET Streams]
    BY <2>4, <2>5 DEF Types, PageTypes, Replied
  <2>7. inbox' \in Seq(Events)
    BY <2>3, <2>5 DEF Types, PageTypes
  <2> QED
    BY <2>4, <2>5, <2>6, <2>7 DEF Types, PageTypes, countVars
<1>6. CASE Reconcile
  <2>1. /\ recon' = [on |-> TRUE, attempt |-> 1, raced |-> FALSE]
        /\ asked' = Append(asked, timeouts) /\ waiting' = TRUE
        /\ UNCHANGED <<answer, reply, inbox, running, shown, seen, countVars, historyVars>>
    BY <1>6 DEF Reconcile, Ask
  <2>2. 1 \in 0 .. ATTEMPTS
    BY LimitsAssumption
  <2>3. asked' \in Seq(0 .. MaxTimeouts)
    BY <2>1 DEF Types, PageTypes
  <2> QED
    BY <2>1, <2>2, <2>3 DEF Types, PageTypes, countVars, historyVars
<1>7. CASE Answer
  <2>1. /\ asked # << >> /\ asked' = Tail(asked) /\ answer' = <<Snapshot(Head(asked), live)>>
        /\ UNCHANGED <<waiting, reply, inbox, running, shown, seen, recon, countVars, historyVars>>
    BY <1>7 DEF Answer, pageVars
  <2>2. asked \in Seq(0 .. MaxTimeouts)
    BY DEF Types, PageTypes
  <2>3. asked' \in Seq(0 .. MaxTimeouts) /\ Head(asked) \in 0 .. MaxTimeouts
    BY <2>1, <2>2, HeadTailProperties
  <2>4. Snapshot(Head(asked), live) \in Snapshots
    BY <2>3, EventsMade DEF Types, BridgeTypes
  <2> QED
    BY <2>1, <2>3, <2>4 DEF Types, PageTypes, countVars, historyVars
<1>8. CASE AnswerQueued
  BY <1>8 DEF AnswerQueued, replyVars, pageVars, countVars, historyVars, Types, PageTypes
<1>9. CASE GiveUp
  <2>1. /\ waiting' = FALSE /\ reply' = Failed /\ timeouts' = timeouts + 1
        /\ timeouts < MaxTimeouts
        /\ UNCHANGED <<asked, answer, pageVars, plain, lifecycle, crashes, historyVars>>
    BY <1>9 DEF GiveUp
  <2>2. timeouts' \in 0 .. MaxTimeouts
    BY <2>1, LimitsAssumption DEF Types, PageTypes
  <2>3. reply' \in [kind : {"none", "failed", "replied"}, streams : SUBSET Streams]
    BY <2>1 DEF Failed
  <2> QED
    BY <2>1, <2>2, <2>3 DEF Types, PageTypes, pageVars, historyVars
<1>10. CASE PageReply
  <2>1. /\ reply' = NoReply
        /\ \/ UNCHANGED <<asked, waiting>>
           \/ asked' = Append(asked, timeouts) /\ waiting' = TRUE
        /\ \/ UNCHANGED <<shown, seen>>
           \/ /\ shown' = reply.streams
              /\ seen' = [k \in Streams |->
                   IF k \in reply.streams /\ seen[k] = 0 THEN 1 ELSE seen[k]]
        /\ UNCHANGED <<answer, inbox, running, countVars, historyVars>>
    BY <1>10 DEF PageReply, Ask
  <2>2. recon' = Idle \/ (/\ recon' = [recon EXCEPT !.attempt = @ + 1, !.raced = FALSE]
                          /\ recon.attempt < ATTEMPTS)
    BY <1>10 DEF PageReply, Ask
  <2>3. recon' \in [on : BOOLEAN, attempt : 0 .. ATTEMPTS, raced : BOOLEAN]
    <3>1. 0 \in 0 .. ATTEMPTS /\ ATTEMPTS \in Nat
      BY LimitsAssumption
    <3>2. CASE recon' = Idle
      BY <3>1, <3>2 DEF Idle
    <3>3. CASE recon' # Idle
      <4>1. recon' = [recon EXCEPT !.attempt = @ + 1, !.raced = FALSE] /\ recon.attempt < ATTEMPTS
        BY <2>2, <3>3
      <4>2. recon.attempt + 1 \in 0 .. ATTEMPTS
        BY <3>1, <4>1 DEF Types, PageTypes
      <4> QED
        BY <4>1, <4>2 DEF Types, PageTypes
    <3> QED
      BY <3>2, <3>3
  <2>4. reply' \in [kind : {"none", "failed", "replied"}, streams : SUBSET Streams]
    BY <2>1 DEF NoReply
  <2>5. asked' \in Seq(0 .. MaxTimeouts)
    <3>1. asked \in Seq(0 .. MaxTimeouts) /\ timeouts \in 0 .. MaxTimeouts
      BY DEF Types, PageTypes
    <3>2. Append(asked, timeouts) \in Seq(0 .. MaxTimeouts)
      BY <3>1, AppendProperties
    <3> QED
      BY <2>1, <3>1, <3>2
  <2>8. waiting' \in BOOLEAN
    BY <2>1 DEF Types, PageTypes
  <2>6. shown' \subseteq Streams
    BY <2>1 DEF Types, PageTypes
  <2>7. seen' \in [Streams -> 0 .. 2]
    BY <2>1 DEF Types, PageTypes
  <2> QED
    BY <2>1, <2>3, <2>4, <2>5, <2>6, <2>7, <2>8 DEF Types, PageTypes, countVars,
       historyVars
<1>11. CASE PageEvent
  <2>1. PICK e : e = Head(inbox)
    OBVIOUS
  <2>2. inbox # << >> /\ inbox' = Tail(inbox) /\ recon' = [recon EXCEPT !.raced = recon.on]
        /\ UNCHANGED <<replyVars, countVars, historyVars>>
    BY <1>11 DEF PageEvent
  <2>3. e \in Events /\ inbox' \in Seq(Events)
    BY <2>1, <2>2, SumTail DEF Types, PageTypes
  <2>4. e.type \in {"opened", "closed"} => e.stream \in Streams
    BY <2>3, EventFields
  <2>6. StreamSeq(e) \in 0 .. 2
    BY DEF StreamSeq
  <2>7. /\ \/ shown' = {}
           \/ shown' = shown \union {e.stream} /\ e.type = "opened"
           \/ shown' = shown \ {e.stream}
           \/ shown' = shown
        /\ \/ seen' = [k \in Streams |-> 0]
           \/ seen' = [seen EXCEPT ![e.stream] = StreamSeq(e)] /\ e.type \in {"opened", "closed"}
           \/ seen' = seen
        /\ running' = FALSE \/ running' = TRUE \/ running' = running
    BY <1>11, <2>1, PageEventCases DEF IsNew
  <2>8. shown' \subseteq Streams
    BY <2>4, <2>7 DEF Types, PageTypes
  <2>9. seen' \in [Streams -> 0 .. 2]
    BY <2>4, <2>6, <2>7 DEF Types, PageTypes
  <2>10. recon' \in [on : BOOLEAN, attempt : 0 .. ATTEMPTS, raced : BOOLEAN]
    BY <2>2 DEF Types, PageTypes
  <2> QED
    BY <2>2, <2>3, <2>7, <2>8, <2>9, <2>10 DEF Types, PageTypes, replyVars, countVars,
       historyVars
<1>12. CASE Crash
  <2>1. /\ reply' = Failed \/ reply' = reply
        /\ inbox' = inbox \/ inbox' = inbox \o <<Down, Up>>
        /\ asked' = << >> /\ answer' = << >> /\ waiting' = FALSE
        /\ heard' = {} /\ settled' = {} /\ crashes' = crashes + 1
        /\ UNCHANGED <<running, shown, seen, recon, plain, lifecycle, timeouts>>
    BY <1>12 DEF Crash
  <2>2. inbox' \in Seq(Events)
    <3>1. Down \in Events /\ Up \in Events
      BY EventsMade
    <3>2. <<Down, Up>> \in Seq(Events) /\ inbox \in Seq(Events)
      BY <3>1 DEF Types, PageTypes
    <3> QED
      BY <2>1, <3>2, ConcatProperties
  <2>3. reply' \in [kind : {"none", "failed", "replied"}, streams : SUBSET Streams]
    BY <2>1 DEF Failed, Types, PageTypes
  <2>4. /\ waiting' \in BOOLEAN /\ heard' \subseteq Streams /\ settled' \subseteq Streams
    BY <2>1
  <2>5. asked' \in Seq(0 .. MaxTimeouts)
    BY <2>1
  <2>6. crashes' \in Nat
    BY <2>1 DEF Types, PageTypes
  <2> QED
    BY <2>1, <2>2, <2>3, <2>4, <2>5, <2>6 DEF Types, PageTypes
<1>13. CASE UNCHANGED vars
  BY <1>13 DEF vars, replyVars, pageVars, countVars, historyVars, Types, PageTypes
<1> QED
  BY <1>1, <1>2, <1>3, <1>4, <1>5, <1>6, <1>7, <1>8, <1>9, <1>10, <1>11, <1>12, <1>13
     DEF Next

-----------------------------------------------------------------------------
(***************************************************************************)
(* The capacity of the queue.                                              *)
(***************************************************************************)
Capacity(q, h, b) ==
  /\ Len(q) + Cardinality(h) + Cardinality(Buckets(b)) <= QUEUE
  /\ Cardinality(Ordinary(q)) + Cardinality(h) + Cardinality(Buckets(b)) <= AUDIT

SlotTypes(q, h, b) == q \in Seq(Events) /\ h \subseteq Streams /\ b \in [Streams -> Nat]

\* What the capacity adds up are numbers.
LEMMA CapacityNumbers ==
  ASSUME NEW q, NEW h, NEW b, SlotTypes(q, h, b)
  PROVE  /\ Len(q) \in Nat /\ Cardinality(Ordinary(q)) \in Nat
         /\ IsFiniteSet(h) /\ Cardinality(h) \in Nat
         /\ IsFiniteSet(Buckets(b)) /\ Cardinality(Buckets(b)) \in Nat
         /\ QUEUE \in Nat /\ AUDIT \in Nat
<1>1. Len(q) \in Nat /\ q \in Seq(Events)
  BY DEF SlotTypes
<1>2. Cardinality(Ordinary(q)) \in Nat
  BY <1>1, EventsMade, OrdinaryAppend
<1>3. IsFiniteSet(Streams)
  BY LimitsAssumption
<1>4. h \in SUBSET Streams /\ Buckets(b) \in SUBSET Streams
  BY DEF SlotTypes, Buckets
<1>5. IsFiniteSet(h) /\ IsFiniteSet(Buckets(b))
  BY <1>3, <1>4, FS_Subset
<1>6. QUEUE \in Nat /\ AUDIT \in Nat
  BY LimitsAssumption
<1> QED
  BY <1>1, <1>2, <1>5, <1>6, FS_CardinalityType

\* An event that finds a place.
LEMMA CapacityEmit ==
  ASSUME NEW q, NEW h, NEW b, SlotTypes(q, h, b), Capacity(q, h, b),
         NEW e \in Events, CanEmit(q, h, b, e)
  PROVE  Capacity(Append(q, e), h, b)
<1>1. q \in Seq(Events)
  BY DEF SlotTypes
<1>2. /\ Len(q) \in Nat /\ Cardinality(Ordinary(q)) \in Nat /\ Cardinality(h) \in Nat
      /\ Cardinality(Buckets(b)) \in Nat /\ QUEUE \in Nat /\ AUDIT \in Nat
  BY CapacityNumbers
<1>3. Len(Append(q, e)) = Len(q) + 1
  BY <1>1
<1>4. Cardinality(Ordinary(Append(q, e))) =
        Cardinality(Ordinary(q)) + (IF IsOrdinary(e) THEN 1 ELSE 0)
  BY <1>1, OrdinaryAppend
<1>5. Len(q) + Cardinality(h) + Cardinality(Buckets(b)) < QUEUE
  BY DEF CanEmit, Room
<1>6. IsOrdinary(e) => Cardinality(Ordinary(q)) + Cardinality(h) + Cardinality(Buckets(b)) < AUDIT
  BY DEF CanEmit, AuditRoom
<1>7. Cardinality(Ordinary(q)) + Cardinality(h) + Cardinality(Buckets(b)) <= AUDIT
  BY DEF Capacity
<1>8. CASE IsOrdinary(e)
  BY <1>2, <1>3, <1>4, <1>5, <1>6, <1>8 DEF Capacity
<1>9. CASE ~IsOrdinary(e)
  BY <1>2, <1>3, <1>4, <1>5, <1>7, <1>9 DEF Capacity
<1> QED
  BY <1>8, <1>9

\* A reservation, its end, and its use.
LEMMA CapacityReserve ==
  ASSUME NEW q, NEW h, NEW b, SlotTypes(q, h, b), NEW k \in Streams, k \notin h,
         Room(q, h, b), AuditRoom(q, h, b)
  PROVE  Capacity(q, h \union {k}, b)
<1>1. /\ Len(q) \in Nat /\ Cardinality(Ordinary(q)) \in Nat /\ Cardinality(h) \in Nat
      /\ Cardinality(Buckets(b)) \in Nat /\ QUEUE \in Nat /\ AUDIT \in Nat
      /\ IsFiniteSet(h)
  BY CapacityNumbers
<1>2. Cardinality(h \union {k}) = Cardinality(h) + 1
  BY <1>1, FS_AddElement
<1> QED
  BY <1>1, <1>2 DEF Room, AuditRoom, Capacity

\* A reservation that is dropped.
LEMMA CapacityReturn ==
  ASSUME NEW q, NEW h, NEW b, SlotTypes(q, h, b), NEW k, Capacity(q, h, b)
  PROVE  Capacity(q, h \ {k}, b)
<1>1. /\ Len(q) \in Nat /\ Cardinality(Ordinary(q)) \in Nat /\ Cardinality(h) \in Nat
      /\ Cardinality(Buckets(b)) \in Nat /\ QUEUE \in Nat /\ AUDIT \in Nat
      /\ IsFiniteSet(h)
  BY CapacityNumbers
<1>2. Cardinality(h \ {k}) = IF k \in h THEN Cardinality(h) - 1 ELSE Cardinality(h)
  BY <1>1, FS_RemoveElement
<1> QED
  BY <1>1, <1>2 DEF Capacity

\* A reservation that its event takes.
LEMMA CapacityUse ==
  ASSUME NEW q, NEW h, NEW b, SlotTypes(q, h, b), NEW k \in h, Capacity(q, h, b),
         NEW e \in Events
  PROVE  Capacity(Append(q, e), h \ {k}, b)
<1>1. /\ Len(q) \in Nat /\ Cardinality(Ordinary(q)) \in Nat /\ Cardinality(h) \in Nat
      /\ Cardinality(Buckets(b)) \in Nat /\ QUEUE \in Nat /\ AUDIT \in Nat
      /\ IsFiniteSet(h)
  BY CapacityNumbers
<1>2. Cardinality(h \ {k}) = Cardinality(h) - 1
  BY <1>1, FS_RemoveElement
<1>3. q \in Seq(Events)
  BY DEF SlotTypes
<1>4. Len(Append(q, e)) = Len(q) + 1
  BY <1>3
<1>5. Cardinality(Ordinary(Append(q, e))) =
        Cardinality(Ordinary(q)) + (IF IsOrdinary(e) THEN 1 ELSE 0)
  BY <1>3, OrdinaryAppend
<1>6. Cardinality(Ordinary(Append(q, e))) \in Nat
      /\ Cardinality(Ordinary(Append(q, e))) <= Cardinality(Ordinary(q)) + 1
  BY <1>1, <1>5
<1> QED
  BY <1>1, <1>2, <1>4, <1>6 DEF Capacity

\* The same for the reservation of a bucket.
LEMMA CapacityBucketNew ==
  ASSUME NEW q, NEW h, NEW b, SlotTypes(q, h, b), NEW k \in Streams, b[k] = 0,
         Room(q, h, b), AuditRoom(q, h, b), NEW n \in Nat
  PROVE  Capacity(q, h, [b EXCEPT ![k] = n])
<1>1. /\ Len(q) \in Nat /\ Cardinality(Ordinary(q)) \in Nat /\ Cardinality(h) \in Nat
      /\ Cardinality(Buckets(b)) \in Nat /\ QUEUE \in Nat /\ AUDIT \in Nat
      /\ IsFiniteSet(Buckets(b))
  BY CapacityNumbers
<1>2. PICK c : c = [b EXCEPT ![k] = n]
  OBVIOUS
<1>3. Buckets(c) = Buckets(b) \/ Buckets(c) = Buckets(b) \union {k}
  BY <1>2 DEF Buckets, SlotTypes
<1>4. k \notin Buckets(b)
  BY DEF Buckets
<1>5. Cardinality(Buckets(b) \union {k}) = Cardinality(Buckets(b)) + 1
  BY <1>1, <1>4, FS_AddElement
<1>6. Cardinality(Buckets(c)) \in Nat /\ Cardinality(Buckets(c)) <= Cardinality(Buckets(b)) + 1
  <2>1. CASE Buckets(c) = Buckets(b)
    BY <1>1, <2>1
  <2>2. CASE Buckets(c) = Buckets(b) \union {k}
    BY <1>1, <1>5, <2>2
  <2> QED
    BY <1>3, <2>1, <2>2
<1>7. Capacity(q, h, c)
  BY <1>1, <1>6 DEF Room, AuditRoom, Capacity
<1> QED
  BY <1>2, <1>7

\* A bucket that holds its reservation already.
LEMMA CapacityBucketMore ==
  ASSUME NEW q, NEW h, NEW b, SlotTypes(q, h, b), NEW k \in Streams, b[k] # 0,
         Capacity(q, h, b), NEW n \in Nat
  PROVE  Capacity(q, h, [b EXCEPT ![k] = n])
<1>1. /\ Len(q) \in Nat /\ Cardinality(Ordinary(q)) \in Nat /\ Cardinality(h) \in Nat
      /\ Cardinality(Buckets(b)) \in Nat /\ QUEUE \in Nat /\ AUDIT \in Nat
      /\ IsFiniteSet(Buckets(b))
  BY CapacityNumbers
<1>2. PICK c : c = [b EXCEPT ![k] = n]
  OBVIOUS
<1>3. Buckets(c) \in SUBSET Buckets(b)
  BY <1>2 DEF Buckets, SlotTypes
<1>4. IsFiniteSet(Buckets(c)) /\ Cardinality(Buckets(c)) <= Cardinality(Buckets(b))
  BY <1>1, <1>3, FS_Subset
<1>5. Cardinality(Buckets(c)) \in Nat
  BY <1>4, FS_CardinalityType
<1>7. Capacity(q, h, c)
  BY <1>1, <1>4, <1>5 DEF Capacity
<1> QED
  BY <1>2, <1>7

\* A bucket that is told.
LEMMA CapacityBucketUse ==
  ASSUME NEW q, NEW h, NEW b, SlotTypes(q, h, b), NEW k \in Streams, b[k] # 0,
         Capacity(q, h, b), NEW e \in Events
  PROVE  Capacity(Append(q, e), h, [b EXCEPT ![k] = 0])
<1>1. /\ Len(q) \in Nat /\ Cardinality(Ordinary(q)) \in Nat /\ Cardinality(h) \in Nat
      /\ Cardinality(Buckets(b)) \in Nat /\ QUEUE \in Nat /\ AUDIT \in Nat
      /\ IsFiniteSet(Buckets(b))
  BY CapacityNumbers
<1>2. PICK c : c = [b EXCEPT ![k] = 0]
  OBVIOUS
<1>3. Buckets(c) = Buckets(b) \ {k} /\ k \in Buckets(b)
  BY <1>2 DEF Buckets, SlotTypes
<1>4. Cardinality(Buckets(c)) = Cardinality(Buckets(b)) - 1
  <2>1. PICK B : B = Buckets(b)
    OBVIOUS
  <2>2. IsFiniteSet(B) /\ k \in B
    BY <1>1, <1>3, <2>1
  <2>3. Cardinality(B \ {k}) = Cardinality(B) - 1
    BY <2>2, FS_RemoveElement
  <2> QED
    BY <1>3, <2>1, <2>3
<1>5. q \in Seq(Events)
  BY DEF SlotTypes
<1>6. Len(Append(q, e)) = Len(q) + 1
  BY <1>5
<1>7. Cardinality(Ordinary(Append(q, e))) =
        Cardinality(Ordinary(q)) + (IF IsOrdinary(e) THEN 1 ELSE 0)
  BY <1>5, OrdinaryAppend
<1>8. Cardinality(Ordinary(Append(q, e))) \in Nat
      /\ Cardinality(Ordinary(Append(q, e))) <= Cardinality(Ordinary(q)) + 1
  BY <1>1, <1>7
<1>9. Capacity(Append(q, e), h, c)
  BY <1>1, <1>4, <1>6, <1>8 DEF Capacity
<1> QED
  BY <1>2, <1>9

\* A list of tightening events that finds places.
LEMMA CapacityConcat ==
  ASSUME NEW q, NEW h, NEW b, SlotTypes(q, h, b), Capacity(q, h, b),
         NEW out \in Seq(Events), \A i \in DOMAIN out : ~IsOrdinary(out[i]),
         out = << >> \/ Len(q) + Len(out) + Cardinality(h) + Cardinality(Buckets(b)) <= QUEUE
  PROVE  Capacity(q \o out, h, b)
<1>1. /\ Len(q) \in Nat /\ Cardinality(h) \in Nat
      /\ Cardinality(Buckets(b)) \in Nat /\ QUEUE \in Nat
  BY CapacityNumbers
<1>2. q \in Seq(Events) /\ Len(out) \in Nat
  BY DEF SlotTypes
<1>3. Ordinary(q \o out) = Ordinary(q)
  BY <1>2, OrdinaryConcat
<1>4. Len(q \o out) = Len(q) + Len(out)
  BY <1>2, ConcatProperties
<1>5. Len(q \o out) + Cardinality(h) + Cardinality(Buckets(b)) <= QUEUE
  <2>1. CASE out = << >>
    <3>1. Len(out) = 0
      BY <2>1
    <3> QED
      BY <1>1, <1>4, <3>1 DEF Capacity
  <2>2. CASE out # << >>
    BY <1>1, <1>2, <1>4, <2>2
  <2> QED
    BY <2>1, <2>2
<1> QED
  BY <1>3, <1>5 DEF Capacity

\* A delivery.
LEMMA CapacityTail ==
  ASSUME NEW q, NEW h, NEW b, SlotTypes(q, h, b), Capacity(q, h, b), q # << >>
  PROVE  Capacity(Tail(q), h, b)
<1>1. /\ Len(q) \in Nat /\ Cardinality(Ordinary(q)) \in Nat /\ Cardinality(h) \in Nat
      /\ Cardinality(Buckets(b)) \in Nat /\ QUEUE \in Nat /\ AUDIT \in Nat
  BY CapacityNumbers
<1>2. q \in Seq(Events)
  BY DEF SlotTypes
<1>3. Len(Tail(q)) = Len(q) - 1
  BY <1>2
<1>4. Cardinality(Ordinary(Tail(q))) \in Nat
      /\ Cardinality(Ordinary(Tail(q))) <= Cardinality(Ordinary(q))
  BY <1>2, OrdinaryTail
<1> QED
  BY <1>1, <1>3, <1>4 DEF Capacity

\* Every action keeps within the capacity.
LEMMA CapacityKept ==
  ASSUME Types, StageInv, WithinCapacity, [Next]_vars
  PROVE  WithinCapacity'
<1>1. ASSUME NEW k \in Streams, StreamNext(k)
      PROVE  WithinCapacity'
  <2>1. CASE OpenJob(k)
    <3>0. SlotTypes(queue, holds, bucket) /\ Capacity(queue, holds, bucket)
      BY DEF Types, QueueTypes, BridgeTypes, InputTypes, SlotTypes, WithinCapacity,
         Capacity
    <3>1. /\ k \notin holds /\ Room(queue, holds, bucket) /\ AuditRoom(queue, holds, bucket)
          /\ CanEmit(queue, holds \union {k}, bucket, Plain)
          /\ holds' = holds \union {k} /\ queue' = Append(queue, Plain) /\ bucket' = bucket
      BY <2>1 DEF OpenJob, CanReserve, inputVars, StageInv
    <3>2. PICK h : h = holds \union {k}
      OBVIOUS
    <3>3. Capacity(queue, h, bucket)
      BY <3>0, <3>1, <3>2, CapacityReserve
    <3>4. SlotTypes(queue, h, bucket) /\ Plain \in Events
      BY <3>0, <3>2, EventsMade DEF SlotTypes
    <3>5. Capacity(Append(queue, Plain), h, bucket)
      BY <3>1, <3>2, <3>3, <3>4, CapacityEmit
    <3> QED
      BY <3>1, <3>2, <3>5 DEF WithinCapacity, Capacity
  <2>2. CASE OpenRefused(k)
    <3>0. SlotTypes(queue, holds, bucket) /\ Capacity(queue, holds, bucket)
      BY DEF Types, QueueTypes, BridgeTypes, InputTypes, SlotTypes, WithinCapacity,
         Capacity
    <3>1. PICK h : h = holds
      OBVIOUS
    <3>2. /\ holds' = h /\ bucket' = bucket
          /\ queue' = queue \/ (queue' = Append(queue, Plain) /\ CanEmit(queue, h, bucket, Plain))
      BY <2>2, <3>1 DEF OpenRefused, BestEffort, inputVars, bridgeVars
    <3>3. SlotTypes(queue, h, bucket) /\ Capacity(queue, h, bucket) /\ Plain \in Events
      BY <3>0, <3>1, CapacityReturn, EventsMade DEF SlotTypes
    <3>4. Capacity(queue', h, bucket)
      BY <3>2, <3>3, CapacityEmit
    <3> QED
      BY <3>2, <3>4 DEF WithinCapacity, Capacity
  <2>3. CASE HostRefuses(k)
    <3>0. SlotTypes(queue, holds, bucket) /\ Capacity(queue, holds, bucket)
      BY DEF Types, QueueTypes, BridgeTypes, InputTypes, SlotTypes, WithinCapacity,
         Capacity
    <3>1. PICK h : h = holds \ {k}
      OBVIOUS
    <3>2. /\ holds' = h /\ bucket' = bucket
          /\ queue' = queue \/ (queue' = Append(queue, Plain) /\ CanEmit(queue, h, bucket, Plain))
      BY <2>3, <3>1 DEF HostRefuses, BestEffort, inputVars, bridgeVars
    <3>3. SlotTypes(queue, h, bucket) /\ Capacity(queue, h, bucket) /\ Plain \in Events
      BY <3>0, <3>1, CapacityReturn, EventsMade DEF SlotTypes
    <3>4. Capacity(queue', h, bucket)
      BY <3>2, <3>3, CapacityEmit
    <3> QED
      BY <3>2, <3>4 DEF WithinCapacity, Capacity
  <2>4. CASE AnnounceLive(k)
    BY <2>4 DEF AnnounceLive, bridgeVars, inputVars, queueVars, WithinCapacity
  <2>5. CASE AnnounceEmit(k)
    <3>0. SlotTypes(queue, holds, bucket) /\ Capacity(queue, holds, bucket)
      BY DEF Types, QueueTypes, BridgeTypes, InputTypes, SlotTypes, WithinCapacity,
         Capacity
    <3>1. /\ k \in holds /\ holds' = holds \ {k} /\ queue' = Append(queue, Opened(k)) /\ bucket' = bucket
      BY <2>5 DEF AnnounceEmit, inputVars, StageInv
    <3>2. Capacity(Append(queue, Opened(k)), holds \ {k}, bucket)
      BY <3>0, <3>1, CapacityUse, EventsMade
    <3> QED
      BY <3>1, <3>2 DEF WithinCapacity, Capacity
  <2>6. CASE OpenJobEnds(k)
    <3>0. SlotTypes(queue, holds, bucket) /\ Capacity(queue, holds, bucket)
      BY DEF Types, QueueTypes, BridgeTypes, InputTypes, SlotTypes, WithinCapacity,
         Capacity
    <3>1. holds' = holds \ {k} /\ queue' = queue /\ bucket' = bucket
      BY <2>6 DEF OpenJobEnds, inputVars, queueVars
    <3>2. Capacity(queue, holds \ {k}, bucket)
      BY <3>0, CapacityReturn
    <3> QED
      BY <3>1, <3>2 DEF WithinCapacity, Capacity
  <2>7. CASE Close(k)
    BY <2>7 DEF Close, bridgeVars, inputVars, queueVars, WithinCapacity
  <2>8. CASE Drop(k)
    <3>0. SlotTypes(queue, holds, bucket) /\ Capacity(queue, holds, bucket)
      BY DEF Types, QueueTypes, BridgeTypes, InputTypes, SlotTypes, WithinCapacity,
         Capacity
    <3>1. /\ holds' = holds
          /\ \/ bucket' = bucket /\ queue' = queue
             \/ /\ bucket[k] # 0 /\ bucket' = [bucket EXCEPT ![k] = 0]
                /\ queue' = Append(queue, Input(k))
      BY <2>8 DEF Drop
    <3>2. Input(k) \in Events
      BY EventsMade
    <3>3. bucket[k] # 0 => Capacity(Append(queue, Input(k)), holds, [bucket EXCEPT ![k] = 0])
      BY <3>0, <3>2, CapacityBucketUse
    <3>4. Capacity(queue', holds, bucket')
      BY <3>0, <3>1, <3>3
    <3> QED
      BY <3>1, <3>4 DEF WithinCapacity, Capacity
  <2>9. CASE Tightened(k)
    <3>0. SlotTypes(queue, holds, bucket) /\ Capacity(queue, holds, bucket)
      BY DEF Types, QueueTypes, BridgeTypes, InputTypes, SlotTypes, WithinCapacity,
         Capacity
    <3>1. PICK out, rest :
            /\ TightSplit(k, out, rest) /\ queue' = queue \o out
            /\ out = << >> \/ Len(queue) + Len(out) + Cardinality(holds)
                               + Cardinality(Buckets(bucket)) <= QUEUE
      BY <2>9, TightenedEffect
    <3>2. out \in Seq(Events) /\ \A i \in DOMAIN out : ~IsOrdinary(out[i])
      BY <3>1, TightSplitParts
    <3>3. Capacity(queue \o out, holds, bucket)
      BY <3>0, <3>1, <3>2, CapacityConcat
    <3>4. holds' = holds /\ bucket' = bucket
      BY <2>9 DEF Tightened, inputVars
    <3> QED
      BY <3>1, <3>3, <3>4 DEF WithinCapacity, Capacity
  <2>10. CASE InputChecks(k)
    BY <2>10 DEF InputChecks, bridgeVars, inputVars, queueVars, WithinCapacity
  <2>11. CASE InputAudits(k)
    <3>0. SlotTypes(queue, holds, bucket) /\ Capacity(queue, holds, bucket)
      BY DEF Types, QueueTypes, BridgeTypes, InputTypes, SlotTypes, WithinCapacity,
         Capacity
    <3>1. holds' = holds
      BY <2>11 DEF InputAudits, bridgeVars
    <3>2. \/ /\ bucket[k] # 0 /\ bucket' = [bucket EXCEPT ![k] = bucket[k] + 1] /\ queue' = queue
          \/ /\ bucket[k] = 0 /\ Room(queue, holds, bucket) /\ AuditRoom(queue, holds, bucket)
             /\ bucket' = [bucket EXCEPT ![k] = bucket[k] + 1] /\ queue' = queue
          \/ /\ bucket[k] = 0 /\ bucket' = [bucket EXCEPT ![k] = 0]
             /\ queue' = queue \/ (/\ queue' = Append(queue, Input(k))
                                   /\ CanEmit(queue, holds, bucket, Input(k)))
      BY <2>11 DEF InputAudits, CanReserve
    <3>3. bucket[k] + 1 \in Nat /\ Input(k) \in Events
      BY EventsMade DEF Types, InputTypes
    <3>4. Capacity(queue', holds, bucket')
      <4>1. CASE bucket[k] # 0
        BY <3>0, <3>2, <3>3, <4>1, CapacityBucketMore
      <4>2. CASE bucket[k] = 0 /\ bucket' = [bucket EXCEPT ![k] = bucket[k] + 1]
                               /\ queue' = queue
                               /\ Room(queue, holds, bucket) /\ AuditRoom(queue, holds, bucket)
        BY <3>0, <3>3, <4>2, CapacityBucketNew
      <4>3. CASE /\ bucket[k] = 0 /\ bucket' = [bucket EXCEPT ![k] = 0]
                 /\ queue' = queue \/ (/\ queue' = Append(queue, Input(k))
                                       /\ CanEmit(queue, holds, bucket, Input(k)))
        <5>1. bucket' = bucket
          BY <4>3 DEF Types, InputTypes
        <5>2. CanEmit(queue, holds, bucket, Input(k)) => Capacity(Append(queue, Input(k)), holds, bucket)
          BY <3>0, <3>3, CapacityEmit
        <5> QED
          BY <3>0, <4>3, <5>1, <5>2
      <4> QED
        BY <3>2, <4>1, <4>2, <4>3
    <3> QED
      BY <3>1, <3>4 DEF WithinCapacity, Capacity
  <2>12. CASE InputStarts(k)
    <3>0. SlotTypes(queue, holds, bucket) /\ Capacity(queue, holds, bucket)
      BY DEF Types, QueueTypes, BridgeTypes, InputTypes, SlotTypes, WithinCapacity,
         Capacity
    <3>1. /\ holds' = holds /\ queue' = queue
          /\ bucket' = bucket \/ bucket' = [bucket EXCEPT ![k] = 0]
      <4>1. bucket' = [bucket EXCEPT ![k] = bucket[k]] \/ bucket' = [bucket EXCEPT ![k] = 0]
        BY <2>12 DEF InputStarts
      <4> QED
        BY <2>12, <4>1 DEF InputStarts, bridgeVars, queueVars, Types, InputTypes
    <3>2. bucket[k] = 0 => [bucket EXCEPT ![k] = 0] = bucket
      BY DEF Types, InputTypes
    <3>3. bucket[k] # 0 => Capacity(queue, holds, [bucket EXCEPT ![k] = 0])
      BY <3>0, CapacityBucketMore
    <3>4. Capacity(queue, holds, bucket')
      BY <3>0, <3>1, <3>2, <3>3
    <3> QED
      BY <3>1, <3>4 DEF WithinCapacity, Capacity
  <2>13. CASE BucketDue(k)
    <3>0. SlotTypes(queue, holds, bucket) /\ Capacity(queue, holds, bucket)
      BY DEF Types, QueueTypes, BridgeTypes, InputTypes, SlotTypes, WithinCapacity,
         Capacity
    <3>1. /\ holds' = holds /\ bucket[k] # 0 /\ bucket' = [bucket EXCEPT ![k] = 0]
          /\ queue' = Append(queue, Input(k))
      BY <2>13 DEF BucketDue, bridgeVars
    <3>2. Input(k) \in Events
      BY EventsMade
    <3>3. bucket[k] # 0 => Capacity(Append(queue, Input(k)), holds, [bucket EXCEPT ![k] = 0])
      BY <3>0, <3>2, CapacityBucketUse
    <3>4. Capacity(queue', holds, bucket')
      BY <3>0, <3>1, <3>3
    <3> QED
      BY <3>1, <3>4 DEF WithinCapacity, Capacity
  <2>14. CASE OpenStarts(k)
    BY <2>14 DEF OpenStarts, bridgeVars, inputVars, queueVars, WithinCapacity
  <2>15. CASE OpenFailed(k)
    <3>0. SlotTypes(queue, holds, bucket) /\ Capacity(queue, holds, bucket)
      BY DEF Types, QueueTypes, BridgeTypes, InputTypes, SlotTypes, WithinCapacity,
         Capacity
    <3>1. PICK h : h = holds
      OBVIOUS
    <3>2. /\ holds' = h /\ bucket' = bucket
          /\ queue' = queue \/ (queue' = Append(queue, Plain) /\ CanEmit(queue, h, bucket, Plain))
      BY <2>15, <3>1 DEF OpenFailed, BestEffort, inputVars, bridgeVars
    <3>3. SlotTypes(queue, h, bucket) /\ Capacity(queue, h, bucket) /\ Plain \in Events
      BY <3>0, <3>1, CapacityReturn, EventsMade DEF SlotTypes
    <3>4. Capacity(queue', h, bucket)
      BY <3>2, <3>3, CapacityEmit
    <3> QED
      BY <3>2, <3>4 DEF WithinCapacity, Capacity
  <2> QED
    BY <1>1, <2>1, <2>2, <2>3, <2>4, <2>5, <2>6, <2>7, <2>8, <2>9, <2>10, <2>11, <2>12,
       <2>13, <2>14, <2>15 DEF StreamNext
<1>2. CASE Flush
  <2>0. SlotTypes(queue, holds, bucket) /\ Capacity(queue, holds, bucket)
    BY DEF Types, QueueTypes, BridgeTypes, InputTypes, SlotTypes, WithinCapacity, Capacity
  <2>1. PICK n, out : FlushTells(n, out) /\ FlushReports(queue \o out)
    BY <1>2, FlushEffect
  <2>2. out \in Seq(Events) /\ \A i \in DOMAIN out : ~IsOrdinary(out[i])
    BY <2>1 DEF FlushTells
  <2>3. out = << >> \/ Len(queue) + Len(out) + Cardinality(holds)
                        + Cardinality(Buckets(bucket)) <= QUEUE
    BY <2>1 DEF FlushTells
  <2>4. PICK q : q = queue \o out
    OBVIOUS
  <2>5. Capacity(q, holds, bucket)
    BY <2>0, <2>2, <2>3, <2>4, CapacityConcat
  <2>6. SlotTypes(q, holds, bucket)
    <3>1. queue \in Seq(Events)
      BY <2>0 DEF SlotTypes
    <3>2. q \in Seq(Events)
      BY <2>2, <2>4, <3>1, ConcatProperties
    <3> QED
      BY <2>0, <3>2 DEF SlotTypes
  <2>7. Dropped(record) \in Events
    BY EventsMade DEF Types, QueueTypes
  <2>8. queue' = q \/ (queue' = Append(q, Dropped(record)) /\ CanEmit(q, holds, bucket, Dropped(record)))
    BY <2>1, <2>4 DEF FlushReports
  <2>9. CanEmit(q, holds, bucket, Dropped(record)) => Capacity(Append(q, Dropped(record)), holds, bucket)
    BY <2>5, <2>6, <2>7, CapacityEmit
  <2>10. holds' = holds /\ bucket' = bucket
    BY <1>2 DEF Flush, bridgeVars, inputVars
  <2> QED
    BY <2>5, <2>8, <2>9, <2>10 DEF WithinCapacity, Capacity
<1>3. CASE PlainAudit
  <2>0. SlotTypes(queue, holds, bucket) /\ Capacity(queue, holds, bucket)
    BY DEF Types, QueueTypes, BridgeTypes, InputTypes, SlotTypes, WithinCapacity, Capacity
  <2>1. PICK h : h = holds
    OBVIOUS
  <2>2. /\ holds' = h /\ bucket' = bucket
        /\ queue' = queue \/ (queue' = Append(queue, Plain) /\ CanEmit(queue, h, bucket, Plain))
    BY <1>3, <2>1 DEF PlainAudit, BestEffort, inputVars, bridgeVars
  <2>3. SlotTypes(queue, h, bucket) /\ Capacity(queue, h, bucket) /\ Plain \in Events
    BY <2>0, <2>1, CapacityReturn, EventsMade DEF SlotTypes
  <2>4. Capacity(queue', h, bucket)
    BY <2>2, <2>3, CapacityEmit
  <2> QED
    BY <2>2, <2>4 DEF WithinCapacity, Capacity
<1>4. CASE OtherEvent
  <2>0. SlotTypes(queue, holds, bucket) /\ Capacity(queue, holds, bucket)
    BY DEF Types, QueueTypes, BridgeTypes, InputTypes, SlotTypes, WithinCapacity, Capacity
  <2>1. /\ holds' = holds /\ bucket' = bucket /\ queue' = Append(queue, Lifecycle)
        /\ Room(queue, holds, bucket)
    BY <1>4 DEF OtherEvent, bridgeVars, inputVars
  <2>2. ~IsOrdinary(Lifecycle) /\ Lifecycle \in Events
    BY EventsMade DEF IsOrdinary, Lifecycle
  <2>3. CanEmit(queue, holds, bucket, Lifecycle)
    BY <2>1, <2>2 DEF CanEmit
  <2>4. Capacity(Append(queue, Lifecycle), holds, bucket)
    BY <2>0, <2>2, <2>3, CapacityEmit
  <2> QED
    BY <2>1, <2>4 DEF WithinCapacity, Capacity
<1>5. CASE Deliver
  <2>0. SlotTypes(queue, holds, bucket) /\ Capacity(queue, holds, bucket)
    BY DEF Types, QueueTypes, BridgeTypes, InputTypes, SlotTypes, WithinCapacity, Capacity
  <2>1. holds' = holds /\ bucket' = bucket /\ queue' = Tail(queue) /\ queue # << >>
    BY <1>5 DEF Deliver, bridgeVars, inputVars
  <2>2. Capacity(Tail(queue), holds, bucket)
    BY <2>0, <2>1, CapacityTail
  <2> QED
    BY <2>1, <2>2 DEF WithinCapacity, Capacity
<1>6. CASE Reconcile
  BY <1>6 DEF Reconcile, Ask, bridgeVars, inputVars, queueVars, WithinCapacity
<1>7. CASE Answer
  BY <1>7 DEF Answer, bridgeVars, inputVars, queueVars, WithinCapacity
<1>8. CASE AnswerQueued
  <2>0. SlotTypes(queue, holds, bucket) /\ Capacity(queue, holds, bucket)
    BY DEF Types, QueueTypes, BridgeTypes, InputTypes, SlotTypes, WithinCapacity, Capacity
  <2>1. /\ holds' = holds /\ bucket' = bucket /\ queue' = queue \o answer /\ answer # << >>
        /\ Room(queue, holds, bucket)
    BY <1>8 DEF AnswerQueued, bridgeVars, inputVars
  <2>2. PICK s \in Snapshots : answer = <<s>>
    BY <2>1 DEF Types, PageTypes
  <2>3. ~IsOrdinary(s) /\ s \in Events
    BY EventsMade DEF IsOrdinary, Snapshots
  <2>4. queue \in Seq(Events)
    BY <2>0 DEF SlotTypes
  <2>5. queue' = Append(queue, s)
    BY <2>1, <2>2, <2>3, <2>4, AppendIsConcat
  <2>6. CanEmit(queue, holds, bucket, s)
    BY <2>1, <2>3 DEF CanEmit
  <2>7. Capacity(Append(queue, s), holds, bucket)
    BY <2>0, <2>3, <2>6, CapacityEmit
  <2> QED
    BY <2>1, <2>5, <2>7 DEF WithinCapacity, Capacity
<1>9. CASE GiveUp
  BY <1>9 DEF GiveUp, bridgeVars, inputVars, queueVars, WithinCapacity
<1>10. CASE PageReply
  BY <1>10 DEF PageReply, Ask, bridgeVars, inputVars, queueVars, WithinCapacity
<1>11. CASE PageEvent
  BY <1>11 DEF PageEvent, bridgeVars, inputVars, queueVars, WithinCapacity
<1>12. CASE Crash
  <2>1. /\ queue' = << >> /\ holds' = {} /\ bucket' = [k \in Streams |-> 0]
    BY <1>12 DEF Crash
  <2>2. Ordinary(<< >>) = {} /\ Buckets([k \in Streams |-> 0]) = {} /\ Len(<< >>) = 0
    BY DEF Ordinary, Buckets
  <2>3. Cardinality({}) = 0 /\ QUEUE \in Nat /\ AUDIT \in Nat
    BY FS_EmptySet, LimitsAssumption
  <2>4. PICK q, h, b : q = << >> /\ h = {} /\ b = [k \in Streams |-> 0]
    OBVIOUS
  <2>5. Len(q) = 0 /\ Ordinary(q) = {} /\ h = {} /\ Buckets(b) = {}
    BY <2>2, <2>4
  <2>6. Capacity(q, h, b)
    <3>1. Cardinality(Ordinary(q)) = 0 /\ Cardinality(h) = 0 /\ Cardinality(Buckets(b)) = 0
      BY <2>3, <2>5
    <3>2. 0 + 0 + 0 <= QUEUE /\ 0 + 0 + 0 <= AUDIT
      BY <2>3
    <3> QED
      BY <2>5, <3>1, <3>2 DEF Capacity
  <2> QED
    BY <2>1, <2>4, <2>6 DEF WithinCapacity, Capacity
<1>13. CASE UNCHANGED vars
  BY <1>13 DEF vars, bridgeVars, inputVars, queueVars, WithinCapacity
<1> QED
  BY <1>1, <1>2, <1>3, <1>4, <1>5, <1>6, <1>7, <1>8, <1>9, <1>10, <1>11, <1>12, <1>13
     DEF Next

-----------------------------------------------------------------------------
(***************************************************************************)
(* What is owed to the desktop.                                            *)
(***************************************************************************)
\* The sums over a queue are numbers.
LEMMA SumNat ==
  ASSUME NEW q \in Seq(Events)
  PROVE  TightIn(q) \in Nat /\ SmallIn(q) \in Nat
<1>1. PICK v, w : v = [i \in DOMAIN q |-> Tight(q[i])] /\ w = [i \in DOMAIN q |-> Small(q[i])]
  OBVIOUS
<1>2. v \in Seq(Nat) /\ w \in Seq(Nat)
  BY <1>1, QueueWeights
<1>3. IsFiniteSet(Units(v)) /\ IsFiniteSet(Units(w))
  BY <1>2, UnitsFinite
<1>4. Cardinality(Units(v)) \in Nat /\ Cardinality(Units(w)) \in Nat
  BY <1>3, FS_CardinalityType
<1>5. TightIn(q) = Cardinality(Units(v)) /\ SmallIn(q) = Cardinality(Units(w))
  BY <1>1 DEF TightIn, SmallIn, Total, Units
<1> QED
  BY <1>4, <1>5

\* What is owed is made of numbers.
LEMMA OwedNumbers ==
  ASSUME Types
  PROVE  /\ queue \in Seq(Events)
         /\ TightIn(queue) \in Nat /\ SmallIn(queue) \in Nat
         /\ Cardinality(Kept) \in Nat /\ record.tight \in Nat /\ record.plain \in Nat
         /\ untold.tight \in Int /\ untold.plain \in Int
         /\ untold \in [plain : Int, tight : Int]
         /\ record = [plain |-> record.plain, tight |-> record.tight]
<1>1. queue \in Seq(Events)
  BY DEF Types, QueueTypes
<1>2. TightIn(queue) \in Nat /\ SmallIn(queue) \in Nat
  BY <1>1, SumNat
<1>3. Cardinality(Kept) \in Nat
  BY KeptFinite
<1> QED
  BY <1>1, <1>2, <1>3 DEF Types, QueueTypes

\* An event that is not an audit to be accounted for.
LEMMA AccountedAppend ==
  ASSUME Types, AuditAccounted, NEW e \in Events,
         e.type \notin {"released", "closed", "plain", "dropped"},
         queue' = Append(queue, e) \/ queue' = queue,
         UNCHANGED <<pending, record, untold>>
  PROVE  AuditAccounted'
<1>1. Kept' = Kept
  BY DEF Kept
<1>2. Tight(e) = 0 /\ Small(e) = 0
  BY EventWeights
<1>3. TightIn(Append(queue, e)) = TightIn(queue) + 0 /\ SmallIn(Append(queue, e)) = SmallIn(queue) + 0
  BY <1>2, OwedNumbers, SumAppend
<1>4. TightIn(queue') = TightIn(queue) /\ SmallIn(queue') = SmallIn(queue)
  <2>1. CASE queue' = queue
    BY <2>1
  <2>2. CASE queue' = Append(queue, e)
    <3>1. TightIn(queue) + 0 = TightIn(queue) /\ SmallIn(queue) + 0 = SmallIn(queue)
      BY OwedNumbers
    <3> QED
      BY <1>3, <2>2, <3>1
  <2> QED
    BY <2>1, <2>2
<1> QED
  BY <1>1, <1>4 DEF AuditAccounted

\* A best-effort audit.
LEMMA AccountedBestEffort ==
  ASSUME Types, AuditAccounted, NEW h, NEW b, BestEffort(queue, h, b), pending' = pending
  PROVE  AuditAccounted'
<1>1. Kept' = Kept
  BY DEF Kept
<1>2. Plain \in Events /\ Plain.type = "plain"
  BY EventsMade DEF Plain
<1>3. Tight(Plain) = 0 /\ Small(Plain) = 1
  BY <1>2, EventWeights
<1>4. TightIn(Append(queue, Plain)) = TightIn(queue) + 0 /\ SmallIn(Append(queue, Plain)) = SmallIn(queue) + 1
  BY <1>2, <1>3, OwedNumbers, SumAppend
<1>5. untold'.tight = untold.tight /\ untold'.plain = untold.plain + 1
  BY OwedNumbers DEF BestEffort
<1>6. \/ queue' = Append(queue, Plain) /\ record' = record
      \/ queue' = queue /\ record'.tight = record.tight /\ record'.plain = record.plain + 1
  BY OwedNumbers DEF BestEffort
<1>7. CASE queue' = Append(queue, Plain) /\ record' = record
  BY <1>1, <1>4, <1>5, <1>7, OwedNumbers DEF AuditAccounted
<1>8. CASE queue' = queue /\ record'.tight = record.tight /\ record'.plain = record.plain + 1
  BY <1>1, <1>5, <1>8, OwedNumbers DEF AuditAccounted
<1> QED
  BY <1>6, <1>7, <1>8

\* The size of a bundle, and what is in it.
LEMMA BundleLen ==
  ASSUME NEW k \in Streams, NEW b \in Bundles(k)
  PROVE  Len(b) \in 0 .. 2 /\ Range(b) \subseteq {Released(k), Closed(k)}
<1>1. Len(b) \in 0 .. 2
  BY DEF Bundles
<1> QED
  BY <1>1, BundleParts

\* Every action accounts for what it issues, tells and loses.
LEMMA AccountedKept ==
  ASSUME Types, StageInv, AuditAccounted, [Next]_vars
  PROVE  AuditAccounted'
<1>1. ASSUME NEW k \in Streams, StreamNext(k)
      PROVE  AuditAccounted'
  <2>1. CASE OpenJob(k)
    <3>1. queue' = Append(queue, Plain) /\ UNCHANGED <<pending, record>> /\ untold' = [untold EXCEPT !.plain = @ + 1]
      BY <2>1 DEF OpenJob
    <3>2. Kept' = Kept
      BY <3>1 DEF Kept
    <3>3. Plain \in Events /\ Plain.type = "plain"
      BY EventsMade DEF Plain
    <3>4. Tight(Plain) = 0 /\ Small(Plain) = 1
      BY <3>3, EventWeights
    <3>5. TightIn(Append(queue, Plain)) = TightIn(queue) + 0 /\ SmallIn(Append(queue, Plain)) = SmallIn(queue) + 1
      BY <3>3, <3>4, OwedNumbers, SumAppend
    <3>6. untold'.tight = untold.tight /\ untold'.plain = untold.plain + 1
      BY <3>1, OwedNumbers
    <3> QED
      BY <3>1, <3>2, <3>5, <3>6, OwedNumbers DEF AuditAccounted
  <2>2. CASE OpenRefused(k)
    <3>1. BestEffort(queue, holds, bucket) /\ pending' = pending
      BY <2>2 DEF OpenRefused
    <3> QED
      BY <3>1, AccountedBestEffort
  <2>3. CASE HostRefuses(k)
    <3>1. BestEffort(queue, holds \ {k}, bucket) /\ pending' = pending
      BY <2>3 DEF HostRefuses
    <3> QED
      BY <3>1, AccountedBestEffort
  <2>4. CASE AnnounceLive(k)
    BY <2>4 DEF AnnounceLive, queueVars, AuditAccounted, Kept
  <2>5. CASE AnnounceEmit(k)
    <3>1. (queue' = Append(queue, Opened(k)) \/ queue' = queue) /\ UNCHANGED <<pending, record, untold>>
      BY <2>5 DEF AnnounceEmit
    <3>2. Opened(k) \in Events /\ Opened(k).type \notin {"released", "closed", "plain", "dropped"}
      BY EventsMade DEF Opened
    <3> QED
      BY <3>1, <3>2, AccountedAppend
  <2>6. CASE OpenJobEnds(k)
    BY <2>6 DEF OpenJobEnds, queueVars, AuditAccounted, Kept
  <2>7. CASE Close(k)
    BY <2>7 DEF Close, queueVars, AuditAccounted, Kept
  <2>8. CASE Drop(k)
    <3>1. (queue' = Append(queue, Input(k)) \/ queue' = queue) /\ UNCHANGED <<pending, record, untold>>
      BY <2>8 DEF Drop
    <3>2. Input(k) \in Events /\ Input(k).type \notin {"released", "closed", "plain", "dropped"}
      BY EventsMade DEF Input
    <3> QED
      BY <3>1, <3>2, AccountedAppend
  <2>9. CASE Tightened(k)
    <3>1. PICK out, rest :
            /\ TightSplit(k, out, rest) /\ queue' = queue \o out
            /\ untold' = [untold EXCEPT !.tight = @ + (Len(out) + Len(rest))]
            /\ \/ record' = [record EXCEPT !.tight = @ + Len(rest)] /\ pending' = pending
               \/ pending' = [pending EXCEPT ![k] = rest] /\ record' = record
      BY <2>9, TightenedEffect
    <3>2. /\ out \in Seq(Events) /\ Len(out) \in Nat /\ Len(rest) \in Nat
          /\ \A i \in DOMAIN out : out[i].type \in {"released", "closed"}
          /\ Cardinality(Range(rest)) = Len(rest) /\ IsFiniteSet(Range(rest))
          /\ Range(rest) \subseteq {Released(k), Closed(k)}
      BY <3>1, TightSplitParts
    <3>3. TightIn(out) = Len(out) /\ SmallIn(out) = 0
      BY <3>2, SumTight
    <3>4. TightIn(queue \o out) = TightIn(queue) + Len(out) /\ SmallIn(queue \o out) = SmallIn(queue) + 0
      BY <3>2, <3>3, OwedNumbers, SumConcat
    <3>5. untold'.tight = untold.tight + (Len(out) + Len(rest)) /\ untold'.plain = untold.plain
      BY <3>1, OwedNumbers
    <3>6. CASE record' = [record EXCEPT !.tight = @ + Len(rest)] /\ pending' = pending
      <4>1. Kept' = Kept
        BY <3>6 DEF Kept
      <4>2. record'.tight = record.tight + Len(rest) /\ record'.plain = record.plain
        BY <3>6, OwedNumbers
      <4>21. /\ untold.tight = TightIn(queue) + Cardinality(Kept) + record.tight
            /\ untold.plain = SmallIn(queue) + record.plain
        BY DEF AuditAccounted
      <4>22. /\ TightIn(queue) \in Nat /\ SmallIn(queue) \in Nat /\ Cardinality(Kept) \in Nat
            /\ record.tight \in Nat /\ record.plain \in Nat /\ untold.tight \in Int /\ untold.plain \in Int
        BY OwedNumbers
      <4>23. untold'.tight = TightIn(queue') + Cardinality(Kept') + record'.tight
        <5>1. PICK a, b, c \in Nat : a = TightIn(queue) /\ b = Cardinality(Kept) /\ c = record.tight
          BY <4>22
        <5>2. untold.tight = a + b + c
          BY <4>21, <5>1
        <5>3. TightIn(queue') = a + Len(out) /\ Cardinality(Kept') = b /\ record'.tight = c + Len(rest)
          BY <3>1, <3>4, <4>1, <4>2, <5>1
        <5>4. untold'.tight = a + b + c + (Len(out) + Len(rest))
          BY <3>5, <5>2
        <5> QED
          BY <3>2, <5>3, <5>4
      <4>24. untold'.plain = SmallIn(queue') + record'.plain
        BY <3>1, <3>2, <3>4, <3>5, <4>1, <4>2, <4>21, <4>22
      <4> QED
        BY <4>23, <4>24 DEF AuditAccounted
    <3>7. CASE pending' = [pending EXCEPT ![k] = rest] /\ record' = record
      <4>1. pending[k] = << >> /\ DOMAIN pending = Streams
        BY <2>9 DEF Tightened, StageInv, Types, QueueTypes
      <4>2. /\ pending'[k] = rest /\ \A j \in Streams : j # k => pending'[j] = pending[j]
        BY <3>7, <4>1
      <4>3. Range(pending[k]) = {}
        BY <4>1, ShortRanges
      <4>4. Kept' = Kept \cup Range(rest)
        <5>1. Kept' = UNION {Range(pending'[j]) : j \in Streams}
          BY DEF Kept
        <5>2. ASSUME NEW e \in Kept'
              PROVE  e \in Kept \cup Range(rest)
          <6>1. PICK j \in Streams : e \in Range(pending'[j])
            BY <5>1, <5>2
          <6> QED
            BY <4>2, <6>1 DEF Kept
        <5>3. ASSUME NEW e \in Kept
              PROVE  e \in Kept'
          <6>1. PICK j \in Streams : e \in Range(pending[j])
            BY <5>3 DEF Kept
          <6>2. j # k
            BY <4>3, <6>1
          <6>3. e \in Range(pending'[j])
            BY <4>2, <6>1, <6>2
          <6> QED
            BY <5>1, <6>3
        <5>4. Range(rest) \subseteq Kept'
          BY <4>2, <5>1
        <5> QED
          BY <5>2, <5>3, <5>4
      <4>5. Kept \cap Range(rest) = {}
        <5> SUFFICES ASSUME NEW e \in Kept, e \in Range(rest)
                     PROVE  FALSE
          OBVIOUS
        <5>1. PICK j \in Streams : e \in Range(pending[j])
          BY DEF Kept
        <5>2. j # k
          BY <4>3, <5>1
        <5>3. pending[j] \in Bundles(j)
          BY DEF Types, QueueTypes
        <5>4. Range(pending[j]) \subseteq {Released(j), Closed(j)}
          BY <5>3, BundleLen
        <5>5. e \in {Released(j), Closed(j)} /\ e \in {Released(k), Closed(k)}
          BY <3>2, <5>1, <5>4
        <5> QED
          BY <5>2, <5>5, TighteningEvents
      <4>6. Cardinality(Kept') = Cardinality(Kept) + Len(rest)
        <5>1. PICK K, R : K = Kept /\ R = Range(rest)
          OBVIOUS
        <5>2. IsFiniteSet(K) /\ IsFiniteSet(R) /\ K \cap R = {}
          BY <3>2, <4>5, <5>1, KeptFinite
        <5>3. Cardinality(K \cup R) = Cardinality(K) + Cardinality(R) - Cardinality(K \cap R)
          BY <5>2, FS_Union
        <5>4. Cardinality(K \cap R) = 0
          BY <5>2, FS_EmptySet
        <5>5. Cardinality(K) \in Nat /\ Cardinality(R) = Len(rest)
          BY <3>2, <5>1, OwedNumbers
        <5>6. Cardinality(K \cup R) = Cardinality(K) + Len(rest)
          BY <3>2, <5>3, <5>4, <5>5
        <5> QED
          BY <4>4, <5>1, <5>6
      <4>21. /\ untold.tight = TightIn(queue) + Cardinality(Kept) + record.tight
            /\ untold.plain = SmallIn(queue) + record.plain
        BY DEF AuditAccounted
      <4>22. /\ TightIn(queue) \in Nat /\ SmallIn(queue) \in Nat /\ Cardinality(Kept) \in Nat
            /\ record.tight \in Nat /\ record.plain \in Nat /\ untold.tight \in Int /\ untold.plain \in Int
        BY OwedNumbers
      <4>23. untold'.tight = TightIn(queue') + Cardinality(Kept') + record'.tight
        <5>1. PICK a, b, c \in Nat : a = TightIn(queue) /\ b = Cardinality(Kept) /\ c = record.tight
          BY <4>22
        <5>2. untold.tight = a + b + c
          BY <4>21, <5>1
        <5>3. TightIn(queue') = a + Len(out) /\ Cardinality(Kept') = b + Len(rest) /\ record'.tight = c
          BY <3>1, <3>4, <3>7, <4>6, <5>1
        <5>4. untold'.tight = a + b + c + (Len(out) + Len(rest))
          BY <3>5, <5>2
        <5> QED
          BY <3>2, <5>3, <5>4
      <4>24. untold'.plain = SmallIn(queue') + record'.plain
        BY <3>1, <3>2, <3>4, <3>5, <3>7, <4>6, <4>21, <4>22
      <4> QED
        BY <4>23, <4>24 DEF AuditAccounted
    <3> QED
      BY <3>1, <3>6, <3>7
  <2>10. CASE InputChecks(k)
    BY <2>10 DEF InputChecks, queueVars, AuditAccounted, Kept
  <2>11. CASE InputAudits(k)
    <3>1. (queue' = Append(queue, Input(k)) \/ queue' = queue) /\ UNCHANGED <<pending, record, untold>>
      BY <2>11 DEF InputAudits
    <3>2. Input(k) \in Events /\ Input(k).type \notin {"released", "closed", "plain", "dropped"}
      BY EventsMade DEF Input
    <3> QED
      BY <3>1, <3>2, AccountedAppend
  <2>12. CASE InputStarts(k)
    BY <2>12 DEF InputStarts, queueVars, AuditAccounted, Kept
  <2>13. CASE BucketDue(k)
    <3>1. (queue' = Append(queue, Input(k)) \/ queue' = queue) /\ UNCHANGED <<pending, record, untold>>
      BY <2>13 DEF BucketDue
    <3>2. Input(k) \in Events /\ Input(k).type \notin {"released", "closed", "plain", "dropped"}
      BY EventsMade DEF Input
    <3> QED
      BY <3>1, <3>2, AccountedAppend
  <2>14. CASE OpenStarts(k)
    BY <2>14 DEF OpenStarts, queueVars, AuditAccounted, Kept
  <2>15. CASE OpenFailed(k)
    <3>1. BestEffort(queue, holds, bucket) /\ pending' = pending
      BY <2>15 DEF OpenFailed
    <3> QED
      BY <3>1, AccountedBestEffort
  <2> QED
    BY <1>1, <2>1, <2>2, <2>3, <2>4, <2>5, <2>6, <2>7, <2>8, <2>9, <2>10, <2>11, <2>12,
       <2>13, <2>14, <2>15 DEF StreamNext
<1>2. CASE Flush
  <2>1. PICK n, out : FlushTells(n, out) /\ FlushReports(queue \o out)
    BY <1>2, FlushEffect
  <2>2. /\ out \in Seq(Events) /\ Len(out) = Cardinality(Told(n))
        /\ \A i \in DOMAIN out : out[i].type \in {"released", "closed"}
    BY <2>1 DEF FlushTells
  <2>3. Told(n) \subseteq Kept /\ Kept' = Kept \ Told(n)
    BY <2>1, FlushKept DEF FlushTells
  <2>4. Cardinality(Kept) = Len(out) + Cardinality(Kept') /\ Cardinality(Kept') \in Nat
    <3>1. PICK K, D : K = Kept /\ D = Told(n)
      OBVIOUS
    <3>2. IsFiniteSet(K) /\ D \in SUBSET K
      BY <2>3, <3>1, KeptFinite
    <3>3. IsFiniteSet(D) /\ IsFiniteSet(K \ D)
      BY <3>2, FS_Subset, FS_Difference
    <3>4. Cardinality(D \cup (K \ D)) = Cardinality(D) + Cardinality(K \ D) - Cardinality(D \cap (K \ D))
      BY <3>3, FS_Union
    <3>5. D \cup (K \ D) = K /\ D \cap (K \ D) = {}
      BY <3>2
    <3>6. Cardinality(D \cap (K \ D)) = 0
      BY <3>5, FS_EmptySet
    <3>7. Cardinality(D) \in Nat /\ Cardinality(K \ D) \in Nat
      BY <3>3, FS_CardinalityType
    <3>8. Cardinality(K) = Cardinality(D) + Cardinality(K \ D)
      <4>1. Cardinality(K) = Cardinality(D) + Cardinality(K \ D) - Cardinality(D \cap (K \ D))
        BY <3>4, <3>5
      <4> QED
        BY <3>6, <3>7, <4>1
    <3> QED
      BY <2>2, <2>3, <3>1, <3>7, <3>8
  <2>5. PICK q : q = queue \o out
    OBVIOUS
  <2>6. Len(out) \in Nat /\ TightIn(out) = Len(out) /\ SmallIn(out) = 0
    BY <2>2, SumTight
  <2>7. TightIn(q) = TightIn(queue) + Len(out) /\ SmallIn(q) = SmallIn(queue) + 0
    BY <2>2, <2>5, <2>6, OwedNumbers, SumConcat
  <2>8. untold' = untold
    BY <1>2 DEF Flush
  <2>9. CASE queue' = q /\ record' = record
    BY <2>4, <2>6, <2>7, <2>8, <2>9, OwedNumbers DEF AuditAccounted
  <2>10. CASE queue' = Append(q, Dropped(record)) /\ record' = [plain |-> 0, tight |-> 0]
    <3>1. q \in Seq(Events)
      BY <2>2, <2>5, OwedNumbers, ConcatProperties
    <3>2. Dropped(record) \in Events
      BY EventsMade DEF Types, QueueTypes
    <3>3. Dropped(record).type = "dropped" /\ Dropped(record).lost = record
      BY DEF Dropped
    <3>4. Tight(Dropped(record)) = record.tight /\ Small(Dropped(record)) = record.plain
      BY <3>2, <3>3, EventWeights
    <3>5. TightIn(queue') = TightIn(q) + record.tight /\ SmallIn(queue') = SmallIn(q) + record.plain
      BY <2>10, <3>1, <3>2, <3>4, SumAppend
    <3>6. record'.tight = 0 /\ record'.plain = 0
      BY <2>10
    <3>21. /\ untold.tight = TightIn(queue) + Cardinality(Kept) + record.tight
          /\ untold.plain = SmallIn(queue) + record.plain
      BY DEF AuditAccounted
    <3>22. /\ TightIn(queue) \in Nat /\ SmallIn(queue) \in Nat /\ Cardinality(Kept) \in Nat
          /\ record.tight \in Nat /\ record.plain \in Nat /\ untold.tight \in Int /\ untold.plain \in Int
      BY OwedNumbers
    <3>23. untold'.tight = TightIn(queue') + Cardinality(Kept') + record'.tight
      <4>1. PICK a, b, c \in Nat : a = TightIn(queue) /\ b = Cardinality(Kept) /\ c = record.tight
        BY <3>22
      <4>2. untold.tight = a + b + c
        BY <3>21, <4>1
      <4>3. TightIn(queue') = a + Len(out) + c /\ b = Len(out) + Cardinality(Kept') /\ record'.tight = 0
        BY <2>4, <2>7, <3>5, <3>6, <4>1
      <4>4. untold'.tight = a + b + c
        BY <2>8, <4>2
      <4> QED
        BY <2>4, <2>6, <4>3, <4>4
    <3>24. untold'.plain = SmallIn(queue') + record'.plain
      BY <2>4, <2>6, <2>7, <2>8, <3>5, <3>6, <3>21, <3>22
    <3> QED
      BY <3>23, <3>24 DEF AuditAccounted
  <2> QED
    BY <2>1, <2>5, <2>9, <2>10 DEF FlushReports
<1>3. CASE PlainAudit
  <2>1. BestEffort(queue, holds, bucket) /\ pending' = pending
    BY <1>3 DEF PlainAudit
  <2> QED
    BY <2>1, AccountedBestEffort
<1>4. CASE OtherEvent
  <2>1. (queue' = Append(queue, Lifecycle) \/ queue' = queue) /\ UNCHANGED <<pending, record, untold>>
    BY <1>4 DEF OtherEvent
  <2>2. Lifecycle \in Events /\ Lifecycle.type \notin {"released", "closed", "plain", "dropped"}
    BY EventsMade DEF Lifecycle
  <2> QED
    BY <2>1, <2>2, AccountedAppend
<1>5. CASE Deliver
  <2>1. PICK e : e = Head(queue)
    OBVIOUS
  <2>2. queue # << >> /\ queue' = Tail(queue) /\ UNCHANGED <<pending, record>>
    BY <1>5 DEF Deliver
  <2>3. /\ e \in Events /\ Tail(queue) \in Seq(Events)
        /\ TightIn(queue) = Tight(e) + TightIn(Tail(queue))
        /\ SmallIn(queue) = Small(e) + SmallIn(Tail(queue))
    BY <2>1, <2>2, OwedNumbers, SumTail
  <2>4. untold' = CASE e.type = "plain" -> [untold EXCEPT !.plain = @ - 1]
                    [] e.type \in {"released", "closed"} ->
                         [untold EXCEPT !.tight = @ - 1]
                    [] e.type = "dropped" ->
                         [plain |-> untold.plain - e.lost.plain,
                          tight |-> untold.tight - e.lost.tight]
                    [] OTHER -> untold
    BY <1>5, <2>1 DEF Deliver
  <2>6. untold' = [plain |-> untold.plain - Small(e), tight |-> untold.tight - Tight(e)]
    BY <2>3, <2>4, DeliveredCount DEF Types, QueueTypes
  <2>7. Small(e) \in Nat /\ Tight(e) \in Nat /\ TightIn(Tail(queue)) \in Nat /\ SmallIn(Tail(queue)) \in Nat
    BY <2>3, EventWeights, SumNat
  <2>8. untold'.plain = untold.plain - Small(e) /\ untold'.tight = untold.tight - Tight(e)
    BY <2>6
  <2>9. Kept' = Kept
    BY <2>2 DEF Kept
  <2>21. /\ untold.tight = TightIn(queue) + Cardinality(Kept) + record.tight
        /\ untold.plain = SmallIn(queue) + record.plain
    BY DEF AuditAccounted
  <2>22. /\ TightIn(queue) \in Nat /\ SmallIn(queue) \in Nat /\ Cardinality(Kept) \in Nat
        /\ record.tight \in Nat /\ record.plain \in Nat /\ untold.tight \in Int /\ untold.plain \in Int
    BY OwedNumbers
  <2>23. untold'.tight = TightIn(queue') + Cardinality(Kept') + record'.tight
    <3>1. PICK a, b, c \in Nat : a = TightIn(queue) /\ b = Cardinality(Kept) /\ c = record.tight
      BY <2>22
    <3>2. untold.tight = a + b + c
      BY <2>21, <3>1
    <3>3. PICK t, m \in Nat : t = TightIn(Tail(queue)) /\ m = Tight(e)
      BY <2>7
    <3>4. TightIn(queue') = t /\ a = m + t /\ Cardinality(Kept') = b /\ record'.tight = c
      BY <2>2, <2>3, <2>9, <3>1, <3>3
    <3>5. untold'.tight = a + b + c - m
      BY <2>8, <3>2, <3>3
    <3> QED
      BY <3>4, <3>5
  <2>24. untold'.plain = SmallIn(queue') + record'.plain
    <3>1. PICK a, c \in Nat : a = SmallIn(queue) /\ c = record.plain
      BY <2>22
    <3>2. untold.plain = a + c
      BY <2>21, <3>1
    <3>3. PICK t, m \in Nat : t = SmallIn(Tail(queue)) /\ m = Small(e)
      BY <2>7
    <3>4. SmallIn(queue') = t /\ a = m + t /\ record'.plain = c
      BY <2>2, <2>3, <3>1, <3>3
    <3>5. untold'.plain = a + c - m
      BY <2>8, <3>2, <3>3
    <3> QED
      BY <3>4, <3>5
  <2> QED
    BY <2>23, <2>24 DEF AuditAccounted
<1>6. CASE Reconcile
  BY <1>6 DEF Reconcile, Ask, queueVars, AuditAccounted, Kept
<1>7. CASE Answer
  BY <1>7 DEF Answer, queueVars, AuditAccounted, Kept
<1>8. CASE AnswerQueued
  <2>1. queue' = queue \o answer /\ UNCHANGED <<pending, record, untold>> /\ answer # << >>
    BY <1>8 DEF AnswerQueued
  <2>2. PICK s \in Snapshots : answer = <<s>>
    BY <2>1 DEF Types, PageTypes
  <2>3. s \in Events /\ s.type \notin {"released", "closed", "plain", "dropped"}
    BY EventsMade DEF Snapshots
  <2>4. queue \in Seq(Events)
    BY OwedNumbers
  <2>5. queue' = Append(queue, s)
    BY <2>1, <2>2, <2>3, <2>4, AppendIsConcat
  <2> QED
    BY <2>1, <2>3, <2>5, AccountedAppend
<1>9. CASE GiveUp
  BY <1>9 DEF GiveUp, queueVars, AuditAccounted, Kept
<1>10. CASE PageReply
  BY <1>10 DEF PageReply, Ask, queueVars, AuditAccounted, Kept
<1>11. CASE PageEvent
  BY <1>11 DEF PageEvent, queueVars, AuditAccounted, Kept
<1>12. CASE Crash
  <2>1. /\ queue' = << >> /\ pending' = [k \in Streams |-> << >>]
        /\ record' = [plain |-> 0, tight |-> 0] /\ untold' = [plain |-> 0, tight |-> 0]
    BY <1>12 DEF Crash
  <2>2. Kept' = {}
    <3>1. \A k \in Streams : Range(pending'[k]) = {}
      BY <2>1, ShortRanges
    <3> QED
      BY <3>1 DEF Kept
  <2>3. Cardinality(Kept') = 0
    BY <2>2, FS_EmptySet
  <2>4. TightIn(queue') = 0 /\ SmallIn(queue') = 0
    BY <2>1, SumSmall
  <2>5. untold'.tight = 0 /\ untold'.plain = 0 /\ record'.tight = 0 /\ record'.plain = 0
    BY <2>1
  <2> QED
    BY <2>3, <2>4, <2>5 DEF AuditAccounted
<1>13. CASE UNCHANGED vars
  BY <1>13 DEF vars, queueVars, AuditAccounted, Kept
<1> QED
  BY <1>1, <1>2, <1>3, <1>4, <1>5, <1>6, <1>7, <1>8, <1>9, <1>10, <1>11, <1>12, <1>13
     DEF Next

-----------------------------------------------------------------------------
(***************************************************************************)
(* What is typed.                                                          *)
(***************************************************************************)

InputOk(k) ==
  /\ sent[k] <= audited[k] + (IF stage[k] = "open" THEN bucket[k] ELSE 0)
  /\ job[k] # "idle" /\ k \notin closed => stage[k] = "open"
  /\ job[k] = "audited" /\ k \notin closed => sent[k] + 1 <= audited[k] + bucket[k]

\* The invariant of the inputs, stream by stream.
LEMMA InputParts ==
  (\A k \in Streams : InputOk(k)') => InputInv'
BY DEF InputOk, InputInv, InputAudited

\* Every action keeps the inputs accounted for.
LEMMA InputKept ==
  ASSUME Types, StageInv, InputInv, [Next]_vars
  PROVE  InputInv'
<1>1. ASSUME NEW k \in Streams, StreamNext(k)
      PROVE  InputInv'
  <2>1. CASE OpenJob(k)
    BY <2>1 DEF OpenJob, inputVars, bridgeVars, InputInv, InputAudited, Types,
       InputTypes, BridgeTypes, Stages, StageInv
  <2>2. CASE OpenRefused(k)
    BY <2>2 DEF OpenRefused, BestEffort, inputVars, bridgeVars, InputInv, InputAudited,
       Types, InputTypes, BridgeTypes, Stages, StageInv
  <2>3. CASE HostRefuses(k)
    BY <2>3 DEF HostRefuses, BestEffort, inputVars, bridgeVars, InputInv, InputAudited,
       Types, InputTypes, BridgeTypes, Stages, StageInv
  <2>4. CASE AnnounceLive(k)
    BY <2>4 DEF AnnounceLive, inputVars, bridgeVars, InputInv, InputAudited, Types,
       InputTypes, BridgeTypes, Stages, StageInv
  <2>5. CASE AnnounceEmit(k)
    <3>1. \A j \in Streams : j # k =>
            /\ stage'[j] = stage[j] /\ (j \in closed' <=> j \in closed) /\ job'[j] = job[j]
            /\ bucket'[j] = bucket[j] /\ sent'[j] = sent[j] /\ audited'[j] = audited[j]
      BY <2>5 DEF AnnounceEmit, inputVars, bridgeVars, Types, InputTypes, BridgeTypes
    <3>2. ASSUME NEW j \in Streams, j # k
          PROVE  InputOk(j)'
      BY <3>1, <3>2 DEF InputInv, InputAudited, InputOk
    <3>3. InputOk(k)'
      BY <2>5 DEF AnnounceEmit, inputVars, bridgeVars, InputInv, InputAudited, Types,
         InputTypes, BridgeTypes, Stages, InputOk
    <3> QED
      BY <3>2, <3>3, InputParts
  <2>6. CASE OpenJobEnds(k)
    BY <2>6 DEF OpenJobEnds, inputVars, bridgeVars, InputInv, InputAudited, Types,
       InputTypes, BridgeTypes, Stages, StageInv
  <2>7. CASE Close(k)
    BY <2>7 DEF Close, inputVars, bridgeVars, InputInv, InputAudited, Types, InputTypes,
       BridgeTypes, Stages, StageInv
  <2>8. CASE Drop(k)
    <3>1. \A j \in Streams : j # k =>
            /\ stage'[j] = stage[j] /\ (j \in closed' <=> j \in closed) /\ job'[j] = job[j]
            /\ bucket'[j] = bucket[j] /\ sent'[j] = sent[j] /\ audited'[j] = audited[j]
      BY <2>8 DEF Drop, inputVars, bridgeVars, Types, InputTypes, BridgeTypes
    <3>2. ASSUME NEW j \in Streams, j # k
          PROVE  InputOk(j)'
      BY <3>1, <3>2 DEF InputInv, InputAudited, InputOk
    <3>3. InputOk(k)'
      BY <2>8 DEF Drop, inputVars, bridgeVars, InputInv, InputAudited, Types,
         InputTypes, BridgeTypes, Stages, InputOk
    <3> QED
      BY <3>2, <3>3, InputParts
  <2>9. CASE Tightened(k)
    BY <2>9 DEF Tightened, inputVars, bridgeVars, InputInv, InputAudited, Types,
       InputTypes, BridgeTypes, Stages, StageInv
  <2>10. CASE InputChecks(k)
    <3>1. \A j \in Streams : j # k =>
            /\ stage'[j] = stage[j] /\ (j \in closed' <=> j \in closed) /\ job'[j] = job[j]
            /\ bucket'[j] = bucket[j] /\ sent'[j] = sent[j] /\ audited'[j] = audited[j]
      BY <2>10 DEF InputChecks, inputVars, bridgeVars, Types, InputTypes, BridgeTypes
    <3>2. ASSUME NEW j \in Streams, j # k
          PROVE  InputOk(j)'
      BY <3>1, <3>2 DEF InputInv, InputAudited, InputOk
    <3>3. InputOk(k)'
      BY <2>10 DEF InputChecks, inputVars, bridgeVars, InputInv, InputAudited, Types,
         InputTypes, BridgeTypes, Stages, InputOk
    <3> QED
      BY <3>2, <3>3, InputParts
  <2>11. CASE InputAudits(k)
    <3>1. \A j \in Streams : j # k =>
            /\ stage'[j] = stage[j] /\ (j \in closed' <=> j \in closed) /\ job'[j] = job[j]
            /\ bucket'[j] = bucket[j] /\ sent'[j] = sent[j] /\ audited'[j] = audited[j]
      BY <2>11 DEF InputAudits, inputVars, bridgeVars, Types, InputTypes, BridgeTypes
    <3>2. ASSUME NEW j \in Streams, j # k
          PROVE  InputOk(j)'
      BY <3>1, <3>2 DEF InputInv, InputAudited, InputOk
    <3>3. InputOk(k)'
      BY <2>11 DEF InputAudits, inputVars, bridgeVars, InputInv, InputAudited, Types,
         InputTypes, BridgeTypes, Stages, InputOk
    <3> QED
      BY <3>2, <3>3, InputParts
  <2>12. CASE InputStarts(k)
    <3>1. \A j \in Streams : j # k =>
            /\ stage'[j] = stage[j] /\ (j \in closed' <=> j \in closed) /\ job'[j] = job[j]
            /\ bucket'[j] = bucket[j] /\ sent'[j] = sent[j] /\ audited'[j] = audited[j]
      BY <2>12 DEF InputStarts, inputVars, bridgeVars, Types, InputTypes, BridgeTypes
    <3>2. ASSUME NEW j \in Streams, j # k
          PROVE  InputOk(j)'
      BY <3>1, <3>2 DEF InputInv, InputAudited, InputOk
    <3>3. InputOk(k)'
      BY <2>12 DEF InputStarts, inputVars, bridgeVars, InputInv, InputAudited, Types,
         InputTypes, BridgeTypes, Stages, InputOk
    <3> QED
      BY <3>2, <3>3, InputParts
  <2>13. CASE BucketDue(k)
    <3>1. \A j \in Streams : j # k =>
            /\ stage'[j] = stage[j] /\ (j \in closed' <=> j \in closed) /\ job'[j] = job[j]
            /\ bucket'[j] = bucket[j] /\ sent'[j] = sent[j] /\ audited'[j] = audited[j]
      BY <2>13 DEF BucketDue, inputVars, bridgeVars, Types, InputTypes, BridgeTypes
    <3>2. ASSUME NEW j \in Streams, j # k
          PROVE  InputOk(j)'
      BY <3>1, <3>2 DEF InputInv, InputAudited, InputOk
    <3>3. InputOk(k)'
      BY <2>13 DEF BucketDue, inputVars, bridgeVars, InputInv, InputAudited, Types,
         InputTypes, BridgeTypes, Stages, InputOk
    <3> QED
      BY <3>2, <3>3, InputParts
  <2>14. CASE OpenStarts(k)
    BY <2>14 DEF OpenStarts, inputVars, bridgeVars, InputInv, InputAudited, Types,
       InputTypes, BridgeTypes, Stages, StageInv
  <2>15. CASE OpenFailed(k)
    BY <2>15 DEF OpenFailed, BestEffort, inputVars, bridgeVars, InputInv, InputAudited,
       Types, InputTypes, BridgeTypes, Stages, StageInv
  <2> QED
    BY <1>1, <2>1, <2>2, <2>3, <2>4, <2>5, <2>6, <2>7, <2>8, <2>9, <2>10, <2>11, <2>12,
       <2>13, <2>14, <2>15 DEF StreamNext
<1>2. CASE Flush
  BY <1>2 DEF Flush, inputVars, bridgeVars, InputInv, InputAudited, Types, InputTypes,
     BridgeTypes, Stages, StageInv
<1>3. CASE PlainAudit
  BY <1>3 DEF PlainAudit, BestEffort, inputVars, bridgeVars, InputInv, InputAudited,
     Types, InputTypes, BridgeTypes, Stages, StageInv
<1>4. CASE OtherEvent
  BY <1>4 DEF OtherEvent, inputVars, bridgeVars, InputInv, InputAudited, Types,
     InputTypes, BridgeTypes, Stages, StageInv
<1>5. CASE Deliver
  BY <1>5 DEF Deliver, inputVars, bridgeVars, InputInv, InputAudited, Types, InputTypes,
     BridgeTypes, Stages, StageInv
<1>6. CASE Reconcile
  BY <1>6 DEF Reconcile, Ask, inputVars, bridgeVars, InputInv, InputAudited, Types,
     InputTypes, BridgeTypes, Stages, StageInv
<1>7. CASE Answer
  BY <1>7 DEF Answer, inputVars, bridgeVars, InputInv, InputAudited, Types, InputTypes,
     BridgeTypes, Stages, StageInv
<1>8. CASE AnswerQueued
  BY <1>8 DEF AnswerQueued, inputVars, bridgeVars, InputInv, InputAudited, Types,
     InputTypes, BridgeTypes, Stages, StageInv
<1>9. CASE GiveUp
  BY <1>9 DEF GiveUp, inputVars, bridgeVars, InputInv, InputAudited, Types, InputTypes,
     BridgeTypes, Stages, StageInv
<1>10. CASE PageReply
  BY <1>10 DEF PageReply, Ask, inputVars, bridgeVars, InputInv, InputAudited, Types,
     InputTypes, BridgeTypes, Stages, StageInv
<1>11. CASE PageEvent
  BY <1>11 DEF PageEvent, inputVars, bridgeVars, InputInv, InputAudited, Types,
     InputTypes, BridgeTypes, Stages, StageInv
<1>12. CASE Crash
  BY <1>12 DEF Crash, inputVars, bridgeVars, InputInv, InputAudited, Types, InputTypes,
     BridgeTypes, Stages, StageInv
<1>13. CASE UNCHANGED vars
  BY <1>13 DEF vars, inputVars, bridgeVars, InputInv, InputAudited, Types, InputTypes,
     BridgeTypes, Stages, StageInv
<1> QED
  BY <1>1, <1>2, <1>3, <1>4, <1>5, <1>6, <1>7, <1>8, <1>9, <1>10, <1>11, <1>12, <1>13
     DEF Next

-----------------------------------------------------------------------------
(***************************************************************************)
(* The order of opens and closes.                                          *)
(***************************************************************************)
\* What is in a list with one more entry.
LEMMA RangeAppend ==
  ASSUME NEW T, NEW q \in Seq(T), NEW e \in T
  PROVE  Range(Append(q, e)) = Range(q) \cup {e}
<1>1. PICK v : v = Append(q, e)
  OBVIOUS
<1>2. PICK n \in Nat : n = Len(q)
  OBVIOUS
<1>3. /\ DOMAIN q = 1 .. n /\ DOMAIN v = 1 .. (n + 1) /\ v[n + 1] = e
      /\ \A i \in 1 .. n : v[i] = q[i]
  BY <1>1, <1>2
<1>4. \A i : i \in 1 .. (n + 1) <=> i \in 1 .. n \/ i = n + 1
  OBVIOUS
<1>5. Range(v) = Range(q) \cup {e}
  BY <1>3, <1>4 DEF Range
<1> QED
  BY <1>1, <1>5

\* What is in two lists, one after the other.
LEMMA RangeConcat ==
  ASSUME NEW T, NEW q \in Seq(T), NEW r \in Seq(T)
  PROVE  Range(q \o r) = Range(q) \cup Range(r)
<1>1. PICK v : v = q \o r
  OBVIOUS
<1>2. PICK n, m \in Nat : n = Len(q) /\ m = Len(r)
  OBVIOUS
<1>3. /\ DOMAIN q = 1 .. n /\ DOMAIN r = 1 .. m /\ DOMAIN v = 1 .. (n + m)
      /\ \A i \in 1 .. n : v[i] = q[i]
      /\ \A i \in 1 .. m : v[n + i] = r[i]
  BY <1>1, <1>2
<1>4. ASSUME NEW x \in Range(v)
      PROVE  x \in Range(q) \cup Range(r)
  <2>1. PICK i \in 1 .. (n + m) : x = v[i]
    BY <1>3, <1>4 DEF Range
  <2>2. CASE i <= n
    BY <1>3, <2>1, <2>2 DEF Range
  <2>3. CASE ~(i <= n)
    <3>1. PICK j \in 1 .. m : i = n + j
      <4>1. i - n \in 1 .. m /\ i = n + (i - n)
        BY <2>1, <2>3
      <4> QED
        BY <4>1
    <3> QED
      BY <1>3, <2>1, <3>1 DEF Range
  <2> QED
    BY <2>2, <2>3
<1>5. Range(q) \subseteq Range(v)
  <2> SUFFICES ASSUME NEW i \in 1 .. n
               PROVE  q[i] \in Range(v)
    BY <1>3 DEF Range
  <2>1. i \in 1 .. (n + m)
    OBVIOUS
  <2> QED
    BY <1>3, <2>1 DEF Range
<1>6. Range(r) \subseteq Range(v)
  <2> SUFFICES ASSUME NEW i \in 1 .. m
               PROVE  r[i] \in Range(v)
    BY <1>3 DEF Range
  <2>1. PICK j : j = n + i
    OBVIOUS
  <2>2. j \in 1 .. (n + m) /\ v[j] = r[i]
    BY <1>3, <2>1
  <2> QED
    BY <1>3, <2>2 DEF Range
<1>7. Range(v) = Range(q) \cup Range(r)
  BY <1>4, <1>5, <1>6
<1> QED
  BY <1>1, <1>7

\* What is in a list without its first entry.
LEMMA RangeTail ==
  ASSUME NEW T, NEW q \in Seq(T), q # << >>
  PROVE  Range(q) = {Head(q)} \cup Range(Tail(q))
<1>1. PICK t, h : t = Tail(q) /\ h = Head(q)
  OBVIOUS
<1>2. PICK n \in Nat : n = Len(q)
  OBVIOUS
<1>3. /\ n >= 1 /\ DOMAIN q = 1 .. n /\ DOMAIN t = 1 .. (n - 1) /\ q[1] = h
      /\ \A i \in 1 .. (n - 1) : t[i] = q[i + 1]
  BY <1>1, <1>2
<1>4. ASSUME NEW x \in Range(q)
      PROVE  x \in {h} \cup Range(t)
  <2>1. PICK i \in 1 .. n : x = q[i]
    BY <1>3, <1>4 DEF Range
  <2>2. CASE i = 1
    BY <1>3, <2>1, <2>2
  <2>3. CASE i # 1
    <3>1. PICK j \in 1 .. (n - 1) : i = j + 1
      <4>1. i - 1 \in 1 .. (n - 1) /\ i = (i - 1) + 1
        BY <2>1, <2>3
      <4> QED
        BY <4>1
    <3> QED
      BY <1>3, <2>1, <3>1 DEF Range
  <2> QED
    BY <2>2, <2>3
<1>5. h \in Range(q)
  <2>1. 1 \in 1 .. n
    BY <1>3
  <2> QED
    BY <1>3, <2>1 DEF Range
<1>6. Range(t) \subseteq Range(q)
  <2> SUFFICES ASSUME NEW i \in 1 .. (n - 1)
               PROVE  t[i] \in Range(q)
    BY <1>3 DEF Range
  <2>1. PICK j : j = i + 1
    OBVIOUS
  <2>2. j \in 1 .. n /\ q[j] = t[i]
    BY <1>3, <2>1
  <2> QED
    BY <1>3, <2>2 DEF Range
<1>7. Range(q) = {h} \cup Range(t)
  BY <1>4, <1>5, <1>6
<1> QED
  BY <1>1, <1>7

\* Every c in the queue is ahead of every o.
Before(q, c, o) == \A i, m \in DOMAIN q : q[i] = o /\ q[m] = c => m < i

\* Adding no c keeps every c ahead of every o.
LEMMA BeforeConcat ==
  ASSUME NEW q \in Seq(Events), NEW r \in Seq(Events), NEW c, NEW o,
         Before(q, c, o), c \notin Range(r)
  PROVE  Before(q \o r, c, o)
<1>1. PICK v : v = q \o r
  OBVIOUS
<1>2. PICK n, m \in Nat : n = Len(q) /\ m = Len(r)
  OBVIOUS
<1>3. /\ DOMAIN q = 1 .. n /\ DOMAIN r = 1 .. m /\ DOMAIN v = 1 .. (n + m)
      /\ \A i \in 1 .. n : v[i] = q[i]
      /\ \A i \in 1 .. m : v[n + i] = r[i]
  BY <1>1, <1>2
<1>4. ASSUME NEW i \in DOMAIN v, NEW j \in DOMAIN v, v[i] = o, v[j] = c
      PROVE  j < i
  <2>1. i \in 1 .. (n + m) /\ j \in 1 .. (n + m)
    BY <1>3
  <2>2. j <= n
    <3> SUFFICES ASSUME ~(j <= n)
                 PROVE  FALSE
      OBVIOUS
    <3>1. j - n \in 1 .. m /\ j = n + (j - n)
      BY <2>1
    <3>2. PICK l \in 1 .. m : j = n + l
      BY <3>1
    <3>3. c = r[l]
      BY <1>3, <1>4, <3>2
    <3> QED
      BY <1>3, <3>2, <3>3 DEF Range
  <2>3. CASE i <= n
    <3>1. i \in 1 .. n /\ j \in 1 .. n
      BY <2>1, <2>2, <2>3
    <3>2. q[i] = o /\ q[j] = c
      BY <1>3, <1>4, <3>1
    <3> QED
      BY <1>3, <3>1, <3>2 DEF Before
  <2>4. CASE ~(i <= n)
    BY <2>1, <2>2, <2>4
  <2> QED
    BY <2>3, <2>4
<1>5. Before(v, c, o)
  BY <1>4 DEF Before
<1> QED
  BY <1>1, <1>5

\* The same for one event.
LEMMA BeforeAppend ==
  ASSUME NEW q \in Seq(Events), NEW e \in Events, NEW c, NEW o,
         Before(q, c, o), e # c
  PROVE  Before(Append(q, e), c, o)
<1>1. <<e>> \in Seq(Events)
  OBVIOUS
<1>2. Range(<<e>>) = {e}
  BY ShortRanges
<1>3. Before(q \o <<e>>, c, o)
  BY <1>1, <1>2, BeforeConcat
<1>4. Append(q, e) = q \o <<e>>
  BY AppendIsConcat
<1> QED
  BY <1>3, <1>4

\* When an o is the next event, no c is left.
LEMMA BeforeTail ==
  ASSUME NEW q \in Seq(Events), q # << >>, NEW c, NEW o, Before(q, c, o)
  PROVE  /\ Before(Tail(q), c, o)
         /\ Head(q) = o => c \notin Range(q)
<1>1. PICK t, h : t = Tail(q) /\ h = Head(q)
  OBVIOUS
<1>2. PICK n \in Nat : n = Len(q)
  OBVIOUS
<1>3. /\ n >= 1 /\ DOMAIN q = 1 .. n /\ DOMAIN t = 1 .. (n - 1) /\ q[1] = h
      /\ \A i \in 1 .. (n - 1) : t[i] = q[i + 1]
  BY <1>1, <1>2
<1>4. ASSUME NEW i \in DOMAIN t, NEW j \in DOMAIN t, t[i] = o, t[j] = c
      PROVE  j < i
  <2>1. PICK a, b : a = i + 1 /\ b = j + 1
    OBVIOUS
  <2>2. a \in 1 .. n /\ b \in 1 .. n /\ i \in Int /\ j \in Int
    BY <1>3, <2>1
  <2>3. q[a] = o /\ q[b] = c
    BY <1>3, <1>4, <2>1
  <2>4. b < a
    BY <1>3, <2>2, <2>3 DEF Before
  <2> QED
    BY <2>1, <2>2, <2>4
<1>5. Before(t, c, o)
  BY <1>4 DEF Before
<1>6. ASSUME h = o, c \in Range(q)
      PROVE  FALSE
  <2>1. PICK j \in 1 .. n : c = q[j]
    BY <1>3, <1>6 DEF Range
  <2>2. 1 \in 1 .. n
    BY <1>3
  <2>3. j < 1
    BY <1>3, <1>6, <2>1, <2>2 DEF Before
  <2> QED
    BY <2>1, <2>3
<1> QED
  BY <1>1, <1>5, <1>6

\* The names of the events of a stream.
LEMMA StreamEvents ==
  /\ \A k : Opened(k).type = "opened" /\ Opened(k).stream = k
  /\ \A k : Closed(k).type = "closed" /\ Closed(k).stream = k
  /\ \A k : Released(k).type = "released" /\ Released(k).stream = k
  /\ \A j, k : Opened(j) # Closed(k) /\ Opened(j) # Released(k)
  /\ \A j, k : Opened(j) = Opened(k) => j = k
<1>1. \A k : Opened(k).type = "opened" /\ Opened(k).stream = k
  BY DEF Opened
<1>2. \A k : Closed(k).type = "closed" /\ Closed(k).stream = k
  BY DEF Closed
<1>3. \A k : Released(k).type = "released" /\ Released(k).stream = k
  BY DEF Released
<1>4. \A j, k : Opened(j) # Closed(k) /\ Opened(j) # Released(k)
  BY <1>1, <1>2, <1>3
<1>5. \A j, k : Opened(j) = Opened(k) => j = k
  <2> TAKE j, k
  <2>1. Opened(j).stream = j /\ Opened(k).stream = k
    BY <1>1
  <2> QED
    BY <2>1
<1> QED
  BY <1>1, <1>2, <1>3, <1>4, <1>5

\* The parts of the invariant, over the values of the variables.
OrderAt(q, p, hd, sd, st, fo) ==
  /\ \A k \in Streams : k \in hd \/ Opened(k) \in Range(q) =>
       st[k] \in {"open", "dropping", "gone"}
  /\ \A k \in Streams : (k \in hd \/ Opened(k) \in Range(q)) /\ st[k] = "gone" =>
       k \in sd \/ Closed(k) \in Range(q) \union Range(p[k])
  /\ \A k \in Streams : st[k] = "new" => fo[k] = {}
  /\ \A k \in Streams : \A j \in fo[k] : st[j] = "gone" /\ p[j] = << >>
  /\ \A k \in Streams : \A j \in fo[k] : Before(q, Closed(j), Opened(k))
  /\ \A k \in hd : \A j \in fo[k] : Closed(j) \notin Range(q)

\* The invariant in terms of the values of the variables.
LEMMA OrderParts ==
  /\ OrderInv <=> OrderAt(queue, pending, heard, settled, stage, follows)
  /\ OrderInv' <=> OrderAt(queue', pending', heard', settled', stage', follows')
BY DEF OrderInv, OrderAt, Announced, Before

\* A stage change that leaves the order alone.
Onward(s, t) ==
  /\ t = "new" => s = "new"
  /\ s = "gone" <=> t = "gone"
  /\ s \in {"open", "dropping", "gone"} => t \in {"open", "dropping", "gone"}

\* A step that neither announces nor ends a stream.
LEMMA OrderQuiet ==
  ASSUME Types, OrderInv, NEW e \in Events, e.type \notin {"opened", "closed"},
         queue' = queue \/ queue' = Append(queue, e),
         UNCHANGED <<pending, heard, settled, follows>>,
         \A k \in Streams : Onward(stage[k], stage'[k])
  PROVE  OrderInv'
<1>1. queue \in Seq(Events) /\ follows \in [Streams -> SUBSET Streams]
      /\ heard \subseteq Streams
  BY DEF Types, QueueTypes, BridgeTypes, PageTypes
<1>2. Range(Append(queue, e)) = Range(queue) \cup {e}
  BY <1>1, RangeAppend
<1>3. \A k : Opened(k) # e /\ Closed(k) # e
  BY StreamEvents
<1>4. \A k : /\ Opened(k) \in Range(queue') <=> Opened(k) \in Range(queue)
             /\ Closed(k) \in Range(queue') <=> Closed(k) \in Range(queue)
  <2>1. CASE queue' = queue
    BY <2>1
  <2>2. CASE queue' = Append(queue, e)
    BY <1>2, <1>3, <2>2
  <2> QED
    BY <2>1, <2>2
<1>5. ASSUME NEW c, NEW o, Before(queue, c, o), e # c
      PROVE  Before(queue', c, o)
  BY <1>1, <1>5, BeforeAppend
<1>6. OrderAt(queue, pending, heard, settled, stage, follows)
  BY OrderParts
<1>7. \A k \in Streams : \A j \in follows[k] : Before(queue', Closed(j), Opened(k))
  BY <1>3, <1>5, <1>6 DEF OrderAt
<1>8. OrderAt(queue', pending, heard, settled, stage', follows)
  BY <1>1, <1>4, <1>6, <1>7 DEF OrderAt, Onward
<1> QED
  BY <1>8, OrderParts

\* Every action keeps the order.
LEMMA OrderKept ==
  ASSUME Types, StageInv, OrderInv, [Next]_vars
  PROVE  OrderInv'
<1>1. ASSUME NEW k \in Streams, StreamNext(k)
      PROVE  OrderInv'
  <2>1. CASE OpenJob(k)
    <3>1. OrderAt(queue, pending, heard, settled, stage, follows)
      BY OrderParts
    <3>2. /\ queue \in Seq(Events) /\ follows \in [Streams -> SUBSET Streams] /\ heard \subseteq Streams
          /\ stage \in [Streams -> Stages] /\ DOMAIN pending = Streams
          /\ \A j \in Streams : pending[j] \in Bundles(j)
      BY DEF Types, QueueTypes, BridgeTypes, PageTypes
    <3>3. /\ queue' = Append(queue, Plain) /\ stage[k] = "new" /\ ~DeferredFor(Device[k])
          /\ stage' = [stage EXCEPT ![k] = "reserved"]
          /\ follows' = [follows EXCEPT ![k] =
               {j \in Streams : Device[j] = Device[k] /\ stage[j] = "gone"}]
          /\ UNCHANGED <<pending, heard, settled>>
      BY <2>1 DEF OpenJob, historyVars
    <3>4. Plain \in Events /\ Plain.type = "plain"
      BY EventsMade DEF Plain
    <3>5. Range(Append(queue, Plain)) = Range(queue) \cup {Plain}
      BY <3>2, <3>4, RangeAppend
    <3>6. \A j : Opened(j) # Plain /\ Closed(j) # Plain
      BY <3>4, StreamEvents
    <3>7. \A j : /\ Opened(j) \in Range(queue') <=> Opened(j) \in Range(queue)
                 /\ Closed(j) \in Range(queue') <=> Closed(j) \in Range(queue)
      BY <3>3, <3>5, <3>6
    <3>8. k \notin heard /\ Opened(k) \notin Range(queue')
      BY <3>1, <3>3, <3>7 DEF OrderAt
    <3>9. \A j \in Streams : Before(queue', Closed(j), Opened(k))
      BY <3>8 DEF Before, Range
    <3>10. \A l \in Streams : \A j \in follows[l] : Before(queue', Closed(j), Opened(l))
      <4> TAKE l \in Streams
      <4> TAKE j \in follows[l]
      <4>1. Before(queue, Closed(j), Opened(l)) /\ Closed(j) # Plain
        BY <3>1, <3>6 DEF OrderAt
      <4>2. Before(Append(queue, Plain), Closed(j), Opened(l))
        BY <3>2, <3>4, <4>1, BeforeAppend
      <4> QED
        BY <3>3, <4>2
    <3>11. \A j \in Streams : Device[j] = Device[k] => pending[j] = << >>
      BY <3>3 DEF DeferredFor
    <3>12. /\ \A j \in follows'[k] : j \in Streams /\ stage[j] = "gone" /\ pending[j] = << >>
           /\ \A l \in Streams : l # k => follows'[l] = follows[l]
           /\ \A l \in Streams : l # k => stage'[l] = stage[l]
           /\ stage'[k] = "reserved"
      BY <3>2, <3>3, <3>11
    <3>13. OrderAt(queue', pending, heard, settled, stage', follows')
      <4>1. \A l \in Streams : l \in heard \/ Opened(l) \in Range(queue') =>
              stage'[l] \in {"open", "dropping", "gone"}
        BY <3>1, <3>7, <3>8, <3>12 DEF OrderAt
      <4>2. \A l \in Streams : (l \in heard \/ Opened(l) \in Range(queue')) /\ stage'[l] = "gone" =>
              l \in settled \/ Closed(l) \in Range(queue') \union Range(pending[l])
        BY <3>1, <3>7, <3>12 DEF OrderAt
      <4>3. \A l \in Streams : stage'[l] = "new" => follows'[l] = {}
        BY <3>1, <3>12 DEF OrderAt
      <4>4. \A l \in Streams : \A j \in follows'[l] : stage'[j] = "gone" /\ pending[j] = << >>
        BY <3>1, <3>2, <3>3, <3>12 DEF OrderAt
      <4>5. \A l \in Streams : \A j \in follows'[l] : Before(queue', Closed(j), Opened(l))
        BY <3>9, <3>10, <3>12
      <4>6. \A l \in heard : \A j \in follows'[l] : Closed(j) \notin Range(queue')
        BY <3>1, <3>2, <3>7, <3>8, <3>12 DEF OrderAt
      <4> QED
        BY <4>1, <4>2, <4>3, <4>4, <4>5, <4>6 DEF OrderAt
    <3> QED
      BY <3>3, <3>13, OrderParts
  <2>2. CASE OpenRefused(k)
    <3>1. queue' = queue \/ queue' = Append(queue, Plain)
      BY <2>2 DEF OpenRefused, BestEffort, queueVars
    <3>2. UNCHANGED <<pending, heard, settled, follows>>
      BY <2>2 DEF OpenRefused, queueVars, historyVars, bridgeVars
    <3>3. \A j \in Streams : Onward(stage[j], stage'[j])
      BY <2>2 DEF OpenRefused, Onward, Types, BridgeTypes, Stages
    <3>4. Plain \in Events /\ Plain.type \notin {"opened", "closed"}
      BY EventsMade DEF Plain
    <3> QED
      BY <3>1, <3>2, <3>3, <3>4, OrderQuiet
  <2>3. CASE HostRefuses(k)
    <3>1. queue' = queue \/ queue' = Append(queue, Plain)
      BY <2>3 DEF HostRefuses, BestEffort, queueVars
    <3>2. UNCHANGED <<pending, heard, settled, follows>>
      BY <2>3 DEF HostRefuses, queueVars, historyVars, bridgeVars
    <3>3. \A j \in Streams : Onward(stage[j], stage'[j])
      BY <2>3 DEF HostRefuses, Onward, Types, BridgeTypes, Stages
    <3>4. Plain \in Events /\ Plain.type \notin {"opened", "closed"}
      BY EventsMade DEF Plain
    <3> QED
      BY <3>1, <3>2, <3>3, <3>4, OrderQuiet
  <2>4. CASE AnnounceLive(k)
    <3>1. queue' = queue \/ queue' = Append(queue, Plain)
      BY <2>4 DEF AnnounceLive, queueVars
    <3>2. UNCHANGED <<pending, heard, settled, follows>>
      BY <2>4 DEF AnnounceLive, queueVars, historyVars, bridgeVars
    <3>3. \A j \in Streams : Onward(stage[j], stage'[j])
      BY <2>4 DEF AnnounceLive, Onward, Types, BridgeTypes, Stages, bridgeVars
    <3>4. Plain \in Events /\ Plain.type \notin {"opened", "closed"}
      BY EventsMade DEF Plain
    <3> QED
      BY <3>1, <3>2, <3>3, <3>4, OrderQuiet
  <2>5. CASE AnnounceEmit(k)
    <3>1. OrderAt(queue, pending, heard, settled, stage, follows)
      BY OrderParts
    <3>2. /\ queue \in Seq(Events) /\ follows \in [Streams -> SUBSET Streams] /\ heard \subseteq Streams
          /\ stage \in [Streams -> Stages] /\ DOMAIN pending = Streams
          /\ \A j \in Streams : pending[j] \in Bundles(j)
      BY DEF Types, QueueTypes, BridgeTypes, PageTypes
    <3>3. /\ queue' = Append(queue, Opened(k)) /\ stage[k] = "live"
          /\ stage' = [stage EXCEPT ![k] = "open"]
          /\ UNCHANGED <<pending, heard, settled, follows>>
      BY <2>5 DEF AnnounceEmit, historyVars
    <3>4. Opened(k) \in Events
      BY EventsMade
    <3>5. Range(Append(queue, Opened(k))) = Range(queue) \cup {Opened(k)}
      BY <3>2, <3>4, RangeAppend
    <3>6. \A j : /\ Opened(j) \in Range(queue') <=> Opened(j) \in Range(queue) \/ j = k
                 /\ Closed(j) \in Range(queue') <=> Closed(j) \in Range(queue)
      BY <3>3, <3>5, StreamEvents
    <3>7. \A l \in Streams : \A j \in follows[l] : Before(queue', Closed(j), Opened(l))
      <4> TAKE l \in Streams
      <4> TAKE j \in follows[l]
      <4>1. Before(queue, Closed(j), Opened(l)) /\ Closed(j) # Opened(k)
        BY <3>1, StreamEvents DEF OrderAt
      <4>2. Before(Append(queue, Opened(k)), Closed(j), Opened(l))
        BY <3>2, <3>4, <4>1, BeforeAppend
      <4> QED
        BY <3>3, <4>2
    <3>8. /\ \A l \in Streams : l # k => stage'[l] = stage[l]
          /\ stage'[k] = "open"
      BY <3>2, <3>3
    <3>9. OrderAt(queue', pending, heard, settled, stage', follows)
      BY <3>1, <3>2, <3>3, <3>6, <3>7, <3>8 DEF OrderAt
    <3> QED
      BY <3>3, <3>9, OrderParts
  <2>6. CASE OpenJobEnds(k)
    <3>1. queue' = queue \/ queue' = Append(queue, Plain)
      BY <2>6 DEF OpenJobEnds, queueVars
    <3>2. UNCHANGED <<pending, heard, settled, follows>>
      BY <2>6 DEF OpenJobEnds, queueVars, historyVars, bridgeVars
    <3>3. \A j \in Streams : Onward(stage[j], stage'[j])
      BY <2>6 DEF OpenJobEnds, Onward, Types, BridgeTypes, Stages, bridgeVars
    <3>4. Plain \in Events /\ Plain.type \notin {"opened", "closed"}
      BY EventsMade DEF Plain
    <3> QED
      BY <3>1, <3>2, <3>3, <3>4, OrderQuiet
  <2>7. CASE Close(k)
    <3>1. queue' = queue \/ queue' = Append(queue, Plain)
      BY <2>7 DEF Close, queueVars
    <3>2. UNCHANGED <<pending, heard, settled, follows>>
      BY <2>7 DEF Close, queueVars, historyVars, bridgeVars
    <3>3. \A j \in Streams : Onward(stage[j], stage'[j])
      BY <2>7 DEF Close, Onward, Types, BridgeTypes, Stages, bridgeVars
    <3>4. Plain \in Events /\ Plain.type \notin {"opened", "closed"}
      BY EventsMade DEF Plain
    <3> QED
      BY <3>1, <3>2, <3>3, <3>4, OrderQuiet
  <2>8. CASE Drop(k)
    <3>1. queue' = queue \/ queue' = Append(queue, Input(k))
      BY <2>8 DEF Drop, queueVars
    <3>2. UNCHANGED <<pending, heard, settled, follows>>
      BY <2>8 DEF Drop, queueVars, historyVars, bridgeVars
    <3>3. \A j \in Streams : Onward(stage[j], stage'[j])
      BY <2>8 DEF Drop, Onward, Types, BridgeTypes, Stages, bridgeVars
    <3>4. Input(k) \in Events /\ Input(k).type \notin {"opened", "closed"}
      BY EventsMade DEF Input
    <3> QED
      BY <3>1, <3>2, <3>3, <3>4, OrderQuiet
  <2>9. CASE Tightened(k)
    <3>1. OrderAt(queue, pending, heard, settled, stage, follows)
      BY OrderParts
    <3>2. /\ queue \in Seq(Events) /\ follows \in [Streams -> SUBSET Streams] /\ heard \subseteq Streams
          /\ stage \in [Streams -> Stages] /\ DOMAIN pending = Streams
          /\ \A j \in Streams : pending[j] \in Bundles(j)
      BY DEF Types, QueueTypes, BridgeTypes, PageTypes
    <3>3. PICK out, rest :
            /\ TightSplit(k, out, rest) /\ queue' = queue \o out
            /\ \/ settled' = settled \union {k} /\ pending' = pending
               \/ pending' = [pending EXCEPT ![k] = rest] /\ settled' = settled
      BY <2>9, TightenedEffect
    <3>4. /\ stage[k] \in {"dropping", "unannounced"} /\ stage' = [stage EXCEPT ![k] = "gone"]
          /\ heard' = heard /\ follows' = follows
      BY <2>9 DEF Tightened
    <3>5. /\ out \in Seq(Events) /\ Range(out) \subseteq {Released(k), Closed(k)}
          /\ stage[k] = "dropping" => Closed(k) \in Range(out) \cup Range(rest)
      BY <3>3, TightSplitParts
    <3>6. Range(queue \o out) = Range(queue) \cup Range(out)
      BY <3>2, <3>5, RangeConcat
    <3>7. /\ \A j : Opened(j) \in Range(queue') <=> Opened(j) \in Range(queue)
          /\ \A j : j # k => (Closed(j) \in Range(queue') <=> Closed(j) \in Range(queue))
          /\ \A j : j # k => Closed(j) \notin Range(out)
          /\ \A e \in Range(queue) : e \in Range(queue')
          /\ \A e \in Range(out) : e \in Range(queue')
      BY <3>3, <3>5, <3>6, StreamEvents, TighteningEvents
    <3>8. \A l \in Streams : \A j \in follows[l] : j # k
      BY <3>1, <3>4 DEF OrderAt
    <3>9. \A l \in Streams : \A j \in follows[l] : Before(queue', Closed(j), Opened(l))
      <4> TAKE l \in Streams
      <4> TAKE j \in follows[l]
      <4>1. Before(queue, Closed(j), Opened(l)) /\ Closed(j) \notin Range(out)
        BY <3>1, <3>7, <3>8 DEF OrderAt
      <4>2. Before(queue \o out, Closed(j), Opened(l))
        BY <3>2, <3>5, <4>1, BeforeConcat
      <4> QED
        BY <3>3, <4>2
    <3>10. /\ \A l \in Streams : l # k => stage'[l] = stage[l] /\ pending'[l] = pending[l]
           /\ stage'[k] = "gone"
           /\ settled \subseteq settled'
      BY <3>2, <3>3, <3>4
    <3>11. stage[k] = "dropping" => k \in settled' \/ Closed(k) \in Range(queue') \union Range(pending'[k])
      <4>1. CASE settled' = settled \union {k}
        BY <4>1
      <4>2. CASE pending' = [pending EXCEPT ![k] = rest]
        <5>1. pending'[k] = rest
          BY <3>2, <4>2
        <5> QED
          BY <3>5, <3>7, <5>1
      <4> QED
        BY <3>3, <4>1, <4>2
    <3>12. OrderAt(queue', pending', heard, settled', stage', follows)
      <4>1. \A l \in Streams : l \in heard \/ Opened(l) \in Range(queue') =>
              stage'[l] \in {"open", "dropping", "gone"}
        BY <3>1, <3>7, <3>10 DEF OrderAt
      <4>2. \A l \in Streams : (l \in heard \/ Opened(l) \in Range(queue')) /\ stage'[l] = "gone" =>
              l \in settled' \/ Closed(l) \in Range(queue') \union Range(pending'[l])
        <5> TAKE l \in Streams
        <5>1. CASE l = k
          BY <3>1, <3>4, <3>7, <3>11, <5>1 DEF OrderAt
        <5>2. CASE l # k
          BY <3>1, <3>7, <3>10, <5>2 DEF OrderAt
        <5> QED
          BY <5>1, <5>2
      <4>3. \A l \in Streams : stage'[l] = "new" => follows[l] = {}
        BY <3>1, <3>10 DEF OrderAt
      <4>4. \A l \in Streams : \A j \in follows[l] : stage'[j] = "gone" /\ pending'[j] = << >>
        BY <3>1, <3>2, <3>8, <3>10 DEF OrderAt
      <4>5. \A l \in heard : \A j \in follows[l] : Closed(j) \notin Range(queue')
        BY <3>1, <3>2, <3>7, <3>8 DEF OrderAt
      <4> QED
        BY <3>9, <4>1, <4>2, <4>3, <4>4, <4>5 DEF OrderAt
    <3> QED
      BY <3>4, <3>12, OrderParts
  <2>10. CASE InputChecks(k)
    <3>1. queue' = queue \/ queue' = Append(queue, Plain)
      BY <2>10 DEF InputChecks, queueVars
    <3>2. UNCHANGED <<pending, heard, settled, follows>>
      BY <2>10 DEF InputChecks, queueVars, historyVars, bridgeVars
    <3>3. \A j \in Streams : Onward(stage[j], stage'[j])
      BY <2>10 DEF InputChecks, Onward, Types, BridgeTypes, Stages, bridgeVars
    <3>4. Plain \in Events /\ Plain.type \notin {"opened", "closed"}
      BY EventsMade DEF Plain
    <3> QED
      BY <3>1, <3>2, <3>3, <3>4, OrderQuiet
  <2>11. CASE InputAudits(k)
    <3>1. queue' = queue \/ queue' = Append(queue, Input(k))
      BY <2>11 DEF InputAudits, queueVars
    <3>2. UNCHANGED <<pending, heard, settled, follows>>
      BY <2>11 DEF InputAudits, queueVars, historyVars, bridgeVars
    <3>3. \A j \in Streams : Onward(stage[j], stage'[j])
      BY <2>11 DEF InputAudits, Onward, Types, BridgeTypes, Stages, bridgeVars
    <3>4. Input(k) \in Events /\ Input(k).type \notin {"opened", "closed"}
      BY EventsMade DEF Input
    <3> QED
      BY <3>1, <3>2, <3>3, <3>4, OrderQuiet
  <2>12. CASE InputStarts(k)
    <3>1. queue' = queue \/ queue' = Append(queue, Plain)
      BY <2>12 DEF InputStarts, queueVars
    <3>2. UNCHANGED <<pending, heard, settled, follows>>
      BY <2>12 DEF InputStarts, queueVars, historyVars, bridgeVars
    <3>3. \A j \in Streams : Onward(stage[j], stage'[j])
      BY <2>12 DEF InputStarts, Onward, Types, BridgeTypes, Stages, bridgeVars
    <3>4. Plain \in Events /\ Plain.type \notin {"opened", "closed"}
      BY EventsMade DEF Plain
    <3> QED
      BY <3>1, <3>2, <3>3, <3>4, OrderQuiet
  <2>13. CASE BucketDue(k)
    <3>1. queue' = queue \/ queue' = Append(queue, Input(k))
      BY <2>13 DEF BucketDue, queueVars
    <3>2. UNCHANGED <<pending, heard, settled, follows>>
      BY <2>13 DEF BucketDue, queueVars, historyVars, bridgeVars
    <3>3. \A j \in Streams : Onward(stage[j], stage'[j])
      BY <2>13 DEF BucketDue, Onward, Types, BridgeTypes, Stages, bridgeVars
    <3>4. Input(k) \in Events /\ Input(k).type \notin {"opened", "closed"}
      BY EventsMade DEF Input
    <3> QED
      BY <3>1, <3>2, <3>3, <3>4, OrderQuiet
  <2>14. CASE OpenStarts(k)
    <3>1. queue' = queue \/ queue' = Append(queue, Plain)
      BY <2>14 DEF OpenStarts, queueVars
    <3>2. UNCHANGED <<pending, heard, settled, follows>>
      BY <2>14 DEF OpenStarts, queueVars, historyVars, bridgeVars
    <3>3. \A j \in Streams : Onward(stage[j], stage'[j])
      BY <2>14 DEF OpenStarts, Onward, Types, BridgeTypes, Stages, bridgeVars
    <3>4. Plain \in Events /\ Plain.type \notin {"opened", "closed"}
      BY EventsMade DEF Plain
    <3> QED
      BY <3>1, <3>2, <3>3, <3>4, OrderQuiet
  <2>15. CASE OpenFailed(k)
    <3>1. queue' = queue \/ queue' = Append(queue, Plain)
      BY <2>15 DEF OpenFailed, BestEffort, queueVars
    <3>2. UNCHANGED <<pending, heard, settled, follows>>
      BY <2>15 DEF OpenFailed, queueVars, historyVars, bridgeVars
    <3>3. \A j \in Streams : Onward(stage[j], stage'[j])
      BY <2>15 DEF OpenFailed, Onward, Types, BridgeTypes, Stages
    <3>4. Plain \in Events /\ Plain.type \notin {"opened", "closed"}
      BY EventsMade DEF Plain
    <3> QED
      BY <3>1, <3>2, <3>3, <3>4, OrderQuiet
  <2> QED
    BY <1>1, <2>1, <2>2, <2>3, <2>4, <2>5, <2>6, <2>7, <2>8, <2>9, <2>10, <2>11, <2>12,
       <2>13, <2>14, <2>15 DEF StreamNext
<1>2. CASE Flush
  <2>1. OrderAt(queue, pending, heard, settled, stage, follows)
    BY OrderParts
  <2>2. /\ queue \in Seq(Events) /\ follows \in [Streams -> SUBSET Streams] /\ heard \subseteq Streams
        /\ stage \in [Streams -> Stages] /\ DOMAIN pending = Streams
        /\ \A j \in Streams : pending[j] \in Bundles(j)
    BY DEF Types, QueueTypes, BridgeTypes, PageTypes
  <2>3. PICK n, out : FlushTells(n, out) /\ FlushReports(queue \o out)
    BY <1>2, FlushEffect
  <2>4. out \in Seq(Events) /\ Range(out) = Told(n)
    BY <2>3 DEF FlushTells
  <2>5. /\ \A k \in Streams : Range(pending'[k]) = Range(pending[k]) \ Told(n)
        /\ \A e \in Told(n) : \E k \in Streams : e \in Range(pending[k])
        /\ \A k \in Streams : pending[k] = << >> => pending'[k] = << >>
    BY <2>3, FlushKept DEF FlushTells
  <2>6. heard' = heard /\ settled' = settled /\ follows' = follows /\ stage' = stage
    BY <1>2 DEF Flush, historyVars, bridgeVars
  <2>7. \A k \in Streams : Range(pending[k]) \subseteq {Released(k), Closed(k)}
    BY <2>2, BundleLen
  <2>8. \A j \in Streams : Opened(j) \notin Told(n)
    BY <2>5, <2>7, StreamEvents
  <2>9. \A j \in Streams : pending[j] = << >> => Closed(j) \notin Told(n)
    <3> SUFFICES ASSUME NEW j \in Streams, pending[j] = << >>, Closed(j) \in Told(n)
                 PROVE  FALSE
      OBVIOUS
    <3>1. PICK k \in Streams : Closed(j) \in Range(pending[k])
      BY <2>5
    <3>2. Closed(j) \in {Released(k), Closed(k)}
      BY <2>7, <3>1
    <3>3. j = k
      BY <3>2, TighteningEvents
    <3>4. Range(pending[k]) = {}
      BY <3>3, ShortRanges
    <3> QED
      BY <3>1, <3>4
  <2>10. PICK q : q = queue \o out
    OBVIOUS
  <2>11. q \in Seq(Events) /\ Range(q) = Range(queue) \cup Told(n)
    BY <2>2, <2>4, <2>10, RangeConcat, ConcatProperties
  <2>12. \A l \in Streams : \A j \in follows[l] :
           j \in Streams /\ Closed(j) \notin Told(n) /\ Before(q, Closed(j), Opened(l))
    <3> TAKE l \in Streams
    <3> TAKE j \in follows[l]
    <3>1. j \in Streams /\ pending[j] = << >> /\ Before(queue, Closed(j), Opened(l))
      BY <2>1, <2>2 DEF OrderAt
    <3>2. Closed(j) \notin Told(n)
      BY <2>9, <3>1
    <3>3. Before(queue \o out, Closed(j), Opened(l))
      BY <2>2, <2>4, <3>1, <3>2, BeforeConcat
    <3> QED
      BY <2>10, <3>1, <3>2, <3>3
  <2>13. Dropped(record) \in Events /\ Dropped(record).type = "dropped"
    BY EventsMade DEF Types, QueueTypes, Dropped
  <2>14. queue' = q \/ queue' = Append(q, Dropped(record))
    BY <2>3, <2>10 DEF FlushReports
  <2>15. \A j : Opened(j) # Dropped(record) /\ Closed(j) # Dropped(record)
    BY <2>13, StreamEvents
  <2>16. \A l \in Streams : \A j \in follows[l] : Before(queue', Closed(j), Opened(l))
    <3> TAKE l \in Streams
    <3> TAKE j \in follows[l]
    <3>1. Before(Append(q, Dropped(record)), Closed(j), Opened(l))
      BY <2>11, <2>12, <2>13, <2>15, BeforeAppend
    <3> QED
      BY <2>12, <2>14, <3>1
  <2>17. Range(Append(q, Dropped(record))) = Range(q) \cup {Dropped(record)}
    BY <2>11, <2>13, RangeAppend
  <2>18. \A j : /\ Opened(j) \in Range(queue') <=> Opened(j) \in Range(q)
                /\ Closed(j) \in Range(queue') <=> Closed(j) \in Range(q)
    BY <2>14, <2>15, <2>17
  <2>19. OrderAt(queue', pending', heard, settled, stage, follows)
    <3>1. \A k \in Streams : Opened(k) \in Range(queue') <=> Opened(k) \in Range(queue)
      BY <2>8, <2>11, <2>18
    <3>2. \A k \in Streams : k \in heard \/ Opened(k) \in Range(queue') =>
            stage[k] \in {"open", "dropping", "gone"}
      BY <2>1, <3>1 DEF OrderAt
    <3>3. \A k \in Streams : (k \in heard \/ Opened(k) \in Range(queue')) /\ stage[k] = "gone" =>
            k \in settled \/ Closed(k) \in Range(queue') \union Range(pending'[k])
      BY <2>1, <2>5, <2>11, <2>18, <3>1 DEF OrderAt
    <3>4. \A k \in Streams : \A j \in follows[k] : stage[j] = "gone" /\ pending'[j] = << >>
      BY <2>1, <2>5, <2>12 DEF OrderAt
    <3>5. \A k \in heard : \A j \in follows[k] : Closed(j) \notin Range(queue')
      BY <2>1, <2>2, <2>11, <2>12, <2>18 DEF OrderAt
    <3> QED
      BY <2>1, <2>16, <3>2, <3>3, <3>4, <3>5 DEF OrderAt
  <2> QED
    BY <2>6, <2>19, OrderParts
<1>3. CASE PlainAudit
  <2>1. queue' = queue \/ queue' = Append(queue, Plain)
    BY <1>3 DEF PlainAudit, BestEffort, queueVars
  <2>2. UNCHANGED <<pending, heard, settled, follows>>
    BY <1>3 DEF PlainAudit, queueVars, historyVars, bridgeVars
  <2>3. \A j \in Streams : Onward(stage[j], stage'[j])
    BY <1>3 DEF PlainAudit, Onward, bridgeVars
  <2>4. Plain \in Events /\ Plain.type \notin {"opened", "closed"}
    BY EventsMade DEF Plain
  <2> QED
    BY <2>1, <2>2, <2>3, <2>4, OrderQuiet
<1>4. CASE OtherEvent
  <2>1. queue' = queue \/ queue' = Append(queue, Lifecycle)
    BY <1>4 DEF OtherEvent, queueVars
  <2>2. UNCHANGED <<pending, heard, settled, follows>>
    BY <1>4 DEF OtherEvent, queueVars, historyVars, bridgeVars
  <2>3. \A j \in Streams : Onward(stage[j], stage'[j])
    BY <1>4 DEF OtherEvent, Onward, bridgeVars
  <2>4. Lifecycle \in Events /\ Lifecycle.type \notin {"opened", "closed"}
    BY EventsMade DEF Lifecycle
  <2> QED
    BY <2>1, <2>2, <2>3, <2>4, OrderQuiet
<1>5. CASE Deliver
  <2>1. OrderAt(queue, pending, heard, settled, stage, follows)
    BY OrderParts
  <2>2. /\ queue \in Seq(Events) /\ follows \in [Streams -> SUBSET Streams] /\ heard \subseteq Streams
        /\ stage \in [Streams -> Stages] /\ DOMAIN pending = Streams
        /\ \A j \in Streams : pending[j] \in Bundles(j)
    BY DEF Types, QueueTypes, BridgeTypes, PageTypes
  <2>3. PICK e : e = Head(queue)
    OBVIOUS
  <2>4. /\ queue # << >> /\ queue' = Tail(queue) /\ UNCHANGED <<pending, stage, follows>>
        /\ heard' = IF e.type = "opened" THEN heard \union {e.stream} ELSE heard
        /\ settled' = IF e.type = "closed" THEN settled \union {e.stream} ELSE settled
    BY <1>5, <2>3 DEF Deliver, bridgeVars
  <2>5. e \in Events /\ Range(queue) = {e} \cup Range(Tail(queue))
    BY <2>2, <2>3, <2>4, SumTail, RangeTail
  <2>6. /\ e.type = "opened" => e.stream \in Streams /\ e = Opened(e.stream)
        /\ e.type = "closed" => e.stream \in Streams /\ e = Closed(e.stream)
    BY <2>5, EventFields
  <2>7. \A k : /\ k \in heard' => k \in heard \/ e = Opened(k)
               /\ k \in heard => k \in heard'
               /\ e = Closed(k) => k \in settled'
               /\ k \in settled => k \in settled'
    BY <2>4, <2>6, StreamEvents
  <2>8. \A k \in Streams : \A j \in follows[k] :
          Before(Tail(queue), Closed(j), Opened(k)) /\ (e = Opened(k) => Closed(j) \notin Range(queue))
    <3> TAKE k \in Streams
    <3> TAKE j \in follows[k]
    <3>1. Before(queue, Closed(j), Opened(k))
      BY <2>1 DEF OrderAt
    <3> QED
      BY <2>2, <2>3, <2>4, <3>1, BeforeTail
  <2>9. heard' \subseteq Streams
    BY <2>2, <2>4, <2>6
  <2>10. OrderAt(Tail(queue), pending, heard', settled', stage, follows)
    <3>1. \A k \in Streams : k \in heard' \/ Opened(k) \in Range(Tail(queue)) =>
            k \in heard \/ Opened(k) \in Range(queue)
      BY <2>5, <2>7
    <3>2. \A k \in Streams : k \in heard' \/ Opened(k) \in Range(Tail(queue)) =>
            stage[k] \in {"open", "dropping", "gone"}
      BY <2>1, <3>1 DEF OrderAt
    <3>3. \A k \in Streams : (k \in heard' \/ Opened(k) \in Range(Tail(queue))) /\ stage[k] = "gone" =>
            k \in settled' \/ Closed(k) \in Range(Tail(queue)) \union Range(pending[k])
      BY <2>1, <2>5, <2>7, <3>1 DEF OrderAt
    <3>4. \A k \in heard' : \A j \in follows[k] : Closed(j) \notin Range(Tail(queue))
      BY <2>1, <2>5, <2>7, <2>8, <2>9 DEF OrderAt
    <3> QED
      BY <2>1, <2>8, <3>2, <3>3, <3>4 DEF OrderAt
  <2> QED
    BY <2>4, <2>10, OrderParts
<1>6. CASE Reconcile
  <2>1. queue' = queue \/ queue' = Append(queue, Plain)
    BY <1>6 DEF Reconcile, queueVars
  <2>2. UNCHANGED <<pending, heard, settled, follows>>
    BY <1>6 DEF Reconcile, queueVars, historyVars, bridgeVars
  <2>3. \A j \in Streams : Onward(stage[j], stage'[j])
    BY <1>6 DEF Reconcile, Onward, bridgeVars
  <2>4. Plain \in Events /\ Plain.type \notin {"opened", "closed"}
    BY EventsMade DEF Plain
  <2> QED
    BY <2>1, <2>2, <2>3, <2>4, OrderQuiet
<1>7. CASE Answer
  <2>1. queue' = queue \/ queue' = Append(queue, Plain)
    BY <1>7 DEF Answer, queueVars
  <2>2. UNCHANGED <<pending, heard, settled, follows>>
    BY <1>7 DEF Answer, queueVars, historyVars, bridgeVars
  <2>3. \A j \in Streams : Onward(stage[j], stage'[j])
    BY <1>7 DEF Answer, Onward, bridgeVars
  <2>4. Plain \in Events /\ Plain.type \notin {"opened", "closed"}
    BY EventsMade DEF Plain
  <2> QED
    BY <2>1, <2>2, <2>3, <2>4, OrderQuiet
<1>8. CASE AnswerQueued
  <2>1. queue' = queue \o answer /\ answer # << >> /\ UNCHANGED <<pending, heard, settled, follows>>
        /\ stage' = stage
    BY <1>8 DEF AnswerQueued, historyVars, bridgeVars
  <2>2. PICK s \in Snapshots : answer = <<s>>
    BY <2>1 DEF Types, PageTypes
  <2>3. s \in Events /\ s.type \notin {"opened", "closed"}
    BY EventsMade DEF Snapshots
  <2>4. queue \in Seq(Events)
    BY DEF Types, QueueTypes
  <2>5. queue' = Append(queue, s)
    BY <2>1, <2>2, <2>3, <2>4, AppendIsConcat
  <2>6. \A j \in Streams : Onward(stage[j], stage'[j])
    BY <2>1 DEF Onward
  <2> QED
    BY <2>1, <2>3, <2>5, <2>6, OrderQuiet
<1>9. CASE GiveUp
  <2>1. queue' = queue \/ queue' = Append(queue, Plain)
    BY <1>9 DEF GiveUp, queueVars
  <2>2. UNCHANGED <<pending, heard, settled, follows>>
    BY <1>9 DEF GiveUp, queueVars, historyVars, bridgeVars
  <2>3. \A j \in Streams : Onward(stage[j], stage'[j])
    BY <1>9 DEF GiveUp, Onward, bridgeVars
  <2>4. Plain \in Events /\ Plain.type \notin {"opened", "closed"}
    BY EventsMade DEF Plain
  <2> QED
    BY <2>1, <2>2, <2>3, <2>4, OrderQuiet
<1>10. CASE PageReply
  <2>1. queue' = queue \/ queue' = Append(queue, Plain)
    BY <1>10 DEF PageReply, queueVars
  <2>2. UNCHANGED <<pending, heard, settled, follows>>
    BY <1>10 DEF PageReply, queueVars, historyVars, bridgeVars
  <2>3. \A j \in Streams : Onward(stage[j], stage'[j])
    BY <1>10 DEF PageReply, Onward, bridgeVars
  <2>4. Plain \in Events /\ Plain.type \notin {"opened", "closed"}
    BY EventsMade DEF Plain
  <2> QED
    BY <2>1, <2>2, <2>3, <2>4, OrderQuiet
<1>11. CASE PageEvent
  <2>1. queue' = queue \/ queue' = Append(queue, Plain)
    BY <1>11 DEF PageEvent, queueVars
  <2>2. UNCHANGED <<pending, heard, settled, follows>>
    BY <1>11 DEF PageEvent, queueVars, historyVars, bridgeVars
  <2>3. \A j \in Streams : Onward(stage[j], stage'[j])
    BY <1>11 DEF PageEvent, Onward, bridgeVars
  <2>4. Plain \in Events /\ Plain.type \notin {"opened", "closed"}
    BY EventsMade DEF Plain
  <2> QED
    BY <2>1, <2>2, <2>3, <2>4, OrderQuiet
<1>12. CASE Crash
  <2>1. /\ queue' = << >> /\ heard' = {} /\ follows' = [k \in Streams |-> {}]
    BY <1>12 DEF Crash
  <2>2. Range(<< >>) = {}
    BY ShortRanges
  <2> QED
    BY <2>1, <2>2 DEF OrderInv, Announced
<1>13. CASE UNCHANGED vars
  BY <1>13 DEF vars, queueVars, historyVars, bridgeVars, OrderInv, Announced
<1> QED
  BY <1>1, <1>2, <1>3, <1>4, <1>5, <1>6, <1>7, <1>8, <1>9, <1>10, <1>11, <1>12, <1>13
     DEF Next

-----------------------------------------------------------------------------
(***************************************************************************)
(* The request of the page.                                                *)
(***************************************************************************)
\* Adding none keeps at most one.
LEMMA OnceConcat ==
  ASSUME NEW T, NEW q \in Seq(T), NEW r \in Seq(T), NEW M, Once(q, M), ~Has(r, M)
  PROVE  Once(q \o r, M)
<1>1. PICK v : v = q \o r
  OBVIOUS
<1>2. PICK n, m \in Nat : n = Len(q) /\ m = Len(r)
  OBVIOUS
<1>3. /\ DOMAIN q = 1 .. n /\ DOMAIN r = 1 .. m /\ DOMAIN v = 1 .. (n + m)
      /\ \A i \in 1 .. n : v[i] = q[i]
      /\ \A i \in 1 .. m : v[n + i] = r[i]
  BY <1>1, <1>2
<1>4. ASSUME NEW i \in 1 .. (n + m), v[i] \in M
      PROVE  i \in 1 .. n /\ q[i] \in M
  <2>1. i <= n
    <3> SUFFICES ASSUME ~(i <= n)
                 PROVE  FALSE
      OBVIOUS
    <3>1. i - n \in 1 .. m /\ i = n + (i - n)
      OBVIOUS
    <3>2. PICK l \in 1 .. m : i = n + l
      BY <3>1
    <3>3. r[l] \in M /\ r[l] \in Range(r)
      BY <1>3, <1>4, <3>2 DEF Range
    <3> QED
      BY <3>3 DEF Has
  <2>2. i \in 1 .. n
    BY <2>1
  <2> QED
    BY <1>3, <1>4, <2>2
<1>5. Once(v, M)
  BY <1>3, <1>4 DEF Once
<1> QED
  BY <1>1, <1>5

\* Adding one to none, or another event, keeps at most one.
LEMMA OnceAppend ==
  ASSUME NEW T, NEW q \in Seq(T), NEW e \in T, NEW M, Once(q, M), e \notin M \/ ~Has(q, M)
  PROVE  Once(Append(q, e), M)
<1>1. PICK v : v = Append(q, e)
  OBVIOUS
<1>2. PICK n \in Nat : n = Len(q)
  OBVIOUS
<1>3. /\ DOMAIN q = 1 .. n /\ DOMAIN v = 1 .. (n + 1) /\ v[n + 1] = e
      /\ \A i \in 1 .. n : v[i] = q[i]
  BY <1>1, <1>2
<1>4. \A i \in 1 .. (n + 1) : i \in 1 .. n \/ i = n + 1
  OBVIOUS
<1>5. \A i \in 1 .. n : q[i] \in Range(q)
  BY <1>3 DEF Range
<1>6. CASE e \notin M
  BY <1>3, <1>4, <1>6 DEF Once
<1>7. CASE ~Has(q, M)
  <2>1. \A i \in 1 .. n : v[i] \notin M
    BY <1>3, <1>5, <1>7 DEF Has
  <2>2. \A i \in 1 .. (n + 1) : v[i] \in M => i = n + 1
    BY <1>4, <2>1
  <2> QED
    BY <1>1, <1>3, <2>2 DEF Once
<1> QED
  BY <1>1, <1>6, <1>7

\* Taking the one leaves none.
LEMMA OnceTail ==
  ASSUME NEW T, NEW q \in Seq(T), q # << >>, NEW M, Once(q, M)
  PROVE  /\ Once(Tail(q), M)
         /\ Head(q) \in M => ~Has(Tail(q), M)
<1>1. PICK t, h : t = Tail(q) /\ h = Head(q)
  OBVIOUS
<1>2. PICK n \in Nat : n = Len(q)
  OBVIOUS
<1>3. /\ n >= 1 /\ DOMAIN q = 1 .. n /\ DOMAIN t = 1 .. (n - 1) /\ q[1] = h
      /\ \A i \in 1 .. (n - 1) : t[i] = q[i + 1]
  BY <1>1, <1>2
<1>4. ASSUME NEW i \in DOMAIN t, NEW j \in DOMAIN t, t[i] \in M, t[j] \in M
      PROVE  i = j
  <2>1. PICK a, b : a = i + 1 /\ b = j + 1
    OBVIOUS
  <2>2. a \in 1 .. n /\ b \in 1 .. n /\ i \in Int /\ j \in Int
    BY <1>3, <2>1
  <2>3. q[a] \in M /\ q[b] \in M
    BY <1>3, <1>4, <2>1
  <2>4. a = b
    BY <1>3, <2>2, <2>3 DEF Once
  <2> QED
    BY <2>1, <2>2, <2>4
<1>5. Once(t, M)
  BY <1>4 DEF Once
<1>6. ASSUME h \in M, NEW e \in M, e \in Range(t)
      PROVE  FALSE
  <2>1. PICK j \in 1 .. (n - 1) : e = t[j]
    BY <1>3, <1>6 DEF Range
  <2>2. PICK b : b = j + 1
    OBVIOUS
  <2>3. 1 \in 1 .. n /\ b \in 1 .. n /\ b # 1
    BY <1>3, <2>2
  <2>4. q[b] \in M /\ q[1] \in M
    BY <1>3, <1>6, <2>1, <2>2
  <2> QED
    BY <1>3, <2>3, <2>4 DEF Once
<1> QED
  BY <1>1, <1>5, <1>6 DEF Has

\* The snapshots with an id.
LEMMA SnapshotFields ==
  /\ \A t, S : Snapshot(t, S).type = "snapshot" /\ Snapshot(t, S).id = t /\ Snapshot(t, S).streams = S
  /\ \A e \in Snapshots : e.type = "snapshot" /\ e.id \in Nat /\ e.streams \in SUBSET Streams
                          /\ e = Snapshot(e.id, e.streams)
  /\ \A t : \A e \in MineOf(t) : e.type = "snapshot" /\ e.id = t
  /\ \A t : \A e \in Snapshots : e.id = t => e \in MineOf(t)
<1>1. \A t, S : Snapshot(t, S).type = "snapshot" /\ Snapshot(t, S).id = t /\ Snapshot(t, S).streams = S
  BY DEF Snapshot
<1>2. \A e \in Snapshots : e.type = "snapshot" /\ e.id \in Nat /\ e.streams \in SUBSET Streams
                          /\ e = Snapshot(e.id, e.streams)
  BY DEF Snapshots, Snapshot
<1>3. \A t : \A e \in MineOf(t) : e.type = "snapshot" /\ e.id = t
  BY <1>1 DEF MineOf
<1>4. \A t : \A e \in Snapshots : e.id = t => e \in MineOf(t)
  BY <1>2 DEF MineOf
<1> QED
  BY <1>1, <1>2, <1>3, <1>4

\* A step of the bridge.
LEMMA RequestConcat ==
  ASSUME Types, RequestInv, NEW out \in Seq(Events),
         \A e \in Range(out) : e.type # "snapshot",
         queue' = queue \o out,
         UNCHANGED <<asked, answer, waiting, reply, recon, timeouts>>
  PROVE  RequestInv'
<1>1. queue \in Seq(Events)
  BY DEF Types, QueueTypes
<1>2. Range(queue') = Range(queue) \cup Range(out)
  BY <1>1, RangeConcat
<1>3. ~Has(out, MineOf(timeouts))
  BY SnapshotFields DEF Has
<1>4. Has(queue', MineOf(timeouts)) <=> Has(queue, MineOf(timeouts))
  BY <1>2, <1>3 DEF Has
<1>5. RequestAt(asked, answer, queue, waiting, timeouts)
  BY DEF RequestInv
<1>6. Once(queue \o out, MineOf(timeouts))
  BY <1>1, <1>3, <1>5, OnceConcat DEF RequestAt
<1>7. RequestAt(asked, answer, queue', waiting, timeouts)
  BY <1>2, <1>4, <1>5, <1>6 DEF RequestAt
<1> QED
  BY <1>7 DEF RequestInv

\* The same for a single event.
LEMMA RequestAppend ==
  ASSUME Types, RequestInv, NEW e \in Events, e.type # "snapshot",
         queue' = queue \/ queue' = Append(queue, e),
         UNCHANGED <<asked, answer, waiting, reply, recon, timeouts>>
  PROVE  RequestInv'
<1>1. queue \in Seq(Events)
  BY DEF Types, QueueTypes
<1>2. CASE queue' = queue
  BY <1>2 DEF RequestInv
<1>3. CASE queue' = Append(queue, e)
  <2>1. PICK out : out = <<e>>
    OBVIOUS
  <2>2. out \in Seq(Events) /\ Range(out) = {e}
    <3>1. out \in Seq(Events)
      BY <2>1
    <3>2. Range(out) = {e}
      BY <2>1, ShortRanges
    <3> QED
      BY <3>1, <3>2
  <2>3. queue' = queue \o out
    BY <1>1, <1>3, <2>1, AppendIsConcat
  <2> QED
    BY <2>2, <2>3, RequestConcat
<1> QED
  BY <1>2, <1>3

\* Every action keeps the request and its answer in one place.
LEMMA RequestKept ==
  ASSUME Types, RequestInv, [Next]_vars
  PROVE  RequestInv'
<1>1. ASSUME NEW k \in Streams, StreamNext(k)
      PROVE  RequestInv'
  <2>1. CASE OpenJob(k)
    <3>1. queue' = queue \/ queue' = Append(queue, Plain)
      BY <2>1 DEF OpenJob, queueVars
    <3>2. UNCHANGED <<asked, answer, waiting, reply, recon, timeouts>>
      BY <2>1 DEF OpenJob, replyVars, pageVars, countVars
    <3>3. Plain \in Events /\ Plain.type # "snapshot"
      BY EventsMade DEF Plain
    <3> QED
      BY <3>1, <3>2, <3>3, RequestAppend
  <2>2. CASE OpenRefused(k)
    <3>1. queue' = queue \/ queue' = Append(queue, Plain)
      BY <2>2 DEF OpenRefused, BestEffort, queueVars
    <3>2. UNCHANGED <<asked, answer, waiting, reply, recon, timeouts>>
      BY <2>2 DEF OpenRefused, replyVars, pageVars, countVars
    <3>3. Plain \in Events /\ Plain.type # "snapshot"
      BY EventsMade DEF Plain
    <3> QED
      BY <3>1, <3>2, <3>3, RequestAppend
  <2>3. CASE HostRefuses(k)
    <3>1. queue' = queue \/ queue' = Append(queue, Plain)
      BY <2>3 DEF HostRefuses, BestEffort, queueVars
    <3>2. UNCHANGED <<asked, answer, waiting, reply, recon, timeouts>>
      BY <2>3 DEF HostRefuses, replyVars, pageVars, countVars
    <3>3. Plain \in Events /\ Plain.type # "snapshot"
      BY EventsMade DEF Plain
    <3> QED
      BY <3>1, <3>2, <3>3, RequestAppend
  <2>4. CASE AnnounceLive(k)
    <3>1. queue' = queue \/ queue' = Append(queue, Plain)
      BY <2>4 DEF AnnounceLive, queueVars
    <3>2. UNCHANGED <<asked, answer, waiting, reply, recon, timeouts>>
      BY <2>4 DEF AnnounceLive, replyVars, pageVars, countVars
    <3>3. Plain \in Events /\ Plain.type # "snapshot"
      BY EventsMade DEF Plain
    <3> QED
      BY <3>1, <3>2, <3>3, RequestAppend
  <2>5. CASE AnnounceEmit(k)
    <3>1. queue' = queue \/ queue' = Append(queue, Opened(k))
      BY <2>5 DEF AnnounceEmit, queueVars
    <3>2. UNCHANGED <<asked, answer, waiting, reply, recon, timeouts>>
      BY <2>5 DEF AnnounceEmit, replyVars, pageVars, countVars
    <3>3. Opened(k) \in Events /\ Opened(k).type # "snapshot"
      BY EventsMade DEF Opened
    <3> QED
      BY <3>1, <3>2, <3>3, RequestAppend
  <2>6. CASE OpenJobEnds(k)
    <3>1. queue' = queue \/ queue' = Append(queue, Plain)
      BY <2>6 DEF OpenJobEnds, queueVars
    <3>2. UNCHANGED <<asked, answer, waiting, reply, recon, timeouts>>
      BY <2>6 DEF OpenJobEnds, replyVars, pageVars, countVars
    <3>3. Plain \in Events /\ Plain.type # "snapshot"
      BY EventsMade DEF Plain
    <3> QED
      BY <3>1, <3>2, <3>3, RequestAppend
  <2>7. CASE Close(k)
    <3>1. queue' = queue \/ queue' = Append(queue, Plain)
      BY <2>7 DEF Close, queueVars
    <3>2. UNCHANGED <<asked, answer, waiting, reply, recon, timeouts>>
      BY <2>7 DEF Close, replyVars, pageVars, countVars
    <3>3. Plain \in Events /\ Plain.type # "snapshot"
      BY EventsMade DEF Plain
    <3> QED
      BY <3>1, <3>2, <3>3, RequestAppend
  <2>8. CASE Drop(k)
    <3>1. queue' = queue \/ queue' = Append(queue, Input(k))
      BY <2>8 DEF Drop, queueVars
    <3>2. UNCHANGED <<asked, answer, waiting, reply, recon, timeouts>>
      BY <2>8 DEF Drop, replyVars, pageVars, countVars
    <3>3. Input(k) \in Events /\ Input(k).type # "snapshot"
      BY EventsMade DEF Input
    <3> QED
      BY <3>1, <3>2, <3>3, RequestAppend
  <2>9. CASE Tightened(k)
    <3>1. PICK out, rest : TightSplit(k, out, rest) /\ queue' = queue \o out
      BY <2>9, TightenedEffect
    <3>2. out \in Seq(Events) /\ Range(out) \subseteq {Released(k), Closed(k)}
      BY <3>1, TightSplitParts
    <3>3. \A e \in Range(out) : e.type # "snapshot"
      BY <3>2, StreamEvents
    <3>4. UNCHANGED <<asked, answer, waiting, reply, recon, timeouts>>
      BY <2>9 DEF Tightened, replyVars, pageVars, countVars
    <3> QED
      BY <3>1, <3>2, <3>3, <3>4, RequestConcat
  <2>10. CASE InputChecks(k)
    <3>1. queue' = queue \/ queue' = Append(queue, Plain)
      BY <2>10 DEF InputChecks, queueVars
    <3>2. UNCHANGED <<asked, answer, waiting, reply, recon, timeouts>>
      BY <2>10 DEF InputChecks, replyVars, pageVars, countVars
    <3>3. Plain \in Events /\ Plain.type # "snapshot"
      BY EventsMade DEF Plain
    <3> QED
      BY <3>1, <3>2, <3>3, RequestAppend
  <2>11. CASE InputAudits(k)
    <3>1. queue' = queue \/ queue' = Append(queue, Input(k))
      BY <2>11 DEF InputAudits, queueVars
    <3>2. UNCHANGED <<asked, answer, waiting, reply, recon, timeouts>>
      BY <2>11 DEF InputAudits, replyVars, pageVars, countVars
    <3>3. Input(k) \in Events /\ Input(k).type # "snapshot"
      BY EventsMade DEF Input
    <3> QED
      BY <3>1, <3>2, <3>3, RequestAppend
  <2>12. CASE InputStarts(k)
    <3>1. queue' = queue \/ queue' = Append(queue, Plain)
      BY <2>12 DEF InputStarts, queueVars
    <3>2. UNCHANGED <<asked, answer, waiting, reply, recon, timeouts>>
      BY <2>12 DEF InputStarts, replyVars, pageVars, countVars
    <3>3. Plain \in Events /\ Plain.type # "snapshot"
      BY EventsMade DEF Plain
    <3> QED
      BY <3>1, <3>2, <3>3, RequestAppend
  <2>13. CASE BucketDue(k)
    <3>1. queue' = queue \/ queue' = Append(queue, Input(k))
      BY <2>13 DEF BucketDue, queueVars
    <3>2. UNCHANGED <<asked, answer, waiting, reply, recon, timeouts>>
      BY <2>13 DEF BucketDue, replyVars, pageVars, countVars
    <3>3. Input(k) \in Events /\ Input(k).type # "snapshot"
      BY EventsMade DEF Input
    <3> QED
      BY <3>1, <3>2, <3>3, RequestAppend
  <2>14. CASE OpenStarts(k)
    <3>1. queue' = queue \/ queue' = Append(queue, Plain)
      BY <2>14 DEF OpenStarts, queueVars
    <3>2. UNCHANGED <<asked, answer, waiting, reply, recon, timeouts>>
      BY <2>14 DEF OpenStarts, replyVars, pageVars, countVars
    <3>3. Plain \in Events /\ Plain.type # "snapshot"
      BY EventsMade DEF Plain
    <3> QED
      BY <3>1, <3>2, <3>3, RequestAppend
  <2>15. CASE OpenFailed(k)
    <3>1. queue' = queue \/ queue' = Append(queue, Plain)
      BY <2>15 DEF OpenFailed, BestEffort, queueVars
    <3>2. UNCHANGED <<asked, answer, waiting, reply, recon, timeouts>>
      BY <2>15 DEF OpenFailed, replyVars, pageVars, countVars
    <3>3. Plain \in Events /\ Plain.type # "snapshot"
      BY EventsMade DEF Plain
    <3> QED
      BY <3>1, <3>2, <3>3, RequestAppend
  <2> QED
    BY <1>1, <2>1, <2>2, <2>3, <2>4, <2>5, <2>6, <2>7, <2>8, <2>9, <2>10, <2>11, <2>12,
       <2>13, <2>14, <2>15 DEF StreamNext
<1>2. CASE Flush
  <2>1. PICK n, out : FlushTells(n, out) /\ FlushReports(queue \o out)
    BY <1>2, FlushEffect
  <2>2. out \in Seq(Events) /\ \A i \in DOMAIN out : out[i].type \in {"released", "closed"}
    BY <2>1 DEF FlushTells
  <2>3. \A e \in Range(out) : e.type # "snapshot"
    BY <2>2 DEF Range
  <2>4. UNCHANGED <<asked, answer, waiting, reply, recon, timeouts>>
    BY <1>2 DEF Flush, replyVars, pageVars, countVars
  <2>5. CASE queue' = queue \o out
    BY <2>2, <2>3, <2>4, <2>5, RequestConcat
  <2>6. CASE queue' = Append(queue \o out, Dropped(record))
    <3>1. Dropped(record) \in Events /\ Dropped(record).type = "dropped"
      BY EventsMade DEF Types, QueueTypes, Dropped
    <3>2. queue \in Seq(Events)
      BY DEF Types, QueueTypes
    <3>3. PICK r : r = Append(out, Dropped(record))
      OBVIOUS
    <3>4. r \in Seq(Events) /\ Range(r) = Range(out) \cup {Dropped(record)}
      BY <2>2, <3>1, <3>3, RangeAppend
    <3>5. queue' = queue \o r
      <4>1. Append(queue \o out, Dropped(record)) = queue \o Append(out, Dropped(record))
        BY <2>2, <3>1, <3>2
      <4> QED
        BY <2>6, <3>3, <4>1
    <3> QED
      BY <2>3, <2>4, <3>1, <3>4, <3>5, RequestConcat
  <2> QED
    BY <2>1, <2>5, <2>6 DEF FlushReports
<1>3. CASE PlainAudit
  <2>1. queue' = queue \/ queue' = Append(queue, Plain)
    BY <1>3 DEF PlainAudit, BestEffort, queueVars
  <2>2. UNCHANGED <<asked, answer, waiting, reply, recon, timeouts>>
    BY <1>3 DEF PlainAudit, replyVars, pageVars, countVars
  <2>3. Plain \in Events /\ Plain.type # "snapshot"
    BY EventsMade DEF Plain
  <2> QED
    BY <2>1, <2>2, <2>3, RequestAppend
<1>4. CASE OtherEvent
  <2>1. queue' = queue \/ queue' = Append(queue, Lifecycle)
    BY <1>4 DEF OtherEvent, queueVars
  <2>2. UNCHANGED <<asked, answer, waiting, reply, recon, timeouts>>
    BY <1>4 DEF OtherEvent, replyVars, pageVars, countVars
  <2>3. Lifecycle \in Events /\ Lifecycle.type # "snapshot"
    BY EventsMade DEF Lifecycle
  <2> QED
    BY <2>1, <2>2, <2>3, RequestAppend
<1>5. CASE Deliver
  <2>1. RequestAt(asked, answer, queue, waiting, timeouts)
    BY DEF RequestInv
  <2>2. /\ queue \in Seq(Events) /\ asked \in Seq(0 .. MaxTimeouts) /\ timeouts \in 0 .. MaxTimeouts
        /\ answer = << >> \/ \E s \in Snapshots : answer = <<s>>
        /\ recon \in [on : BOOLEAN, attempt : 0 .. ATTEMPTS, raced : BOOLEAN]
    BY DEF Types, QueueTypes, PageTypes
  <2>3. PICK e : e = Head(queue)
    OBVIOUS
  <2>4. PICK mine : mine = (e.type = "snapshot" /\ waiting /\ e.id = timeouts)
    OBVIOUS
  <2>5. /\ queue # << >> /\ queue' = Tail(queue) /\ waiting' = (waiting /\ ~mine)
        /\ reply' = IF mine THEN Replied(e.streams) ELSE reply
        /\ UNCHANGED <<asked, answer, recon, timeouts>>
    BY <1>5, <2>3, <2>4 DEF Deliver, countVars
  <2>6. e \in Events /\ Range(queue) = {e} \cup Range(Tail(queue))
    BY <2>2, <2>3, <2>5, SumTail, RangeTail
  <2>7. mine => e \in MineOf(timeouts)
    BY <2>4, <2>6, EventFields, SnapshotFields
  <2>8. Once(Tail(queue), MineOf(timeouts)) /\ (e \in MineOf(timeouts) => ~Has(Tail(queue), MineOf(timeouts)))
    BY <2>1, <2>2, <2>3, <2>5, OnceTail DEF RequestAt
  <2>9. Has(Tail(queue), MineOf(timeouts)) => Has(queue, MineOf(timeouts))
    BY <2>6 DEF Has
  <2>10. e \in MineOf(timeouts) => Has(queue, MineOf(timeouts))
    BY <2>6 DEF Has
  <2>11. RequestAt(asked, answer, Tail(queue), waiting /\ ~mine, timeouts)
    <3>1. CASE mine
      BY <2>1, <2>6, <2>7, <2>8, <2>10, <3>1 DEF RequestAt
    <3>2. CASE ~mine
      BY <2>1, <2>6, <2>8, <2>9, <3>2 DEF RequestAt
    <3> QED
      BY <3>1, <3>2
  <2>12. /\ waiting' => recon'.on /\ reply' = NoReply
         /\ reply' # NoReply => recon'.on
    BY <2>4, <2>5 DEF RequestInv
  <2>13. RequestAt(asked', answer', queue', waiting', timeouts')
    BY <2>5, <2>11, Zenon
  <2> QED
    BY <2>12, <2>13 DEF RequestInv
<1>6. CASE Reconcile
  <2>1. RequestAt(asked, answer, queue, waiting, timeouts)
    BY DEF RequestInv
  <2>2. /\ queue \in Seq(Events) /\ asked \in Seq(0 .. MaxTimeouts) /\ timeouts \in 0 .. MaxTimeouts
        /\ answer = << >> \/ \E s \in Snapshots : answer = <<s>>
        /\ recon \in [on : BOOLEAN, attempt : 0 .. ATTEMPTS, raced : BOOLEAN]
    BY DEF Types, QueueTypes, PageTypes
  <2>3. asked' = Append(asked, timeouts) /\ waiting' = TRUE /\ UNCHANGED <<answer, queue, timeouts>>
    BY <1>6 DEF Reconcile, Ask, queueVars, countVars
  <2>4. ~waiting
    BY <1>6 DEF Reconcile, RequestInv
  <2>5. /\ ~Has(asked, {timeouts}) /\ ~Has(answer, MineOf(timeouts)) /\ ~Has(queue, MineOf(timeouts))
    BY <2>1, <2>4 DEF RequestAt
  <2>6. Once(Append(asked, timeouts), {timeouts})
    BY <2>1, <2>2, <2>5, OnceAppend DEF RequestAt
  <2>7. Range(Append(asked, timeouts)) = Range(asked) \cup {timeouts}
    <3>1. PICK T : T = 0 .. MaxTimeouts
      OBVIOUS
    <3>2. asked \in Seq(T) /\ timeouts \in T
      BY <2>2, <3>1
    <3> QED
      BY <3>2, RangeAppend
  <2>8. timeouts <= timeouts
    BY <2>2
  <2>9. RequestAt(asked', answer', queue', waiting', timeouts')
    BY <2>1, <2>3, <2>5, <2>6, <2>7, <2>8 DEF RequestAt
  <2>10. recon'.on /\ reply' = NoReply
    BY <1>6 DEF Reconcile, RequestInv
  <2> QED
    BY <2>9, <2>10 DEF RequestInv
<1>7. CASE Answer
  <2>1. RequestAt(asked, answer, queue, waiting, timeouts)
    BY DEF RequestInv
  <2>2. /\ queue \in Seq(Events) /\ asked \in Seq(0 .. MaxTimeouts) /\ timeouts \in 0 .. MaxTimeouts
        /\ answer = << >> \/ \E s \in Snapshots : answer = <<s>>
        /\ recon \in [on : BOOLEAN, attempt : 0 .. ATTEMPTS, raced : BOOLEAN]
    BY DEF Types, QueueTypes, PageTypes
  <2>3. /\ asked # << >> /\ answer = << >> /\ answer' = <<Snapshot(Head(asked), live)>>
        /\ asked' = Tail(asked) /\ UNCHANGED <<queue, waiting, reply, recon, timeouts>>
    BY <1>7 DEF Answer, queueVars, pageVars, countVars
  <2>4. PICK h : h = Head(asked)
    OBVIOUS
  <2>5. Range(asked) = {h} \cup Range(Tail(asked))
    BY <2>2, <2>3, <2>4, RangeTail
  <2>6. h <= timeouts
    BY <2>1, <2>5 DEF RequestAt
  <2>7. Range(answer') = {Snapshot(h, live)}
    BY <2>3, <2>4, ShortRanges
  <2>8. Once(Tail(asked), {timeouts}) /\ (h \in {timeouts} => ~Has(Tail(asked), {timeouts}))
    BY <2>1, <2>2, <2>3, <2>4, OnceTail DEF RequestAt
  <2>9. Has(answer', MineOf(timeouts)) => h = timeouts
    BY <2>7, SnapshotFields DEF Has
  <2>10. h = timeouts => Has(asked, {timeouts})
    BY <2>5 DEF Has
  <2>11. Has(Tail(asked), {timeouts}) => Has(asked, {timeouts})
    BY <2>5 DEF Has
  <2>12. \A e \in Range(answer') : e.type = "snapshot" => e.id <= timeouts
    BY <2>6, <2>7, SnapshotFields
  <2>13. RequestAt(Tail(asked), answer', queue, waiting, timeouts)
    BY <2>1, <2>5, <2>8, <2>9, <2>10, <2>11, <2>12 DEF RequestAt
  <2> QED
    BY <2>3, <2>13 DEF RequestInv
<1>8. CASE AnswerQueued
  <2>1. RequestAt(asked, answer, queue, waiting, timeouts)
    BY DEF RequestInv
  <2>2. /\ queue \in Seq(Events) /\ asked \in Seq(0 .. MaxTimeouts) /\ timeouts \in 0 .. MaxTimeouts
        /\ answer = << >> \/ \E s \in Snapshots : answer = <<s>>
        /\ recon \in [on : BOOLEAN, attempt : 0 .. ATTEMPTS, raced : BOOLEAN]
    BY DEF Types, QueueTypes, PageTypes
  <2>3. /\ answer # << >> /\ queue' = queue \o answer /\ answer' = << >>
        /\ UNCHANGED <<asked, waiting, reply, recon, timeouts>>
    BY <1>8 DEF AnswerQueued, pageVars, countVars
  <2>4. PICK s \in Snapshots : answer = <<s>>
    BY <2>2, <2>3
  <2>5. s \in Events
    BY EventsMade
  <2>6. queue' = Append(queue, s)
    BY <2>2, <2>3, <2>4, <2>5, AppendIsConcat
  <2>7. Range(queue') = Range(queue) \cup {s} /\ Range(answer) = {s} /\ Range(answer') = {}
    <3>1. Range(queue') = Range(queue) \cup {s}
      BY <2>2, <2>5, <2>6, RangeAppend
    <3>2. Range(answer) = {s}
      BY <2>4, ShortRanges
    <3>3. Range(answer') = {}
      BY <2>3, ShortRanges
    <3> QED
      BY <3>1, <3>2, <3>3
  <2>8. s \in MineOf(timeouts) => ~Has(queue, MineOf(timeouts))
    BY <2>1, <2>7 DEF RequestAt, Has
  <2>9. Once(Append(queue, s), MineOf(timeouts))
    BY <2>1, <2>2, <2>5, <2>8, OnceAppend DEF RequestAt
  <2>10. Has(queue', MineOf(timeouts)) => Has(queue, MineOf(timeouts)) \/ Has(answer, MineOf(timeouts))
    BY <2>7 DEF Has
  <2>11. ~Has(answer', MineOf(timeouts))
    BY <2>7 DEF Has
  <2>12. RequestAt(asked, answer', queue', waiting, timeouts)
    BY <2>1, <2>6, <2>7, <2>9, <2>10, <2>11 DEF RequestAt
  <2> QED
    BY <2>3, <2>12 DEF RequestInv
<1>9. CASE GiveUp
  <2>1. RequestAt(asked, answer, queue, waiting, timeouts)
    BY DEF RequestInv
  <2>2. /\ queue \in Seq(Events) /\ asked \in Seq(0 .. MaxTimeouts) /\ timeouts \in 0 .. MaxTimeouts
        /\ answer = << >> \/ \E s \in Snapshots : answer = <<s>>
        /\ recon \in [on : BOOLEAN, attempt : 0 .. ATTEMPTS, raced : BOOLEAN]
    BY DEF Types, QueueTypes, PageTypes
  <2>3. /\ waiting' = FALSE /\ reply' = Failed /\ timeouts' = timeouts + 1 /\ waiting
        /\ UNCHANGED <<asked, answer, queue, recon>>
    BY <1>9 DEF GiveUp, queueVars, pageVars
  <2>4. timeouts \in Nat
    BY <2>2
  <2>5. \A i \in Range(asked) : i \in Nat /\ i <= timeouts
    <3>1. \A i \in DOMAIN asked : asked[i] \in 0 .. MaxTimeouts
      <4>1. PICK T : T = 0 .. MaxTimeouts
        OBVIOUS
      <4>2. asked \in Seq(T)
        BY <2>2, <4>1
      <4>3. \A i \in DOMAIN asked : asked[i] \in T
        BY <4>2
      <4> QED
        BY <4>1, <4>3
    <3> QED
      BY <2>1, <3>1 DEF RequestAt, Range
  <2>6. \A e \in Range(answer) \union Range(queue) : e.type = "snapshot" => e.id \in Nat /\ e.id <= timeouts
    <3>1. \A e \in Range(queue) : e \in Events
      BY <2>2 DEF Range
    <3>2. \A e \in Range(answer) : e \in Events
      <4>1. CASE answer = << >>
        BY <4>1, ShortRanges
      <4>2. CASE \E s \in Snapshots : answer = <<s>>
        <5>1. PICK s \in Snapshots : answer = <<s>>
          BY <4>2
        <5>2. Range(answer) = {s}
          BY <5>1, ShortRanges
        <5> QED
          BY <5>2, EventsMade
      <4> QED
        BY <2>2, <4>1, <4>2
    <3>3. \A e \in Events : e.type = "snapshot" => e.id \in Nat
      BY EventFields, SnapshotFields
    <3> QED
      BY <2>1, <3>1, <3>2, <3>3 DEF RequestAt
  <2>7. /\ ~Has(asked, {timeouts + 1}) /\ ~Has(answer, MineOf(timeouts + 1))
        /\ ~Has(queue, MineOf(timeouts + 1))
    <3>1. timeouts + 1 \notin Range(asked)
      BY <2>4, <2>5
    <3>2. \A e \in Range(answer) \union Range(queue) : ~(e.type = "snapshot" /\ e.id = timeouts + 1)
      BY <2>4, <2>6
    <3> QED
      BY <3>1, <3>2, SnapshotFields DEF Has
  <2>8. Once(asked, {timeouts + 1}) /\ Once(queue, MineOf(timeouts + 1))
    BY <2>7 DEF Once, Has, Range
  <2>9. \A i \in Range(asked) : i <= timeouts + 1
    BY <2>4, <2>5
  <2>10. \A e \in Range(answer) \union Range(queue) : e.type = "snapshot" => e.id <= timeouts + 1
    BY <2>4, <2>6
  <2>11. RequestAt(asked, answer, queue, FALSE, timeouts + 1)
    BY <2>7, <2>8, <2>9, <2>10 DEF RequestAt
  <2>12. recon'.on
    BY <2>3 DEF RequestInv
  <2> QED
    BY <2>3, <2>11, <2>12 DEF RequestInv
<1>10. CASE PageReply
  <2>1. RequestAt(asked, answer, queue, waiting, timeouts)
    BY DEF RequestInv
  <2>2. /\ queue \in Seq(Events) /\ asked \in Seq(0 .. MaxTimeouts) /\ timeouts \in 0 .. MaxTimeouts
        /\ answer = << >> \/ \E s \in Snapshots : answer = <<s>>
        /\ recon \in [on : BOOLEAN, attempt : 0 .. ATTEMPTS, raced : BOOLEAN]
    BY DEF Types, QueueTypes, PageTypes
  <2>12. reply # NoReply /\ reply' = NoReply /\ recon.on
    BY <1>10 DEF PageReply, RequestInv
  <2>13. CASE recon' = [recon EXCEPT !.attempt = @ + 1, !.raced = FALSE] /\ Ask
    <3>3. asked' = Append(asked, timeouts) /\ waiting' = TRUE /\ UNCHANGED <<answer, queue, timeouts>>
      BY <1>10, <2>13 DEF PageReply, Ask, queueVars, countVars
    <3>4. ~waiting
      BY <1>10 DEF PageReply, RequestInv
    <3>5. /\ ~Has(asked, {timeouts}) /\ ~Has(answer, MineOf(timeouts)) /\ ~Has(queue, MineOf(timeouts))
      BY <2>1, <3>4 DEF RequestAt
    <3>6. Once(Append(asked, timeouts), {timeouts})
      BY <2>1, <2>2, <3>5, OnceAppend DEF RequestAt
    <3>7. Range(Append(asked, timeouts)) = Range(asked) \cup {timeouts}
      <4>1. PICK T : T = 0 .. MaxTimeouts
        OBVIOUS
      <4>2. asked \in Seq(T) /\ timeouts \in T
        BY <2>2, <4>1
      <4> QED
        BY <4>2, RangeAppend
    <3>8. timeouts <= timeouts
      BY <2>2
    <3>9. RequestAt(asked', answer', queue', waiting', timeouts')
      BY <2>1, <3>3, <3>5, <3>6, <3>7, <3>8 DEF RequestAt
    <3>10. recon'.on
      BY <2>2, <2>12, <2>13
    <3> QED
      BY <2>12, <3>9, <3>10 DEF RequestInv
  <2>14. CASE recon' = Idle /\ UNCHANGED <<asked, waiting>>
    <3>1. UNCHANGED <<answer, queue, timeouts>>
      BY <1>10 DEF PageReply, queueVars, countVars
    <3>2. ~waiting
      BY <2>12 DEF RequestInv
    <3> QED
      BY <2>1, <2>12, <2>14, <3>1, <3>2 DEF RequestInv
  <2> QED
    BY <1>10, <2>13, <2>14 DEF PageReply
<1>11. CASE PageEvent
  <2>1. UNCHANGED <<asked, answer, waiting, reply, queue, timeouts>> /\ recon' = [recon EXCEPT !.raced = recon.on]
    BY <1>11 DEF PageEvent, replyVars, queueVars, countVars
  <2>2. recon'.on = recon.on
    BY <2>1 DEF Types, PageTypes
  <2> QED
    BY <2>1, <2>2 DEF RequestInv
<1>12. CASE Crash
  <2>1. /\ queue' = << >> /\ asked' = << >> /\ answer' = << >> /\ waiting' = FALSE
        /\ reply' = (IF waiting THEN Failed ELSE reply) /\ recon' = recon
    BY <1>12 DEF Crash
  <2>2. Range(<< >>) = {} /\ DOMAIN << >> = {}
    BY ShortRanges
  <2>3. RequestAt(asked', answer', queue', waiting', timeouts')
    BY <2>1, <2>2 DEF RequestAt, Has, Once
  <2>4. reply' # NoReply => recon'.on
    BY <2>1 DEF RequestInv
  <2> QED
    BY <2>1, <2>3, <2>4 DEF RequestInv
<1>13. CASE UNCHANGED vars
  BY <1>13 DEF vars, queueVars, replyVars, pageVars, countVars, RequestInv
<1> QED
  BY <1>1, <1>2, <1>3, <1>4, <1>5, <1>6, <1>7, <1>8, <1>9, <1>10, <1>11, <1>12, <1>13
     DEF Next

-----------------------------------------------------------------------------
(***************************************************************************)
(* What the page shows.                                                    *)
(***************************************************************************)
\* What is ahead once the page has handled an event.
LEMMA AheadTail ==
  ASSUME NEW ib \in Seq(Events), ib # << >>, NEW e
  PROVE  /\ AheadIn(Tail(ib), e) => AheadIn(ib, e)
         /\ AheadIn(ib, e) => AheadIn(Tail(ib), e)
                              \/ (Head(ib) = e /\ Down \notin Range(Tail(ib)))
         /\ Head(ib) = e /\ Down \notin Range(Tail(ib)) => AheadIn(ib, e)
<1>1. PICK t, h : t = Tail(ib) /\ h = Head(ib)
  OBVIOUS
<1>2. PICK n \in Nat : n = Len(ib)
  OBVIOUS
<1>3. /\ n >= 1 /\ DOMAIN ib = 1 .. n /\ DOMAIN t = 1 .. (n - 1) /\ ib[1] = h
      /\ \A i \in 1 .. (n - 1) : t[i] = ib[i + 1]
  BY <1>1, <1>2
<1>4. ASSUME NEW j \in 1 .. n, j > 1
      PROVE  \E m \in 1 .. (n - 1) : j = m + 1 /\ t[m] = ib[j]
  <2>1. PICK m : m = j - 1
    OBVIOUS
  <2>2. m \in 1 .. (n - 1) /\ j = m + 1
    BY <1>4, <2>1
  <2> QED
    BY <1>3, <2>2
<1>5. ASSUME AheadIn(t, e)
      PROVE  AheadIn(ib, e)
  <2>1. PICK i \in 1 .. (n - 1) : t[i] = e /\ \A m \in 1 .. (n - 1) : m > i => t[m] # Down
    BY <1>3, <1>5 DEF AheadIn
  <2>2. PICK a : a = i + 1
    OBVIOUS
  <2>3. a \in 1 .. n /\ ib[a] = e /\ a > 1
    BY <1>3, <2>1, <2>2
  <2>4. ASSUME NEW j \in 1 .. n, j > a
        PROVE  ib[j] # Down
    <3>1. j > 1
      BY <2>3, <2>4
    <3>2. PICK m \in 1 .. (n - 1) : j = m + 1 /\ t[m] = ib[j]
      BY <1>4, <3>1
    <3>3. m > i
      BY <2>2, <2>4, <3>2
    <3> QED
      BY <2>1, <3>2, <3>3
  <2> QED
    BY <1>3, <2>3, <2>4 DEF AheadIn
<1>6. ASSUME AheadIn(ib, e)
      PROVE  AheadIn(t, e) \/ (h = e /\ Down \notin Range(t))
  <2>1. PICK i \in 1 .. n : ib[i] = e /\ \A m \in 1 .. n : m > i => ib[m] # Down
    BY <1>3, <1>6 DEF AheadIn
  <2>2. CASE i > 1
    <3>1. PICK a \in 1 .. (n - 1) : i = a + 1 /\ t[a] = ib[i]
      BY <1>4, <2>2
    <3>2. ASSUME NEW m \in 1 .. (n - 1), m > a
          PROVE  t[m] # Down
      <4>1. PICK b : b = m + 1
        OBVIOUS
      <4>2. b \in 1 .. n /\ b > i /\ t[m] = ib[b]
        BY <1>3, <3>1, <3>2, <4>1
      <4> QED
        BY <2>1, <4>2
    <3> QED
      BY <1>3, <2>1, <3>1, <3>2 DEF AheadIn
  <2>3. CASE ~(i > 1)
    <3>1. i = 1
      BY <2>1, <2>3
    <3>2. ASSUME NEW m \in 1 .. (n - 1)
          PROVE  t[m] # Down
      <4>1. PICK b : b = m + 1
        OBVIOUS
      <4>2. b \in 1 .. n /\ b > i /\ t[m] = ib[b]
        BY <1>3, <3>1, <4>1
      <4> QED
        BY <2>1, <4>2
    <3>3. Down \notin Range(t)
      BY <1>3, <3>2 DEF Range
    <3> QED
      BY <1>3, <2>1, <3>1, <3>3
  <2> QED
    BY <2>2, <2>3
<1>7. ASSUME h = e, Down \notin Range(t)
      PROVE  AheadIn(ib, e)
  <2>1. 1 \in 1 .. n /\ ib[1] = e
    BY <1>3, <1>7
  <2>2. ASSUME NEW j \in 1 .. n, j > 1
        PROVE  ib[j] # Down
    <3>1. PICK m \in 1 .. (n - 1) : j = m + 1 /\ t[m] = ib[j]
      BY <1>4, <2>2
    <3>2. t[m] \in Range(t)
      BY <1>3, <3>1 DEF Range
    <3> QED
      BY <1>7, <3>1, <3>2
  <2> QED
    BY <1>3, <2>1, <2>2 DEF AheadIn
<1> QED
  BY <1>1, <1>5, <1>6, <1>7

\* What is ahead once another event arrives.
LEMMA AheadAppend ==
  ASSUME NEW ib \in Seq(Events), NEW x \in Events, x # Down, NEW e
  PROVE  AheadIn(Append(ib, x), e) <=> AheadIn(ib, e) \/ e = x
<1>1. PICK v : v = Append(ib, x)
  OBVIOUS
<1>2. PICK n \in Nat : n = Len(ib)
  OBVIOUS
<1>3. /\ DOMAIN ib = 1 .. n /\ DOMAIN v = 1 .. (n + 1) /\ v[n + 1] = x
      /\ \A i \in 1 .. n : v[i] = ib[i]
  BY <1>1, <1>2
<1>4. ASSUME AheadIn(v, e)
      PROVE  AheadIn(ib, e) \/ e = x
  <2>1. PICK i \in 1 .. (n + 1) : v[i] = e /\ \A m \in 1 .. (n + 1) : m > i => v[m] # Down
    BY <1>3, <1>4 DEF AheadIn
  <2>2. CASE i = n + 1
    BY <1>3, <2>1, <2>2
  <2>3. CASE i # n + 1
    <3>1. i \in 1 .. n
      BY <2>1, <2>3
    <3>2. \A m \in 1 .. n : m > i => ib[m] # Down
      <4> TAKE m \in 1 .. n
      <4>1. m \in 1 .. (n + 1) /\ v[m] = ib[m]
        BY <1>3
      <4> QED
        BY <2>1, <4>1
    <3> QED
      BY <1>3, <2>1, <3>1, <3>2 DEF AheadIn
  <2> QED
    BY <2>2, <2>3
<1>5. ASSUME AheadIn(ib, e)
      PROVE  AheadIn(v, e)
  <2>1. PICK i \in 1 .. n : ib[i] = e /\ \A m \in 1 .. n : m > i => ib[m] # Down
    BY <1>3, <1>5 DEF AheadIn
  <2>2. i \in 1 .. (n + 1) /\ v[i] = e
    BY <1>3, <2>1
  <2>3. \A m \in 1 .. (n + 1) : m > i => v[m] # Down
    <3> TAKE m \in 1 .. (n + 1)
    <3>1. m \in 1 .. n \/ m = n + 1
      OBVIOUS
    <3> QED
      BY <1>3, <2>1, <3>1
  <2> QED
    BY <1>3, <2>2, <2>3 DEF AheadIn
<1>6. ASSUME e = x
      PROVE  AheadIn(v, e)
  <2>1. n + 1 \in 1 .. (n + 1) /\ \A m \in 1 .. (n + 1) : ~(m > n + 1)
    OBVIOUS
  <2> QED
    BY <1>3, <1>6, <2>1 DEF AheadIn
<1> QED
  BY <1>1, <1>4, <1>5, <1>6

\* After a crash nothing that arrived before it is ahead.
LEMMA AheadDown ==
  ASSUME NEW ib \in Seq(Events), NEW e, e \notin {Down, Up}
  PROVE  ~AheadIn(ib \o <<Down, Up>>, e) /\ Down \in Range(ib \o <<Down, Up>>)
<1>1. PICK v : v = ib \o <<Down, Up>>
  OBVIOUS
<1>2. PICK n \in Nat : n = Len(ib)
  OBVIOUS
<1>3. PICK r : r = <<Down, Up>>
  OBVIOUS
<1>4. r \in Seq(Events) /\ Len(r) = 2 /\ r[1] = Down /\ r[2] = Up
  BY <1>3, EventsMade
<1>5. /\ DOMAIN ib = 1 .. n /\ DOMAIN v = 1 .. (n + 2)
      /\ \A i \in 1 .. n : v[i] = ib[i]
      /\ \A i \in 1 .. 2 : v[n + i] = r[i]
  BY <1>1, <1>2, <1>3, <1>4
<1>6. v[n + 1] = Down /\ v[n + 2] = Up /\ n + 1 \in 1 .. (n + 2)
  BY <1>4, <1>5
<1>7. Down \in Range(v)
  BY <1>5, <1>6 DEF Range
<1>8. ASSUME AheadIn(v, e)
      PROVE  FALSE
  <2>1. PICK i \in 1 .. (n + 2) : v[i] = e /\ \A m \in 1 .. (n + 2) : m > i => v[m] # Down
    BY <1>5, <1>8 DEF AheadIn
  <2>2. ~(n + 1 > i)
    BY <1>6, <2>1
  <2>3. i = n + 1 \/ i = n + 2
    BY <2>1, <2>2
  <2> QED
    BY <1>6, <2>1, <2>3
<1> QED
  BY <1>1, <1>7, <1>8

\* A step that the page does not see.
Steady ==
  /\ inbox' = inbox /\ seen' = seen /\ shown' = shown
  /\ settled \subseteq settled' /\ heard \subseteq heard'
  /\ \A k \in Streams : stage[k] = "gone" => stage'[k] = "gone"
  /\ \A k \in Streams : Closed(k) \in Range(queue') => stage'[k] = "gone"
  /\ \A k \in Streams : stage[k] \in Past => stage'[k] \in Past /\ (Owed(k) => Owed(k)')
  /\ \A k \in live' : /\ k \in live \/ stage[k] \notin Past
                      /\ Coming(k)' \/ (k \in live /\ ~Coming(k))

\* Such a step keeps what the page may show.
LEMMA SteadyKept ==
  ASSUME PageTypes, PageInv, BridgeTypes', Steady,
         \A S \in SUBSET Streams : Current(S)' /\ ~recon'.raced => Fits(S)
  PROVE  PageInv'
<1>1. DownAhead' <=> DownAhead
  BY DEF Steady, DownAhead
<1>2. \A e : Ahead(e)' <=> Ahead(e)
  BY DEF Steady, Ahead
<1>3. \A k \in Streams : ~DownAhead /\ seen[k] > 0 => stage[k] \in Past
  BY DEF PageInv
<1>4. ASSUME NEW S \in SUBSET Streams, Fits(S)
      PROVE  Fits(S)'
  <2>1. \A k \in S : DownAhead' \/ (Owed(k)' /\ stage'[k] \in Past)
    BY <1>1, <1>4 DEF Fits, Steady
  <2>2. \A k \in live' : Coming(k)' \/ (k \in S /\ ~DownAhead')
    BY <1>1, <1>4 DEF Fits, Steady
  <2>3. \A k \in live' : ~DownAhead' /\ seen'[k] > 0 => k \in S
    BY <1>1, <1>3, <1>4 DEF Fits, Steady, BridgeTypes
  <2> QED
    BY <2>1, <2>2, <2>3 DEF Fits
<1>5. Fits(shown)'
  <2>1. PICK S : S = shown
    OBVIOUS
  <2>2. S \in SUBSET Streams /\ Fits(S)
    BY <2>1 DEF PageInv, PageTypes
  <2>3. Fits(S)' /\ shown' = S
    BY <1>4, <2>1, <2>2 DEF Steady
  <2> QED
    BY <2>3 DEF Fits
<1>6. \A S \in SUBSET Streams : Current(S)' /\ ~recon'.raced => Fits(S)'
  BY <1>4
<1>7. \A k \in Streams : ~DownAhead' /\ seen'[k] > 0 => stage'[k] \in Past
  BY <1>1, <1>3 DEF Steady
<1>8. \A k \in Streams : Ahead(Opened(k))' => k \in heard'
  BY <1>2 DEF PageInv, Steady
<1>9. \A k \in Streams : Closed(k) \in Range(queue') => stage'[k] = "gone"
  BY DEF Steady
<1>10. \A k \in Streams : Ahead(Closed(k))' => stage'[k] = "gone" /\ k \in settled'
  BY <1>2 DEF PageInv, Steady
<1> QED
  BY <1>5, <1>6, <1>7, <1>8, <1>9, <1>10 DEF PageInv

\* A step of a stream, as far as the page is concerned.
StageStep(k) ==
  /\ stage[k] \in Past => stage'[k] \in Past
  /\ (k \in live \/ stage[k] = "dropping") => (k \in live' \/ stage'[k] = "dropping")
  /\ k \in live' /\ k \notin live => stage[k] \notin Past /\ stage'[k] = "live"
  /\ k \in live' /\ stage[k] = "live" => stage'[k] = "live"
  /\ stage[k] = "gone" => stage'[k] = "gone"

\* An event that is neither an open, a close nor an answer is such a step.
LEMMA PageQuiet ==
  ASSUME PageTypes, QueueTypes, PageInv, BridgeTypes', NEW e \in Events,
         e.type \notin {"opened", "closed", "snapshot"},
         queue' = queue \/ queue' = Append(queue, e),
         UNCHANGED <<pending, heard, settled, inbox, seen, shown, recon, answer,
                     waiting, reply, timeouts>>,
         \A k \in Streams : StageStep(k)
  PROVE  PageInv'
<1>1. Range(Append(queue, e)) = Range(queue) \cup {e}
  BY RangeAppend DEF QueueTypes
<1>2. \A k, t : Opened(k) # e /\ Closed(k) # e /\ \A S : Snapshot(t, S) # e
  BY StreamEvents, SnapshotFields
<1>3. \A k, t : /\ Opened(k) \in Range(queue') <=> Opened(k) \in Range(queue)
                /\ Closed(k) \in Range(queue') <=> Closed(k) \in Range(queue)
                /\ \A S : Snapshot(t, S) \in Range(queue') <=> Snapshot(t, S) \in Range(queue)
  <2>1. CASE queue' = queue
    BY <2>1
  <2>2. CASE queue' = Append(queue, e)
    BY <1>1, <1>2, <2>2
  <2> QED
    BY <2>1, <2>2
<1>4. \A x : Ahead(x)' <=> Ahead(x)
  BY DEF Ahead
<1>5. \A k \in Streams : Closed(k) \in Range(queue') => stage'[k] = "gone"
  BY <1>3 DEF PageInv, StageStep
<1>6. \A k \in Streams : stage[k] \in Past => stage'[k] \in Past /\ (Owed(k) => Owed(k)')
  BY <1>3 DEF Owed, StageStep
<1>7. \A k \in live' : /\ k \in live \/ stage[k] \notin Past
                       /\ Coming(k)' \/ (k \in live /\ ~Coming(k))
  <2> TAKE k \in live'
  <2>1. k \in Streams /\ StageStep(k)
    BY DEF BridgeTypes
  <2> QED
    BY <1>3, <1>4, <2>1 DEF Coming, StageStep
<1>8. Steady
  BY <1>5, <1>6, <1>7 DEF Steady, StageStep
<1>9. \A S \in SUBSET Streams : Current(S)' => Current(S)
  BY <1>3 DEF Current
<1>10. \A S \in SUBSET Streams : Current(S)' /\ ~recon'.raced => Fits(S)
  BY <1>9 DEF PageInv
<1> QED
  BY <1>8, <1>10, SteadyKept

\* Without a call that waits or has returned, no answer can be applied.
LEMMA NobodyWaits ==
  ASSUME ~waiting' /\ reply'.kind # "replied"
  PROVE  \A S \in SUBSET Streams : ~Current(S)'
BY DEF Current, Replied

\* The gateway's own list may be shown.
LEMMA LiveFits ==
  ASSUME BridgeTypes, StageInv, PageInv
  PROVE  Fits(live)
<1>1. \A k \in live : Owed(k) /\ stage[k] \in Past
  BY DEF BridgeTypes, StageInv, Owed, Past
<1>2. \A k \in live : Coming(k) \/ ~DownAhead
  BY DEF PageInv, Fits
<1> QED
  BY <1>1, <1>2 DEF Fits

\* What a flush moves.
LEMMA FlushRanges ==
  ASSUME Types, Flush
  PROVE  /\ \A k \in Streams : Opened(k) \in Range(queue') <=> Opened(k) \in Range(queue)
         /\ \A k \in Streams : Closed(k) \in Range(queue) \union Range(pending[k]) =>
              Closed(k) \in Range(queue') \union Range(pending'[k])
         /\ \A k \in Streams : Closed(k) \in Range(queue') =>
              Closed(k) \in Range(queue) \/ pending[k] # << >>
         /\ \A t, S : Snapshot(t, S) \in Range(queue') <=> Snapshot(t, S) \in Range(queue)
<1>1. PICK n, out : FlushTells(n, out) /\ FlushReports(queue \o out)
  BY FlushEffect
<1>2. out \in Seq(Events) /\ Range(out) = Told(n) /\ queue \in Seq(Events)
  BY <1>1 DEF FlushTells, Types, QueueTypes
<1>3. /\ \A k \in Streams : Range(pending'[k]) = Range(pending[k]) \ Told(n)
      /\ \A e \in Told(n) : \E k \in Streams : e \in Range(pending[k])
  BY <1>1, FlushKept DEF FlushTells
<1>4. \A k \in Streams : Range(pending[k]) \subseteq {Released(k), Closed(k)}
  BY BundleLen DEF Types, QueueTypes
<1>5. \A e \in Told(n) : \E k \in Streams : e \in {Released(k), Closed(k)} /\ pending[k] # << >>
  BY <1>3, <1>4, ShortRanges
<1>6. \A j : Opened(j) \notin Told(n)
  BY <1>5, StreamEvents
<1>7. \A t, S : Snapshot(t, S) \notin Told(n)
  BY <1>5, StreamEvents, SnapshotFields
<1>8. \A j \in Streams : Closed(j) \in Told(n) => pending[j] # << >>
  BY <1>5, TighteningEvents
<1>9. PICK q : q = queue \o out
  OBVIOUS
<1>10. q \in Seq(Events) /\ Range(q) = Range(queue) \cup Told(n)
  BY <1>2, <1>9, RangeConcat, ConcatProperties
<1>11. PICK d : d = Dropped(record)
  OBVIOUS
<1>12. d \in Events /\ d.type = "dropped"
  BY <1>11, EventsMade DEF Types, QueueTypes, Dropped
<1>13. /\ \A j : Opened(j) # d /\ Closed(j) # d
       /\ \A t, S : Snapshot(t, S) # d
  BY <1>12, StreamEvents, SnapshotFields
<1>14. Range(Append(q, d)) = Range(q) \cup {d}
  BY <1>10, <1>12, RangeAppend
<1>15. queue' = q \/ queue' = Append(q, d)
  BY <1>1, <1>9, <1>11 DEF FlushReports
<1>16. /\ \A j : Opened(j) \in Range(queue') <=> Opened(j) \in Range(queue)
       /\ \A j : Closed(j) \in Range(queue') <=> Closed(j) \in Range(queue) \cup Told(n)
       /\ \A t, S : Snapshot(t, S) \in Range(queue') <=> Snapshot(t, S) \in Range(queue)
  <2>1. CASE queue' = q
    BY <1>6, <1>7, <1>10, <2>1
  <2>2. CASE queue' = Append(q, d)
    BY <1>6, <1>7, <1>10, <1>13, <1>14, <2>2
  <2> QED
    BY <1>15, <2>1, <2>2
<1> QED
  BY <1>3, <1>8, <1>16

\* Every action keeps the page explained, when there is one.
LEMMA PageKept ==
  ASSUME PageOpen, Types, StageInv, OrderInv, RequestInv,
         PageInv, BridgeTypes', [Next]_vars
  PROVE  PageInv'
<1>1. ASSUME NEW k \in Streams, StreamNext(k)
      PROVE  PageInv'
  <2>1. CASE OpenJob(k)
    <3>1. queue' = queue \/ queue' = Append(queue, Plain)
      BY <2>1 DEF OpenJob, queueVars
    <3>2. UNCHANGED <<pending, heard, settled, inbox, seen, shown, recon, answer,
                     waiting, reply, timeouts>>
      BY <2>1 DEF OpenJob, queueVars, historyVars, replyVars, pageVars, countVars
    <3>3. \A j \in Streams : StageStep(j)
      BY <2>1 DEF OpenJob, StageStep, Past, StageInv, Types, BridgeTypes, Stages,
         bridgeVars
    <3>4. Plain \in Events /\ Plain.type \notin {"opened", "closed", "snapshot"}
      BY EventsMade DEF Plain
    <3> QED
      BY <3>1, <3>2, <3>3, <3>4, PageQuiet DEF Types
  <2>2. CASE OpenRefused(k)
    <3>1. queue' = queue \/ queue' = Append(queue, Plain)
      BY <2>2 DEF OpenRefused, BestEffort, queueVars
    <3>2. UNCHANGED <<pending, heard, settled, inbox, seen, shown, recon, answer,
                     waiting, reply, timeouts>>
      BY <2>2 DEF OpenRefused, queueVars, historyVars, replyVars, pageVars, countVars
    <3>3. \A j \in Streams : StageStep(j)
      BY <2>2 DEF OpenRefused, StageStep, Past, StageInv, Types, BridgeTypes, Stages,
         bridgeVars
    <3>4. Plain \in Events /\ Plain.type \notin {"opened", "closed", "snapshot"}
      BY EventsMade DEF Plain
    <3> QED
      BY <3>1, <3>2, <3>3, <3>4, PageQuiet DEF Types
  <2>3. CASE HostRefuses(k)
    <3>1. queue' = queue \/ queue' = Append(queue, Plain)
      BY <2>3 DEF HostRefuses, BestEffort, queueVars
    <3>2. UNCHANGED <<pending, heard, settled, inbox, seen, shown, recon, answer,
                     waiting, reply, timeouts>>
      BY <2>3 DEF HostRefuses, queueVars, historyVars, replyVars, pageVars, countVars
    <3>3. \A j \in Streams : StageStep(j)
      BY <2>3 DEF HostRefuses, StageStep, Past, StageInv, Types, BridgeTypes, Stages,
         bridgeVars
    <3>4. Plain \in Events /\ Plain.type \notin {"opened", "closed", "snapshot"}
      BY EventsMade DEF Plain
    <3> QED
      BY <3>1, <3>2, <3>3, <3>4, PageQuiet DEF Types
  <2>4. CASE AnnounceLive(k)
    <3>1. queue' = queue \/ queue' = Append(queue, Plain)
      BY <2>4 DEF AnnounceLive, queueVars
    <3>2. UNCHANGED <<pending, heard, settled, inbox, seen, shown, recon, answer,
                     waiting, reply, timeouts>>
      BY <2>4 DEF AnnounceLive, queueVars, historyVars, replyVars, pageVars, countVars
    <3>3. \A j \in Streams : StageStep(j)
      BY <2>4 DEF AnnounceLive, StageStep, Past, StageInv, Types, BridgeTypes, Stages,
         bridgeVars
    <3>4. Plain \in Events /\ Plain.type \notin {"opened", "closed", "snapshot"}
      BY EventsMade DEF Plain
    <3> QED
      BY <3>1, <3>2, <3>3, <3>4, PageQuiet DEF Types
  <2>5. CASE AnnounceEmit(k)
    <3>1. /\ stage[k] = "live" /\ queue' = Append(queue, Opened(k))
          /\ stage' = [stage EXCEPT ![k] = "open"] /\ live' = live
          /\ UNCHANGED <<pending, heard, settled, inbox, seen, shown, recon, answer, waiting,
                         reply, timeouts>>
      BY <2>5 DEF AnnounceEmit, historyVars, replyVars, pageVars, countVars
    <3>2. Opened(k) \in Events /\ queue \in Seq(Events) /\ stage \in [Streams -> Stages]
      BY EventsMade DEF Types, QueueTypes, BridgeTypes
    <3>3. Range(queue') = Range(queue) \cup {Opened(k)}
      BY <3>1, <3>2, RangeAppend
    <3>4. /\ \A j : Closed(j) \in Range(queue') <=> Closed(j) \in Range(queue)
          /\ \A t, S : Snapshot(t, S) \in Range(queue') <=> Snapshot(t, S) \in Range(queue)
      BY <3>3, StreamEvents, SnapshotFields
    <3>5. \A x : Ahead(x)' <=> Ahead(x)
      BY <3>1 DEF Ahead
    <3>6. stage'[k] = "open" /\ \A j \in Streams : j # k => stage'[j] = stage[j]
      BY <3>1, <3>2
    <3>7. \A j \in Streams : Closed(j) \in Range(queue') => stage'[j] = "gone"
      BY <3>1, <3>4, <3>6 DEF PageInv
    <3>8. \A j \in Streams : stage[j] \in Past => stage'[j] \in Past /\ (Owed(j) => Owed(j)')
      BY <3>1, <3>4, <3>6 DEF Owed, Past
    <3>9. \A j \in live' : /\ j \in live \/ stage[j] \notin Past
                           /\ Coming(j)' \/ (j \in live /\ ~Coming(j))
      <4> TAKE j \in live'
      <4>1. j \in live /\ j \in Streams
        BY <3>1 DEF BridgeTypes
      <4>2. CASE j = k
        BY <3>3, <4>1, <4>2 DEF Coming
      <4>3. CASE j # k
        BY <3>3, <3>5, <3>6, <4>1, <4>3 DEF Coming
      <4> QED
        BY <4>2, <4>3
    <3>10. Steady
      BY <3>1, <3>6, <3>7, <3>8, <3>9 DEF Steady
    <3>11. \A S \in SUBSET Streams : Current(S)' /\ ~recon'.raced => Fits(S)
      BY <3>1, <3>4 DEF Current, PageInv
    <3> QED
      BY <3>10, <3>11, SteadyKept DEF Types
  <2>6. CASE OpenJobEnds(k)
    <3>1. queue' = queue \/ queue' = Append(queue, Plain)
      BY <2>6 DEF OpenJobEnds, queueVars
    <3>2. UNCHANGED <<pending, heard, settled, inbox, seen, shown, recon, answer,
                     waiting, reply, timeouts>>
      BY <2>6 DEF OpenJobEnds, queueVars, historyVars, replyVars, pageVars, countVars
    <3>3. \A j \in Streams : StageStep(j)
      BY <2>6 DEF OpenJobEnds, StageStep, Past, StageInv, Types, BridgeTypes, Stages,
         bridgeVars
    <3>4. Plain \in Events /\ Plain.type \notin {"opened", "closed", "snapshot"}
      BY EventsMade DEF Plain
    <3> QED
      BY <3>1, <3>2, <3>3, <3>4, PageQuiet DEF Types
  <2>7. CASE Close(k)
    <3>1. queue' = queue \/ queue' = Append(queue, Plain)
      BY <2>7 DEF Close, queueVars
    <3>2. UNCHANGED <<pending, heard, settled, inbox, seen, shown, recon, answer,
                     waiting, reply, timeouts>>
      BY <2>7 DEF Close, queueVars, historyVars, replyVars, pageVars, countVars
    <3>3. \A j \in Streams : StageStep(j)
      BY <2>7 DEF Close, StageStep, Past, StageInv, Types, BridgeTypes, Stages, bridgeVars
    <3>4. Plain \in Events /\ Plain.type \notin {"opened", "closed", "snapshot"}
      BY EventsMade DEF Plain
    <3> QED
      BY <3>1, <3>2, <3>3, <3>4, PageQuiet DEF Types
  <2>8. CASE Drop(k)
    <3>1. queue' = queue \/ queue' = Append(queue, Input(k))
      BY <2>8 DEF Drop, queueVars
    <3>2. UNCHANGED <<pending, heard, settled, inbox, seen, shown, recon, answer,
                     waiting, reply, timeouts>>
      BY <2>8 DEF Drop, queueVars, historyVars, replyVars, pageVars, countVars
    <3>3. \A j \in Streams : StageStep(j)
      BY <2>8 DEF Drop, StageStep, Past, StageInv, Types, BridgeTypes, Stages, bridgeVars
    <3>4. Input(k) \in Events /\ Input(k).type \notin {"opened", "closed", "snapshot"}
      BY EventsMade DEF Input
    <3> QED
      BY <3>1, <3>2, <3>3, <3>4, PageQuiet DEF Types
  <2>9. CASE Tightened(k)
    <3>1. PICK out, rest :
            /\ TightSplit(k, out, rest) /\ queue' = queue \o out
            /\ \/ settled' = settled \union {k} /\ pending' = pending
               \/ pending' = [pending EXCEPT ![k] = rest] /\ settled' = settled
      BY <2>9, TightenedEffect
    <3>2. /\ stage[k] \in {"dropping", "unannounced"} /\ stage' = [stage EXCEPT ![k] = "gone"]
          /\ live' = live
          /\ UNCHANGED <<heard, inbox, seen, shown, recon, answer, waiting, reply, timeouts>>
      BY <2>9 DEF Tightened, replyVars, pageVars, countVars
    <3>3. /\ out \in Seq(Events) /\ Range(out) \subseteq {Released(k), Closed(k)}
          /\ stage[k] = "dropping" => Closed(k) \in Range(out) \cup Range(rest)
      BY <3>1, TightSplitParts
    <3>4. queue \in Seq(Events) /\ stage \in [Streams -> Stages] /\ DOMAIN pending = Streams
      BY DEF Types, QueueTypes, BridgeTypes
    <3>5. Range(queue') = Range(queue) \cup Range(out)
      BY <3>1, <3>3, <3>4, RangeConcat
    <3>6. /\ \A j : Opened(j) \in Range(queue') <=> Opened(j) \in Range(queue)
          /\ \A j : j # k => (Closed(j) \in Range(queue') <=> Closed(j) \in Range(queue))
          /\ \A t, S : Snapshot(t, S) \in Range(queue') <=> Snapshot(t, S) \in Range(queue)
      BY <3>3, <3>5, StreamEvents, TighteningEvents, SnapshotFields
    <3>7. /\ stage'[k] = "gone" /\ settled \subseteq settled'
          /\ \A j \in Streams : j # k => stage'[j] = stage[j] /\ pending'[j] = pending[j]
      BY <3>1, <3>2, <3>4
    <3>8. stage[k] = "dropping" => Owed(k)'
      <4>1. CASE settled' = settled \union {k}
        BY <4>1 DEF Owed
      <4>2. CASE pending' = [pending EXCEPT ![k] = rest]
        <5>1. pending'[k] = rest
          BY <3>4, <4>2
        <5> QED
          BY <3>3, <3>5, <5>1 DEF Owed
      <4> QED
        BY <3>1, <4>1, <4>2
    <3>9. \A j \in Streams : Closed(j) \in Range(queue') => stage'[j] = "gone"
      BY <3>6, <3>7 DEF PageInv
    <3>10. \A j \in Streams : stage[j] \in Past => stage'[j] \in Past /\ (Owed(j) => Owed(j)')
      <4> TAKE j \in Streams
      <4>1. CASE j = k
        BY <3>2, <3>7, <3>8, <4>1 DEF Past
      <4>2. CASE j # k
        BY <3>2, <3>6, <3>7, <4>2 DEF Owed
      <4> QED
        BY <4>1, <4>2
    <3>11. \A x : Ahead(x)' <=> Ahead(x)
      BY <3>2 DEF Ahead
    <3>12. \A j \in live' : /\ j \in live \/ stage[j] \notin Past
                            /\ Coming(j)' \/ (j \in live /\ ~Coming(j))
      <4> TAKE j \in live'
      <4>1. j \in live /\ j \in Streams /\ j # k
        BY <3>2 DEF BridgeTypes, StageInv
      <4> QED
        BY <3>6, <3>7, <3>11, <4>1 DEF Coming
    <3>13. Steady
      BY <3>2, <3>7, <3>9, <3>10, <3>12 DEF Steady
    <3>14. \A S \in SUBSET Streams : Current(S)' /\ ~recon'.raced => Fits(S)
      BY <3>2, <3>6 DEF Current, PageInv
    <3> QED
      BY <3>13, <3>14, SteadyKept DEF Types
  <2>10. CASE InputChecks(k)
    <3>1. queue' = queue \/ queue' = Append(queue, Plain)
      BY <2>10 DEF InputChecks, queueVars
    <3>2. UNCHANGED <<pending, heard, settled, inbox, seen, shown, recon, answer,
                     waiting, reply, timeouts>>
      BY <2>10 DEF InputChecks, queueVars, historyVars, replyVars, pageVars, countVars
    <3>3. \A j \in Streams : StageStep(j)
      BY <2>10 DEF InputChecks, StageStep, Past, StageInv, Types, BridgeTypes, Stages,
         bridgeVars
    <3>4. Plain \in Events /\ Plain.type \notin {"opened", "closed", "snapshot"}
      BY EventsMade DEF Plain
    <3> QED
      BY <3>1, <3>2, <3>3, <3>4, PageQuiet DEF Types
  <2>11. CASE InputAudits(k)
    <3>1. queue' = queue \/ queue' = Append(queue, Input(k))
      BY <2>11 DEF InputAudits, queueVars
    <3>2. UNCHANGED <<pending, heard, settled, inbox, seen, shown, recon, answer,
                     waiting, reply, timeouts>>
      BY <2>11 DEF InputAudits, queueVars, historyVars, replyVars, pageVars, countVars
    <3>3. \A j \in Streams : StageStep(j)
      BY <2>11 DEF InputAudits, StageStep, Past, StageInv, Types, BridgeTypes, Stages,
         bridgeVars
    <3>4. Input(k) \in Events /\ Input(k).type \notin {"opened", "closed", "snapshot"}
      BY EventsMade DEF Input
    <3> QED
      BY <3>1, <3>2, <3>3, <3>4, PageQuiet DEF Types
  <2>12. CASE InputStarts(k)
    <3>1. queue' = queue \/ queue' = Append(queue, Plain)
      BY <2>12 DEF InputStarts, queueVars
    <3>2. UNCHANGED <<pending, heard, settled, inbox, seen, shown, recon, answer,
                     waiting, reply, timeouts>>
      BY <2>12 DEF InputStarts, queueVars, historyVars, replyVars, pageVars, countVars
    <3>3. \A j \in Streams : StageStep(j)
      BY <2>12 DEF InputStarts, StageStep, Past, StageInv, Types, BridgeTypes, Stages,
         bridgeVars
    <3>4. Plain \in Events /\ Plain.type \notin {"opened", "closed", "snapshot"}
      BY EventsMade DEF Plain
    <3> QED
      BY <3>1, <3>2, <3>3, <3>4, PageQuiet DEF Types
  <2>13. CASE BucketDue(k)
    <3>1. queue' = queue \/ queue' = Append(queue, Input(k))
      BY <2>13 DEF BucketDue, queueVars
    <3>2. UNCHANGED <<pending, heard, settled, inbox, seen, shown, recon, answer,
                     waiting, reply, timeouts>>
      BY <2>13 DEF BucketDue, queueVars, historyVars, replyVars, pageVars, countVars
    <3>3. \A j \in Streams : StageStep(j)
      BY <2>13 DEF BucketDue, StageStep, Past, StageInv, Types, BridgeTypes, Stages,
         bridgeVars
    <3>4. Input(k) \in Events /\ Input(k).type \notin {"opened", "closed", "snapshot"}
      BY EventsMade DEF Input
    <3> QED
      BY <3>1, <3>2, <3>3, <3>4, PageQuiet DEF Types
  <2>14. CASE OpenStarts(k)
    <3>1. queue' = queue \/ queue' = Append(queue, Plain)
      BY <2>14 DEF OpenStarts, queueVars
    <3>2. UNCHANGED <<pending, heard, settled, inbox, seen, shown, recon, answer,
                     waiting, reply, timeouts>>
      BY <2>14 DEF OpenStarts, queueVars, historyVars, replyVars, pageVars, countVars
    <3>3. \A j \in Streams : StageStep(j)
      BY <2>14 DEF OpenStarts, StageStep, Past, StageInv, Types, BridgeTypes, Stages,
         bridgeVars
    <3>4. Plain \in Events /\ Plain.type \notin {"opened", "closed", "snapshot"}
      BY EventsMade DEF Plain
    <3> QED
      BY <3>1, <3>2, <3>3, <3>4, PageQuiet DEF Types
  <2>15. CASE OpenFailed(k)
    <3>1. queue' = queue \/ queue' = Append(queue, Plain)
      BY <2>15 DEF OpenFailed, BestEffort, queueVars
    <3>2. UNCHANGED <<pending, heard, settled, inbox, seen, shown, recon, answer,
                     waiting, reply, timeouts>>
      BY <2>15 DEF OpenFailed, queueVars, historyVars, replyVars, pageVars, countVars
    <3>3. \A j \in Streams : StageStep(j)
      BY <2>15 DEF OpenFailed, StageStep, Past, StageInv, Types, BridgeTypes, Stages,
         bridgeVars
    <3>4. Plain \in Events /\ Plain.type \notin {"opened", "closed", "snapshot"}
      BY EventsMade DEF Plain
    <3> QED
      BY <3>1, <3>2, <3>3, <3>4, PageQuiet DEF Types
  <2> QED
    BY <1>1, <2>1, <2>2, <2>3, <2>4, <2>5, <2>6, <2>7, <2>8, <2>9, <2>10, <2>11, <2>12,
       <2>13, <2>14, <2>15 DEF StreamNext
<1>2. CASE Flush
  <2>1. UNCHANGED <<stage, live, heard, settled, inbox, seen, shown, recon, answer, waiting,
                   reply, timeouts>>
    BY <1>2 DEF Flush, bridgeVars, historyVars, replyVars, pageVars, countVars
  <2>2. /\ \A k \in Streams : Opened(k) \in Range(queue') <=> Opened(k) \in Range(queue)
        /\ \A k \in Streams : Closed(k) \in Range(queue) \union Range(pending[k]) =>
             Closed(k) \in Range(queue') \union Range(pending'[k])
        /\ \A k \in Streams : Closed(k) \in Range(queue') =>
             Closed(k) \in Range(queue) \/ pending[k] # << >>
        /\ \A t, S : Snapshot(t, S) \in Range(queue') <=> Snapshot(t, S) \in Range(queue)
    BY <1>2, FlushRanges
  <2>21. \A x : Ahead(x)' <=> Ahead(x)
    BY <2>1 DEF Ahead
  <2>22. \A k \in Streams : Closed(k) \in Range(queue') => stage'[k] = "gone"
    BY <2>1, <2>2 DEF PageInv, StageInv
  <2>23. \A k \in Streams : Owed(k) => Owed(k)'
    BY <2>1, <2>2 DEF Owed
  <2>24. \A k \in live : k \in Streams
    BY DEF Types, BridgeTypes
  <2>25. \A k \in live : Coming(k) => Coming(k)'
    BY <2>1, <2>2, <2>21, <2>24 DEF Coming
  <2>26. Steady
    BY <2>1, <2>22, <2>23, <2>25 DEF Steady
  <2>3. \A S \in SUBSET Streams : Current(S)' /\ ~recon'.raced => Fits(S)
    BY <2>1, <2>2 DEF Current, PageInv
  <2> QED
    BY <2>3, <2>26, SteadyKept DEF Types
<1>3. CASE PlainAudit
  <2>1. queue' = queue \/ queue' = Append(queue, Plain)
    BY <1>3 DEF PlainAudit, BestEffort, queueVars
  <2>2. UNCHANGED <<pending, heard, settled, inbox, seen, shown, recon, answer,
                   waiting, reply, timeouts>>
    BY <1>3 DEF PlainAudit, queueVars, historyVars, replyVars, pageVars, countVars
  <2>3. \A j \in Streams : StageStep(j)
    BY <1>3 DEF PlainAudit, StageStep, Past, StageInv, Types, BridgeTypes, Stages,
       bridgeVars
  <2>4. Plain \in Events /\ Plain.type \notin {"opened", "closed", "snapshot"}
    BY EventsMade DEF Plain
  <2> QED
    BY <2>1, <2>2, <2>3, <2>4, PageQuiet DEF Types
<1>4. CASE OtherEvent
  <2>1. queue' = queue \/ queue' = Append(queue, Lifecycle)
    BY <1>4 DEF OtherEvent, queueVars
  <2>2. UNCHANGED <<pending, heard, settled, inbox, seen, shown, recon, answer,
                   waiting, reply, timeouts>>
    BY <1>4 DEF OtherEvent, queueVars, historyVars, replyVars, pageVars, countVars
  <2>3. \A j \in Streams : StageStep(j)
    BY <1>4 DEF OtherEvent, StageStep, Past, StageInv, Types, BridgeTypes, Stages,
       bridgeVars
  <2>4. Lifecycle \in Events /\ Lifecycle.type \notin {"opened", "closed", "snapshot"}
    BY EventsMade DEF Lifecycle
  <2> QED
    BY <2>1, <2>2, <2>3, <2>4, PageQuiet DEF Types
<1>5. CASE Deliver
  <2>1. PICK e : e = Head(queue)
    OBVIOUS
  <2>2. /\ queue # << >> /\ queue' = Tail(queue)
        /\ inbox' = IF e.type \in {"opened", "closed"} THEN Append(inbox, e) ELSE inbox
    BY <1>5, <2>1 DEF Deliver
  <2>3. /\ heard' = IF e.type = "opened" THEN heard \union {e.stream} ELSE heard
        /\ settled' = IF e.type = "closed" THEN settled \union {e.stream} ELSE settled
        /\ UNCHANGED <<stage, live, pending, answer, seen, shown, recon, timeouts>>
    BY <1>5, <2>1 DEF Deliver, bridgeVars, countVars
  <2>4. queue \in Seq(Events) /\ inbox \in Seq(Events) /\ live \subseteq Streams
    BY DEF Types, QueueTypes, PageTypes, BridgeTypes
  <2>5. e \in Events /\ Range(queue) = {e} \cup Range(queue')
    BY <2>1, <2>2, <2>4, SumTail, RangeTail
  <2>6. /\ e.type = "opened" => e.stream \in Streams /\ e = Opened(e.stream)
        /\ e.type = "closed" => e.stream \in Streams /\ e = Closed(e.stream)
    BY <2>5, EventFields
  <2>7. /\ \A k : e = Opened(k) => k \in heard'
        /\ \A k : e = Closed(k) => k \in settled'
        /\ heard \subseteq heard' /\ settled \subseteq settled'
    BY <2>3, StreamEvents
  <2>8. e.type \in {"opened", "closed"} => e # Down
    BY DEF Down
  <2>9. /\ \A k : Ahead(Opened(k))' <=> Ahead(Opened(k)) \/ e = Opened(k)
        /\ \A k : Ahead(Closed(k))' <=> Ahead(Closed(k)) \/ e = Closed(k)
    <3>1. CASE e.type \in {"opened", "closed"}
      <4>1. inbox' = Append(inbox, e)
        BY <2>2, <3>1
      <4>2. \A x : AheadIn(Append(inbox, e), x) <=> AheadIn(inbox, x) \/ x = e
        BY <2>4, <2>5, <2>8, <3>1, AheadAppend
      <4> QED
        BY <4>1, <4>2 DEF Ahead
    <3>2. CASE e.type \notin {"opened", "closed"}
      <4>1. inbox' = inbox
        BY <2>2, <3>2
      <4>2. \A k : e # Opened(k) /\ e # Closed(k)
        BY <3>2, StreamEvents
      <4> QED
        BY <4>1, <4>2 DEF Ahead
    <3> QED
      BY <3>1, <3>2
  <2>10. DownAhead' <=> DownAhead
    <3>1. CASE e.type \in {"opened", "closed"}
      <4>1. inbox' = Append(inbox, e)
        BY <2>2, <3>1
      <4>2. Range(Append(inbox, e)) = Range(inbox) \cup {e}
        BY <2>4, <2>5, RangeAppend
      <4> QED
        BY <2>8, <3>1, <4>1, <4>2 DEF DownAhead
    <3>2. CASE e.type \notin {"opened", "closed"}
      BY <2>2, <3>2 DEF DownAhead
    <3> QED
      BY <3>1, <3>2
  <2>11. \A k \in Streams : Owed(k) => Owed(k)'
    BY <2>3, <2>5, <2>7 DEF Owed
  <2>12. \A k \in Streams : Coming(k) => Coming(k)'
    BY <2>3, <2>5, <2>9 DEF Coming
  <2>13. ASSUME NEW S \in SUBSET Streams, Fits(S)
         PROVE  Fits(S)'
    BY <2>3, <2>4, <2>10, <2>11, <2>12, <2>13 DEF Fits
  <2>14. Fits(shown)'
    <3>1. PICK S : S = shown
      OBVIOUS
    <3>2. S \in SUBSET Streams /\ Fits(S)
      BY <3>1 DEF PageInv, Types, PageTypes
    <3>3. Fits(S)' /\ shown' = S
      BY <2>3, <2>13, <3>1, <3>2
    <3> QED
      BY <3>3 DEF Fits
  <2>15. \A S \in SUBSET Streams : Current(S)' => Current(S)
    <3>1. PICK mine : mine = (e.type = "snapshot" /\ waiting /\ e.id = timeouts)
      OBVIOUS
    <3>2. /\ waiting' = (waiting /\ ~mine)
          /\ reply' = IF mine THEN Replied(e.streams) ELSE reply
      BY <1>5, <2>1, <3>1 DEF Deliver
    <3>3. mine => waiting /\ e = Snapshot(timeouts, e.streams)
      BY <2>5, <3>1, EventFields, SnapshotFields
    <3>4. \A S : Replied(S).streams = S
      BY DEF Replied
    <3> TAKE S \in SUBSET Streams
    <3>5. CASE mine
      <4>1. reply' = Replied(e.streams) /\ ~waiting'
        BY <3>2, <3>5
      <4>2. Current(S)' => S = e.streams
        BY <3>4, <4>1 DEF Current
      <4>3. Current(e.streams)
        BY <2>5, <3>3, <3>5 DEF Current
      <4> QED
        BY <4>2, <4>3
    <3>6. CASE ~mine
      <4>1. waiting' => waiting
        BY <3>2
      <4>2. reply' = reply
        BY <3>2, <3>6
      <4> QED
        BY <2>3, <2>5, <4>1, <4>2 DEF Current
    <3> QED
      BY <3>5, <3>6
  <2>16. \A S \in SUBSET Streams : Current(S)' /\ ~recon'.raced => Fits(S)'
    BY <2>3, <2>13, <2>15 DEF PageInv
  <2>17. \A k \in Streams : ~DownAhead' /\ seen'[k] > 0 => stage'[k] \in Past
    BY <2>3, <2>10 DEF PageInv
  <2>18. \A k \in Streams : Ahead(Opened(k))' => k \in heard'
    BY <2>7, <2>9 DEF PageInv
  <2>19. \A k \in Streams : Closed(k) \in Range(queue') => stage'[k] = "gone"
    BY <2>3, <2>5 DEF PageInv
  <2>20. \A k \in Streams : Ahead(Closed(k))' => stage'[k] = "gone" /\ k \in settled'
    BY <2>3, <2>5, <2>7, <2>9 DEF PageInv
  <2> QED
    BY <2>14, <2>16, <2>17, <2>18, <2>19, <2>20 DEF PageInv
<1>6. CASE Reconcile
  <2>1. UNCHANGED <<stage, live, heard, settled, inbox, seen, shown, queue, pending>>
    BY <1>6 DEF Reconcile, bridgeVars, historyVars, pageVars, queueVars
  <2>21. \A x : Ahead(x)' <=> Ahead(x)
    BY <2>1 DEF Ahead
  <2>22. \A k \in Streams : Closed(k) \in Range(queue') => stage'[k] = "gone"
    BY <2>1 DEF PageInv, StageInv
  <2>23. \A k \in Streams : Owed(k) => Owed(k)'
    BY <2>1 DEF Owed
  <2>24. \A k \in live : k \in Streams
    BY DEF Types, BridgeTypes
  <2>25. \A k \in live : Coming(k) => Coming(k)'
    BY <2>1, <2>21, <2>24 DEF Coming
  <2>26. Steady
    BY <2>1, <2>22, <2>23, <2>25 DEF Steady
  <2>2. ~waiting /\ reply' = NoReply /\ waiting' /\ UNCHANGED <<queue, answer, timeouts>>
    BY <1>6 DEF Reconcile, Ask, RequestInv, queueVars, countVars
  <2>3. ~Has(answer, MineOf(timeouts)) /\ ~Has(queue, MineOf(timeouts))
    BY <2>2 DEF RequestInv, RequestAt
  <2>4. \A S \in SUBSET Streams : ~Current(S)'
    BY <2>2, <2>3 DEF Current, Has, MineOf, NoReply, Replied
  <2> QED
    BY <2>4, <2>26, SteadyKept DEF Types
<1>7. CASE Answer
  <2>1. UNCHANGED <<stage, live, heard, settled, inbox, seen, shown, queue, pending>>
    BY <1>7 DEF Answer, bridgeVars, historyVars, pageVars, queueVars
  <2>21. \A x : Ahead(x)' <=> Ahead(x)
    BY <2>1 DEF Ahead
  <2>22. \A k \in Streams : Closed(k) \in Range(queue') => stage'[k] = "gone"
    BY <2>1 DEF PageInv, StageInv
  <2>23. \A k \in Streams : Owed(k) => Owed(k)'
    BY <2>1 DEF Owed
  <2>24. \A k \in live : k \in Streams
    BY DEF Types, BridgeTypes
  <2>25. \A k \in live : Coming(k) => Coming(k)'
    BY <2>1, <2>21, <2>24 DEF Coming
  <2>26. Steady
    BY <2>1, <2>22, <2>23, <2>25 DEF Steady
  <2>2. /\ answer = << >> /\ answer' = <<Snapshot(Head(asked), live)>>
        /\ UNCHANGED <<queue, waiting, reply, recon, timeouts>>
    BY <1>7 DEF Answer, queueVars, pageVars, countVars
  <2>3. Range(answer') = {Snapshot(Head(asked), live)}
    BY <2>2, ShortRanges
  <2>4. \A S \in SUBSET Streams : Current(S)' => Current(S) \/ S = live
    BY <2>2, <2>3, SnapshotFields DEF Current
  <2>5. Fits(live)
    BY LiveFits DEF Types
  <2>6. \A S \in SUBSET Streams : Current(S)' /\ ~recon'.raced => Fits(S)
    BY <2>2, <2>4, <2>5 DEF PageInv
  <2> QED
    BY <2>6, <2>26, SteadyKept DEF Types
<1>8. CASE AnswerQueued
  <2>1. /\ UNCHANGED <<stage, live, heard, settled, inbox, seen, shown, pending, recon, waiting, reply,
                       timeouts>>
        /\ answer # << >> /\ queue' = queue \o answer /\ answer' = << >>
    BY <1>8 DEF AnswerQueued, bridgeVars, historyVars, pageVars, countVars
  <2>2. PICK s \in Snapshots : answer = <<s>>
    BY <2>1 DEF Types, PageTypes
  <2>3. s \in Events /\ queue \in Seq(Events)
    BY EventsMade DEF Types, QueueTypes
  <2>4. queue' = Append(queue, s)
    BY <2>1, <2>2, <2>3, AppendIsConcat
  <2>5. Range(queue') = Range(queue) \cup {s}
    BY <2>3, <2>4, RangeAppend
  <2>6. Range(answer) = {s} /\ Range(answer') = {}
    <3>1. Range(answer) = {s}
      BY <2>2, ShortRanges
    <3>2. Range(answer') = {}
      BY <2>1, ShortRanges
    <3> QED
      BY <3>1, <3>2
  <2>7. \A k : /\ Opened(k) \in Range(queue') <=> Opened(k) \in Range(queue)
               /\ Closed(k) \in Range(queue') <=> Closed(k) \in Range(queue)
    BY <2>5, StreamEvents, SnapshotFields
  <2>21. \A x : Ahead(x)' <=> Ahead(x)
    BY <2>1 DEF Ahead
  <2>22. \A k \in Streams : Closed(k) \in Range(queue') => stage'[k] = "gone"
    BY <2>1, <2>7 DEF PageInv, StageInv
  <2>23. \A k \in Streams : Owed(k) => Owed(k)'
    BY <2>1, <2>7 DEF Owed
  <2>24. \A k \in live : k \in Streams
    BY DEF Types, BridgeTypes
  <2>25. \A k \in live : Coming(k) => Coming(k)'
    BY <2>1, <2>7, <2>21, <2>24 DEF Coming
  <2>26. Steady
    BY <2>1, <2>22, <2>23, <2>25 DEF Steady
  <2>8. \A S \in SUBSET Streams : Current(S)' /\ ~recon'.raced => Fits(S)
    BY <2>1, <2>5, <2>6 DEF Current, PageInv
  <2> QED
    BY <2>8, <2>26, SteadyKept DEF Types
<1>9. CASE GiveUp
  <2>1. UNCHANGED <<stage, live, heard, settled, inbox, seen, shown, queue, pending>>
    BY <1>9 DEF GiveUp, bridgeVars, historyVars, pageVars, queueVars
  <2>21. \A x : Ahead(x)' <=> Ahead(x)
    BY <2>1 DEF Ahead
  <2>22. \A k \in Streams : Closed(k) \in Range(queue') => stage'[k] = "gone"
    BY <2>1 DEF PageInv, StageInv
  <2>23. \A k \in Streams : Owed(k) => Owed(k)'
    BY <2>1 DEF Owed
  <2>24. \A k \in live : k \in Streams
    BY DEF Types, BridgeTypes
  <2>25. \A k \in live : Coming(k) => Coming(k)'
    BY <2>1, <2>21, <2>24 DEF Coming
  <2>26. Steady
    BY <2>1, <2>22, <2>23, <2>25 DEF Steady
  <2>2. ~waiting' /\ reply'.kind # "replied"
    BY <1>9 DEF GiveUp, Failed
  <2>3. \A S \in SUBSET Streams : ~Current(S)'
    BY <2>2, NobodyWaits
  <2> QED
    BY <2>3, <2>26, SteadyKept DEF Types
<1>10. CASE PageReply
  <2>1. UNCHANGED <<stage, live, heard, settled, inbox, queue, pending, answer, timeouts>>
    BY <1>10 DEF PageReply, bridgeVars, historyVars, queueVars, countVars
  <2>2. reply # NoReply /\ reply' = NoReply /\ ~waiting
    BY <1>10 DEF PageReply, RequestInv
  <2>3. \A S \in SUBSET Streams : ~Current(S)'
    <3>1. ~Has(answer, MineOf(timeouts)) /\ ~Has(queue, MineOf(timeouts))
      BY <2>2 DEF RequestInv, RequestAt
    <3> QED
      BY <2>1, <2>2, <3>1 DEF Current, Has, MineOf, NoReply, Replied
  <2>4. CASE UNCHANGED <<shown, seen>>
    <3>21. \A x : Ahead(x)' <=> Ahead(x)
      BY <2>1, <2>4 DEF Ahead
    <3>22. \A k \in Streams : Closed(k) \in Range(queue') => stage'[k] = "gone"
      BY <2>1, <2>4 DEF PageInv, StageInv
    <3>23. \A k \in Streams : Owed(k) => Owed(k)'
      BY <2>1, <2>4 DEF Owed
    <3>24. \A k \in live : k \in Streams
      BY DEF Types, BridgeTypes
    <3>25. \A k \in live : Coming(k) => Coming(k)'
      BY <2>1, <2>4, <3>21, <3>24 DEF Coming
    <3>26. Steady
      BY <2>1, <2>4, <3>22, <3>23, <3>25 DEF Steady
    <3> QED
      BY <2>3, <3>26, SteadyKept DEF Types
  <2>5. CASE /\ reply.kind = "replied" /\ ~recon.raced
             /\ shown' = reply.streams
             /\ seen' = [k \in Streams |->
                  IF k \in reply.streams /\ seen[k] = 0 THEN 1 ELSE seen[k]]
    <3>1. PICK S : S = reply.streams
      OBVIOUS
    <3>2. S \in SUBSET Streams /\ reply = Replied(S)
      BY <2>5, <3>1 DEF Types, PageTypes, Replied
    <3>3. Fits(S)
      BY <2>5, <3>2 DEF PageInv, Current
    <3>4. (DownAhead' <=> DownAhead) /\ \A x : Ahead(x)' <=> Ahead(x)
      BY <2>1 DEF DownAhead, Ahead
    <3>5. \A k \in Streams : (Owed(k)' <=> Owed(k)) /\ (Coming(k)' <=> Coming(k))
      BY <2>1, <3>4 DEF Owed, Coming
    <3>6. \A k \in Streams : seen'[k] > 0 => k \in S \/ seen[k] > 0
      BY <2>5, <3>1 DEF Types, PageTypes
    <3>7. live \subseteq Streams /\ live' = live /\ shown' = S
      BY <2>1, <2>5, <3>1 DEF Types, BridgeTypes
    <3>8. Fits(shown)'
      <4>1. \A k \in S : DownAhead' \/ (Owed(k)' /\ stage'[k] \in Past)
        BY <2>1, <3>2, <3>3, <3>4, <3>5 DEF Fits
      <4>2. \A k \in live' : Coming(k)' \/ (k \in S /\ ~DownAhead')
        BY <3>3, <3>4, <3>5, <3>7 DEF Fits
      <4>3. \A k \in live' : ~DownAhead' /\ seen'[k] > 0 => k \in S
        BY <3>3, <3>4, <3>6, <3>7 DEF Fits
      <4> QED
        BY <3>7, <4>1, <4>2, <4>3 DEF Fits
    <3>9. \A k \in Streams : ~DownAhead' /\ seen'[k] > 0 => stage'[k] \in Past
      BY <2>1, <3>3, <3>4, <3>6 DEF PageInv, Fits
    <3> QED
      BY <2>1, <2>3, <3>4, <3>8, <3>9 DEF PageInv
  <2> QED
    BY <1>10, <2>4, <2>5 DEF PageReply
<1>11. CASE PageEvent
  <2>1. PICK e : e = Head(inbox)
    OBVIOUS
  <2>2. /\ inbox # << >> /\ inbox' = Tail(inbox) /\ recon' = [recon EXCEPT !.raced = recon.on]
        /\ UNCHANGED <<stage, live, heard, settled, queue, pending, answer, waiting, reply, timeouts>>
    BY <1>11 DEF PageEvent, bridgeVars, historyVars, queueVars, replyVars, countVars
  <2>3. /\ inbox \in Seq(Events) /\ live \subseteq Streams /\ shown \subseteq Streams
        /\ seen \in [Streams -> 0 .. 2]
        /\ recon \in [on : BOOLEAN, attempt : 0 .. ATTEMPTS, raced : BOOLEAN]
    BY DEF Types, PageTypes, BridgeTypes
  <2>4. e \in Events /\ Range(inbox) = {e} \cup Range(inbox')
    BY <2>1, <2>2, <2>3, SumTail, RangeTail
  <2>5. \A S \in SUBSET Streams : ~(Current(S)' /\ ~recon'.raced)
    <3>1. recon'.raced = recon.on
      BY <2>2, <2>3
    <3>2. \A S : Replied(S) # NoReply
      BY DEF Replied, NoReply
    <3>3. \A S \in SUBSET Streams : Current(S)' => recon.on
      BY <2>2, <3>2 DEF Current, RequestInv
    <3> QED
      BY <3>1, <3>3
  <2>6. \A x : /\ Ahead(x)' => Ahead(x)
               /\ Ahead(x) => Ahead(x)' \/ (e = x /\ ~DownAhead')
               /\ e = x /\ ~DownAhead' => Ahead(x)
    BY <2>1, <2>2, <2>3, AheadTail DEF Ahead, DownAhead
  <2>7. DownAhead <=> e = Down \/ DownAhead'
    BY <2>4 DEF DownAhead
  <2>8. \A k \in Streams : Owed(k)' <=> Owed(k)
    BY <2>2 DEF Owed
  <2>9. \A k \in Streams : Coming(k) => Coming(k)' \/ (e = Opened(k) /\ ~DownAhead')
    BY <2>2, <2>6 DEF Coming
  <2>10. /\ \A k \in Streams : Ahead(Opened(k))' => k \in heard'
         /\ \A k \in Streams : Closed(k) \in Range(queue') => stage'[k] = "gone"
         /\ \A k \in Streams : Ahead(Closed(k))' => stage'[k] = "gone" /\ k \in settled'
    BY <2>2, <2>6 DEF PageInv
  <2>11. /\ \A k \in shown : DownAhead \/ (Owed(k) /\ stage[k] \in Past)
         /\ \A k \in live : Coming(k) \/ (k \in shown /\ ~DownAhead)
         /\ \A k \in live : ~DownAhead /\ seen[k] > 0 => k \in shown
         /\ \A k \in Streams : ~DownAhead /\ seen[k] > 0 => stage[k] \in Past
    BY DEF PageInv, Fits
  <2>12. /\ e.type = "down" => e = Down
         /\ e.type = "opened" => e.stream \in Streams /\ e = Opened(e.stream)
         /\ e.type = "closed" => e.stream \in Streams /\ e = Closed(e.stream)
    BY <2>4, EventFields
  <2>13. Down.type = "down"
    BY DEF Down
  <2>14. SUFFICES Fits(shown)' /\ \A k \in Streams : ~DownAhead' /\ seen'[k] > 0 => stage'[k] \in Past
    BY <2>5, <2>10 DEF PageInv
  <2>15. CASE e.type = "down"
    <3>1. shown' = {} /\ seen' = [k \in Streams |-> 0]
      BY <1>11, <2>1, <2>15, PageEventCases
    <3>2. e = Down /\ DownAhead /\ \A k : e # Opened(k)
      BY <2>7, <2>12, <2>15, StreamEvents
    <3>3. \A k \in live : Coming(k)'
      BY <2>3, <2>9, <2>11, <3>2
    <3>4. \A k \in Streams : ~(seen'[k] > 0)
      BY <3>1
    <3>5. live' \subseteq Streams /\ live' = live
      BY <2>2, <2>3
    <3> QED
      BY <3>1, <3>3, <3>4, <3>5 DEF Fits
  <2>16. CASE e.type # "down" /\ ~IsNew(e)
    <3>1. shown' = shown /\ seen' = seen
      BY <1>11, <2>1, <2>16, PageEventCases
    <3>2. DownAhead' <=> DownAhead
      BY <2>7, <2>13, <2>16
    <3>3. \A k \in Streams : e = Opened(k) => seen[k] > 0
      <4> SUFFICES ASSUME NEW k \in Streams, e = Opened(k)
                   PROVE  seen[k] > 0
        OBVIOUS
      <4>1. e.type = "opened" /\ e.stream = k
        BY StreamEvents
      <4>2. ~(1 > seen[k])
        BY <2>16, <4>1 DEF IsNew, StreamSeq
      <4>3. seen[k] \in 0 .. 2
        BY <2>3
      <4> QED
        BY <4>2, <4>3
    <3>4. \A k \in shown : DownAhead' \/ (Owed(k)' /\ stage'[k] \in Past)
      BY <2>2, <2>3, <2>8, <2>11, <3>2
    <3>5. \A k \in live : Coming(k)' \/ (k \in shown /\ ~DownAhead')
      BY <2>3, <2>9, <2>11, <3>2, <3>3
    <3>6. \A k \in live : ~DownAhead' /\ seen[k] > 0 => k \in shown
      BY <2>11, <3>2
    <3>7. \A k \in Streams : ~DownAhead' /\ seen[k] > 0 => stage'[k] \in Past
      BY <2>2, <2>11, <3>2
    <3> QED
      BY <2>2, <3>1, <3>4, <3>5, <3>6, <3>7 DEF Fits
  <2>17. CASE e.type = "opened" /\ IsNew(e)
    <3>1. PICK k \in Streams : k = e.stream /\ e = Opened(k)
      BY <2>12, <2>17
    <3>2. shown' = shown \union {k} /\ seen' = [seen EXCEPT ![k] = 1]
      BY <1>11, <2>1, <2>17, <3>1, PageEventCases DEF StreamSeq
    <3>3. DownAhead' <=> DownAhead
      BY <2>7, <2>13, <2>17
    <3>4. ~DownAhead' => Owed(k) /\ stage[k] \in Past
      <4> SUFFICES ASSUME ~DownAhead'
                   PROVE  Owed(k) /\ stage[k] \in Past
        OBVIOUS
      <4>1. k \in heard
        BY <2>6, <3>1 DEF PageInv
      <4>2. /\ stage[k] \in {"open", "dropping", "gone"}
            /\ stage[k] = "gone" => k \in settled \/ Closed(k) \in Range(queue) \union Range(pending[k])
        BY <4>1 DEF OrderInv, Announced
      <4>3. stage[k] = "open" => k \in live
        BY DEF StageInv
      <4> QED
        BY <4>2, <4>3 DEF Owed, Past
    <3>5. \A j \in Streams : j # k => seen'[j] = seen[j] /\ e # Opened(j)
      BY <2>3, <3>1, <3>2, StreamEvents
    <3>6. \A j \in shown' : DownAhead' \/ (Owed(j)' /\ stage'[j] \in Past)
      BY <2>2, <2>3, <2>8, <2>11, <3>2, <3>3, <3>4
    <3>7. \A j \in live : Coming(j)' \/ (j \in shown' /\ ~DownAhead')
      BY <2>3, <2>9, <2>11, <3>2, <3>3, <3>5
    <3>8. \A j \in live : ~DownAhead' /\ seen'[j] > 0 => j \in shown'
      BY <2>3, <2>11, <3>2, <3>3, <3>5
    <3>9. \A j \in Streams : ~DownAhead' /\ seen'[j] > 0 => stage'[j] \in Past
      BY <2>2, <2>11, <3>3, <3>4, <3>5
    <3> QED
      BY <2>2, <3>6, <3>7, <3>8, <3>9 DEF Fits
  <2>18. CASE e.type = "closed" /\ IsNew(e)
    <3>1. PICK k \in Streams : k = e.stream /\ e = Closed(k)
      BY <2>12, <2>18
    <3>2. shown' = shown \ {k} /\ seen' = [seen EXCEPT ![k] = 2]
      BY <1>11, <2>1, <2>18, <3>1, PageEventCases DEF StreamSeq
    <3>3. DownAhead' <=> DownAhead
      BY <2>7, <2>13, <2>18
    <3>4. ~DownAhead' => stage[k] = "gone"
      BY <2>6, <3>1 DEF PageInv
    <3>5. stage[k] = "gone" => k \notin live /\ stage[k] \in Past
      BY DEF StageInv, Past
    <3>6. /\ \A j \in Streams : e # Opened(j)
          /\ \A j \in Streams : j # k => seen'[j] = seen[j]
      BY <2>3, <3>1, <3>2, StreamEvents
    <3>7. \A j \in shown' : DownAhead' \/ (Owed(j)' /\ stage'[j] \in Past)
      BY <2>2, <2>3, <2>8, <2>11, <3>2, <3>3
    <3>8. \A j \in live : Coming(j)' \/ (j \in shown' /\ ~DownAhead')
      BY <2>3, <2>9, <2>11, <3>2, <3>3, <3>4, <3>5, <3>6
    <3>9. \A j \in live : ~DownAhead' /\ seen'[j] > 0 => j \in shown'
      BY <2>3, <2>11, <3>2, <3>3, <3>4, <3>5, <3>6
    <3>10. \A j \in Streams : ~DownAhead' /\ seen'[j] > 0 => stage'[j] \in Past
      BY <2>2, <2>11, <3>3, <3>4, <3>5, <3>6
    <3> QED
      BY <2>2, <3>7, <3>8, <3>9, <3>10 DEF Fits
  <2>19. e.type = "down" \/ (e.type # "down" /\ ~IsNew(e))
           \/ (e.type = "opened" /\ IsNew(e)) \/ (e.type = "closed" /\ IsNew(e))
    BY DEF IsNew
  <2> QED
    BY <2>15, <2>16, <2>17, <2>18, <2>19
<1>12. CASE Crash
  <2>1. /\ live' = {} /\ queue' = << >> /\ inbox' = inbox \o <<Down, Up>>
        /\ seen' = seen /\ shown' = shown
    BY <1>12 DEF Crash
  <2>2. inbox \in Seq(Events)
    BY DEF Types, PageTypes
  <2>3. \A k : Opened(k) \notin {Down, Up} /\ Closed(k) \notin {Down, Up}
    BY StreamEvents DEF Down, Up
  <2>4. \A k : ~Ahead(Opened(k))' /\ ~Ahead(Closed(k))'
    BY <2>1, <2>2, <2>3, AheadDown DEF Ahead
  <2>5. DownAhead'
    <3>1. Plain \notin {Down, Up}
      BY DEF Plain, Down, Up
    <3>2. Down \in Range(inbox \o <<Down, Up>>)
      BY <2>2, <3>1, AheadDown
    <3> QED
      BY <2>1, <3>2 DEF DownAhead
  <2>6. Range(<< >>) = {}
    BY ShortRanges
  <2>7. \A S \in SUBSET Streams : Fits(S)'
    BY <2>1, <2>5 DEF Fits
  <2>8. Fits(shown)'
    BY <2>1, <2>5 DEF Fits
  <2> QED
    BY <2>1, <2>4, <2>5, <2>6, <2>7, <2>8 DEF PageInv
<1>13. CASE UNCHANGED vars
  <2>1. UNCHANGED <<stage, live, heard, settled, inbox, seen, shown, recon, answer, waiting,
                   reply, timeouts, queue, pending>>
    BY <1>13 DEF vars, bridgeVars, historyVars, replyVars, pageVars, countVars, queueVars
  <2>2. \A j \in Streams : StageStep(j)
    BY <2>1 DEF StageStep
  <2>3. Plain \in Events /\ Plain.type \notin {"opened", "closed", "snapshot"}
    BY EventsMade DEF Plain
  <2> QED
    BY <2>1, <2>2, <2>3, PageQuiet DEF Types
<1> QED
  BY <1>1, <1>2, <1>3, <1>4, <1>5, <1>6, <1>7, <1>8, <1>9, <1>10, <1>11, <1>12, <1>13
     DEF Next

-----------------------------------------------------------------------------
(***************************************************************************)
(* The theorems.                                                           *)
(***************************************************************************)
\* The initial state has its types.
LEMMA InitTypes ==
  ASSUME Init
  PROVE  Types
<1>1. BridgeTypes
  BY DEF Init, BridgeTypes, Stages
<1>2. InputTypes
  BY DEF Init, InputTypes
<1>3. QueueTypes
  BY DEF Init, QueueTypes, Bundles
<1>4. PageTypes
  <2>1. ATTEMPTS \in Nat /\ MaxTimeouts \in Nat
    BY LimitsAssumption
  <2>2. asked \in Seq(0 .. MaxTimeouts) /\ inbox \in Seq(Events)
    BY DEF Init
  <2>3. recon \in [on : BOOLEAN, attempt : 0 .. ATTEMPTS, raced : BOOLEAN]
    BY <2>1 DEF Init, Idle
  <2>4. reply \in [kind : {"none", "failed", "replied"}, streams : SUBSET Streams]
    BY DEF Init, NoReply
  <2>5. timeouts \in 0 .. MaxTimeouts
    BY <2>1 DEF Init
  <2>6. waiting \in BOOLEAN /\ running \in BOOLEAN
    BY DEF Init
  <2>7. seen \in [Streams -> 0 .. 2]
    BY DEF Init
  <2> QED
    BY <2>2, <2>3, <2>4, <2>5, <2>6, <2>7 DEF Init, PageTypes
<1> QED
  BY <1>1, <1>2, <1>3, <1>4 DEF Types

\* The initial state has every part of the invariant.
LEMMA InitParts ==
  ASSUME Init
  PROVE  StageInv /\ WithinCapacity /\ AuditAccounted /\ InputInv /\ OrderInv
<1>1. StageInv
  BY DEF Init, StageInv
<1>2. WithinCapacity
  <2>1. Len(queue) = 0 /\ holds = {} /\ Buckets(bucket) = {} /\ Ordinary(queue) = {}
    BY DEF Init, Buckets, Ordinary
  <2>2. Cardinality({}) = 0
    BY FS_EmptySet
  <2>3. 0 + 0 + 0 <= QUEUE /\ 0 + 0 + 0 <= AUDIT
    BY LimitsAssumption
  <2>4. /\ Cardinality(holds) = 0 /\ Cardinality(Buckets(bucket)) = 0
        /\ Cardinality(Ordinary(queue)) = 0
    BY <2>1, <2>2
  <2> QED
    BY <2>1, <2>3, <2>4 DEF WithinCapacity
<1>3. AuditAccounted
  <2>1. \A k \in Streams : Range(pending[k]) = {}
    BY ShortRanges DEF Init
  <2>2. Kept = {}
    BY <2>1 DEF Kept
  <2>3. Cardinality(Kept) = 0
    BY <2>2, FS_EmptySet
  <2>4. TightIn(queue) = 0 /\ SmallIn(queue) = 0
    BY SumSmall DEF Init
  <2>5. untold.tight = 0 /\ untold.plain = 0 /\ record.tight = 0 /\ record.plain = 0
    BY DEF Init
  <2> QED
    BY <2>3, <2>4, <2>5 DEF AuditAccounted
<1>4. InputInv
  BY DEF Init, InputInv, InputAudited
<1>5. OrderInv
  <2>1. Range(queue) = {}
    BY ShortRanges DEF Init
  <2> QED
    BY <2>1 DEF Init, OrderInv, Announced
<1> QED
  BY <1>1, <1>2, <1>3, <1>4, <1>5

\* The page starts out right.
LEMMA InitPage ==
  ASSUME Init
  PROVE  RequestInv /\ PageInv
<1>1. Range(queue) = {} /\ Range(asked) = {} /\ Range(answer) = {} /\ Range(inbox) = {}
  BY ShortRanges DEF Init
<1>2. DOMAIN queue = {} /\ DOMAIN asked = {} /\ DOMAIN inbox = {}
  BY ShortRanges DEF Init
<1>3. RequestInv
  BY <1>1, <1>2 DEF Init, RequestInv, RequestAt, Once, Has
<1>4. \A x : ~Ahead(x)
  BY <1>2 DEF Ahead, AheadIn
<1>5. \A S : Fits(S) <=> \A k \in S : Owed(k) /\ stage[k] \in Past
  BY <1>1, <1>4 DEF Init, Fits, DownAhead
<1>6. Fits(shown)
  BY <1>5 DEF Init
<1>7. \A S \in SUBSET Streams : ~Current(S)
  BY DEF Init, Current, NoReply, Replied
<1>8. \A k \in Streams : ~(seen[k] > 0)
  BY DEF Init
<1> QED
  BY <1>1, <1>3, <1>4, <1>6, <1>7, <1>8 DEF PageInv

StreamAuditInv ==
  Types /\ StageInv /\ WithinCapacity /\ AuditAccounted /\ InputInv /\ OrderInv

\* The invariant of the gateway's side.
LEMMA StreamAuditInvariant ==
  Spec => []StreamAuditInv
<1>1. Init => StreamAuditInv
  BY InitTypes, InitParts DEF StreamAuditInv
<1>2. StreamAuditInv /\ [Next]_vars => StreamAuditInv'
  <2> SUFFICES ASSUME StreamAuditInv, [Next]_vars
               PROVE  StreamAuditInv'
    OBVIOUS
  <2>1. Types /\ StageInv /\ WithinCapacity /\ AuditAccounted /\ InputInv /\ OrderInv
    BY DEF StreamAuditInv
  <2>2. BridgeTypes' /\ InputTypes' /\ QueueTypes' /\ PageTypes'
    BY <2>1, BridgeTypesKept, InputTypesKept, QueueTypesKept, PageTypesKept
  <2>3. Types'
    BY <2>2 DEF Types
  <2>4. StageInv' /\ WithinCapacity'
    BY <2>1, StageKept, CapacityKept
  <2>5. AuditAccounted' /\ InputInv' /\ OrderInv'
    BY <2>1, AccountedKept, InputKept, OrderKept
  <2> QED
    BY <2>3, <2>4, <2>5 DEF StreamAuditInv
<1> QED
  BY <1>1, <1>2, PTL DEF Spec

\* Every variable has its type; the event queue with the reservations is never
\* over EVENT_QUEUE_CAPACITY, nor the ordinary events with them over
\* AUDIT_SLOTS, so that a reservation's slot is there when it is used
\* (EventSender::reserve and EventReservation::emit).
THEOREM StreamAuditTypes ==
  Spec => []TypeOK
<1>1. StreamAuditInv => TypeOK
  <2> SUFFICES ASSUME StreamAuditInv
               PROVE  TypeOK
    OBVIOUS
  <2>1. /\ BridgeTypes /\ InputTypes /\ QueueTypes /\ PageTypes /\ WithinCapacity
        /\ Types /\ AuditAccounted
    BY DEF StreamAuditInv, Types
  <2>2. untold \in [plain : Nat, tight : Nat]
    <3>1. /\ TightIn(queue) \in Nat /\ SmallIn(queue) \in Nat /\ Cardinality(Kept) \in Nat
          /\ record.tight \in Nat /\ record.plain \in Nat
      BY <2>1, OwedNumbers
    <3>2. untold.tight \in Nat /\ untold.plain \in Nat
      BY <2>1, <3>1 DEF AuditAccounted
    <3> QED
      BY <2>1, <3>2 DEF QueueTypes
  <2>3. Range(answer) \subseteq Events
    <3>1. CASE answer = << >>
      BY <3>1, ShortRanges
    <3>2. CASE \E s \in Snapshots : answer = <<s>>
      <4>1. PICK s \in Snapshots : answer = <<s>>
        BY <3>2
      <4>2. Range(answer) = {s}
        BY <4>1, ShortRanges
      <4> QED
        BY <4>2, EventsMade
    <3> QED
      BY <2>1, <3>1, <3>2 DEF PageTypes
  <2>4. /\ stage \in [Streams -> {"new", "reserved", "refused", "leased", "live",
                                  "open", "dropping", "unannounced", "gone"}]
        /\ {closed, holds, live, heard, settled, shown} \subseteq SUBSET Streams
        /\ follows \in [Streams -> SUBSET Streams]
    BY <2>1 DEF BridgeTypes, PageTypes, Stages
  <2>5. \A k \in Streams : pending[k] \in {<< >>, <<Released(k)>>, <<Closed(k)>>,
                                           <<Released(k), Closed(k)>>}
    BY <2>1 DEF QueueTypes, Bundles
  <2> QED
    BY <2>1, <2>2, <2>3, <2>4, <2>5 DEF TypeOK, InputTypes, QueueTypes, PageTypes,
       WithinCapacity
<1> QED
  BY <1>1, StreamAuditInvariant, PTL

\* Every release, expiry, revocation and close, and every best-effort audit, is
\* in the queue, deferred, or counted by a record that is kept or queued, for
\* any number of streams and every size of the queue (Audit::tightened, the
\* best-effort audits and Deferred::flush).
THEOREM NothingUntold ==
  Spec => []AuditAccounted
<1>1. StreamAuditInv => AuditAccounted
  BY DEF StreamAuditInv
<1> QED
  BY <1>1, StreamAuditInvariant, PTL

\* The desktop hears of a new stream of a device only after the end of the ones
\* torn down before it, or after that end was counted as lost
\* (Deferred::pending_for, asked by reserve_announcement).
THEOREM StreamOrder ==
  Spec => []OpensFollowCloses
<1>1. StreamAuditInv => OpensFollowCloses
  <2> SUFFICES ASSUME StreamAuditInv, NEW k \in heard, NEW j \in follows[k], j \in heard
               PROVE  j \in settled
    BY DEF OpensFollowCloses
  <2>1. OrderInv /\ k \in Streams /\ j \in Streams
    BY DEF StreamAuditInv, Types, PageTypes
  <2>2. stage[j] = "gone" /\ pending[j] = << >> /\ Closed(j) \notin Range(queue)
    BY <2>1 DEF OrderInv
  <2>3. j \in settled \/ Closed(j) \in Range(queue) \union Range(pending[j])
    BY <2>1, <2>2 DEF OrderInv, Announced
  <2>4. Range(pending[j]) = {}
    BY <2>2, ShortRanges
  <2> QED
    BY <2>2, <2>3, <2>4
<1> QED
  BY <1>1, StreamAuditInvariant, PTL

\* An input reaches the Host only after an event that is certain to be told
\* accounts for it (the bucket of WriteStream and its reservation).
THEOREM StreamInputs ==
  Spec => []InputAudited
<1>1. StreamAuditInv => InputAudited
  BY DEF StreamAuditInv, InputInv
<1> QED
  BY <1>1, StreamAuditInvariant, PTL

\* With a window that listens, the page is never wrong without a correction on
\* its way, whatever the answers of peers.list and the events overtake
\* (reconcilePeers and applyEvent).
THEOREM PageIsExplained ==
  ASSUME PageOpen
  PROVE  Spec => []PageExplained
<1>1. Init => RequestInv /\ PageInv
  BY InitPage
<1>2. StreamAuditInv /\ StreamAuditInv' /\ RequestInv /\ PageInv /\ [Next]_vars =>
        RequestInv' /\ PageInv'
  <2> SUFFICES ASSUME StreamAuditInv, StreamAuditInv', RequestInv, PageInv, [Next]_vars
               PROVE  RequestInv' /\ PageInv'
    OBVIOUS
  <2>1. Types /\ StageInv /\ OrderInv /\ BridgeTypes'
    BY DEF StreamAuditInv, Types
  <2> QED
    BY <2>1, RequestKept, PageKept
<1>3. StreamAuditInv /\ PageInv => PageExplained
  <2> SUFFICES ASSUME StreamAuditInv, PageInv
               PROVE  PageExplained
    OBVIOUS
  <2>1. \A x : Ahead(x) => x \in Range(inbox)
    BY DEF Ahead, AheadIn, Range
  <2>2. Fits(shown) /\ live \subseteq Streams
    BY DEF PageInv, StreamAuditInv, Types, BridgeTypes
  <2>3. \A k \in shown : \/ k \in live \union settled
                         \/ stage[k] = "dropping" \/ Closed(k) \in Range(pending[k])
                         \/ InFlight(Closed(k)) \/ InFlight(Down)
    BY <2>2 DEF Fits, Owed, InFlight, DownAhead
  <2>4. \A k \in live : k \in shown \/ stage[k] = "live" \/ InFlight(Opened(k))
    BY <2>1, <2>2 DEF Fits, Coming, InFlight
  <2> QED
    BY <2>3, <2>4 DEF PageExplained
<1> QED
  BY <1>1, <1>2, <1>3, StreamAuditInvariant, PTL DEF Spec
=============================================================================
