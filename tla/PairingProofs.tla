--------------------------- MODULE PairingProofs ---------------------------
(***************************************************************************)
(* Proofs about Pairing for any set of pairings, any durations and limits. *)
(*                                                                         *)
(* Every handler acts on one record through the same few operators, so the *)
(* argument is made once per operator: Step(e, f) says how a record e may  *)
(* become f, the lemmas show that every operator takes a sound record to a *)
(* Step of it, and the theorems follow from the actions being Steps.       *)
(***************************************************************************)
EXTENDS Pairing, FiniteSetTheorems, TLAPS

Sound(e) ==
  /\ e \in Entries
  /\ Shaped(e)
  /\ Live(e) => e.failures < FAILURE_LIMIT

\* f is a sound record that can follow e in one critical section.
Move(e, f) ==
  /\ Sound(f)
  /\ e.changed => f.changed
  /\ f.state # e.state => f.changed /\ Live(e)

\* The same, of a critical section that issues no ticket.
Step(e, f) ==
  /\ Move(e, f)
  /\ f.ticket # None => f.ticket = e.ticket

\* Every instant the code computes from the clock is a Times.
LEMMA TimesFact ==
  ASSUME now \in 0 .. MaxTime
  PROVE  /\ now + TTL \in Times
         /\ now + TICKET_TTL \in Times
         /\ now + REGISTRATION_WINDOW \in Times
         /\ now \in Times
  BY DurationsPositive, BoundsNatural DEF Times

\* A record left alone takes a Step.
LEMMA StepReflexive ==
  ASSUME NEW e, Sound(e)
  PROVE  Step(e, e)
  BY DEF Step, Move

\* Ending a live record, with the outcome still to be told.
LEMMA EndStep ==
  ASSUME NEW e, Sound(e), Live(e), NEW s \in {"Rejected", "Expired"}
  PROVE  Step(e, [Transition(e, s) EXCEPT !.notification = TRUE])
  BY DEF Step, Move, Sound, Shaped, Transition, Live, Entries, States, LiveStates

\* Pairing::expire takes a Step.
LEMMA ExpireStep ==
  ASSUME NEW e, Sound(e)
  PROVE  Step(e, Expire(e))
  BY EndStep, StepReflexive DEF Expire

\* Pairing::fail takes a Step, also at the attempt that ends the pairing.
LEMMA FailStep ==
  ASSUME NEW e, Sound(e), Live(e), NEW second
  PROVE  Step(e, Fail(e, second))
<1> DEFINE c == [e EXCEPT !.failures = @ + 1]
<1>1. c.failures = e.failures + 1 /\ e.failures \in Nat /\ e.failures + 1 <= FAILURE_LIMIT
  BY LimitsPositive DEF Sound, Entries
<1>2. c \in Entries
  BY <1>1, LimitsPositive DEF Sound, Entries
<1>3. CASE c.failures >= FAILURE_LIMIT \/ second
  <2>1. Fail(e, second) = [Transition(c, "Rejected") EXCEPT !.notification = TRUE]
    BY <1>3 DEF Fail
  <2>. QED
    BY <1>2, <2>1 DEF Step, Move, Sound, Shaped, Transition, Live, Entries, States, LiveStates
<1>4. CASE ~(c.failures >= FAILURE_LIMIT \/ second)
  <2>1. Fail(e, second) = c
    BY <1>4 DEF Fail
  <2>. QED
    BY <1>1, <1>2, <1>4, <2>1, LimitsPositive DEF Step, Move, Sound, Shaped, Live, Entries
<1>. QED BY <1>3, <1>4

\* Pairing::notify after a Step leaves a Step.
LEMMA NotifiedStep ==
  ASSUME NEW e, NEW f, Step(e, f)
  PROVE  Step(e, Notified(f))
  BY DEF Step, Move, Sound, Shaped, Live, Entries, Notified

(***************************************************************************)
(* The inductive invariant.  A poll reserves the ticket it may issue (the  *)
(* bound MaxTickets), an id that was never used has no record, and a       *)
(* ticket still in the table is the latest issued and not yet spent.       *)
(***************************************************************************)
PollBound == \A p \in Pairings : polls[p] # "none" => issued[p] < MaxTickets

FreshUnused == \A p \in fresh : entries[p] = Absent

TicketCurrent ==
  \A p \in Records :
    entries[p].ticket # None =>
      entries[p].ticket.serial = issued[p] /\ spent[p] < issued[p]

SpentIssued == \A p \in Pairings : spent[p] <= issued[p]

IInv ==
  /\ TypeOK
  /\ StateShape
  /\ AttemptsLimited
  /\ NoLostWakeup
  /\ PollBound
  /\ FreshUnused
  /\ TicketCurrent
  /\ SpentIssued

\* The table after a critical section that creates and drops nothing.
TableMove ==
  /\ entries' = [p \in Pairings |-> entries'[p]]
  /\ \A p \in Pairings :
       \/ entries'[p] = entries[p]
       \/ entries[p] # Absent /\ Move(entries[p], entries'[p])

TableStep ==
  /\ entries' = [p \in Pairings |-> entries'[p]]
  /\ \A p \in Pairings :
       \/ entries'[p] = entries[p]
       \/ entries[p] # Absent /\ Step(entries[p], entries'[p])

\* A TableStep is a TableMove.
LEMMA TableStepMoves ==
  ASSUME TableStep PROVE TableMove
  BY DEF TableStep, TableMove, Step

\* A record of a reachable table is sound, before and after its expiry.
LEMMA RecordsSound ==
  ASSUME IInv, NEW p \in Pairings, entries[p] # Absent
  PROVE  Sound(entries[p]) /\ Sound(Expired(p)) /\ Step(entries[p], Expired(p))
<1>1. Sound(entries[p])
  BY DEF IInv, TypeOK, StateShape, AttemptsLimited, Records, Sound
<1>2. Step(entries[p], Expired(p))
  BY <1>1, ExpireStep DEF Expired
<1>. QED BY <1>1, <1>2 DEF Step, Move

\* Two Steps in a row are one, unless the first changed the state and left it live.
LEMMA StepTransitive ==
  ASSUME NEW e, NEW f, NEW g, Step(e, f), Step(f, g),
         f.state # e.state => ~Live(f)
  PROVE  Step(e, g)
  BY DEF Step, Move, Live

\* An expiry is the only state change Expired makes.
LEMMA ExpiredState ==
  ASSUME IInv, NEW p \in Pairings, entries[p] # Absent
  PROVE  Expired(p).state # entries[p].state => ~Live(Expired(p))
<1>. USE DEF Expired, Expire
<1>1. CASE Live(entries[p]) /\ now >= Deadline(entries[p])
  BY <1>1, RecordsSound DEF Transition, Live, LiveStates, Sound, Entries
<1>2. CASE ~(Live(entries[p]) /\ now >= Deadline(entries[p]))
  BY <1>2
<1>. QED BY <1>1, <1>2

\* While the expiry did not happen the record is as it was, and in time.
LEMMA NotExpired ==
  ASSUME IInv, NEW p \in Pairings, entries[p] # Absent, Live(Expired(p))
  PROVE  Expired(p) = entries[p] /\ now < Deadline(entries[p])
<1>. USE DEF Expired, Expire
<1>1. CASE Live(entries[p]) /\ now >= Deadline(entries[p])
  BY <1>1, RecordsSound DEF Transition, Live, LiveStates, Sound, Entries
<1>2. CASE Live(entries[p]) /\ ~(now >= Deadline(entries[p]))
  <2>1. now \in Int /\ Deadline(entries[p]) \in Int
    BY RecordsSound DEF IInv, TypeOK, Sound, Entries, Deadline, Registrations, Times
  <2>. QED BY <1>2, <2>1
<1>3. CASE ~Live(entries[p])
  BY <1>3
<1>. QED BY <1>1, <1>2, <1>3

\* Moving one record moves the table.
LEMMA SetMove ==
  ASSUME IInv, NEW p \in Pairings, entries[p] # Absent,
         NEW f, Move(entries[p], f), entries' = [entries EXCEPT ![p] = f]
  PROVE  TableMove
  BY DEF TableMove, IInv, TypeOK

\* Stepping one record steps the table.
LEMMA SetStep ==
  ASSUME IInv, NEW p \in Pairings, entries[p] # Absent,
         NEW f, Step(entries[p], f), entries' = [entries EXCEPT ![p] = f]
  PROVE  TableStep
  BY DEF TableStep, IInv, TypeOK

\* A pairing's outcome is an event.
LEMMA OutcomeType ==
  ASSUME NEW p \in Pairings, NEW e
  PROVE  Outcome(p, e) \in Events
  BY DEF Outcome, Event, Events, Kinds

\* A record that is set and notified steps the table and queues events only.
LEMMA SetAndNotifyStep ==
  ASSUME IInv, NEW p \in Pairings, entries[p] # Absent,
         NEW f, Step(entries[p], f), SetAndNotify(p, f)
  PROVE  TableStep /\ queue' \in Seq(Events)
<1>1. TableStep
  BY SetStep, NotifiedStep DEF SetAndNotify
<1>2. queue' \in Seq(Events)
  BY OutcomeType DEF SetAndNotify, QueueNotified, IInv, TypeOK
<1>. QED BY <1>1, <1>2

\* The same when the event goes first (try_emit_event).
LEMMA SetAnnouncedStep ==
  ASSUME IInv, NEW p \in Pairings, entries[p] # Absent, NEW kind \in Kinds,
         NEW f, Step(entries[p], f), SetAnnounced(p, f, kind)
  PROVE  TableStep /\ queue' \in Seq(Events)
<1>1. TableStep
  BY SetStep DEF SetAnnounced
<1>2. queue' \in Seq(Events)
  BY DEF SetAnnounced, Event, Events, IInv, TypeOK
<1>. QED BY <1>1, <1>2

\* What a TableMove preserves.
LEMMA TableMoveKeeps ==
  ASSUME IInv, TableMove
  PROVE  /\ entries' \in [Pairings -> Entries \cup {Absent}]
         /\ StateShape'
         /\ AttemptsLimited'
         /\ \A p \in Pairings : entries[p] = Absent => entries'[p] = Absent
         /\ \A p \in Records :
              ~Live(entries[p]) => entries'[p].state = entries[p].state
<1>1. \A p \in Pairings : entries'[p] \in Entries \cup {Absent}
  BY DEF TableMove, Move, Sound, IInv, TypeOK
<1>2. \A p \in Pairings : entries'[p] # Absent => Sound(entries'[p])
  BY RecordsSound DEF TableMove, Move
<1>3. StateShape' /\ AttemptsLimited'
  BY <1>2 DEF StateShape, AttemptsLimited, Records, Sound
<1>4. \A p \in Records : ~Live(entries[p]) => entries'[p].state = entries[p].state
  BY DEF TableMove, Move, Records
<1>. QED BY <1>1, <1>3, <1>4 DEF TableMove

\* A TableMove loses no wakeup: a changed state marks the channel a poll waits on.
LEMMA TableMoveWakes ==
  ASSUME IInv, TableMove,
         \A p \in Pairings : polls'[p] = "waiting" =>
            polls[p] = "waiting" \/ (IsPending(p) /\ entries' = entries)
  PROVE  NoLostWakeup'
<1> SUFFICES ASSUME NEW p \in Pairings, polls'[p] = "waiting", entries'[p] # Absent,
                    ~entries'[p].changed
             PROVE  entries'[p].state = "Pending"
  BY DEF NoLostWakeup, Records
<1>1. CASE entries' = entries /\ IsPending(p)
  BY <1>1 DEF IsPending
<1>2. CASE polls[p] = "waiting"
  BY <1>2 DEF IInv, NoLostWakeup, Records, TableMove, Move
<1>. QED BY <1>1, <1>2

(***************************************************************************)
(* The critical sections, one lemma each.                                  *)
(***************************************************************************)

\* Dropping the notification after a Step leaves a Step.
LEMMA ClearedStep ==
  ASSUME NEW e, NEW f, Step(e, f)
  PROVE  Step(e, [f EXCEPT !.notification = FALSE])
  BY DEF Step, Move, Sound, Shaped, Live, Entries

\* Pairings::maintenance steps the table, in whatever order it visits it.
LEMMA MaintainStep ==
  ASSUME IInv, MaintainEntries
  PROVE  TableStep /\ queue' \in Seq(Events)
<1>1. PICK told \in TellOrders :
        /\ queue' = queue \o [i \in DOMAIN told |-> Outcome(told[i], Expired(told[i]))]
        /\ entries' = [p \in Pairings |->
                         IF \E i \in DOMAIN told : told[i] = p
                           THEN [Expired(p) EXCEPT !.notification = FALSE]
                           ELSE Expired(p)]
  BY DEF MaintainEntries
<1>2. PICK n \in Int : told \in [1 .. n -> Due]
  <2>1. IsFiniteSet(Due)
    BY PairingsFinite, FS_Subset DEF Due, Records
  <2>2. Cardinality(Due) \in Nat /\ QUEUE - Len(queue) \in Int
    BY <2>1, FS_CardinalityType, LimitsPositive DEF IInv, TypeOK
  <2>. QED BY <2>2 DEF TellOrders
<1>3. DOMAIN told = 1 .. n /\ \A i \in 1 .. n : told[i] \in Pairings /\ entries[told[i]] # Absent
  BY <1>2 DEF Due, Records
<1>4. TableStep
  <2>1. ASSUME NEW p \in Pairings
        PROVE  \/ entries'[p] = entries[p]
               \/ entries[p] # Absent /\ Step(entries[p], entries'[p])
    <3>1. CASE entries[p] = Absent
      BY <1>1, <1>3, <3>1 DEF Expired
    <3>2. CASE entries[p] # Absent
      BY <1>1, <3>2, RecordsSound, ClearedStep
    <3>. QED BY <3>1, <3>2
  <2>. QED BY <1>1, <2>1 DEF TableStep
<1>5. queue' \in Seq(Events)
  <2> DEFINE out == [i \in DOMAIN told |-> Outcome(told[i], Expired(told[i]))]
  <2>1. \A i \in 1 .. n : Outcome(told[i], Expired(told[i])) \in Events
    BY <1>3, OutcomeType
  <2>2. out \in Seq(Events)
    <3>1. CASE n \in Nat
      BY <1>3, <2>1, <3>1
    <3>2. CASE n \notin Nat
      <4>1. DOMAIN told = 1 .. 0
        BY <1>2, <1>3, <3>2
      <4>. QED BY <4>1
    <3>. QED BY <3>1, <3>2
  <2>. QED BY <1>1, <2>2 DEF IInv, TypeOK
<1>. QED BY <1>4, <1>5

\* Set(p, Expired(p)), for a record or for none.
LEMMA SetExpired ==
  ASSUME IInv, NEW p \in Pairings, Set(p, Expired(p))
  PROVE  TableStep /\ queue' \in Seq(Events)
<1>1. CASE entries[p] = Absent
  <2>1. entries' = entries
    BY <1>1 DEF Set, Expired, IInv, TypeOK
  <2>. QED BY <2>1 DEF Set, TableStep, IInv, TypeOK
<1>2. CASE entries[p] # Absent
  BY <1>2, RecordsSound, SetStep DEF Set, IInv, TypeOK
<1>. QED BY <1>1, <1>2

\* A decision the code allows takes a Step.
LEMMA DecisionStep ==
  ASSUME IInv, NEW p \in Pairings, entries[p] # Absent, NEW op \in Ops,
         Decidable(Expired(p), op)
  PROVE  Step(entries[p], Decision(Expired(p), op))
<1>. DEFINE e == entries[p]
<1>1. Expired(p) = e /\ Sound(e) /\ Live(e)
  BY NotExpired, RecordsSound DEF Decidable
<1>2. CASE op = "Approve"
  <2>1. e.state = "Pending" /\ e.claimed /\ e.registration = None /\ e.ticket = None
    BY <1>1, <1>2 DEF Decidable, Sound, Shaped
  <2>2. now + REGISTRATION_WINDOW \in Times
    BY TimesFact DEF IInv, TypeOK
  <2>. HIDE DEF e
  <2>3. Step(e, Transition([e EXCEPT !.until = now + REGISTRATION_WINDOW], "Approved"))
    BY <1>1, <2>1, <2>2 DEF Step, Move, Sound, Shaped, Transition, Live, Entries, States, LiveStates
  <2>. QED BY <1>1, <1>2, <2>3 DEF Decision, e
<1>3. CASE op # "Approve"
  BY <1>1, <1>3, EndStep DEF Decision
<1>. QED BY <1>2, <1>3

\* Pairings::decide steps the table.
LEMMA DecideStep ==
  ASSUME IInv, NEW p \in Pairings, Decide(p)
  PROVE  TableStep /\ queue' \in Seq(Events)
<1>. DEFINE e == Expired(p)
<1>1. command.op \in Ops
  BY DEF Decide
<1>2. CASE Set(p, e)
  BY <1>2, SetExpired
<1>3. CASE p \in Records /\ Decidable(e, command.op) /\ command.op = "Approve"
           /\ SetAnnounced(p, Decision(e, "Approve"), "approved")
  BY <1>1, <1>3, DecisionStep, SetAnnouncedStep DEF Records, Kinds
<1>4. CASE p \in Records /\ Decidable(e, command.op) /\ SetAndNotify(p, Decision(e, command.op))
  BY <1>1, <1>4, DecisionStep, SetAndNotifyStep DEF Records
<1>. QED BY <1>2, <1>3, <1>4 DEF Decide

\* Pairings::claim steps the table, with the right secret or a wrong one.
LEMMA ClaimStep ==
  ASSUME IInv, NEW p \in Pairings, NEW right \in BOOLEAN, Claim(p, right)
  PROVE  TableStep /\ queue' \in Seq(Events)
<1>. DEFINE e == Expired(p)
<1>1. entries[p] # Absent
  BY DEF Claim, Records
<1>2. Sound(e) /\ Step(entries[p], e)
  BY <1>1, RecordsSound
<1>3. CASE SetAndNotify(p, e)
  BY <1>1, <1>2, <1>3, SetAndNotifyStep
<1>4. ASSUME Live(e), NEW second \in BOOLEAN, SetAndNotify(p, Fail(e, second))
      PROVE  TableStep /\ queue' \in Seq(Events)
  BY <1>1, <1>2, <1>4, NotExpired, FailStep, SetAndNotifyStep
<1>5. ASSUME Live(e), ~e.claimed, e.secret,
             SetAnnounced(p, [e EXCEPT !.claimed = TRUE, !.secret = FALSE], "claimed")
      PROVE  TableStep /\ queue' \in Seq(Events)
  <2>. HIDE DEF e
  <2>1. Step(e, [e EXCEPT !.claimed = TRUE, !.secret = FALSE])
    BY <1>2, <1>5 DEF Step, Move, Sound, Shaped, Live, LiveStates, Entries, States
  <2>2. Step(entries[p], [e EXCEPT !.claimed = TRUE, !.secret = FALSE])
    BY <1>1, <1>5, <2>1, NotExpired DEF e
  <2>. QED BY <1>1, <1>5, <2>2, SetAnnouncedStep DEF Kinds
<1>. QED BY <1>3, <1>4, <1>5 DEF Claim

\* A poll with a wrong token steps the table.
LEMMA StatusRefusedStep ==
  ASSUME IInv, NEW p \in Pairings, StatusRefused(p)
  PROVE  TableStep /\ queue' \in Seq(Events)
<1>1. entries[p] # Absent
  BY DEF StatusRefused, Records
<1>2. CASE Live(Expired(p))
  BY <1>1, <1>2, RecordsSound, NotExpired, FailStep, SetAndNotifyStep DEF StatusRefused
<1>3. CASE ~Live(Expired(p))
  BY <1>3, SetExpired DEF StatusRefused
<1>. QED BY <1>2, <1>3

\* The earlier of two instants is one of them.
LEMMA EarlierType ==
  ASSUME NEW a \in Times, NEW b \in Times
  PROVE  Earlier(a, b) \in Times /\ Earlier(a, b) <= b
  BY DurationsPositive, BoundsNatural DEF Earlier, Times

\* Pairings::status' answer moves the table and issues at most its own ticket.
LEMMA StatusAnswerStep ==
  ASSUME IInv, NEW p \in Pairings, StatusAnswer(p)
  PROVE  /\ TableMove
         /\ queue' \in Seq(Events)
         /\ issued' \in [Pairings -> 0 .. MaxTickets]
         /\ TicketCurrent'
         /\ SpentIssued'
         /\ PollBound'
<1>. DEFINE e == Expired(p)
<1>0. /\ polls' = [polls EXCEPT ![p] = "none"]
      /\ spent' = spent
      /\ issued[p] < MaxTickets
  BY DEF StatusAnswer, IInv, PollBound
<1>1. CASE p \notin Records /\ UNCHANGED <<entries, queue, issued>>
  BY <1>0, <1>1 DEF IInv, TypeOK, TableMove, TicketCurrent, SpentIssued, PollBound, Records
<1>2. CASE p \in Records /\ e.state # "Approved" /\ SetAndNotify(p, e) /\ UNCHANGED issued
  <2>1. TableMove /\ queue' \in Seq(Events)
    BY <1>2, RecordsSound, SetAndNotifyStep, TableStepMoves DEF Records
  <2>2. e.ticket = None
    BY <1>2, RecordsSound DEF Records, Sound, Shaped
  <2>3. entries' = [entries EXCEPT ![p] = Notified(e)] /\ Notified(e).ticket = None
    BY <1>2, <2>2, RecordsSound DEF SetAndNotify, Notified, Records, Sound, Entries
  <2>. QED
    BY <1>0, <1>2, <2>1, <2>3 DEF IInv, TypeOK, TicketCurrent, SpentIssued, PollBound, Records
<1>3. CASE p \in Records /\ e.state = "Approved" /\ Set(p, Ticketed(e, p))
           /\ issued' = [issued EXCEPT ![p] = @ + 1]
  <2>1. Sound(e) /\ e = entries[p]
    BY <1>3, RecordsSound, NotExpired DEF Records, Live, LiveStates
  <2>2. issued[p] + 1 \in 1 .. MaxTickets /\ issued[p] \in Nat
    BY <1>0, BoundsNatural DEF IInv, TypeOK
  <2> DEFINE t == [serial |-> issued[p] + 1, until |-> Earlier(now + TICKET_TTL, e.until)]
  <2>3. t \in Tickets /\ t.until <= e.until
    BY <2>1, <2>2, EarlierType, TimesFact DEF IInv, TypeOK, Tickets, Sound, Entries
  <2>4. Ticketed(e, p) = [e EXCEPT !.ticket = t]
    BY DEF Ticketed
  <2>5. t # None
    BY DEF None
  <2>. HIDE DEF t
  <2>6. Move(e, [e EXCEPT !.ticket = t])
    <3>. HIDE DEF e
    <3>. QED BY <1>3, <2>1, <2>3, <2>5 DEF Move, Sound, Shaped, Live, LiveStates, Entries, States
  <2>7. TableMove /\ queue' \in Seq(Events)
    BY <1>3, <2>1, <2>4, <2>6, SetMove DEF Set, Records, IInv, TypeOK
  <2>8. issued' \in [Pairings -> 0 .. MaxTickets]
    BY <1>3, <2>2 DEF IInv, TypeOK
  <2>9. SpentIssued' /\ PollBound'
    BY <1>0, <1>3, <2>2 DEF IInv, TypeOK, SpentIssued, PollBound
  <2>10. TicketCurrent'
    <3> SUFFICES ASSUME NEW q \in Pairings, entries'[q] # Absent, entries'[q].ticket # None
                 PROVE  entries'[q].ticket.serial = issued'[q] /\ spent'[q] < issued'[q]
      BY DEF TicketCurrent, Records
    <3>1. CASE q = p
      <4>1. entries'[p] = [e EXCEPT !.ticket = t]
        BY <1>3, <2>4 DEF Set, IInv, TypeOK
      <4>2. entries'[p].ticket = t
        BY <2>1, <4>1 DEF Sound, Entries
      <4>3. t.serial = issued[p] + 1
        BY DEF t
      <4>4. spent[p] <= issued[p] /\ spent[p] \in Int
        BY DEF IInv, TypeOK, SpentIssued
      <4>. QED BY <1>0, <1>3, <2>2, <3>1, <4>2, <4>3, <4>4 DEF IInv, TypeOK
    <3>2. CASE q # p
      BY <1>0, <1>3, <3>2 DEF Set, IInv, TypeOK, TicketCurrent, Records
    <3>. QED BY <3>1, <3>2
  <2>. QED BY <2>7, <2>8, <2>9, <2>10
<1>. QED BY <1>1, <1>2, <1>3 DEF StatusAnswer

\* Pairings::consume_ticket moves the table and spends the latest ticket.
LEMMA ConsumeStep ==
  ASSUME IInv, NEW p \in Pairings, NEW serial \in 1 .. MaxTickets,
         ConsumeTicket(p, serial)
  PROVE  /\ TableStep
         /\ queue' \in Seq(Events)
         /\ options' \in SUBSET Registrations
         /\ spent' \in [Pairings -> 0 .. MaxTickets]
         /\ spent'[p] = issued[p] /\ spent'[p] > spent[p]
         /\ TicketCurrent'
         /\ SpentIssued'
<1>. DEFINE e == Expired(p)
            r == Started(e, p)
            f == Transition([e EXCEPT !.registration = r], "Registering")
<1>1. entries[p] # Absent /\ TicketValid(e, serial)
  BY DEF ConsumeTicket, Records
<1>2. Sound(e) /\ e = entries[p] /\ e.state = "Approved"
  BY <1>1, RecordsSound, NotExpired DEF TicketValid, Live, LiveStates
<1>3. r \in Registrations /\ r.deadline <= e.until /\ r # None
  BY <1>2, EarlierType, TimesFact DEF Started, Registrations, None, IInv, TypeOK, Sound, Entries
<1>4. Step(e, f) /\ f.ticket = None
  <2>. HIDE DEF e, r
  <2>. QED
    BY <1>2, <1>3 DEF Step, Move, Sound, Shaped, Transition, Live, LiveStates, Entries, States
<1>5. Set(p, f) /\ options' = options \cup {r} /\ spent' = [spent EXCEPT ![p] = serial]
      /\ issued' = issued
  BY DEF ConsumeTicket
<1>6. TableStep /\ queue' \in Seq(Events)
  BY <1>1, <1>2, <1>4, <1>5, SetStep DEF Set, IInv, TypeOK
<1>7. serial = issued[p] /\ spent[p] < issued[p]
  BY <1>1, <1>2 DEF TicketValid, IInv, TicketCurrent, Records
<1>8. TicketCurrent' /\ SpentIssued'
  <2>. HIDE DEF f
  <2>. QED BY <1>4, <1>5, <1>7 DEF Set, IInv, TypeOK, TicketCurrent, SpentIssued, Records
<1>9. options' \in SUBSET Registrations
  BY <1>3, <1>5 DEF IInv, TypeOK
<1>10. spent' \in [Pairings -> 0 .. MaxTickets] /\ spent'[p] = serial
  BY <1>5 DEF IInv, TypeOK
<1>. QED BY <1>6, <1>7, <1>8, <1>9, <1>10

\* Pairings::retry_registration steps the table.
LEMMA OptionsRefusedStep ==
  ASSUME IInv, NEW r \in options, OptionsRefused(r)
  PROVE  TableStep /\ queue' \in Seq(Events)
<1>. DEFINE p == r.pairing
            e == Expired(p)
<1>0. p \in Pairings
  BY DEF IInv, TypeOK, Registrations
<1>1. CASE Set(p, e)
  BY <1>0, <1>1, SetExpired
<1>2. CASE e.state = "Registering" /\ e.registration = r /\ Set(p, Transition(e, "Approved"))
  <2>1. entries[p] # Absent
    BY <1>2 DEF Expired, Absent
  <2>2. Sound(e) /\ e = entries[p]
    BY <1>0, <1>2, <2>1, RecordsSound, NotExpired DEF Live, LiveStates
  <2>3. Step(e, Transition(e, "Approved"))
    <3>. HIDE DEF e
    <3>. QED
      BY <1>2, <2>2 DEF Step, Move, Sound, Shaped, Transition, Live, LiveStates, Entries, States
  <2>. QED BY <1>0, <1>2, <2>1, <2>2, <2>3, SetStep DEF Set, IInv, TypeOK
<1>. QED BY <1>1, <1>2 DEF OptionsRefused

\* Pairings::finish steps the table.
LEMMA FinishStep ==
  ASSUME IInv, NEW r \in finishing, Finish(r)
  PROVE  TableStep /\ queue' \in Seq(Events)
<1>. DEFINE p == r.pairing
            e == Expired(p)
<1>0. p \in Pairings
  BY DEF IInv, TypeOK, Registrations
<1>1. CASE Set(p, e)
  BY <1>0, <1>1, SetExpired
<1>2. CASE p \in Records /\ Finishable(e, r)
           /\ SetAnnounced(p, Transition(e, "Registered"), "device")
  <2>1. Sound(e) /\ e = entries[p] /\ e.state = "Registering"
    BY <1>0, <1>2, RecordsSound, NotExpired DEF Records, Finishable, Live, LiveStates
  <2>2. Step(e, Transition(e, "Registered"))
    <3>. HIDE DEF e
    <3>. QED
      BY <2>1 DEF Step, Move, Sound, Shaped, Transition, Live, LiveStates, Entries, States
  <2>. QED BY <1>0, <1>2, <2>1, <2>2, SetAnnouncedStep DEF Records, Kinds
<1>. QED BY <1>1, <1>2 DEF Finish

(***************************************************************************)
(* A critical section that issues, spends and parks nothing.               *)
(***************************************************************************)
LEMMA QuietStep ==
  ASSUME IInv, TableStep, UNCHANGED <<polls, issued, spent>>,
         fresh' = fresh
  PROVE  /\ entries' \in [Pairings -> Entries \cup {Absent}]
         /\ StateShape' /\ AttemptsLimited' /\ NoLostWakeup'
         /\ PollBound' /\ FreshUnused' /\ TicketCurrent' /\ SpentIssued'
<1>1. TableMove
  BY TableStepMoves
<1>2. /\ entries' \in [Pairings -> Entries \cup {Absent}]
      /\ StateShape' /\ AttemptsLimited'
      /\ \A p \in Pairings : entries[p] = Absent => entries'[p] = Absent
  BY <1>1, TableMoveKeeps
<1>3. NoLostWakeup'
  BY <1>1, TableMoveWakes
<1>4. PollBound' /\ SpentIssued'
  BY DEF IInv, PollBound, SpentIssued
<1>5. FreshUnused'
  BY <1>2 DEF IInv, TypeOK, FreshUnused
<1>6. TicketCurrent'
  BY DEF IInv, TicketCurrent, Records, TableStep, Step
<1>. QED BY <1>2, <1>3, <1>4, <1>5, <1>6

\* A critical section that leaves the table alone takes a TableStep.
LEMMA EntriesUnchanged ==
  ASSUME IInv, entries' = entries
  PROVE  TableStep
  BY DEF TableStep, IInv, TypeOK

\* Ceremonies::purge leaves ceremonies.
LEMMA PurgedType ==
  ASSUME IInv
  PROVE  Purged \in [Pairings -> Registrations \cup {None}]
  BY DEF Purged, IInv, TypeOK

\* A gateway starts with an empty table, which satisfies the invariant.
LEMMA InitInv == Init => IInv
<1>. SUFFICES ASSUME Init PROVE IInv
  OBVIOUS
<1>1. TypeOK
  BY BoundsNatural DEF Init, TypeOK
<1>2. Records = {}
  BY DEF Init, Records
<1>. QED
  BY <1>1, <1>2, BoundsNatural
  DEF Init, IInv, StateShape, AttemptsLimited, NoLostWakeup, PollBound,
      FreshUnused, TicketCurrent, SpentIssued

\* Subscribing clears the change mark, and parks nothing yet.
LEMMA StatusEnterInv ==
  ASSUME IInv, NEW p \in Pairings, StatusEnter(p)
  PROVE  IInv'
<1>. DEFINE e == Expired(p)
            f == [e EXCEPT !.changed = FALSE]
<1>1. entries[p] # Absent /\ Sound(e) /\ Step(entries[p], e)
  BY RecordsSound DEF StatusEnter, Records
<1>2. Sound(f) /\ f.state = e.state /\ f.ticket = e.ticket
  <2>. HIDE DEF e
  <2>. QED BY <1>1 DEF Sound, Shaped, Live, Entries
<1>. HIDE DEF f
<1>3. /\ entries' = [entries EXCEPT ![p] = f]
      /\ polls' = [polls EXCEPT ![p] = "entered"]
      /\ issued[p] < MaxTickets
      /\ UNCHANGED <<now, fresh, command, options, ceremonies, finishing, queue,
                     view, other, issued, spent>>
  BY DEF StatusEnter, Set, f
<1>4. TypeOK'
  BY <1>2, <1>3 DEF IInv, TypeOK, Sound
<1>5. StateShape' /\ AttemptsLimited'
  BY <1>2, <1>3 DEF IInv, TypeOK, StateShape, AttemptsLimited, Records, Sound
<1>6. NoLostWakeup' /\ PollBound' /\ SpentIssued'
  BY <1>3 DEF IInv, TypeOK, NoLostWakeup, PollBound, SpentIssued, Records
<1>7. FreshUnused'
  BY <1>1, <1>3 DEF IInv, TypeOK, FreshUnused
<1>8. TicketCurrent'
  BY <1>1, <1>2, <1>3 DEF IInv, TypeOK, TicketCurrent, Records, Step
<1>. QED BY <1>4, <1>5, <1>6, <1>7, <1>8 DEF IInv

\* Pairings::create keeps the invariant, whatever it evicts.
LEMMA CreateInv ==
  ASSUME IInv, NEW p \in Pairings, Create(p)
  PROVE  IInv'
<1>1. PICK table \in Spaced :
        \/ /\ queue' = Append(queue, Event(p, "created"))
           /\ entries' = [table EXCEPT ![p] = NewEntry]
           /\ fresh' = fresh \ {p}
        \/ /\ entries' = table
           /\ UNCHANGED <<queue, fresh>>
  BY DEF Create
<1>2. /\ table \in [Pairings -> Entries \cup {Absent}]
      /\ \A q \in Pairings : table[q] \in {entries[q], Absent}
  BY <1>1 DEF Spaced, IInv, TypeOK, Oldest, Evictable, Records
<1>3. Sound(NewEntry) /\ NewEntry.state = "Pending" /\ NewEntry.ticket = None
  BY TimesFact, LimitsPositive
  DEF NewEntry, Sound, Shaped, Live, LiveStates, States, Entries, None, IInv, TypeOK
<1>4. \A q \in Pairings :
        \/ entries'[q] \in {entries[q], Absent}
        \/ q = p /\ entries'[q] = NewEntry /\ fresh' = fresh \ {p}
  BY <1>1, <1>2
<1>5. /\ entries' \in [Pairings -> Entries \cup {Absent}]
      /\ fresh' \in SUBSET fresh
  BY <1>1, <1>2, <1>3 DEF Sound, IInv, TypeOK
<1>6. queue' \in Seq(Events)
  <2>1. Event(p, "created") \in Events
    BY DEF Event, Events, Kinds
  <2>2. queue \in Seq(Events)
    BY DEF IInv, TypeOK
  <2>. QED BY <1>1, <2>1, <2>2
<1>7. UNCHANGED <<now, polls, options, ceremonies, finishing, view, other,
                  issued, spent>> /\ command' = None
  BY DEF Create, CommandEnd
<1>8. TypeOK'
  BY <1>5, <1>6, <1>7 DEF IInv, TypeOK
<1>9. StateShape' /\ AttemptsLimited'
  BY <1>3, <1>4 DEF IInv, StateShape, AttemptsLimited, Records, Sound
<1>10. NoLostWakeup'
  BY <1>3, <1>4, <1>7 DEF IInv, NoLostWakeup, Records
<1>11. TicketCurrent'
  BY <1>3, <1>4, <1>7 DEF IInv, TicketCurrent, Records
<1>12. FreshUnused'
  BY <1>1, <1>2, <1>5 DEF IInv, TypeOK, FreshUnused
<1>13. PollBound' /\ SpentIssued'
  BY <1>7 DEF IInv, PollBound, SpentIssued
<1>. QED BY <1>8, <1>9, <1>10, <1>11, <1>12, <1>13 DEF IInv

\* The critical sections that only step the table.
LEMMA QuietInv ==
  ASSUME IInv, TableStep, UNCHANGED <<now, fresh, polls, options, finishing, view, other, issued, spent>>,
         queue' \in Seq(Events), command' \in Commands \cup {None},
         ceremonies' \in [Pairings -> Registrations \cup {None}]
  PROVE  IInv'
<1>1. TypeOK'
  BY QuietStep DEF IInv, TypeOK
<1>. QED BY <1>1, QuietStep DEF IInv

\* Every step of the gateway, its phones and its desktop keeps the invariant.
THEOREM InvStep == IInv /\ [Next]_vars => IInv'
<1>. SUFFICES ASSUME IInv, [Next]_vars PROVE IInv'
  OBVIOUS
<1>1. CASE UNCHANGED vars
  BY <1>1, EntriesUnchanged, QuietInv DEF vars, IInv, TypeOK
<1>2. CASE Tick
  <2>1. entries' = entries /\ UNCHANGED <<fresh, polls, issued, spent>>
    BY <1>2 DEF Tick
  <2>2. TypeOK'
    BY <1>2, BoundsNatural DEF Tick, IInv, TypeOK
  <2>. QED BY <2>1, <2>2, EntriesUnchanged, QuietStep DEF IInv
<1>3. CASE Deliver
  <2>1. entries' = entries /\ UNCHANGED <<fresh, polls, issued, spent>>
    BY <1>3 DEF Deliver
  <2>2. Head(queue) \in Events /\ Tail(queue) \in Seq(Events)
    BY <1>3 DEF Deliver, IInv, TypeOK
  <2>3. view' \in [Pairings -> Seq(Kinds)]
    <3>1. CASE Head(queue) = None
      BY <1>3, <3>1 DEF Deliver, IInv, TypeOK
    <3>2. CASE Head(queue) # None
      <4>1. Head(queue).pairing \in Pairings /\ Head(queue).kind \in Kinds
        BY <2>2, <3>2 DEF Events
      <4>. QED BY <1>3, <3>2, <4>1 DEF Deliver, IInv, TypeOK
    <3>. QED BY <3>1, <3>2
  <2>4. TypeOK'
    BY <1>3, <2>2, <2>3 DEF Deliver, IInv, TypeOK
  <2>. QED BY <2>1, <2>4, EntriesUnchanged, QuietStep DEF IInv
<1>4. CASE OtherEvent
  <2>1. entries' = entries /\ UNCHANGED <<fresh, polls, issued, spent>>
    BY <1>4 DEF OtherEvent
  <2>2. TypeOK'
    BY <1>4, BoundsNatural DEF OtherEvent, IInv, TypeOK, Events
  <2>. QED BY <2>1, <2>2, EntriesUnchanged, QuietStep DEF IInv
<1>5. CASE Maintenance
  BY <1>5, MaintainStep, PurgedType, QuietInv DEF Maintenance, IInv, TypeOK
<1>6. ASSUME NEW c \in Commands, CommandBegin(c) PROVE IInv'
  BY <1>6, MaintainStep, QuietInv DEF CommandBegin, IInv, TypeOK
<1>7. CASE CreateRefused
  BY <1>7, EntriesUnchanged, QuietInv DEF CreateRefused, CommandEnd, IInv, TypeOK
<1>8. ASSUME NEW p \in Pairings, Create(p) PROVE IInv'
  BY <1>8, CreateInv
<1>9. ASSUME NEW p \in Pairings, Decide(p) PROVE IInv'
  BY <1>9, DecideStep, QuietInv DEF Decide, CommandEnd, IInv, TypeOK
<1>10. ASSUME NEW p \in Pairings, NEW right \in BOOLEAN, Claim(p, right) PROVE IInv'
  BY <1>10, ClaimStep, QuietInv DEF Claim, IInv, TypeOK
<1>11. ASSUME NEW p \in Pairings, StatusRefused(p) PROVE IInv'
  BY <1>11, StatusRefusedStep, QuietInv DEF StatusRefused, IInv, TypeOK
<1>12. ASSUME NEW p \in Pairings, StatusEnter(p) PROVE IInv'
  BY <1>12, StatusEnterInv
<1>13. ASSUME NEW p \in Pairings, StatusRecheck(p) \/ StatusWake(p) \/ StatusTimer(p)
       PROVE  IInv'
  <2>1. /\ UNCHANGED <<now, entries, fresh, command, options, ceremonies, finishing,
                       queue, view, other, issued, spent>>
        /\ polls[p] # "none"
        /\ polls' \in [Pairings -> {"none", "entered", "waiting", "ready"}]
        /\ \A q \in Pairings : q # p => polls'[q] = polls[q]
        /\ polls'[p] = "waiting" => IsPending(p)
    BY <1>13 DEF StatusRecheck, StatusWake, StatusTimer, IInv, TypeOK
  <2>2. TypeOK'
    BY <2>1 DEF IInv, TypeOK
  <2>3. TableMove
    BY <2>1, EntriesUnchanged, TableStepMoves
  <2>4. NoLostWakeup'
    BY <2>1, <2>3, TableMoveWakes
  <2>5. PollBound'
    BY <2>1 DEF IInv, PollBound
  <2>6. StateShape' /\ AttemptsLimited' /\ FreshUnused' /\ TicketCurrent' /\ SpentIssued'
    BY <2>1 DEF IInv, StateShape, AttemptsLimited, FreshUnused, TicketCurrent, SpentIssued, Records
  <2>. QED BY <2>2, <2>4, <2>5, <2>6 DEF IInv
<1>14. ASSUME NEW p \in Pairings, StatusAnswer(p) PROVE IInv'
  <2>1. /\ TableMove /\ queue' \in Seq(Events) /\ TicketCurrent' /\ SpentIssued' /\ PollBound'
        /\ issued' \in [Pairings -> 0 .. MaxTickets]
    BY <1>14, StatusAnswerStep
  <2>2. /\ polls' = [polls EXCEPT ![p] = "none"]
        /\ UNCHANGED <<now, fresh, command, options, ceremonies, finishing, view, other, spent>>
    BY <1>14 DEF StatusAnswer
  <2>3. /\ entries' \in [Pairings -> Entries \cup {Absent}]
        /\ StateShape' /\ AttemptsLimited'
        /\ \A q \in Pairings : entries[q] = Absent => entries'[q] = Absent
    BY <2>1, TableMoveKeeps
  <2>4. \A q \in Pairings : polls'[q] = "waiting" => polls[q] = "waiting"
    BY <2>2 DEF IInv, TypeOK
  <2>5. NoLostWakeup'
    BY <2>1, <2>4, TableMoveWakes
  <2>6. TypeOK'
    BY <2>1, <2>2, <2>3 DEF IInv, TypeOK
  <2>7. FreshUnused'
    BY <2>2, <2>3 DEF IInv, TypeOK, FreshUnused
  <2>. QED BY <2>1, <2>3, <2>5, <2>6, <2>7 DEF IInv
<1>15. ASSUME NEW p \in Pairings, NEW serial \in 1 .. MaxTickets, ConsumeTicket(p, serial)
       PROVE  IInv'
  <2>1. /\ TableStep /\ queue' \in Seq(Events) /\ TicketCurrent' /\ SpentIssued'
        /\ options' \in SUBSET Registrations
        /\ spent' \in [Pairings -> 0 .. MaxTickets]
    BY <1>15, ConsumeStep
  <2>2. UNCHANGED <<now, fresh, command, polls, ceremonies, finishing, view, other, issued>>
    BY <1>15 DEF ConsumeTicket
  <2>3. /\ entries' \in [Pairings -> Entries \cup {Absent}]
        /\ StateShape' /\ AttemptsLimited'
        /\ \A q \in Pairings : entries[q] = Absent => entries'[q] = Absent
    BY <2>1, TableStepMoves, TableMoveKeeps
  <2>4. NoLostWakeup'
    BY <2>1, <2>2, TableStepMoves, TableMoveWakes
  <2>5. TypeOK'
    BY <2>1, <2>2, <2>3 DEF IInv, TypeOK
  <2>6. FreshUnused' /\ PollBound'
    BY <2>2, <2>3 DEF IInv, TypeOK, FreshUnused, PollBound
  <2>. QED BY <2>1, <2>3, <2>4, <2>5, <2>6 DEF IInv
<1>16. ASSUME NEW p \in Pairings, TakeCeremony(p) PROVE IInv'
  <2>1. entries' = entries /\ UNCHANGED <<fresh, polls, issued, spent>>
    BY <1>16 DEF TakeCeremony
  <2>2. Purged[p] \in Registrations
    BY <1>16, PurgedType DEF TakeCeremony
  <2>3. ceremonies' \in [Pairings -> Registrations \cup {None}]
    BY <1>16, PurgedType DEF TakeCeremony
  <2>4. TypeOK'
    BY <1>16, <2>2, <2>3 DEF TakeCeremony, IInv, TypeOK
  <2>. QED BY <2>1, <2>4, EntriesUnchanged, QuietStep DEF IInv
<1>17. ASSUME NEW r \in options, OptionsPublish(r) PROVE IInv'
  <2>1. entries' = entries /\ UNCHANGED <<fresh, polls, issued, spent>>
    BY <1>17 DEF OptionsPublish
  <2>2. ceremonies' \in [Pairings -> Registrations \cup {None}]
    BY <1>17, PurgedType DEF OptionsPublish, IInv, TypeOK
  <2>3. TypeOK'
    BY <1>17, <2>2 DEF OptionsPublish, IInv, TypeOK
  <2>. QED BY <2>1, <2>3, EntriesUnchanged, QuietStep DEF IInv
<1>18. ASSUME NEW r \in options, OptionsRefused(r) PROVE IInv'
  <2>1. TableStep /\ queue' \in Seq(Events) /\ options' \in SUBSET options
        /\ UNCHANGED <<now, fresh, command, polls, ceremonies, finishing, view,
                       other, issued, spent>>
    BY <1>18, OptionsRefusedStep DEF OptionsRefused
  <2>2. TypeOK'
    BY <2>1, QuietStep DEF IInv, TypeOK
  <2>. QED BY <2>1, <2>2, QuietStep DEF IInv
<1>19. ASSUME NEW r \in finishing, VerifyFailed(r) PROVE IInv'
  <2>1. entries' = entries /\ UNCHANGED <<fresh, polls, issued, spent>>
    BY <1>19 DEF VerifyFailed
  <2>2. TypeOK'
    BY <1>19 DEF VerifyFailed, IInv, TypeOK
  <2>. QED BY <2>1, <2>2, EntriesUnchanged, QuietStep DEF IInv
<1>20. ASSUME NEW r \in finishing, Finish(r) PROVE IInv'
  <2>1. TableStep /\ queue' \in Seq(Events) /\ finishing' \in SUBSET finishing
        /\ UNCHANGED <<now, fresh, command, polls, options, ceremonies, view,
                       other, issued, spent>>
    BY <1>20, FinishStep DEF Finish
  <2>2. TypeOK'
    BY <2>1, QuietStep DEF IInv, TypeOK
  <2>. QED BY <2>1, <2>2, QuietStep DEF IInv
<1>. QED
  BY <1>1, <1>2, <1>3, <1>4, <1>5, <1>6, <1>7, <1>8, <1>9, <1>10, <1>11, <1>12,
     <1>13, <1>14, <1>15, <1>16, <1>17, <1>18, <1>19, <1>20 DEF Next

\* The inductive invariant holds in every reachable state, so every record is
\* typed, shaped by its state and within its attempts, and no parked poll
\* sleeps through a decision, for any number of pairings, any durations and
\* any interleaving of the desktop, phones and maintenance (pairing.rs).
THEOREM PairingInvariant ==
  Spec => [](TypeOK /\ StateShape /\ AttemptsLimited /\ NoLostWakeup)
<1>1. IInv => TypeOK /\ StateShape /\ AttemptsLimited /\ NoLostWakeup
  BY DEF IInv
<1>. QED BY <1>1, InitInv, InvStep, PTL DEF Spec

(***************************************************************************)
(* The action properties.                                                  *)
(***************************************************************************)

\* What a step of the system may do to a record.
RecordStep ==
  \A p \in Records :
    \/ entries'[p] = Absent
    \/ entries'[p] = entries[p]
    \/ Move(entries[p], entries'[p])
    \/ entries'[p].state = Expired(p).state /\ Expired(p).state # "Registering"
    \/ entries'[p].state = entries[p].state

\* No step of the system does more to a record than RecordStep allows.
LEMMA NextRecordStep ==
  ASSUME IInv, [Next]_vars
  PROVE  RecordStep
<1>1. ASSUME TableStep PROVE RecordStep
  BY <1>1 DEF TableStep, Step, RecordStep, Records
<1>2. ASSUME TableMove PROVE RecordStep
  BY <1>2 DEF TableMove, RecordStep, Records
<1>3. ASSUME entries' = entries PROVE RecordStep
  BY <1>3 DEF RecordStep
<1>4. CASE UNCHANGED vars
  BY <1>3, <1>4 DEF vars
<1>5. CASE Tick \/ Deliver \/ OtherEvent \/ CreateRefused
  BY <1>3, <1>5 DEF Tick, Deliver, OtherEvent, CreateRefused
<1>6. CASE Maintenance
  BY <1>1, <1>6, MaintainStep DEF Maintenance
<1>7. ASSUME NEW c \in Commands, CommandBegin(c) PROVE RecordStep
  BY <1>1, <1>7, MaintainStep DEF CommandBegin
<1>8. ASSUME NEW p \in Pairings, Create(p) PROVE RecordStep
  <2>1. p \in fresh /\ entries[p] = Absent
    BY <1>8 DEF Create, IInv, FreshUnused
  <2>2. PICK table \in Spaced : entries' \in {table, [table EXCEPT ![p] = NewEntry]}
    BY <1>8 DEF Create
  <2>3. \A q \in Pairings : table[q] \in {entries[q], Absent}
    BY <2>2 DEF Spaced, IInv, TypeOK, Oldest, Evictable, Records
  <2>4. table \in [Pairings -> Entries \cup {Absent}]
    BY <2>2 DEF Spaced, IInv, TypeOK
  <2>. QED BY <2>1, <2>2, <2>3, <2>4 DEF RecordStep, Records
<1>9. ASSUME NEW p \in Pairings, Decide(p) PROVE RecordStep
  BY <1>1, <1>9, DecideStep
<1>10. ASSUME NEW p \in Pairings, NEW right \in BOOLEAN, Claim(p, right) PROVE RecordStep
  BY <1>1, <1>10, ClaimStep
<1>11. ASSUME NEW p \in Pairings, StatusRefused(p) PROVE RecordStep
  BY <1>1, <1>11, StatusRefusedStep
<1>12. ASSUME NEW p \in Pairings, StatusEnter(p) PROVE RecordStep
  <2>1. entries[p] # Absent /\ Sound(Expired(p))
    BY <1>12, RecordsSound DEF StatusEnter, Records
  <2>2. entries' = [entries EXCEPT ![p] = [Expired(p) EXCEPT !.changed = FALSE]]
    BY <1>12 DEF StatusEnter, Set
  <2>3. entries'[p].state = Expired(p).state
    BY <2>1, <2>2 DEF IInv, TypeOK, Sound, Entries
  <2>4. \/ Expired(p).state # "Registering"
        \/ Expired(p) = entries[p]
    BY <2>1, NotExpired DEF Live, LiveStates
  <2>. QED BY <2>2, <2>3, <2>4 DEF IInv, TypeOK, RecordStep
<1>13. ASSUME NEW p \in Pairings,
              StatusRecheck(p) \/ StatusWake(p) \/ StatusTimer(p) \/ TakeCeremony(p)
       PROVE  RecordStep
  BY <1>3, <1>13 DEF StatusRecheck, StatusWake, StatusTimer, TakeCeremony
<1>14. ASSUME NEW p \in Pairings, StatusAnswer(p) PROVE RecordStep
  BY <1>2, <1>14, StatusAnswerStep
<1>15. ASSUME NEW p \in Pairings, NEW serial \in 1 .. MaxTickets, ConsumeTicket(p, serial)
       PROVE  RecordStep
  BY <1>1, <1>15, ConsumeStep
<1>16. ASSUME NEW r \in options, OptionsPublish(r) \/ OptionsRefused(r) PROVE RecordStep
  BY <1>1, <1>3, <1>16, OptionsRefusedStep DEF OptionsPublish
<1>17. ASSUME NEW r \in finishing, VerifyFailed(r) \/ Finish(r) PROVE RecordStep
  BY <1>1, <1>3, <1>17, FinishStep DEF VerifyFailed
<1>. QED
  BY <1>4, <1>5, <1>6, <1>7, <1>8, <1>9, <1>10, <1>11, <1>12, <1>13, <1>14, <1>15,
     <1>16, <1>17 DEF Next

\* A pairing that was rejected, expired or completed is never revived: for any
\* number of pairings and any handler in flight (pairing.rs
\* retry_registration, finish, decide).
THEOREM PairingEndedIsFinal == Spec => EndedIsFinal
<1>1. IInv /\ [Next]_vars =>
        [\A p \in Records :
           ~Live(entries[p]) => entries'[p] = Absent \/ entries'[p].state = entries[p].state]_vars
  <2>. SUFFICES ASSUME IInv, [Next]_vars, NEW p \in Records, ~Live(entries[p])
                PROVE  entries'[p] = Absent \/ entries'[p].state = entries[p].state
    OBVIOUS
  <2>1. Expired(p) = entries[p]
    BY DEF Expired, Expire, Records
  <2>. QED BY <2>1, NextRecordStep DEF RecordStep, Move, Records
<1>. QED BY <1>1, InitInv, InvStep, PTL DEF Spec, EndedIsFinal

\* A record neither starts a registration nor completes one.
Neither(e, f) == f.state \in {"Registering", "Registered"} => f.state = e.state

\* No record does.
NoneOpened ==
  \A p \in Records : entries'[p] = Absent \/ Neither(entries[p], entries'[p])

\* Setting one record to one that neither starts nor completes opens none.
LEMMA SetNoneOpened ==
  ASSUME IInv, NEW p \in Pairings, NEW f, entries' = [entries EXCEPT ![p] = f],
         entries[p] # Absent => Neither(entries[p], f)
  PROVE  NoneOpened
  BY DEF NoneOpened, Neither, Records, IInv, TypeOK

\* An expiry starts and completes nothing.
LEMMA ExpiredNeither ==
  ASSUME IInv, NEW p \in Pairings, entries[p] # Absent
  PROVE  /\ Expired(p) \in Entries
         /\ Neither(entries[p], Expired(p))
<1>1. Expired(p) \in Entries
  BY RecordsSound DEF Sound
<1>2. CASE Live(Expired(p))
  BY <1>1, <1>2, NotExpired DEF Neither
<1>3. CASE Expired(p).state = entries[p].state
  BY <1>1, <1>3 DEF Neither
<1>4. CASE ~Live(Expired(p)) /\ Expired(p).state # entries[p].state
  <2>1. Expired(p) = [Transition(entries[p], "Expired") EXCEPT !.notification = TRUE]
    BY <1>4 DEF Expired, Expire
  <2>2. Expired(p).state = "Expired"
    BY <2>1, RecordsSound DEF Sound, Entries, Transition
  <2>. QED BY <1>1, <2>2 DEF Neither
<1>. QED BY <1>1, <1>2, <1>3, <1>4

\* Pairing::transition sets the state it is given.
LEMMA TransitionState ==
  ASSUME NEW e, NEW s, e \in Entries
  PROVE  /\ Transition(e, s).state = s
         /\ [Transition(e, s) EXCEPT !.notification = TRUE].state = s
  BY DEF Transition, Entries

\* Pairing::fail ends the record or leaves its state.
LEMMA FailNeither ==
  ASSUME NEW e, e \in Entries, NEW second
  PROVE  Fail(e, second).state \in {"Rejected", e.state}
  BY DEF Fail, Transition, Entries

\* Pairing::notify leaves the state.
LEMMA NotifiedState ==
  ASSUME NEW e, e \in Entries
  PROVE  Notified(e).state = e.state
  BY DEF Notified, Entries

\* Only a consumed ticket starts a registration, and only a finished
\* verification completes one.
LEMMA NextOpens ==
  ASSUME IInv, [Next]_vars
  PROVE  \/ NoneOpened
         \/ \E p \in Pairings, serial \in 1 .. MaxTickets : ConsumeTicket(p, serial)
         \/ \E r \in finishing : Finish(r)
<1>1. ASSUME entries' = entries PROVE NoneOpened
  BY <1>1 DEF NoneOpened, Neither
<1>2. ASSUME MaintainEntries PROVE NoneOpened
  <2>1. PICK told \in TellOrders :
          entries' = [p \in Pairings |->
                        IF \E i \in DOMAIN told : told[i] = p
                          THEN [Expired(p) EXCEPT !.notification = FALSE]
                          ELSE Expired(p)]
    BY <1>2 DEF MaintainEntries
  <2>2. ASSUME NEW p \in Records PROVE Neither(entries[p], entries'[p])
    <3>1. p \in Pairings /\ entries[p] # Absent
      BY <2>2 DEF Records
    <3>2. entries'[p].state = Expired(p).state
      BY <2>1, <3>1, ExpiredNeither DEF Entries
    <3>. QED BY <3>1, <3>2, ExpiredNeither DEF Neither
  <2>. QED BY <2>2 DEF NoneOpened
<1>3. ASSUME NEW p \in Pairings, Set(p, Expired(p)) PROVE NoneOpened
  BY <1>3, SetNoneOpened, ExpiredNeither DEF Set
<1>4. CASE Maintenance \/ \E c \in Commands : CommandBegin(c)
  BY <1>2, <1>4 DEF Maintenance, CommandBegin
<1>5. ASSUME NEW p \in Pairings, Create(p) PROVE NoneOpened
  <2>1. p \in fresh /\ entries[p] = Absent
    BY <1>5 DEF Create, IInv, FreshUnused
  <2>2. PICK table \in Spaced : entries' \in {table, [table EXCEPT ![p] = NewEntry]}
    BY <1>5 DEF Create
  <2>3. \A q \in Pairings : table[q] \in {entries[q], Absent}
    BY <2>2 DEF Spaced, IInv, TypeOK, Oldest, Evictable, Records
  <2>4. table \in [Pairings -> Entries \cup {Absent}]
    BY <2>2 DEF Spaced, IInv, TypeOK
  <2>. QED BY <2>1, <2>2, <2>3, <2>4 DEF NoneOpened, Neither, Records
<1>6. ASSUME NEW p \in Pairings, Decide(p) PROVE NoneOpened
  <2>1. CASE Set(p, Expired(p))
    BY <1>3, <2>1
  <2>2. CASE p \in Records /\ SetAnnounced(p, Decision(Expired(p), "Approve"), "approved")
    <3>1. Expired(p) \in Entries
      BY <2>2, ExpiredNeither DEF Records
    <3>2. [Expired(p) EXCEPT !.until = now + REGISTRATION_WINDOW] \in Entries
      BY <3>1, TimesFact DEF Entries, IInv, TypeOK
    <3>3. Decision(Expired(p), "Approve").state = "Approved"
      BY <3>2, TransitionState DEF Decision
    <3>. QED BY <2>2, <3>3, SetNoneOpened DEF SetAnnounced, Neither
  <2>3. CASE /\ p \in Records /\ command.op # "Approve"
             /\ SetAndNotify(p, Decision(Expired(p), command.op))
    <3>1. Expired(p) \in Entries
      BY <2>3, ExpiredNeither DEF Records
    <3>2. /\ Decision(Expired(p), command.op) =
               [Transition(Expired(p), "Rejected") EXCEPT !.notification = TRUE]
          /\ Decision(Expired(p), command.op) \in Entries
      BY <2>3, <3>1 DEF Decision, Transition, Entries, States
    <3>3. Notified(Decision(Expired(p), command.op)).state = "Rejected"
      BY <3>1, <3>2, TransitionState, NotifiedState
    <3>. QED BY <2>3, <3>3, SetNoneOpened DEF SetAndNotify, Neither
  <2>. QED BY <1>6, <2>1, <2>2, <2>3 DEF Decide
<1>7. ASSUME NEW p \in Pairings, entries[p] # Absent, NEW f, f \in Entries,
             f.state \in {"Rejected", Expired(p).state}, SetAndNotify(p, f)
      PROVE  NoneOpened
  <2>1. Neither(entries[p], Notified(f))
    BY <1>7, NotifiedState, ExpiredNeither DEF Neither
  <2>. QED BY <1>7, <2>1, SetNoneOpened DEF SetAndNotify
<1>8. ASSUME NEW p \in Pairings, entries[p] # Absent, Live(Expired(p)), NEW second
      PROVE  /\ Fail(Expired(p), second) \in Entries
             /\ Fail(Expired(p), second).state \in {"Rejected", Expired(p).state}
  <2>1. Step(Expired(p), Fail(Expired(p), second))
    BY <1>8, RecordsSound, FailStep
  <2>. QED BY <1>8, <2>1, ExpiredNeither, FailNeither DEF Step, Move, Sound
<1>9. ASSUME NEW p \in Pairings, NEW right \in BOOLEAN, Claim(p, right) PROVE NoneOpened
  <2>1. entries[p] # Absent
    BY <1>9 DEF Claim, Records
  <2>2. CASE SetAndNotify(p, Expired(p))
    BY <1>7, <2>1, <2>2, ExpiredNeither
  <2>3. CASE Live(Expired(p)) /\ \E second \in BOOLEAN : SetAndNotify(p, Fail(Expired(p), second))
    BY <1>7, <1>8, <2>1, <2>3
  <2>4. CASE SetAnnounced(p, [Expired(p) EXCEPT !.claimed = TRUE, !.secret = FALSE], "claimed")
    <3>1. [Expired(p) EXCEPT !.claimed = TRUE, !.secret = FALSE].state = Expired(p).state
      BY <2>1, ExpiredNeither DEF Entries
    <3>2. Neither(entries[p], [Expired(p) EXCEPT !.claimed = TRUE, !.secret = FALSE])
      BY <2>1, <3>1, ExpiredNeither DEF Neither
    <3>. QED BY <2>4, <3>2, SetNoneOpened DEF SetAnnounced
  <2>. QED BY <1>9, <2>2, <2>3, <2>4 DEF Claim
<1>10. ASSUME NEW p \in Pairings, StatusRefused(p) PROVE NoneOpened
  <2>1. entries[p] # Absent
    BY <1>10 DEF StatusRefused, Records
  <2>2. CASE Live(Expired(p)) /\ SetAndNotify(p, Fail(Expired(p), FALSE))
    BY <1>7, <1>8, <2>1, <2>2
  <2>3. CASE Set(p, Expired(p))
    BY <1>3, <2>3
  <2>. QED BY <1>10, <2>2, <2>3 DEF StatusRefused
<1>11. ASSUME NEW p \in Pairings, StatusEnter(p) PROVE NoneOpened
  <2>1. entries[p] # Absent /\ entries' = [entries EXCEPT ![p] = [Expired(p) EXCEPT !.changed = FALSE]]
    BY <1>11 DEF StatusEnter, Records, Set
  <2>2. Neither(entries[p], [Expired(p) EXCEPT !.changed = FALSE])
    BY <2>1, ExpiredNeither DEF Neither, Entries
  <2>. QED BY <2>1, <2>2, SetNoneOpened
<1>12. ASSUME NEW p \in Pairings, StatusAnswer(p) PROVE NoneOpened
  <2>1. CASE p \notin Records /\ UNCHANGED entries
    BY <1>1, <2>1
  <2>2. CASE p \in Records /\ SetAndNotify(p, Expired(p))
    BY <1>7, <2>2, ExpiredNeither DEF Records
  <2>3. CASE p \in Records /\ Set(p, Ticketed(Expired(p), p))
    <3>1. Ticketed(Expired(p), p).state = Expired(p).state
      BY <2>3, ExpiredNeither DEF Ticketed, Entries, Records
    <3>2. Neither(entries[p], Ticketed(Expired(p), p))
      BY <2>3, <3>1, ExpiredNeither DEF Neither, Records
    <3>. QED BY <2>3, <3>2, SetNoneOpened DEF Set
  <2>. QED BY <1>12, <2>1, <2>2, <2>3 DEF StatusAnswer
<1>13. ASSUME NEW r \in options, OptionsRefused(r) PROVE NoneOpened
  <2>1. r.pairing \in Pairings
    BY DEF IInv, TypeOK, Registrations
  <2>2. CASE Set(r.pairing, Expired(r.pairing))
    BY <1>3, <2>1, <2>2
  <2>3. CASE /\ entries[r.pairing] # Absent
             /\ Set(r.pairing, Transition(Expired(r.pairing), "Approved"))
    <3>1. Transition(Expired(r.pairing), "Approved").state = "Approved"
      BY <2>1, <2>3, ExpiredNeither, TransitionState
    <3>. QED BY <2>1, <2>3, <3>1, SetNoneOpened DEF Set, Neither
  <2>4. entries[r.pairing] = Absent => Expired(r.pairing).state # "Registering"
    BY DEF Expired, Absent
  <2>. QED BY <1>13, <2>2, <2>3, <2>4 DEF OptionsRefused
<1>14. CASE \/ UNCHANGED vars \/ Tick \/ Deliver \/ OtherEvent \/ CreateRefused
            \/ \E p \in Pairings : StatusRecheck(p) \/ StatusWake(p) \/ StatusTimer(p) \/ TakeCeremony(p)
            \/ \E r \in options : OptionsPublish(r)
            \/ \E r \in finishing : VerifyFailed(r)
  BY <1>1, <1>14 DEF vars, Tick, Deliver, OtherEvent, CreateRefused, StatusRecheck,
     StatusWake, StatusTimer, TakeCeremony, OptionsPublish, VerifyFailed
<1>. QED
  BY <1>4, <1>5, <1>6, <1>9, <1>10, <1>11, <1>12, <1>13, <1>14 DEF Next

\* No ticket opens two registrations, and only the latest opens one: for any
\* number of tickets and any order of polls, answers and repeated requests
\* (pairing.rs consume_ticket, transition).
THEOREM PairingTicketSpentOnce == Spec => TicketSpentOnce
<1>1. IInv /\ [Next]_vars =>
        [\A p \in Records :
           entries[p].state # "Registering" /\ entries'[p] # Absent
             /\ entries'[p].state = "Registering"
           => spent'[p] = issued[p] /\ spent'[p] > spent[p]]_vars
  <2>. SUFFICES ASSUME IInv, [Next]_vars, NEW p \in Records,
                       entries[p].state # "Registering", entries'[p] # Absent,
                       entries'[p].state = "Registering"
                PROVE  spent'[p] = issued[p] /\ spent'[p] > spent[p]
    OBVIOUS
  <2>0. p \in Pairings /\ entries[p] # Absent
    BY DEF Records
  <2>1. CASE NoneOpened
    BY <2>1 DEF NoneOpened, Neither
  <2>2. ASSUME NEW q \in Pairings, NEW serial \in 1 .. MaxTickets, ConsumeTicket(q, serial)
        PROVE  spent'[p] = issued[p] /\ spent'[p] > spent[p]
    <3>1. p = q
      BY <2>0, <2>2 DEF ConsumeTicket, Set, IInv, TypeOK
    <3>2. Live(Expired(p)) /\ Expired(p).ticket # None /\ Expired(p).ticket.serial = serial
      BY <2>2, <3>1 DEF ConsumeTicket, TicketValid, Live, LiveStates
    <3>3. serial = issued[p] /\ spent[p] < issued[p]
      BY <2>0, <3>2, NotExpired DEF IInv, TicketCurrent
    <3>. QED BY <2>0, <2>2, <3>1, <3>3 DEF ConsumeTicket, IInv, TypeOK
  <2>3. ASSUME NEW r \in finishing, Finish(r) PROVE FALSE
    <3>1. r.pairing \in Pairings
      BY DEF IInv, TypeOK, Registrations
    <3>2. CASE Set(r.pairing, Expired(r.pairing))
      BY <2>0, <3>1, <3>2, ExpiredNeither DEF Set, Neither, IInv, TypeOK
    <3>3. CASE /\ r.pairing \in Records
               /\ SetAnnounced(r.pairing, Transition(Expired(r.pairing), "Registered"), "device")
      <4>1. Transition(Expired(r.pairing), "Registered").state = "Registered"
        BY <3>3, ExpiredNeither, TransitionState DEF Records
      <4>. QED BY <2>0, <3>1, <3>3, <4>1 DEF SetAnnounced, IInv, TypeOK
    <3>. QED BY <2>3, <3>2, <3>3 DEF Finish
  <2>. QED BY <2>1, <2>2, <2>3, NextOpens
<1>. QED BY <1>1, InitInv, InvStep, PTL DEF Spec, TicketSpentOnce

\* A device is registered only through the registration its approval opened,
\* before that registration's deadline and inside the approval window, however
\* long the passkey's verification took without a lock (pairing.rs finish).
THEOREM PairingRegisteredInWindow == Spec => RegisteredInWindow
<1>1. IInv /\ [Next]_vars =>
        [\A p \in Records :
           entries[p].state # "Registered" /\ entries'[p] # Absent
             /\ entries'[p].state = "Registered"
           => /\ entries[p].state = "Registering"
              /\ entries[p].registration \in finishing
              /\ now < entries[p].registration.deadline
              /\ entries[p].registration.deadline <= entries[p].until]_vars
  <2>. SUFFICES ASSUME IInv, [Next]_vars, NEW p \in Records,
                       entries[p].state # "Registered", entries'[p] # Absent,
                       entries'[p].state = "Registered"
                PROVE  /\ entries[p].state = "Registering"
                       /\ entries[p].registration \in finishing
                       /\ now < entries[p].registration.deadline
                       /\ entries[p].registration.deadline <= entries[p].until
    OBVIOUS
  <2>0. p \in Pairings /\ entries[p] # Absent
    BY DEF Records
  <2>1. CASE NoneOpened
    BY <2>1 DEF NoneOpened, Neither
  <2>2. ASSUME NEW q \in Pairings, NEW serial \in 1 .. MaxTickets, ConsumeTicket(q, serial)
        PROVE  FALSE
    <3> DEFINE f == [Expired(q) EXCEPT !.registration = Started(Expired(q), q)]
    <3>1. entries[q] # Absent /\ entries' = [entries EXCEPT ![q] = Transition(f, "Registering")]
      BY <2>2 DEF ConsumeTicket, Set, Records
    <3>2. Transition(f, "Registering").state = "Registering"
      BY <3>1, ExpiredNeither DEF Transition, Entries
    <3>. HIDE DEF f
    <3>. QED BY <2>0, <3>1, <3>2 DEF IInv, TypeOK
  <2>3. ASSUME NEW r \in finishing, Finish(r)
        PROVE  /\ entries[p].state = "Registering"
               /\ entries[p].registration \in finishing
               /\ now < entries[p].registration.deadline
               /\ entries[p].registration.deadline <= entries[p].until
    <3>1. r.pairing \in Pairings
      BY DEF IInv, TypeOK, Registrations
    <3>2. CASE Set(r.pairing, Expired(r.pairing))
      BY <2>0, <3>1, <3>2, ExpiredNeither DEF Set, Neither, IInv, TypeOK
    <3>3. CASE /\ Finishable(Expired(r.pairing), r)
               /\ SetAnnounced(r.pairing, Transition(Expired(r.pairing), "Registered"), "device")
      <4>1. p = r.pairing
        BY <2>0, <3>1, <3>3 DEF SetAnnounced, IInv, TypeOK
      <4>2. Live(Expired(p)) /\ Expired(p).state = "Registering" /\ Expired(p).registration = r
        BY <3>3, <4>1 DEF Finishable, Live, LiveStates
      <4>3. Expired(p) = entries[p] /\ now < Deadline(entries[p])
        BY <2>0, <4>2, NotExpired
      <4>4. Shaped(entries[p])
        BY DEF IInv, StateShape
      <4>5. entries[p].registration # None
        BY <4>2, <4>3, <4>4 DEF Shaped
      <4>. QED BY <4>2, <4>3, <4>4, <4>5 DEF Deadline, Shaped
    <3>. QED BY <2>3, <3>2, <3>3 DEF Finish
  <2>. QED BY <2>1, <2>2, <2>3, NextOpens
<1>. QED BY <1>1, InitInv, InvStep, PTL DEF Spec, RegisteredInWindow
=============================================================================
