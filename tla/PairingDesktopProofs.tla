----------------------- MODULE PairingDesktopProofs ------------------------
(***************************************************************************)
(* Proofs about Pairing that relate the table to what lies beside it: the  *)
(* queue and the desktop's record of a pairing, the handlers that still    *)
(* hold a registration, and the limits on the records.                     *)
(*                                                                         *)
(* Account(p) says what one critical section may do to the record of p and *)
(* which event of p it queues with it.  NextAccounts shows that every      *)
(* action but the event writer's does nothing else, and the theorems       *)
(* follow from the few cases of Account.                                   *)
(***************************************************************************)
EXTENDS PairingProofs

(***************************************************************************)
(* What a critical section does to one record and to the queue.            *)
(***************************************************************************)
Ended(e) == e.state \in {"Rejected", "Expired"}

\* A record whose part of the story stays as it is.
Same(e, f) ==
  /\ f.state = e.state
  /\ f.claimed = e.claimed
  /\ f.notification = e.notification

\* A change the desktop is not told of, or not yet.
Silent(e, f) ==
  \/ Same(e, f)
  \/ Live(e) /\ Ended(f) /\ f.notification

\* A change that goes with the event k.
Spoken(e, f, k) ==
  \/ /\ e.state = "Pending" /\ ~e.claimed
     /\ f.state = "Pending" /\ f.claimed /\ k = "claimed"
  \/ e.state = "Pending" /\ e.claimed /\ f.state = "Approved" /\ k = "approved"
  \/ e.state = "Registering" /\ f.state = "Registered" /\ k = "device"
  \/ /\ Live(e) \/ (Ended(e) /\ e.notification)
     /\ Ended(f) /\ ~f.notification /\ k \in {"rejected", "expired"}

\* Nothing leaves the queue.
Grows ==
  /\ queue' \in Seq(Events)
  /\ Len(queue') >= Len(queue)
  /\ \A i \in 1 .. Len(queue) : queue'[i] = queue[i]

Of(v, p) == v # None /\ v.pairing = p

\* No event of p is queued.
Mute(p) ==
  /\ Grows
  /\ \A i \in Len(queue) + 1 .. Len(queue') : ~Of(queue'[i], p)

\* One event of p is queued, of kind k.
Says(p, k) ==
  /\ Grows
  /\ \E i \in Len(queue) + 1 .. Len(queue') :
       /\ queue'[i] = Event(p, k)
       /\ \A j \in Len(queue) + 1 .. Len(queue') : j # i => ~Of(queue'[j], p)

\* A registration is opened with a ticket, or handed back.
Opens(p) ==
  /\ entries[p].state = "Approved" /\ entries'[p].state = "Registering"
  /\ \E serial \in 1 .. MaxTickets : ConsumeTicket(p, serial)

Retries(p) ==
  /\ entries[p].state = "Registering" /\ entries'[p].state = "Approved"
  /\ \E r \in options : r.pairing = p /\ OptionsRefused(r)

\* What becomes of a record that is not dropped.
Kept(p) ==
  /\ entries[p] # Absent /\ entries'[p] # Absent
  /\ \/ Mute(p) /\ (Silent(entries[p], entries'[p]) \/ Opens(p) \/ Retries(p))
     \/ \E k \in Kinds : Says(p, k) /\ Spoken(entries[p], entries'[p], k)

Evicted(p) ==
  /\ entries[p] # Absent /\ entries'[p] = Absent
  /\ ~Live(entries[p]) /\ ~entries[p].notification
  /\ Mute(p)

Created(p) ==
  /\ p \in fresh /\ p \notin fresh'
  /\ entries'[p] = NewEntry
  /\ Says(p, "created")
  /\ Create(p)

Unused(p) == entries[p] = Absent /\ entries'[p] = Absent /\ Mute(p)

Account(p) ==
  \/ Created(p)
  \/ (p \in fresh <=> p \in fresh') /\ (Kept(p) \/ Evicted(p) \/ Unused(p))

Accounts == \A p \in Pairings : Account(p)

(***************************************************************************)
(* The queue.                                                              *)
(***************************************************************************)

\* A queue left alone mutes everyone.
LEMMA QueueSame ==
  ASSUME IInv, queue' = queue
  PROVE  \A p \in Pairings : Mute(p)
  BY DEF IInv, TypeOK, Mute, Grows

\* An event of another component is of no pairing.
LEMMA QueueOther ==
  ASSUME IInv, queue' = Append(queue, None)
  PROVE  \A p \in Pairings : Mute(p)
<1>1. queue \in Seq(Events) /\ None \in Events
  BY DEF IInv, TypeOK, Events
<1>2. queue' \in Seq(Events) /\ Len(queue') = Len(queue) + 1 /\ queue'[Len(queue) + 1] = None
      /\ \A i \in 1 .. Len(queue) : queue'[i] = queue[i]
  BY <1>1
<1>3. \A i \in Len(queue) + 1 .. Len(queue') : i = Len(queue) + 1
  BY <1>1, <1>2
<1>. QED BY <1>1, <1>2, <1>3 DEF Mute, Grows, Of

\* An event is of its pairing only.
LEMMA EventOf ==
  ASSUME NEW p \in Pairings, NEW k \in Kinds
  PROVE  /\ Event(p, k) \in Events
         /\ Event(p, k) # None
         /\ Event(p, k).pairing = p /\ Event(p, k).kind = k
         /\ \A q : Of(Event(p, k), q) <=> q = p
  BY DEF Event, Events, None, Of

\* An appended event of p says so, and mutes everyone else.
LEMMA QueueSays ==
  ASSUME IInv, NEW p \in Pairings, NEW k \in Kinds, queue' = Append(queue, Event(p, k))
  PROVE  Says(p, k) /\ \A q \in Pairings \ {p} : Mute(q)
<1>1. queue \in Seq(Events) /\ Event(p, k) \in Events
  BY EventOf DEF IInv, TypeOK
<1>2. queue' \in Seq(Events) /\ Len(queue') = Len(queue) + 1
      /\ queue'[Len(queue) + 1] = Event(p, k)
      /\ \A i \in 1 .. Len(queue) : queue'[i] = queue[i]
  BY <1>1
<1>3. \A i \in Len(queue) + 1 .. Len(queue') : i = Len(queue) + 1
  BY <1>1, <1>2
<1>4. Grows
  BY <1>1, <1>2 DEF Grows
<1>5. Says(p, k)
  BY <1>1, <1>2, <1>3, <1>4 DEF Says
<1>6. \A q \in Pairings \ {p} : Mute(q)
  BY <1>2, <1>3, <1>4, EventOf DEF Mute
<1>. QED BY <1>5, <1>6

(***************************************************************************)
(* The operators that write one record.                                    *)
(***************************************************************************)

\* A record left alone, beside one that is written.
LEMMA LeftAlone ==
  ASSUME IInv, NEW q \in Pairings, entries'[q] = entries[q], fresh' = fresh, Mute(q)
  PROVE  Account(q)
  BY DEF Account, Kept, Unused, Silent, Same

\* Writing a silent change accounts for every record.
LEMMA SetSilent ==
  ASSUME IInv, NEW p \in Pairings, NEW f, entries' = [entries EXCEPT ![p] = f], queue' = queue,
         fresh' = fresh, entries[p] # Absent, f # Absent, Silent(entries[p], f)
  PROVE  Accounts
<1>1. \A q \in Pairings : Mute(q)
  BY QueueSame
<1>2. entries'[p] = f /\ \A q \in Pairings \ {p} : entries'[q] = entries[q]
  BY DEF IInv, TypeOK
<1>3. Account(p)
  BY <1>1, <1>2 DEF Account, Kept
<1>. QED BY <1>1, <1>2, <1>3, LeftAlone DEF Accounts

\* A widening queued with its event accounts for every record.
LEMMA SetSpoken ==
  ASSUME IInv, NEW p \in Pairings, NEW f, NEW k \in Kinds, entries' = [entries EXCEPT ![p] = f],
         queue' = Append(queue, Event(p, k)),
         fresh' = fresh, entries[p] # Absent, f # Absent, Spoken(entries[p], f, k)
  PROVE  Accounts
<1>1. Says(p, k) /\ \A q \in Pairings \ {p} : Mute(q)
  BY QueueSays
<1>2. entries'[p] = f /\ \A q \in Pairings \ {p} : entries'[q] = entries[q]
  BY DEF IInv, TypeOK
<1>3. Account(p)
  BY <1>1, <1>2 DEF Account, Kept
<1>4. ASSUME NEW q \in Pairings, q # p PROVE Account(q)
  BY <1>1, <1>2, <1>4, LeftAlone
<1>. QED BY <1>3, <1>4 DEF Accounts

\* A record is not the absence of one.
LEMMA EntryPresent ==
  ASSUME NEW e \in Entries
  PROVE  e # Absent
<1>1. e.state # "Absent"
  BY DEF Entries, States, LiveStates
<1>. QED BY <1>1 DEF Absent

\* A silent change with its notification, if there is room for it.
LEMMA SetNotified ==
  ASSUME IInv, NEW p \in Pairings, NEW f, SetAndNotify(p, f), fresh' = fresh,
         entries[p] # Absent, Sound(f), Silent(entries[p], f)
  PROVE  Accounts
<1>0. entries[p] \in Entries
  BY DEF IInv, TypeOK
<1>1. f \in Entries /\ f # Absent /\ Shaped(f)
  BY EntryPresent DEF Sound
<1>2. entries' = [entries EXCEPT ![p] = Notified(f)] /\ queue' = QueueNotified(p, f)
  BY DEF SetAndNotify
<1>3. Notified(f) \in Entries /\ Notified(f) # Absent /\ Notified(f).state = f.state
      /\ Notified(f).claimed = f.claimed
      /\ Notified(f).notification = IF Room THEN FALSE ELSE f.notification
  <2>1. Notified(f) \in Entries /\ Notified(f).state = f.state /\ Notified(f).claimed = f.claimed
        /\ Notified(f).notification = IF Room THEN FALSE ELSE f.notification
    BY <1>1 DEF Notified, Entries
  <2>. QED BY <2>1, EntryPresent
<1>4. CASE f.notification /\ Room
  <2>1. Ended(f)
    BY <1>1, <1>4 DEF Shaped, Ended
  <2> DEFINE k == IF f.state = "Expired" THEN "expired" ELSE "rejected"
  <2>2. queue' = Append(queue, Event(p, k))
    BY <1>2, <1>4 DEF QueueNotified, Outcome
  <2>3. Spoken(entries[p], Notified(f), k)
    BY <1>3, <1>4, <2>1 DEF Spoken, Silent, Same, Ended
  <2>4. k \in Kinds
    BY DEF Kinds
  <2>. HIDE DEF k
  <2>. QED BY <1>2, <1>3, <2>2, <2>3, <2>4, SetSpoken
<1>5. CASE ~(f.notification /\ Room)
  <2>1. queue' = queue
    BY <1>2, <1>5 DEF QueueNotified
  <2>2. Notified(f).notification = f.notification
    <3>1. CASE Room
      <4>1. f.notification = FALSE
        BY <1>1, <1>5, <3>1 DEF Entries
      <4>. QED BY <1>3, <3>1, <4>1
    <3>2. CASE ~Room
      BY <1>3, <3>2
    <3>. QED BY <3>1, <3>2
  <2>3. Silent(entries[p], Notified(f))
    BY <1>3, <2>2 DEF Silent, Same, Ended
  <2>. QED BY <1>2, <1>3, <2>1, <2>3, SetSilent
<1>. QED BY <1>4, <1>5

\* Pairing::expire tells nobody yet.
LEMMA ExpiredSilent ==
  ASSUME IInv, NEW p \in Pairings, entries[p] # Absent
  PROVE  /\ Silent(entries[p], Expired(p))
         /\ Sound(Expired(p))
         /\ Expired(p) # Absent
<1>1. Sound(entries[p]) /\ Sound(Expired(p))
  BY RecordsSound
<1>2. CASE Live(entries[p]) /\ now >= Deadline(entries[p])
  <2>1. Expired(p) = [Transition(entries[p], "Expired") EXCEPT !.notification = TRUE]
    BY <1>2 DEF Expired, Expire
  <2>2. Expired(p).state = "Expired" /\ Expired(p).notification
    BY <1>1, <2>1 DEF Sound, Entries, Transition
  <2>. QED BY <1>1, <1>2, <2>2, EntryPresent DEF Silent, Ended, Sound
<1>3. CASE ~(Live(entries[p]) /\ now >= Deadline(entries[p]))
  BY <1>1, <1>3, EntryPresent DEF Expired, Expire, Silent, Same, Sound
<1>. QED BY <1>2, <1>3

\* Pairing::fail tells nobody before its notify.
LEMMA FailSilent ==
  ASSUME NEW e, Sound(e), Live(e), NEW second
  PROVE  Silent(e, Fail(e, second))
<1> DEFINE c == [e EXCEPT !.failures = @ + 1]
<1>1. CASE c.failures >= FAILURE_LIMIT \/ second
  <2>1. Fail(e, second) = [Transition(c, "Rejected") EXCEPT !.notification = TRUE]
    BY <1>1 DEF Fail
  <2>2. Fail(e, second).state = "Rejected" /\ Fail(e, second).notification
    BY <2>1 DEF Sound, Entries, Transition
  <2>. QED BY <2>2 DEF Silent, Ended
<1>2. CASE ~(c.failures >= FAILURE_LIMIT \/ second)
  <2>1. Fail(e, second) = c
    BY <1>2 DEF Fail
  <2>2. Same(e, c)
    BY DEF Sound, Entries, Same
  <2>. QED BY <2>1, <2>2 DEF Silent
<1>. QED BY <1>1, <1>2

\* A table and a queue left alone account for themselves.
LEMMA NothingAccounts ==
  ASSUME IInv, entries' = entries, fresh' = fresh, \A p \in Pairings : Mute(p)
  PROVE  Accounts
  BY LeftAlone DEF Accounts

\* Set(p, Expired(p)), for a record or for none.
LEMMA ExpiredAccounts ==
  ASSUME IInv, NEW p \in Pairings, Set(p, Expired(p)), fresh' = fresh
  PROVE  Accounts
<1>1. CASE entries[p] = Absent
  <2>1. entries' = entries /\ queue' = queue
    BY <1>1 DEF Set, Expired, IInv, TypeOK
  <2>. QED BY <2>1, QueueSame, NothingAccounts
<1>2. CASE entries[p] # Absent
  BY <1>2, ExpiredSilent, SetSilent DEF Set
<1>. QED BY <1>1, <1>2

\* Pairings::maintenance tells outcomes, each to the record it clears.
LEMMA MaintainAccounts ==
  ASSUME IInv, MaintainEntries, fresh' = fresh
  PROVE  Accounts
<1>0. queue' \in Seq(Events) /\ queue \in Seq(Events)
  BY MaintainStep DEF IInv, TypeOK
<1>1. PICK told \in TellOrders :
        /\ queue' = queue \o [i \in DOMAIN told |-> Outcome(told[i], Expired(told[i]))]
        /\ entries' = [p \in Pairings |->
                         IF \E i \in DOMAIN told : told[i] = p
                           THEN [Expired(p) EXCEPT !.notification = FALSE]
                           ELSE Expired(p)]
  BY DEF MaintainEntries
<1>2. PICK n \in Int : told \in [1 .. n -> Due] /\ \A i, j \in 1 .. n : told[i] = told[j] => i = j
  <2>1. IsFiniteSet(Due)
    BY PairingsFinite, FS_Subset DEF Due, Records
  <2>2. Cardinality(Due) \in Nat /\ QUEUE - Len(queue) \in Int
    BY <2>1, FS_CardinalityType, LimitsPositive DEF IInv, TypeOK
  <2>. QED BY <2>2 DEF TellOrders
<1>3. PICK m \in Nat : DOMAIN told = 1 .. m
  <2>1. CASE n \in Nat
    BY <1>2, <2>1
  <2>2. CASE n \notin Nat
    <3>1. DOMAIN told = 1 .. 0
      BY <1>2, <2>2
    <3>. QED BY <3>1
  <2>. QED BY <2>1, <2>2
<1>4. \A i \in 1 .. m : told[i] \in Due /\ \A j \in 1 .. m : told[i] = told[j] => i = j
  BY <1>2, <1>3
<1> DEFINE out == [i \in 1 .. m |-> Outcome(told[i], Expired(told[i]))]
<1>5. queue' = queue \o out
  BY <1>1, <1>3
<1>6. out \in Seq(Events) /\ Len(out) = m /\ \A i \in 1 .. m : out[i] = Outcome(told[i], Expired(told[i]))
  <2>1. \A i \in 1 .. m : Outcome(told[i], Expired(told[i])) \in Events
    BY <1>4, OutcomeType DEF Due, Records
  <2>. QED BY <2>1
<1>. HIDE DEF out
<1>7. /\ Len(queue') = Len(queue) + m
      /\ \A i \in 1 .. Len(queue) : queue'[i] = queue[i]
      /\ \A i \in 1 .. m : queue'[Len(queue) + i] = out[i]
  <2>1. Len(queue') = Len(queue) + m
    <3>1. \A s, t \in Seq(Events) : Len(s \o t) = Len(s) + Len(t)
      OBVIOUS
    <3>. QED BY <1>0, <1>5, <1>6, <3>1
  <2>2. ASSUME NEW i \in 1 .. Len(queue) PROVE queue'[i] = queue[i]
    BY <1>0, <1>5, <1>6
  <2>3. ASSUME NEW i \in 1 .. m PROVE queue'[Len(queue) + i] = out[i]
    BY <1>0, <1>5, <1>6
  <2>. QED BY <2>1, <2>2, <2>3
<1>8. Grows
  BY <1>0, <1>7 DEF Grows
<1>9. \A j \in Len(queue) + 1 .. Len(queue') : \E i \in 1 .. m : j = Len(queue) + i
  <2> SUFFICES ASSUME NEW j \in Len(queue) + 1 .. Len(queue')
               PROVE  j - Len(queue) \in 1 .. m /\ j = Len(queue) + (j - Len(queue))
    OBVIOUS
  <2>. QED BY <1>0, <1>7
<1>10. \A i \in 1 .. m : \A q \in Pairings : Of(out[i], q) <=> q = told[i]
  BY <1>4, <1>6, EventOf DEF Outcome, Due, Records, Kinds
<1>11. ASSUME NEW p \in Pairings, NEW i \in 1 .. m, told[i] = p PROVE Account(p)
  <2>1. p \in Due /\ entries[p] # Absent /\ Expired(p).notification
    BY <1>4, <1>11 DEF Due, Records
  <2>2. Silent(entries[p], Expired(p)) /\ Sound(Expired(p))
    BY <2>1, ExpiredSilent
  <2>3. Ended(Expired(p))
    BY <2>1, <2>2 DEF Sound, Shaped, Ended
  <2> DEFINE k == IF Expired(p).state = "Expired" THEN "expired" ELSE "rejected"
             f == [Expired(p) EXCEPT !.notification = FALSE]
  <2>4. entries'[p] = f
    BY <1>1, <1>3, <1>11
  <2>5. f \in Entries /\ f.state = Expired(p).state /\ f.notification = FALSE
    BY <2>2 DEF Sound, Entries
  <2>6. Spoken(entries[p], f, k)
    BY <2>1, <2>2, <2>3, <2>5 DEF Spoken, Silent, Same, Ended
  <2>7. queue'[Len(queue) + i] = Event(p, k) /\ k \in Kinds
    BY <1>6, <1>7, <1>11 DEF Outcome, Kinds
  <2>8. \A j \in Len(queue) + 1 .. Len(queue') : j # Len(queue) + i => ~Of(queue'[j], p)
    <3> SUFFICES ASSUME NEW j \in Len(queue) + 1 .. Len(queue'), j # Len(queue) + i
                 PROVE  ~Of(queue'[j], p)
      OBVIOUS
    <3>1. PICK l \in 1 .. m : j = Len(queue) + l
      BY <1>9
    <3>2. queue'[j] = out[l] /\ told[l] # p
      BY <1>4, <1>7, <1>11, <3>1
    <3>. QED BY <1>10, <3>2
  <2>9. Len(queue) + i \in Len(queue) + 1 .. Len(queue')
    BY <1>0, <1>7
  <2>10. Says(p, k)
    BY <1>8, <2>7, <2>8, <2>9 DEF Says
  <2>. HIDE DEF k, f
  <2>. QED BY <2>1, <2>4, <2>5, <2>6, <2>7, <2>10, EntryPresent DEF Account, Kept
<1>12. ASSUME NEW p \in Pairings, \A i \in 1 .. m : told[i] # p PROVE Account(p)
  <2>1. Mute(p)
    <3> SUFFICES ASSUME NEW j \in Len(queue) + 1 .. Len(queue')
                 PROVE  ~Of(queue'[j], p)
      BY <1>8 DEF Mute
    <3>1. PICK l \in 1 .. m : j = Len(queue) + l
      BY <1>9
    <3>2. queue'[j] = out[l] /\ told[l] # p
      BY <1>7, <1>12, <3>1
    <3>. QED BY <1>10, <3>2
  <2>2. entries'[p] = Expired(p)
    BY <1>1, <1>3, <1>12
  <2>3. CASE entries[p] = Absent
    BY <2>1, <2>2, <2>3 DEF Account, Unused, Expired
  <2>4. CASE entries[p] # Absent
    BY <2>1, <2>2, <2>4, ExpiredSilent DEF Account, Kept
  <2>. QED BY <2>3, <2>4
<1>. QED BY <1>11, <1>12 DEF Accounts

(***************************************************************************)
(* The actions, one lemma each.                                            *)
(***************************************************************************)

\* Pairings::command, Create: the new record comes with its event, and what
\* makes room for it was told before.
LEMMA CreateAccounts ==
  ASSUME IInv, NEW p \in Pairings, Create(p)
  PROVE  Accounts
<1>0. p \in fresh /\ entries[p] = Absent
  BY DEF Create, IInv, FreshUnused
<1>1. PICK table \in Spaced :
        \/ /\ queue' = Append(queue, Event(p, "created"))
           /\ entries' = [table EXCEPT ![p] = NewEntry]
           /\ fresh' = fresh \ {p}
        \/ /\ entries' = table
           /\ UNCHANGED <<queue, fresh>>
  BY DEF Create
<1>2. /\ table \in [Pairings -> Entries \cup {Absent}]
      /\ \A q \in Pairings : table[q] = entries[q] \/ (table[q] = Absent /\ q \in Evictable)
  BY <1>1 DEF Spaced, IInv, TypeOK, Oldest, Evictable, Records
<1>3. ASSUME NEW q \in Pairings, Mute(q), entries'[q] = table[q], q \in fresh <=> q \in fresh'
      PROVE  Account(q)
  <2>1. CASE entries'[q] = entries[q]
    BY <1>3, <2>1 DEF Account, Kept, Unused, Silent, Same
  <2>2. CASE entries'[q] = Absent /\ q \in Evictable
    BY <1>3, <2>2 DEF Account, Evicted, Evictable, Records
  <2>. QED BY <1>2, <1>3, <2>1, <2>2
<1>4. CASE /\ queue' = Append(queue, Event(p, "created"))
           /\ entries' = [table EXCEPT ![p] = NewEntry]
           /\ fresh' = fresh \ {p}
  <2>1. Says(p, "created") /\ \A q \in Pairings \ {p} : Mute(q)
    BY <1>4, QueueSays DEF Kinds
  <2>2. Account(p)
    BY <1>0, <1>2, <1>4, <2>1 DEF Account, Created
  <2>3. ASSUME NEW q \in Pairings, q # p PROVE Account(q)
    <3>1. entries'[q] = table[q] /\ (q \in fresh <=> q \in fresh')
      BY <1>2, <1>4, <2>3
    <3>. QED BY <1>3, <2>1, <2>3, <3>1
  <2>. QED BY <2>2, <2>3 DEF Accounts
<1>5. CASE entries' = table /\ UNCHANGED <<queue, fresh>>
  BY <1>3, <1>5, QueueSame DEF Accounts
<1>. QED BY <1>1, <1>4, <1>5

\* Pairings::decide announces an approval first and tells a rejection after.
LEMMA DecideAccounts ==
  ASSUME IInv, NEW p \in Pairings, Decide(p)
  PROVE  Accounts
<1> DEFINE e == Expired(p)
           op == command.op
<1>0. fresh' = fresh /\ op \in Ops
  BY DEF Decide
<1>1. CASE Set(p, e)
  BY <1>0, <1>1, ExpiredAccounts
<1>2. ASSUME p \in Records, Decidable(e, op)
      PROVE  /\ entries[p] # Absent /\ e = entries[p] /\ Sound(e) /\ Live(e)
             /\ Sound(Decision(e, op))
  BY <1>0, <1>2, NotExpired, RecordsSound, DecisionStep DEF Decidable, Records, Step, Move
<1>3. CASE /\ p \in Records /\ Decidable(e, op) /\ op = "Approve"
           /\ SetAnnounced(p, Decision(e, "Approve"), "approved")
  <2>1. entries[p] # Absent /\ e = entries[p] /\ Sound(e) /\ Sound(Decision(e, "Approve"))
    BY <1>2, <1>3
  <2>2. e.state = "Pending" /\ e.claimed
    BY <1>3 DEF Decidable
  <2>3. Decision(e, "Approve").state = "Approved"
    BY <2>1 DEF Decision, Transition, Sound, Entries
  <2>4. Spoken(entries[p], Decision(e, "Approve"), "approved")
    BY <2>1, <2>2, <2>3 DEF Spoken
  <2>5. Decision(e, "Approve") # Absent
    BY <2>1, EntryPresent DEF Sound
  <2>. HIDE DEF e
  <2>. QED BY <1>0, <1>3, <2>1, <2>4, <2>5, SetSpoken DEF SetAnnounced, Kinds
<1>4. CASE /\ p \in Records /\ Decidable(e, op) /\ op # "Approve"
           /\ SetAndNotify(p, Decision(e, op))
  <2>1. entries[p] # Absent /\ e = entries[p] /\ Sound(e) /\ Live(e) /\ Sound(Decision(e, op))
    BY <1>2, <1>4
  <2>2. Decision(e, op).state = "Rejected" /\ Decision(e, op).notification
    BY <1>4, <2>1 DEF Decision, Transition, Sound, Entries
  <2>3. Silent(entries[p], Decision(e, op))
    BY <2>1, <2>2 DEF Silent, Ended
  <2>. HIDE DEF e, op
  <2>. QED BY <1>0, <1>4, <2>1, <2>3, SetNotified
<1>. QED BY <1>1, <1>3, <1>4 DEF Decide

\* Pairings::claim announces the claim first and tells a failure after.
LEMMA ClaimAccounts ==
  ASSUME IInv, NEW p \in Pairings, NEW right \in BOOLEAN, Claim(p, right)
  PROVE  Accounts
<1> DEFINE e == Expired(p)
<1>0. entries[p] # Absent /\ fresh' = fresh
  BY DEF Claim, Records
<1>1. Silent(entries[p], e) /\ Sound(e)
  BY <1>0, ExpiredSilent
<1>2. CASE SetAndNotify(p, e)
  BY <1>0, <1>1, <1>2, SetNotified
<1>3. ASSUME Live(e), NEW second \in BOOLEAN, SetAndNotify(p, Fail(e, second)) PROVE Accounts
  <2>1. e = entries[p]
    BY <1>0, <1>3, NotExpired
  <2>2. Silent(entries[p], Fail(e, second)) /\ Sound(Fail(e, second))
    BY <1>1, <1>3, <2>1, FailSilent, FailStep DEF Step, Move
  <2>. HIDE DEF e
  <2>. QED BY <1>0, <1>3, <2>2, SetNotified
<1>4. CASE /\ Live(e) /\ ~e.claimed /\ e.secret
           /\ SetAnnounced(p, [e EXCEPT !.claimed = TRUE, !.secret = FALSE], "claimed")
  <2> DEFINE f == [e EXCEPT !.claimed = TRUE, !.secret = FALSE]
  <2>1. e = entries[p] /\ e.state = "Pending"
    BY <1>0, <1>1, <1>4, NotExpired DEF Sound, Shaped
  <2>2. f \in Entries /\ f.state = "Pending" /\ f.claimed
    BY <1>1, <2>1 DEF Sound, Entries
  <2>3. Spoken(entries[p], f, "claimed")
    BY <1>4, <2>1, <2>2 DEF Spoken
  <2>4. entries' = [entries EXCEPT ![p] = f] /\ queue' = Append(queue, Event(p, "claimed"))
    BY <1>4 DEF SetAnnounced
  <2>. HIDE DEF e, f
  <2>. QED BY <1>0, <2>2, <2>3, <2>4, SetSpoken, EntryPresent DEF Kinds
<1>. QED BY <1>2, <1>3, <1>4 DEF Claim

\* A poll with a wrong token.
LEMMA StatusRefusedAccounts ==
  ASSUME IInv, NEW p \in Pairings, StatusRefused(p)
  PROVE  Accounts
<1> DEFINE e == Expired(p)
<1>0. entries[p] # Absent /\ fresh' = fresh
  BY DEF StatusRefused, Records
<1>1. Silent(entries[p], e) /\ Sound(e)
  BY <1>0, ExpiredSilent
<1>2. CASE Live(e) /\ SetAndNotify(p, Fail(e, FALSE))
  <2>1. e = entries[p]
    BY <1>0, <1>2, NotExpired
  <2>2. Silent(entries[p], Fail(e, FALSE)) /\ Sound(Fail(e, FALSE))
    BY <1>1, <1>2, <2>1, FailSilent, FailStep DEF Step, Move
  <2>. HIDE DEF e
  <2>. QED BY <1>0, <1>2, <2>2, SetNotified
<1>3. CASE Set(p, e)
  BY <1>0, <1>3, ExpiredAccounts
<1>. QED BY <1>2, <1>3 DEF StatusRefused

\* A poll that subscribes.
LEMMA StatusEnterAccounts ==
  ASSUME IInv, NEW p \in Pairings, StatusEnter(p)
  PROVE  Accounts
<1> DEFINE f == [Expired(p) EXCEPT !.changed = FALSE]
<1>0. entries[p] # Absent /\ fresh' = fresh /\ entries' = [entries EXCEPT ![p] = f] /\ queue' = queue
  BY DEF StatusEnter, Records, Set
<1>1. Silent(entries[p], Expired(p)) /\ Sound(Expired(p))
  BY <1>0, ExpiredSilent
<1>2. f \in Entries /\ Same(Expired(p), f)
  BY <1>1 DEF Sound, Entries, Same
<1>3. Silent(entries[p], f)
  BY <1>1, <1>2 DEF Silent, Same, Ended
<1>. HIDE DEF f
<1>. QED BY <1>0, <1>2, <1>3, SetSilent, EntryPresent

\* The answer to a poll, with or without a ticket.
LEMMA StatusAnswerAccounts ==
  ASSUME IInv, NEW p \in Pairings, StatusAnswer(p)
  PROVE  Accounts
<1> DEFINE e == Expired(p)
<1>0. fresh' = fresh
  BY DEF StatusAnswer
<1>1. CASE UNCHANGED <<entries, queue>>
  BY <1>0, <1>1, QueueSame, NothingAccounts
<1>2. CASE p \in Records /\ SetAndNotify(p, e)
  BY <1>0, <1>2, ExpiredSilent, SetNotified DEF Records
<1>3. CASE p \in Records /\ Set(p, Ticketed(e, p))
  <2> DEFINE f == Ticketed(e, p)
  <2>1. entries[p] # Absent /\ Silent(entries[p], e) /\ Sound(e)
    BY <1>3, ExpiredSilent DEF Records
  <2>2. f.state = e.state /\ Same(e, f)
    BY <2>1 DEF Sound, Entries, Same, Ticketed
  <2>3. Silent(entries[p], f)
    BY <2>1, <2>2 DEF Silent, Same, Ended
  <2>4. f # Absent
    <3>1. e.state # "Absent"
      BY <2>1 DEF Sound, Entries, States, LiveStates
    <3>. QED BY <2>2, <3>1 DEF Absent
  <2>5. entries' = [entries EXCEPT ![p] = f] /\ queue' = queue
    BY <1>3 DEF Set
  <2>. HIDE DEF f
  <2>. QED BY <1>0, <2>1, <2>3, <2>4, <2>5, SetSilent
<1>. QED BY <1>1, <1>2, <1>3 DEF StatusAnswer

\* Pairings::consume_ticket opens the registration of one record.
LEMMA ConsumeAccounts ==
  ASSUME IInv, NEW p \in Pairings, NEW serial \in 1 .. MaxTickets, ConsumeTicket(p, serial)
  PROVE  Accounts
<1> DEFINE f == Transition([Expired(p) EXCEPT !.registration = Started(Expired(p), p)], "Registering")
<1>0. /\ entries[p] # Absent /\ fresh' = fresh
      /\ entries' = [entries EXCEPT ![p] = f] /\ queue' = queue
  BY DEF ConsumeTicket, Records, Set
<1>1. Expired(p) = entries[p] /\ entries[p].state = "Approved" /\ Sound(entries[p])
  BY <1>0, NotExpired, RecordsSound DEF ConsumeTicket, TicketValid, Live, LiveStates
<1>2. f.state = "Registering"
  BY <1>1 DEF Transition, Sound, Entries
<1>3. f # Absent
  BY <1>2 DEF Absent
<1>. HIDE DEF f
<1>4. entries'[p] = f /\ \A q \in Pairings \ {p} : entries'[q] = entries[q]
  BY <1>0 DEF IInv, TypeOK
<1>5. \A q \in Pairings : Mute(q)
  BY <1>0, QueueSame
<1>6. Account(p)
  BY <1>0, <1>1, <1>2, <1>3, <1>4, <1>5 DEF Account, Kept, Opens
<1>. QED BY <1>0, <1>4, <1>5, <1>6, LeftAlone DEF Accounts

\* Pairings::retry_registration hands one approval back.
LEMMA RetryAccounts ==
  ASSUME IInv, NEW r \in options, OptionsRefused(r)
  PROVE  Accounts
<1> DEFINE p == r.pairing
           e == Expired(p)
           f == Transition(e, "Approved")
<1>0. p \in Pairings /\ fresh' = fresh
  BY DEF IInv, TypeOK, Registrations, OptionsRefused
<1>1. CASE Set(p, e)
  BY <1>0, <1>1, ExpiredAccounts
<1>2. CASE e.state = "Registering" /\ e.registration = r /\ Set(p, f)
  <2>1. entries[p] # Absent
    BY <1>2 DEF Expired, Absent
  <2>2. e = entries[p] /\ entries[p].state = "Registering" /\ Sound(entries[p])
    BY <1>0, <1>2, <2>1, NotExpired, RecordsSound DEF Live, LiveStates
  <2>3. f.state = "Approved" /\ f # Absent
    BY <2>2 DEF Transition, Sound, Entries, Absent
  <2>4. entries' = [entries EXCEPT ![p] = f] /\ queue' = queue
    BY <1>2 DEF Set
  <2>. HIDE DEF f
  <2>5. entries'[p] = f /\ \A q \in Pairings \ {p} : entries'[q] = entries[q]
    BY <1>0, <2>4 DEF IInv, TypeOK
  <2>6. \A q \in Pairings : Mute(q)
    BY <2>4, QueueSame
  <2>7. Account(p)
    BY <1>0, <2>1, <2>2, <2>3, <2>5, <2>6 DEF Account, Kept, Retries
  <2>. HIDE DEF p
  <2>. QED BY <1>0, <2>5, <2>6, <2>7, LeftAlone DEF Accounts
<1>. QED BY <1>1, <1>2 DEF OptionsRefused

\* Pairings::finish announces the device before it completes the pairing.
LEMMA FinishAccounts ==
  ASSUME IInv, NEW r \in finishing, Finish(r)
  PROVE  Accounts
<1> DEFINE p == r.pairing
           e == Expired(p)
           f == Transition(e, "Registered")
<1>0. p \in Pairings /\ fresh' = fresh
  BY DEF IInv, TypeOK, Registrations, Finish
<1>1. CASE Set(p, e)
  BY <1>0, <1>1, ExpiredAccounts
<1>2. CASE p \in Records /\ Finishable(e, r) /\ SetAnnounced(p, f, "device")
  <2>1. entries[p] # Absent /\ e = entries[p] /\ entries[p].state = "Registering" /\ Sound(entries[p])
    BY <1>0, <1>2, NotExpired, RecordsSound DEF Live, LiveStates, Finishable, Records
  <2>2. f.state = "Registered" /\ f # Absent
    BY <2>1 DEF Transition, Sound, Entries, Absent
  <2>3. Spoken(entries[p], f, "device")
    BY <2>1, <2>2 DEF Spoken
  <2>4. entries' = [entries EXCEPT ![p] = f] /\ queue' = Append(queue, Event(p, "device"))
    BY <1>2 DEF SetAnnounced
  <2>5. "device" \in Kinds
    BY DEF Kinds
  <2>. HIDE DEF f, p
  <2>. QED BY <1>0, <2>1, <2>2, <2>3, <2>4, <2>5, SetSpoken
<1>. QED BY <1>1, <1>2 DEF Finish

\* Every action but the event writer's accounts for every record, and leaves
\* what the desktop has read.
LEMMA NextAccounts ==
  ASSUME IInv, [Next]_vars
  PROVE  Deliver \/ (Accounts /\ view' = view)
<1>1. ASSUME entries' = entries, queue' = queue, fresh' = fresh PROVE Accounts
  BY <1>1, QueueSame, NothingAccounts
<1>2. CASE UNCHANGED vars
  BY <1>1, <1>2 DEF vars
<1>3. CASE Tick
  BY <1>1, <1>3 DEF Tick
<1>4. CASE OtherEvent
  BY <1>4, QueueOther, NothingAccounts DEF OtherEvent
<1>5. CASE Maintenance
  BY <1>5, MaintainAccounts DEF Maintenance
<1>6. ASSUME NEW c \in Commands, CommandBegin(c) PROVE Accounts /\ view' = view
  BY <1>6, MaintainAccounts DEF CommandBegin
<1>7. CASE CreateRefused
  BY <1>1, <1>7 DEF CreateRefused, CommandEnd
<1>8. ASSUME NEW p \in Pairings, Create(p) PROVE Accounts /\ view' = view
  BY <1>8, CreateAccounts DEF Create, CommandEnd
<1>9. ASSUME NEW p \in Pairings, Decide(p) PROVE Accounts /\ view' = view
  BY <1>9, DecideAccounts DEF Decide, CommandEnd
<1>10. ASSUME NEW p \in Pairings, NEW right \in BOOLEAN, Claim(p, right)
       PROVE  Accounts /\ view' = view
  BY <1>10, ClaimAccounts DEF Claim
<1>11. ASSUME NEW p \in Pairings, StatusRefused(p) PROVE Accounts /\ view' = view
  BY <1>11, StatusRefusedAccounts DEF StatusRefused
<1>12. ASSUME NEW p \in Pairings, StatusEnter(p) PROVE Accounts /\ view' = view
  BY <1>12, StatusEnterAccounts DEF StatusEnter
<1>13. ASSUME NEW p \in Pairings,
              StatusRecheck(p) \/ StatusWake(p) \/ StatusTimer(p) \/ TakeCeremony(p)
       PROVE  Accounts /\ view' = view
  BY <1>1, <1>13 DEF StatusRecheck, StatusWake, StatusTimer, TakeCeremony
<1>14. ASSUME NEW p \in Pairings, StatusAnswer(p) PROVE Accounts /\ view' = view
  BY <1>14, StatusAnswerAccounts DEF StatusAnswer
<1>15. ASSUME NEW p \in Pairings, NEW serial \in 1 .. MaxTickets, ConsumeTicket(p, serial)
       PROVE  Accounts /\ view' = view
  BY <1>15, ConsumeAccounts DEF ConsumeTicket
<1>16. ASSUME NEW r \in options, OptionsPublish(r) PROVE Accounts /\ view' = view
  BY <1>1, <1>16 DEF OptionsPublish
<1>17. ASSUME NEW r \in options, OptionsRefused(r) PROVE Accounts /\ view' = view
  BY <1>17, RetryAccounts DEF OptionsRefused
<1>18. ASSUME NEW r \in finishing, VerifyFailed(r) PROVE Accounts /\ view' = view
  BY <1>1, <1>18 DEF VerifyFailed
<1>19. ASSUME NEW r \in finishing, Finish(r) PROVE Accounts /\ view' = view
  BY <1>19, FinishAccounts DEF Finish
<1>20. CASE UNCHANGED vars \/ Tick \/ OtherEvent \/ Maintenance \/ CreateRefused
  <2>1. view' = view
    BY <1>20 DEF vars, Tick, OtherEvent, Maintenance, CreateRefused, CommandEnd
  <2>. QED BY <1>2, <1>3, <1>4, <1>5, <1>7, <1>20, <2>1
<1>. QED
  BY <1>6, <1>8, <1>9, <1>10, <1>11, <1>12, <1>13, <1>14, <1>15, <1>16, <1>17, <1>18,
     <1>19, <1>20 DEF Next

(***************************************************************************)
(* The limits on the table.                                                *)
(***************************************************************************)
LiveRecords == {p \in Records : Live(entries[p])}

\* No step but a creation adds a record or revives one.
LEMMA NoCreationShrinks ==
  ASSUME IInv, [Next]_vars, \A p \in Pairings : ~Created(p)
  PROVE  Records' \subseteq Records /\ LiveRecords' \subseteq LiveRecords
<1>1. CASE Deliver
  BY <1>1 DEF Deliver, Records, LiveRecords
<1>2. CASE Accounts
  <2> SUFFICES ASSUME NEW p \in Pairings, entries'[p] # Absent
               PROVE  entries[p] # Absent /\ (Live(entries'[p]) => Live(entries[p]))
    BY DEF Records, LiveRecords
  <2>1. Kept(p)
    BY <1>2 DEF Accounts, Account, Evicted, Unused
  <2>. QED
    BY <2>1 DEF Kept, Silent, Same, Spoken, Opens, Retries, Live, LiveStates, Ended
<1>. QED BY <1>1, <1>2, NextAccounts

\* The table of a gateway is finite.
LEMMA TableFinite ==
  /\ IsFiniteSet(Records) /\ IsFiniteSet(LiveRecords)
  /\ Cardinality(Records) \in Nat /\ Cardinality(LiveRecords) \in Nat
<1>1. IsFiniteSet(Records) /\ IsFiniteSet(LiveRecords)
  BY PairingsFinite, FS_Subset DEF Records, LiveRecords
<1>. QED BY <1>1, FS_CardinalityType

\* One element more.
LEMMA OneMore ==
  ASSUME NEW S, IsFiniteSet(S), NEW T, NEW x, T \subseteq S \cup {x}
  PROVE  IsFiniteSet(T) /\ Cardinality(T) <= Cardinality(S) + 1
<1>1. /\ IsFiniteSet(S \cup {x})
      /\ Cardinality(S \cup {x}) = Cardinality(S) \/ Cardinality(S \cup {x}) = Cardinality(S) + 1
  BY FS_AddElement
<1>2. Cardinality(S) \in Nat
  BY FS_CardinalityType
<1>3. IsFiniteSet(T) /\ Cardinality(T) <= Cardinality(S \cup {x})
  BY <1>1, FS_Subset
<1>4. Cardinality(T) \in Nat
  BY <1>3, FS_CardinalityType
<1>. QED BY <1>1, <1>2, <1>3, <1>4

\* Making space drops records and changes none.
LEMMA SpacedTables ==
  ASSUME IInv, NEW table \in Spaced
  PROVE  /\ table \in [Pairings -> Entries \cup {Absent}]
         /\ \A q \in Pairings : table[q] \in {entries[q], Absent}
  BY DEF Spaced, IInv, TypeOK, Oldest, Evictable, Records

\* Pairings::command, Create, counts before it adds.
LEMMA CreateBounded ==
  ASSUME IInv, TableBounded, NEW p \in Pairings, Create(p)
  PROVE  TableBounded'
<1>1. PICK table \in Spaced : entries' \in {table, [table EXCEPT ![p] = NewEntry]}
  BY DEF Create
<1>2. /\ table \in [Pairings -> Entries \cup {Absent}]
      /\ \A q \in Pairings : table[q] \in {entries[q], Absent}
  BY <1>1, SpacedTables
<1>3. LiveRecords' \subseteq LiveRecords \cup {p} /\ Records' \subseteq Records \cup {p}
  BY <1>1, <1>2 DEF LiveRecords, Records
<1>4. Cardinality(LiveRecords) < MAX_LIVE
  BY DEF Create, LiveCount, LiveRecords
<1>5. LiveCount' <= MAX_LIVE
  <2>1. Cardinality(LiveRecords') <= Cardinality(LiveRecords) + 1
    BY <1>3, TableFinite, OneMore
  <2>2. IsFiniteSet(LiveRecords')
    BY <1>3, TableFinite, OneMore
  <2>3. Cardinality(LiveRecords') \in Nat
    BY <2>2, FS_CardinalityType
  <2>4. LiveCount' = Cardinality(LiveRecords')
    BY DEF LiveCount, LiveRecords
  <2>. QED BY <1>4, <2>1, <2>3, <2>4, TableFinite, LimitsPositive
<1>6. Cardinality(Records') <= MAX_RECORDS
  <2>0. IsFiniteSet(Records')
    BY <1>3, TableFinite, OneMore
  <2>1. Cardinality(Records') \in Nat
    BY <2>0, FS_CardinalityType
  <2>2. CASE Cardinality(Records) < MAX_RECORDS
    <3>1. Cardinality(Records') <= Cardinality(Records) + 1
      BY <1>3, TableFinite, OneMore
    <3>. QED BY <2>1, <2>2, <3>1, TableFinite, LimitsPositive
  <2>3. CASE ~(Cardinality(Records) < MAX_RECORDS)
    <3>1. Cardinality(Records) >= MAX_RECORDS
      BY <2>3, TableFinite, LimitsPositive
    <3>2. PICK x \in Records : table = [entries EXCEPT ![x] = Absent]
      BY <1>1, <3>1 DEF Spaced, Oldest, Evictable
    <3>3. Records' \subseteq (Records \ {x}) \cup {p}
      BY <1>1, <1>2, <3>2 DEF Records, IInv, TypeOK
    <3>4. IsFiniteSet(Records \ {x}) /\ Cardinality(Records \ {x}) = Cardinality(Records) - 1
      BY <3>2, TableFinite, FS_RemoveElement
    <3>5. Cardinality(Records') <= Cardinality(Records \ {x}) + 1
      BY <3>3, <3>4, OneMore
    <3>. QED BY <2>1, <3>4, <3>5, TableFinite, LimitsPositive DEF TableBounded
  <2>. QED BY <2>2, <2>3
<1>. QED BY <1>5, <1>6 DEF TableBounded

\* Every step keeps the limits.
LEMMA BoundedStep ==
  ASSUME IInv, [Next]_vars, TableBounded
  PROVE  TableBounded'
<1>1. CASE \E p \in Pairings : Created(p)
  BY <1>1, CreateBounded DEF Created
<1>2. CASE \A p \in Pairings : ~Created(p)
  <2>1. Records' \subseteq Records /\ LiveRecords' \subseteq LiveRecords
    BY <1>2, NoCreationShrinks
  <2>2. /\ IsFiniteSet(Records') /\ IsFiniteSet(LiveRecords')
        /\ Cardinality(Records') <= Cardinality(Records)
        /\ Cardinality(LiveRecords') <= Cardinality(LiveRecords)
    BY <2>1, TableFinite, FS_Subset
  <2>3. Cardinality(Records') \in Nat /\ Cardinality(LiveRecords') \in Nat
    BY <2>2, FS_CardinalityType
  <2>4. LiveCount = Cardinality(LiveRecords) /\ LiveCount' = Cardinality(LiveRecords')
    BY DEF LiveCount, LiveRecords
  <2>. QED BY <2>2, <2>3, <2>4, TableFinite, LimitsPositive DEF TableBounded
<1>. QED BY <1>1, <1>2

\* A gateway starts with an empty table.
LEMMA InitBounded == Init => TableBounded
<1> SUFFICES ASSUME Init PROVE TableBounded
  OBVIOUS
<1>1. Records = {} /\ LiveRecords = {}
  BY DEF Init, Records, LiveRecords
<1>2. Cardinality(Records) = 0 /\ Cardinality(LiveRecords) = 0
  BY <1>1, FS_EmptySet
<1>3. LiveCount = Cardinality(LiveRecords)
  BY DEF LiveCount, LiveRecords
<1>. QED BY <1>2, <1>3, LimitsPositive DEF TableBounded

\* Whatever is created, evicted, claimed and failed, and in whatever order, the
\* table holds no more live pairings and no more records than its limits, and
\* no live pairing has used up its attempts (pairing.rs: command Create, fail).
THEOREM PairingLimitsHold == Spec => []LimitsHold
<1>1. Init => IInv /\ TableBounded
  BY InitInv, InitBounded
<1>2. (IInv /\ TableBounded) /\ [Next]_vars => (IInv /\ TableBounded)'
  BY InvStep, BoundedStep
<1>3. IInv /\ TableBounded => LimitsHold
  BY DEF IInv, LimitsHold
<1>. QED BY <1>1, <1>2, <1>3, PTL DEF Spec

\* Every variable of the table, the polls, the ceremonies and the queue keeps
\* its type, a record never counts past FAILURE_LIMIT and an instant never
\* leaves Times, for any durations and limits (pairing.rs).
THEOREM PairingTypes == Spec => []TypeOK
<1>1. IInv => TypeOK
  BY DEF IInv
<1>. QED BY <1>1, InitInv, InvStep, PTL DEF Spec

(***************************************************************************)
(* The registrations in flight.  A handler holds one from the consumed     *)
(* ticket until the ceremony is answered: in `options` before the          *)
(* challenge is published, in `ceremonies` while it waits for the phone,   *)
(* in `finishing` while the passkey is verified.  The invariant counts the *)
(* registrations of a pairing over all three places, whatever became of    *)
(* the pairing meanwhile, and knows that a pairing that can still open one *)
(* has none: only then can the next ticket not open a second.              *)
(***************************************************************************)
NoneInFlight(p) ==
  /\ ceremonies[p] = None
  /\ \A r \in options \cup finishing : r.pairing # p

FlightUnique ==
  /\ \A p \in Pairings : ceremonies[p] # None => ceremonies[p].pairing = p
  /\ \A r \in options :
       /\ ceremonies[r.pairing] = None
       /\ \A s \in finishing : s.pairing # r.pairing
       /\ \A s \in options : s.pairing = r.pairing => s = r
  /\ \A r \in finishing :
       /\ ceremonies[r.pairing] = None
       /\ \A s \in finishing : s.pairing = r.pairing => s = r

Unopened(p) ==
  p \in fresh \/ (entries[p] # Absent /\ entries[p].state \in {"Pending", "Approved"})

NotOpened == \A p \in Pairings : Unopened(p) => NoneInFlight(p)

Flight == FlightUnique /\ NotOpened

\* A pairing becomes one that can open a registration only when its
\* registration is handed back.
LEMMA UnopenedBefore ==
  ASSUME IInv, [Next]_vars, NEW p \in Pairings, Unopened(p)'
  PROVE  Unopened(p) \/ \E r \in options : r.pairing = p /\ OptionsRefused(r)
<1>1. CASE Deliver
  BY <1>1 DEF Deliver, Unopened
<1>2. CASE Account(p)
  <2>1. CASE Created(p)
    BY <2>1 DEF Created, Unopened
  <2>2. CASE p \in fresh
    BY <2>2 DEF Unopened
  <2>3. CASE ~Created(p) /\ p \notin fresh
    <3>1. p \notin fresh'
      BY <1>2, <2>3 DEF Account
    <3>2. entries'[p] # Absent /\ entries'[p].state \in {"Pending", "Approved"}
      BY <3>1 DEF Unopened
    <3>3. Kept(p)
      BY <1>2, <2>3, <3>2 DEF Account, Evicted, Unused
    <3>4. CASE Retries(p)
      BY <3>4 DEF Retries
    <3>5. CASE ~Retries(p)
      BY <3>2, <3>3, <3>5 DEF Kept, Silent, Same, Spoken, Opens, Ended, Unopened
    <3>. QED BY <3>4, <3>5
  <2>. QED BY <2>1, <2>2, <2>3
<1>. QED BY <1>1, <1>2, NextAccounts DEF Accounts

\* Ceremonies::purge drops ceremonies and adds none.
LEMMA PurgedFlight ==
  ASSUME IInv
  PROVE  \A p \in Pairings : Purged[p] \in {None, ceremonies[p]}
  BY DEF Purged

\* A step that adds no registration in flight keeps them apart.
LEMMA FlightShrinks ==
  ASSUME IInv, FlightUnique, options' \subseteq options, finishing' \subseteq finishing,
         \A p \in Pairings : ceremonies'[p] \in {None, ceremonies[p]}
  PROVE  /\ FlightUnique'
         /\ \A p \in Pairings : NoneInFlight(p) => NoneInFlight(p)'
<1>1. \A r \in options \cup finishing : r.pairing \in Pairings
  BY DEF IInv, TypeOK, Registrations
<1>2. FlightUnique'
  BY <1>1 DEF FlightUnique
<1>3. \A p \in Pairings : NoneInFlight(p) => NoneInFlight(p)'
  BY DEF NoneInFlight
<1>. QED BY <1>2, <1>3

\* Every step keeps the registrations in flight apart.
LEMMA FlightUniqueStep ==
  ASSUME IInv, Flight, [Next]_vars
  PROVE  FlightUnique'
<1>0. FlightUnique /\ NotOpened
  BY DEF Flight
<1>00. /\ \A r \in options \cup finishing : r.pairing \in Pairings
       /\ ceremonies \in [Pairings -> Registrations \cup {None}]
       /\ Purged \in [Pairings -> Registrations \cup {None}]
  BY PurgedType DEF IInv, TypeOK, Registrations
<1>1. CASE UNCHANGED <<options, ceremonies, finishing>>
  BY <1>0, <1>1, FlightShrinks
<1>2. CASE Maintenance
  BY <1>0, <1>2, PurgedFlight, FlightShrinks DEF Maintenance
<1>3. ASSUME NEW p \in Pairings, NEW serial \in 1 .. MaxTickets, ConsumeTicket(p, serial)
      PROVE  FlightUnique'
  <2>1. entries[p] # Absent /\ Expired(p).state = "Approved"
    BY <1>3 DEF ConsumeTicket, TicketValid, Records
  <2>2. Unopened(p)
    BY <2>1, NotExpired DEF Live, LiveStates, Unopened
  <2>3. NoneInFlight(p)
    BY <1>0, <2>2 DEF NotOpened
  <2> DEFINE r == Started(Expired(p), p)
  <2>4. r.pairing = p
    BY DEF Started
  <2>5. options' = options \cup {r} /\ UNCHANGED <<ceremonies, finishing>>
    BY <1>3 DEF ConsumeTicket
  <2>. HIDE DEF r
  <2>. QED BY <1>0, <2>3, <2>4, <2>5 DEF FlightUnique, NoneInFlight
<1>4. ASSUME NEW r \in options, OptionsPublish(r) PROVE FlightUnique'
  <2>1. /\ options' = options \ {r} /\ finishing' = finishing
        /\ ceremonies' = [Purged EXCEPT ![r.pairing] = r]
    BY <1>4 DEF OptionsPublish
  <2>2. /\ r.pairing \in Pairings
        /\ ceremonies'[r.pairing] = r
        /\ \A p \in Pairings : p # r.pairing => ceremonies'[p] \in {None, ceremonies[p]}
    BY <1>00, <2>1, PurgedFlight
  <2>. QED BY <1>0, <1>00, <2>1, <2>2 DEF FlightUnique
<1>5. ASSUME NEW r \in options, OptionsRefused(r) PROVE FlightUnique'
  <2>1. options' \subseteq options /\ UNCHANGED <<ceremonies, finishing>>
    BY <1>5 DEF OptionsRefused
  <2>. QED BY <1>0, <2>1, FlightShrinks
<1>6. ASSUME NEW p \in Pairings, TakeCeremony(p) PROVE FlightUnique'
  <2>1. /\ finishing' = finishing \cup {ceremonies[p]} /\ options' = options
        /\ ceremonies[p] # None
        /\ ceremonies' = [Purged EXCEPT ![p] = None]
    BY <1>6, PurgedFlight DEF TakeCeremony
  <2>2. \A q \in Pairings : ceremonies'[q] \in {None, ceremonies[q]} /\ ceremonies'[p] = None
    BY <1>00, <2>1, PurgedFlight
  <2>3. ceremonies[p].pairing = p
    BY <1>0, <2>1 DEF FlightUnique
  <2>. QED BY <1>0, <1>00, <2>1, <2>2, <2>3 DEF FlightUnique
<1>7. ASSUME NEW r \in finishing, VerifyFailed(r) \/ Finish(r) PROVE FlightUnique'
  <2>1. finishing' \subseteq finishing /\ UNCHANGED <<ceremonies, options>>
    BY <1>7 DEF VerifyFailed, Finish
  <2>. QED BY <1>0, <2>1, FlightShrinks
<1>8. CASE UNCHANGED vars \/ Tick \/ Deliver \/ OtherEvent \/ CreateRefused
           \/ \E c \in Commands : CommandBegin(c)
  BY <1>1, <1>8 DEF vars, Tick, Deliver, OtherEvent, CreateRefused, CommandBegin, CommandEnd
<1>9. ASSUME NEW p \in Pairings, Create(p) \/ Decide(p) PROVE FlightUnique'
  BY <1>1, <1>9 DEF Create, Decide, CommandEnd
<1>10. ASSUME NEW p \in Pairings,
              \/ \E right \in BOOLEAN : Claim(p, right)
              \/ StatusRefused(p) \/ StatusEnter(p) \/ StatusRecheck(p) \/ StatusWake(p)
              \/ StatusTimer(p) \/ StatusAnswer(p)
       PROVE  FlightUnique'
  BY <1>1, <1>10 DEF Claim, StatusRefused, StatusEnter, StatusRecheck, StatusWake,
     StatusTimer, StatusAnswer
<1>. QED
  BY <1>2, <1>3, <1>4, <1>5, <1>6, <1>7, <1>8, <1>9, <1>10 DEF Next

\* Every step keeps the pairings that can open a registration without one.
LEMMA NotOpenedStep ==
  ASSUME IInv, Flight, [Next]_vars
  PROVE  NotOpened'
<1>0. FlightUnique /\ NotOpened
  BY DEF Flight
<1> SUFFICES ASSUME NEW p \in Pairings, Unopened(p)' PROVE NoneInFlight(p)'
  BY DEF NotOpened
<1>00. /\ \A r \in options \cup finishing : r.pairing \in Pairings
       /\ ceremonies \in [Pairings -> Registrations \cup {None}]
       /\ Purged \in [Pairings -> Registrations \cup {None}]
  BY PurgedType DEF IInv, TypeOK, Registrations
<1>1. CASE \E r \in options : r.pairing = p /\ OptionsRefused(r)
  <2>1. PICK r \in options : r.pairing = p /\ OptionsRefused(r)
    BY <1>1
  <2>2. options' = options \ {r} /\ UNCHANGED <<ceremonies, finishing>>
    BY <2>1 DEF OptionsRefused
  <2>. QED BY <1>0, <2>1, <2>2 DEF FlightUnique, NoneInFlight
<1>2. CASE ~\E r \in options : r.pairing = p /\ OptionsRefused(r)
  <2>0. Unopened(p) /\ NoneInFlight(p)
    BY <1>0, <1>2, UnopenedBefore DEF NotOpened
  <2>1. CASE UNCHANGED <<options, ceremonies, finishing>>
    BY <2>0, <2>1 DEF NoneInFlight
  <2>2. CASE Maintenance
    BY <1>0, <2>0, <2>2, PurgedFlight, FlightShrinks DEF Maintenance
  <2>3. ASSUME NEW q \in Pairings, NEW serial \in 1 .. MaxTickets, ConsumeTicket(q, serial)
        PROVE  NoneInFlight(p)'
    <3> DEFINE r == Started(Expired(q), q)
               f == Transition([Expired(q) EXCEPT !.registration = r], "Registering")
    <3>1. /\ entries[q] # Absent /\ Expired(q).state = "Approved"
          /\ entries' = [entries EXCEPT ![q] = f] /\ fresh' = fresh
      BY <2>3 DEF ConsumeTicket, TicketValid, Records, Set
    <3>2. Sound(Expired(q))
      BY <3>1, RecordsSound
    <3>3. f.state = "Registering"
      BY <3>2 DEF Transition, Sound, Entries
    <3>4. r.pairing = q /\ options' = options \cup {r} /\ UNCHANGED <<ceremonies, finishing>>
      BY <2>3 DEF ConsumeTicket, Started
    <3>. HIDE DEF f, r
    <3>5. q # p
      <4>1. SUFFICES ASSUME q = p PROVE FALSE
        OBVIOUS
      <4>2. entries'[p] = f /\ p \notin fresh'
        BY <3>1, <4>1 DEF IInv, TypeOK, FreshUnused
      <4>. QED BY <3>3, <4>2 DEF Unopened
    <3>. QED BY <2>0, <3>4, <3>5 DEF NoneInFlight
  <2>4. ASSUME NEW r \in options, OptionsPublish(r) PROVE NoneInFlight(p)'
    <3>1. r.pairing # p
      BY <2>0 DEF NoneInFlight
    <3>2. /\ options' = options \ {r} /\ finishing' = finishing
          /\ ceremonies' = [Purged EXCEPT ![r.pairing] = r]
      BY <2>4 DEF OptionsPublish
    <3>3. ceremonies'[p] \in {None, ceremonies[p]}
      BY <1>00, <3>1, <3>2, PurgedFlight
    <3>. QED BY <2>0, <3>2, <3>3 DEF NoneInFlight
  <2>5. ASSUME NEW r \in options, OptionsRefused(r) PROVE NoneInFlight(p)'
    <3>1. options' \subseteq options /\ UNCHANGED <<ceremonies, finishing>>
      BY <2>5 DEF OptionsRefused
    <3>. QED BY <2>0, <3>1 DEF NoneInFlight
  <2>6. ASSUME NEW q \in Pairings, TakeCeremony(q) PROVE NoneInFlight(p)'
    <3>1. /\ finishing' = finishing \cup {ceremonies[q]} /\ options' = options
          /\ ceremonies[q] # None
          /\ ceremonies' = [Purged EXCEPT ![q] = None]
      BY <2>6, PurgedFlight DEF TakeCeremony
    <3>2. ceremonies[q].pairing = q /\ q # p
      BY <1>0, <2>0, <3>1 DEF FlightUnique, NoneInFlight
    <3>3. ceremonies'[p] \in {None, ceremonies[p]}
      BY <1>00, <3>1, <3>2, PurgedFlight
    <3>. QED BY <2>0, <3>1, <3>2, <3>3 DEF NoneInFlight
  <2>7. ASSUME NEW r \in finishing, VerifyFailed(r) \/ Finish(r) PROVE NoneInFlight(p)'
    <3>1. finishing' \subseteq finishing /\ UNCHANGED <<ceremonies, options>>
      BY <2>7 DEF VerifyFailed, Finish
    <3>. QED BY <2>0, <3>1 DEF NoneInFlight
  <2>8. CASE UNCHANGED vars \/ Tick \/ Deliver \/ OtherEvent \/ CreateRefused
             \/ \E c \in Commands : CommandBegin(c)
    BY <2>1, <2>8 DEF vars, Tick, Deliver, OtherEvent, CreateRefused, CommandBegin, CommandEnd
  <2>9. ASSUME NEW q \in Pairings, Create(q) \/ Decide(q) PROVE NoneInFlight(p)'
    BY <2>1, <2>9 DEF Create, Decide, CommandEnd
  <2>10. ASSUME NEW q \in Pairings,
                \/ \E right \in BOOLEAN : Claim(q, right)
                \/ StatusRefused(q) \/ StatusEnter(q) \/ StatusRecheck(q) \/ StatusWake(q)
                \/ StatusTimer(q) \/ StatusAnswer(q)
         PROVE  NoneInFlight(p)'
    BY <2>1, <2>10 DEF Claim, StatusRefused, StatusEnter, StatusRecheck, StatusWake,
       StatusTimer, StatusAnswer
  <2>. QED
    BY <2>2, <2>3, <2>4, <2>5, <2>6, <2>7, <2>8, <2>9, <2>10 DEF Next
<1>. QED BY <1>1, <1>2

\* Registrations kept apart are each in one place.
LEMMA FlightInOnePlace ==
  ASSUME IInv, Flight
  PROVE  OneRegistrationInFlight
<1> SUFFICES ASSUME NEW p \in Records, entries[p].registration # None
             PROVE  Cardinality(InFlight(entries[p].registration)) <= 1
  BY DEF OneRegistrationInFlight
<1> DEFINE r == entries[p].registration
<1>1. r.pairing \in Pairings /\ r # None
  <2>1. entries[p] \in Entries
    BY DEF Records, IInv, TypeOK
  <2>. QED BY <2>1 DEF Entries, Registrations
<1>. HIDE DEF r
<1>2. \E s : InFlight(r) \subseteq {s}
  BY <1>1 DEF Flight, FlightUnique, InFlight
<1>3. PICK s : InFlight(r) \in SUBSET {s}
  BY <1>2
<1>4. IsFiniteSet({s}) /\ Cardinality({s}) = 1
  BY FS_Singleton
<1>5. IsFiniteSet(InFlight(r)) /\ Cardinality(InFlight(r)) <= Cardinality({s})
  BY <1>3, <1>4, FS_Subset
<1>. QED BY <1>4, <1>5 DEF r

\* One approval leads to one challenge that is answered once: the registration
\* a pairing waits for is held by at most one handler, for any number of
\* pairings, tickets and retries (webauthn.rs take_registration, pairing.rs
\* consume_ticket and retry_registration).
THEOREM PairingOneRegistration == Spec => []OneRegistrationInFlight
<1>1. Init => IInv /\ Flight
  <2>1. Init => FlightUnique /\ NotOpened
    BY DEF Init, FlightUnique, NotOpened, NoneInFlight
  <2>. QED BY <2>1, InitInv DEF Flight
<1>2. (IInv /\ Flight) /\ [Next]_vars => (IInv /\ Flight)'
  BY InvStep, FlightUniqueStep, NotOpenedStep DEF Flight
<1>3. IInv /\ Flight => OneRegistrationInFlight
  BY FlightInOnePlace
<1>. QED BY <1>1, <1>2, <1>3, PTL DEF Spec

(***************************************************************************)
(* What the desktop is told.                                               *)
(***************************************************************************)

\* at places the events of story that the desktop has not read.
Places(p, story, at) ==
  /\ at \in [Len(view[p]) + 1 .. Len(story) -> Queued(p)]
  /\ \A i \in Queued(p) : \E k \in DOMAIN at : at[k] = i
  /\ \A k, l \in DOMAIN at : k < l => at[k] < at[l]
  /\ \A k \in DOMAIN at : queue[at[k]].kind = story[k]

ReadOf(p, story) ==
  /\ Len(view[p]) <= Len(story)
  /\ \A k \in 1 .. Len(view[p]) : view[p][k] = story[k]

\* Tells, in parts.
LEMMA TellsParts ==
  ASSUME NEW p, NEW story
  PROVE  Tells(p, story) <=> ReadOf(p, story) /\ \E at : Places(p, story, at)
  BY DEF Tells, ReadOf, Places

\* The same, after a step.
LEMMA TellsPartsNext ==
  ASSUME NEW p, NEW story
  PROVE  Tells(p, story)' <=> ReadOf(p, story)' /\ \E at : Places(p, story, at)'
  BY DEF Tells, ReadOf, Places

\* What is read and queued has its type.
LEMMA ToldTypes ==
  ASSUME IInv, NEW p \in Pairings
  PROVE  /\ queue \in Seq(Events)
         /\ view \in [Pairings -> Seq(Kinds)]
         /\ view[p] \in Seq(Kinds)
         /\ Len(view[p]) \in Nat /\ Len(queue) \in Nat
         /\ Queued(p) = {i \in 1 .. Len(queue) : Of(queue[i], p)}
  BY DEF IInv, TypeOK, Queued, Of

\* A step that queues nothing of p tells nothing of p.
LEMMA TellsMute ==
  ASSUME IInv, NEW p \in Pairings, NEW story, Tells(p, story), Mute(p), view' = view
  PROVE  Tells(p, story)'
<1>1. Queued(p)' = Queued(p)
  <2>1. Queued(p)' = {i \in 1 .. Len(queue') : Of(queue'[i], p)}
    BY DEF Mute, Grows, Queued, Of
  <2>. QED BY <2>1, ToldTypes DEF Mute, Grows
<1>2. PICK at : Places(p, story, at) /\ ReadOf(p, story)
  BY TellsParts
<1>3. \A i \in Queued(p) : queue'[i] = queue[i]
  BY ToldTypes DEF Mute, Grows
<1>4. Places(p, story, at)'
  BY <1>1, <1>2, <1>3 DEF Places
<1>5. ReadOf(p, story)'
  BY <1>2 DEF ReadOf
<1>. QED BY <1>4, <1>5, TellsPartsNext

\* A step that queues one event of p extends its story by that event.
LEMMA TellsSays ==
  ASSUME IInv, NEW p \in Pairings, NEW k \in Kinds, NEW story \in Seq(Kinds),
         Tells(p, story), Says(p, k), view' = view
  PROVE  Tells(p, Append(story, k))'
<1>1. PICK n \in Len(queue) + 1 .. Len(queue') :
        /\ queue'[n] = Event(p, k)
        /\ \A j \in Len(queue) + 1 .. Len(queue') : j # n => ~Of(queue'[j], p)
  BY DEF Says
<1>2. /\ queue' \in Seq(Events) /\ Len(queue') \in Nat
      /\ Len(queue') >= Len(queue) /\ \A i \in 1 .. Len(queue) : queue'[i] = queue[i]
  BY DEF Says, Grows
<1>3. Queued(p)' = Queued(p) \cup {n}
  <2>1. Queued(p)' = {i \in 1 .. Len(queue') : Of(queue'[i], p)}
    BY <1>2 DEF Queued, Of
  <2>2. Of(queue'[n], p)
    BY <1>1, EventOf
  <2>3. \A i \in 1 .. Len(queue) : i \in 1 .. Len(queue') /\ (Of(queue'[i], p) <=> Of(queue[i], p))
    BY <1>2, ToldTypes
  <2>4. n \in 1 .. Len(queue')
    BY <1>1, <1>2, ToldTypes
  <2>5. \A i \in 1 .. Len(queue') : i \in 1 .. Len(queue) \/ i \in Len(queue) + 1 .. Len(queue')
    BY <1>2, ToldTypes
  <2>6. Queued(p) = {i \in 1 .. Len(queue) : Of(queue[i], p)}
    BY ToldTypes
  <2>. QED BY <1>1, <2>1, <2>2, <2>3, <2>4, <2>5, <2>6
<1>4. PICK at : Places(p, story, at) /\ ReadOf(p, story)
  BY TellsParts
<1> DEFINE s == Append(story, k)
           m == Len(story)
           r == Len(view[p])
<1>5. /\ m \in Nat /\ r \in Nat /\ Len(s) = m + 1 /\ s[m + 1] = k
      /\ \A i \in 1 .. m : s[i] = story[i]
  BY ToldTypes
<1>6. r <= m
  BY <1>4 DEF ReadOf
<1>. HIDE DEF s
<1>7. /\ at \in [r + 1 .. m -> Queued(p)]
      /\ \A i \in Queued(p) : \E l \in r + 1 .. m : at[l] = i
      /\ \A j, l \in r + 1 .. m : j < l => at[j] < at[l]
      /\ \A j \in r + 1 .. m : queue[at[j]].kind = story[j]
  BY <1>4 DEF Places
<1>. HIDE DEF m, r
<1>0. PICK new : new = [j \in r + 1 .. m + 1 |-> IF j <= m THEN at[j] ELSE n]
  OBVIOUS
<1>8. /\ \A j \in r + 1 .. m : j \in r + 1 .. m + 1 /\ new[j] = at[j]
      /\ m + 1 \in r + 1 .. m + 1 /\ new[m + 1] = n
      /\ \A j \in r + 1 .. m + 1 : j = m + 1 \/ j \in r + 1 .. m
      /\ DOMAIN new = r + 1 .. m + 1
  BY <1>0, <1>5, <1>6
<1>9. new \in [r + 1 .. m + 1 -> Queued(p) \cup {n}]
  BY <1>0, <1>5, <1>6, <1>7
<1>10. \A i \in Queued(p) \cup {n} : \E l \in DOMAIN new : new[l] = i
  BY <1>7, <1>8
<1>11. \A j \in r + 1 .. m : at[j] \in 1 .. Len(queue) /\ at[j] < n
  BY <1>1, <1>2, <1>7, ToldTypes
<1>12. ASSUME NEW j \in DOMAIN new, NEW l \in DOMAIN new, j < l
       PROVE  new[j] < new[l]
  <2>1. j \in r + 1 .. m
    BY <1>5, <1>8, <1>12
  <2>2. CASE l = m + 1
    BY <1>8, <1>11, <2>1, <2>2
  <2>3. CASE l \in r + 1 .. m
    BY <1>7, <1>8, <1>12, <2>1, <2>3
  <2>. QED BY <1>8, <2>2, <2>3
<1>13. ASSUME NEW j \in DOMAIN new PROVE queue'[new[j]].kind = s[j]
  <2>1. CASE j = m + 1
    BY <1>1, <1>5, <1>8, <2>1, EventOf
  <2>2. CASE j \in r + 1 .. m
    <3>1. new[j] = at[j] /\ queue'[at[j]] = queue[at[j]]
      BY <1>2, <1>8, <1>11, <2>2
    <3>2. s[j] = story[j]
      BY <1>5, <2>2
    <3>. QED BY <1>7, <2>2, <3>1, <3>2
  <2>. QED BY <1>8, <2>1, <2>2
<1>14. Places(p, s, new)'
  BY <1>3, <1>5, <1>9, <1>10, <1>12, <1>13 DEF Places, r
<1>15. ReadOf(p, s)'
  <2>1. \A i \in 1 .. r : i \in 1 .. m
    BY <1>5, <1>6
  <2>2. \A i \in 1 .. r : view[p][i] = story[i]
    BY <1>4 DEF ReadOf, r
  <2>. QED BY <1>5, <1>6, <2>1, <2>2 DEF ReadOf, r
<1>. QED BY <1>14, <1>15, TellsPartsNext DEF s

\* The event writer moves an event from the queue to what was read, and the
\* story stays the same.
LEMMA TellsDeliver ==
  ASSUME IInv, NEW p \in Pairings, NEW story \in Seq(Kinds), Tells(p, story), Deliver
  PROVE  Tells(p, story)'
<1> DEFINE m == Len(story)
           r == Len(view[p])
<1>1. /\ queue \in Seq(Events) /\ queue # <<>> /\ queue' = Tail(queue)
      /\ view' = IF Head(queue) = None THEN view
                 ELSE [view EXCEPT ![Head(queue).pairing] = Append(@, Head(queue).kind)]
  BY ToldTypes DEF Deliver
<1>2. /\ Len(queue) \in Nat /\ Len(queue) >= 1 /\ Head(queue) = queue[1] /\ queue[1] \in Events
      /\ queue' \in Seq(Events) /\ Len(queue') = Len(queue) - 1
      /\ \A i \in 1 .. Len(queue) - 1 : queue'[i] = queue[i + 1]
  BY <1>1
<1>3. Queued(p)' = {i \in 1 .. Len(queue) - 1 : Of(queue[i + 1], p)}
  <2>1. Queued(p)' = {i \in 1 .. Len(queue') : Of(queue'[i], p)}
    BY <1>2 DEF Queued, Of
  <2>. QED BY <1>2, <2>1
<1>4. PICK at : Places(p, story, at) /\ ReadOf(p, story)
  BY TellsParts
<1>5. /\ m \in Nat /\ r \in Nat /\ r <= m
      /\ at \in [r + 1 .. m -> {i \in 1 .. Len(queue) : Of(queue[i], p)}]
      /\ \A i \in 1 .. Len(queue) : Of(queue[i], p) => \E l \in r + 1 .. m : at[l] = i
      /\ \A j, l \in r + 1 .. m : j < l => at[j] < at[l]
      /\ \A j \in r + 1 .. m : queue[at[j]].kind = story[j]
      /\ \A j \in 1 .. r : view[p][j] = story[j]
  <2>1. Queued(p) = {i \in 1 .. Len(queue) : Of(queue[i], p)}
    BY ToldTypes
  <2>2. m \in Nat /\ r \in Nat
    BY ToldTypes
  <2>3. r <= m /\ \A j \in 1 .. r : view[p][j] = story[j]
    BY <1>4 DEF ReadOf
  <2>4. /\ at \in [r + 1 .. m -> Queued(p)]
        /\ \A i \in Queued(p) : \E l \in r + 1 .. m : at[l] = i
        /\ \A j, l \in r + 1 .. m : j < l => at[j] < at[l]
        /\ \A j \in r + 1 .. m : queue[at[j]].kind = story[j]
    BY <1>4 DEF Places
  <2>. QED BY <2>1, <2>2, <2>3, <2>4
<1>6. \A v \in Events : v # None => v.pairing \in Pairings /\ v.kind \in Kinds
  BY DEF Events
<1>7. \A j \in r + 1 .. m : at[j] \in 1 .. Len(queue) /\ Of(queue[at[j]], p)
  BY <1>5
<1>8. CASE ~Of(queue[1], p)
  <2>1. view'[p] = view[p]
    BY <1>1, <1>2, <1>6, <1>8, ToldTypes DEF Of
  <2>0. PICK new : new = [j \in r + 1 .. m |-> at[j] - 1]
    OBVIOUS
  <2>2. \A j \in r + 1 .. m : at[j] # 1 /\ at[j] - 1 \in 1 .. Len(queue) - 1 /\ (at[j] - 1) + 1 = at[j]
    BY <1>2, <1>7, <1>8
  <2>3. new \in [r + 1 .. m -> Queued(p)'] /\ DOMAIN new = r + 1 .. m
        /\ \A j \in r + 1 .. m : new[j] = at[j] - 1
    BY <1>3, <1>7, <2>0, <2>2
  <2>4. ASSUME NEW i \in Queued(p)' PROVE \E l \in r + 1 .. m : new[l] = i
    <3>1. i \in 1 .. Len(queue) - 1 /\ Of(queue[i + 1], p) /\ i + 1 \in 1 .. Len(queue)
      BY <1>2, <1>3
    <3>2. PICK l \in r + 1 .. m : at[l] = i + 1
      BY <1>5, <3>1
    <3>. QED BY <2>3, <3>1, <3>2
  <2>5. ASSUME NEW j \in r + 1 .. m, NEW l \in r + 1 .. m, j < l PROVE new[j] < new[l]
    BY <1>5, <1>7, <2>3, <2>5
  <2>6. ASSUME NEW j \in r + 1 .. m PROVE queue'[new[j]].kind = story[j]
    <3>1. queue'[new[j]] = queue[at[j]]
      BY <1>2, <2>2, <2>3
    <3>. QED BY <1>5, <3>1
  <2>7. Places(p, story, new)'
    BY <2>1, <2>3, <2>4, <2>5, <2>6 DEF Places
  <2>8. ReadOf(p, story)'
    BY <1>5, <2>1 DEF ReadOf
  <2>. QED BY <2>7, <2>8, TellsPartsNext
<1>9. CASE Of(queue[1], p)
  <2>1. PICK first \in r + 1 .. m : at[first] = 1
    BY <1>2, <1>5, <1>9
  <2>2. r + 1 \in r + 1 .. m /\ at[r + 1] = 1
    <3>1. r + 1 \in r + 1 .. m
      BY <1>5
    <3>2. CASE r + 1 < first
      <4>1. at[r + 1] < at[first]
        BY <1>5, <3>1, <3>2
      <4>. QED BY <1>7, <2>1, <3>1, <4>1
    <3>3. CASE ~(r + 1 < first)
      BY <1>5, <2>1, <3>1, <3>3
    <3>. QED BY <3>2, <3>3
  <2>3. view'[p] = Append(view[p], queue[1].kind) /\ queue[1].kind \in Kinds
    BY <1>1, <1>2, <1>6, <1>9, ToldTypes DEF Of
  <2>4. /\ Len(view'[p]) = r + 1
        /\ view'[p][r + 1] = queue[1].kind
        /\ \A j \in 1 .. r : view'[p][j] = view[p][j]
    BY <2>3, ToldTypes
  <2>5. queue[1].kind = story[r + 1]
    BY <1>5, <2>2
  <2>0. PICK new : new = [j \in (r + 1) + 1 .. m |-> at[j] - 1]
    OBVIOUS
  <2>6. ASSUME NEW j \in (r + 1) + 1 .. m
        PROVE  /\ j \in r + 1 .. m
               /\ at[j] # 1 /\ at[j] - 1 \in 1 .. Len(queue) - 1 /\ (at[j] - 1) + 1 = at[j]
    <3>1. j \in r + 1 .. m /\ r + 1 < j
      BY <1>5
    <3>2. at[r + 1] < at[j]
      BY <1>5, <2>2, <3>1
    <3>. QED BY <1>2, <1>7, <2>2, <3>1, <3>2
  <2>7. new \in [(r + 1) + 1 .. m -> Queued(p)'] /\ DOMAIN new = (r + 1) + 1 .. m
        /\ \A j \in (r + 1) + 1 .. m : new[j] = at[j] - 1
    BY <1>3, <1>7, <2>0, <2>6
  <2>8. ASSUME NEW i \in Queued(p)' PROVE \E l \in (r + 1) + 1 .. m : new[l] = i
    <3>1. i \in 1 .. Len(queue) - 1 /\ Of(queue[i + 1], p) /\ i + 1 \in 1 .. Len(queue) /\ i + 1 # 1
      BY <1>2, <1>3
    <3>2. PICK l \in r + 1 .. m : at[l] = i + 1
      BY <1>5, <3>1
    <3>3. l # r + 1
      BY <2>2, <3>1, <3>2
    <3>4. l \in (r + 1) + 1 .. m
      BY <1>5, <3>3
    <3>. QED BY <2>7, <3>1, <3>2, <3>4
  <2>9. ASSUME NEW j \in (r + 1) + 1 .. m, NEW l \in (r + 1) + 1 .. m, j < l PROVE new[j] < new[l]
    <3>1. at[j] < at[l]
      BY <1>5, <2>6, <2>9
    <3>2. at[j] \in Int /\ at[l] \in Int /\ new[j] = at[j] - 1 /\ new[l] = at[l] - 1
      BY <1>7, <2>6, <2>7
    <3>. QED BY <3>1, <3>2
  <2>10. ASSUME NEW j \in (r + 1) + 1 .. m PROVE queue'[new[j]].kind = story[j]
    <3>1. queue'[new[j]] = queue[at[j]]
      BY <1>2, <2>6, <2>7
    <3>. QED BY <1>5, <2>6, <3>1
  <2>11. Places(p, story, new)'
    BY <2>4, <2>7, <2>8, <2>9, <2>10 DEF Places
  <2>12. ReadOf(p, story)'
    <3>1. r + 1 <= m
      BY <1>5, <2>2
    <3>2. \A j \in 1 .. r + 1 : j = r + 1 \/ j \in 1 .. r
      BY <1>5
    <3>. QED BY <1>5, <2>4, <2>5, <3>1, <3>2 DEF ReadOf
  <2>. QED BY <2>11, <2>12, TellsPartsNext
<1>. QED BY <1>8, <1>9

\* The stories of a record, by its state.
RecordStories(e) ==
  IF e.state = "Pending"
    THEN IF e.claimed THEN {<<"created", "claimed">>} ELSE {<<"created">>}
  ELSE IF e.state \in {"Approved", "Registering"}
    THEN {<<"created", "claimed", "approved">>}
  ELSE IF e.state = "Registered" THEN Completed
  ELSE IF e.notification THEN Progress ELSE Closed

Stories(p) ==
  IF entries[p] # Absent THEN RecordStories(entries[p])
  ELSE IF p \in fresh THEN {<<>>} ELSE Closed \cup Completed

\* DesktopTold, of one pairing.
ToldOf(p) == \E story \in Stories(p) : Tells(p, story)

\* DesktopTold says just that of every pairing.
LEMMA DesktopToldOf ==
  ASSUME IInv
  PROVE  DesktopTold <=> \A p \in Pairings : ToldOf(p)
<1>1. ASSUME NEW p \in Pairings, entries[p] # Absent
      PROVE  entries[p].state \in {"Pending", "Approved", "Registering", "Registered", "Rejected", "Expired"}
  BY <1>1 DEF IInv, TypeOK, Entries, States, LiveStates
<1> DEFINE Body(p) ==
             LET e == entries[p]
             IN  IF e = Absent
                   THEN IF p \in fresh THEN Tells(p, <<>>) ELSE TellsOne(p, Closed \cup Completed)
                   ELSE /\ e.state = "Pending" =>
                             Tells(p, IF e.claimed THEN <<"created", "claimed">> ELSE <<"created">>)
                        /\ e.state \in {"Approved", "Registering"} =>
                             Tells(p, <<"created", "claimed", "approved">>)
                        /\ e.state = "Registered" => TellsOne(p, Completed)
                        /\ e.state \in {"Rejected", "Expired"} =>
                             TellsOne(p, IF e.notification THEN Progress ELSE Closed)
<1>2. ASSUME NEW p \in Pairings PROVE Body(p) <=> ToldOf(p)
  <2>1. CASE entries[p] = Absent
    BY <2>1 DEF ToldOf, Stories, TellsOne
  <2>2. CASE entries[p] # Absent /\ entries[p].state = "Pending"
    BY <2>2 DEF ToldOf, Stories, RecordStories
  <2>3. CASE entries[p] # Absent /\ entries[p].state \in {"Approved", "Registering"}
    BY <2>3 DEF ToldOf, Stories, RecordStories
  <2>4. CASE entries[p] # Absent /\ entries[p].state = "Registered"
    BY <2>4 DEF ToldOf, Stories, RecordStories, TellsOne
  <2>5. CASE entries[p] # Absent /\ entries[p].state \in {"Rejected", "Expired"}
    BY <2>5 DEF ToldOf, Stories, RecordStories, TellsOne
  <2>. QED BY <1>1, <2>1, <2>2, <2>3, <2>4, <2>5
<1>3. DesktopTold <=> \A p \in Pairings : Body(p)
  BY DEF DesktopTold
<1>. HIDE DEF Body
<1>. QED BY <1>2, <1>3

\* Sequences with the same elements are the same.
LEMMA SameSeq ==
  ASSUME NEW s \in Seq(Kinds), NEW t \in Seq(Kinds), Len(s) = Len(t),
         \A i \in 1 .. Len(s) : s[i] = t[i]
  PROVE  s = t
  OBVIOUS

\* The stories, and how an event extends one.
LEMMA StoriesExtend ==
  /\ Progress \cup Closed \cup Completed \cup {<<>>} \subseteq Seq(Kinds)
  /\ Append(<<>>, "created") = <<"created">>
  /\ Append(<<"created">>, "claimed") = <<"created", "claimed">>
  /\ Append(<<"created", "claimed">>, "approved") = <<"created", "claimed", "approved">>
  /\ Append(<<"created", "claimed", "approved">>, "device") \in Completed
  /\ Progress = {<<"created">>, <<"created", "claimed">>, <<"created", "claimed", "approved">>}
  /\ \A s \in Progress, k \in {"rejected", "expired"} : Append(s, k) \in Closed
<1>1. /\ <<"created">> \in Seq(Kinds) /\ <<"created", "claimed">> \in Seq(Kinds)
      /\ <<"created", "claimed", "approved">> \in Seq(Kinds)
      /\ <<"created", "claimed", "approved", "device">> \in Seq(Kinds)
      /\ <<>> \in Seq(Kinds)
  BY DEF Kinds
<1>2. Progress \subseteq Seq(Kinds) /\ Completed \subseteq Seq(Kinds)
  BY <1>1 DEF Progress, Completed
<1>3. Closed \subseteq Seq(Kinds)
  BY <1>2 DEF Closed, Kinds
<1>4. Append(<<>>, "created") = <<"created">>
  OBVIOUS
<1>5. Append(<<"created">>, "claimed") = <<"created", "claimed">>
  <2> DEFINE s == Append(<<"created">>, "claimed")
  <2>1. Len(s) = 2 /\ s[1] = "created" /\ s[2] = "claimed" /\ s \in Seq(Kinds)
    BY <1>1 DEF Kinds
  <2>. HIDE DEF s
  <2>2. \A i \in 1 .. 2 : i = 1 \/ i = 2
    OBVIOUS
  <2>3. s = <<"created", "claimed">>
    BY <1>1, <2>1, <2>2, SameSeq
  <2>. QED BY <2>3 DEF s
<1>6. Append(<<"created", "claimed">>, "approved") = <<"created", "claimed", "approved">>
  <2> DEFINE s == Append(<<"created", "claimed">>, "approved")
  <2>1. Len(s) = 3 /\ s[1] = "created" /\ s[2] = "claimed" /\ s[3] = "approved" /\ s \in Seq(Kinds)
    BY <1>1 DEF Kinds
  <2>. HIDE DEF s
  <2>2. \A i \in 1 .. 3 : i = 1 \/ i = 2 \/ i = 3
    OBVIOUS
  <2>3. s = <<"created", "claimed", "approved">>
    BY <1>1, <2>1, <2>2, SameSeq
  <2>. QED BY <2>3 DEF s
<1>7. Append(<<"created", "claimed", "approved">>, "device") \in Completed
  <2> DEFINE s == Append(<<"created", "claimed", "approved">>, "device")
  <2>1. Len(s) = 4 /\ s[1] = "created" /\ s[2] = "claimed" /\ s[3] = "approved" /\ s[4] = "device"
        /\ s \in Seq(Kinds)
    BY <1>1 DEF Kinds
  <2>. HIDE DEF s
  <2>2. \A i \in 1 .. 4 : i = 1 \/ i = 2 \/ i = 3 \/ i = 4
    OBVIOUS
  <2>3. s = <<"created", "claimed", "approved", "device">>
    BY <1>1, <2>1, <2>2, SameSeq
  <2>. QED BY <2>3 DEF s, Completed
<1>8. \A s \in Progress, k \in {"rejected", "expired"} : Append(s, k) \in Closed
  BY DEF Closed
<1>. QED BY <1>1, <1>2, <1>3, <1>4, <1>5, <1>6, <1>7, <1>8 DEF Progress

\* A live record's story is still in progress.
LEMMA LiveInProgress ==
  ASSUME NEW e, Live(e)
  PROVE  RecordStories(e) \subseteq Progress
  BY StoriesExtend DEF RecordStories, Live, LiveStates

\* A change told to nobody leaves the stories that fit.
LEMMA SilentStories ==
  ASSUME NEW e, NEW f, Silent(e, f)
  PROVE  RecordStories(e) \subseteq RecordStories(f)
<1>1. CASE Same(e, f)
  BY <1>1 DEF Same, RecordStories
<1>2. CASE Live(e) /\ Ended(f) /\ f.notification
  <2>1. RecordStories(f) = Progress
    BY <1>2 DEF RecordStories, Ended
  <2>. QED BY <1>2, <2>1, LiveInProgress
<1>. QED BY <1>1, <1>2 DEF Silent

\* A change told with k extends every story that fits by k.
LEMMA SpokenStories ==
  ASSUME NEW e, NEW f, NEW k, Spoken(e, f, k), NEW s \in RecordStories(e)
  PROVE  Append(s, k) \in RecordStories(f)
<1>1. CASE /\ e.state = "Pending" /\ ~e.claimed
           /\ f.state = "Pending" /\ f.claimed /\ k = "claimed"
  BY <1>1, StoriesExtend DEF RecordStories
<1>2. CASE e.state = "Pending" /\ e.claimed /\ f.state = "Approved" /\ k = "approved"
  BY <1>2, StoriesExtend DEF RecordStories
<1>3. CASE e.state = "Registering" /\ f.state = "Registered" /\ k = "device"
  BY <1>3, StoriesExtend DEF RecordStories
<1>4. CASE /\ Live(e) \/ (Ended(e) /\ e.notification)
           /\ Ended(f) /\ ~f.notification /\ k \in {"rejected", "expired"}
  <2>1. RecordStories(f) = Closed
    BY <1>4 DEF RecordStories, Ended
  <2>2. CASE Live(e)
    BY <1>4, <2>1, <2>2, LiveInProgress, StoriesExtend
  <2>3. CASE Ended(e) /\ e.notification
    <3>1. RecordStories(e) = Progress
      BY <2>3 DEF RecordStories, Ended
    <3>. QED BY <1>4, <2>1, <3>1, StoriesExtend
  <2>. QED BY <1>4, <2>2, <2>3
<1>. QED BY <1>1, <1>2, <1>3, <1>4 DEF Spoken

\* The stories are sequences of events.
LEMMA StoriesType ==
  ASSUME NEW p
  PROVE  Stories(p) \subseteq Seq(Kinds)
<1>1. \A e : RecordStories(e) \subseteq Progress \cup Completed \cup Closed
  BY StoriesExtend DEF RecordStories
<1>. QED BY <1>1, StoriesExtend DEF Stories

\* A step that queues nothing of p and keeps its stories.
LEMMA ToldMute ==
  ASSUME IInv, NEW p \in Pairings, ToldOf(p), Mute(p), view' = view, Stories(p) \subseteq Stories(p)'
  PROVE  ToldOf(p)'
<1>1. PICK s \in Stories(p) : Tells(p, s)
  BY DEF ToldOf
<1>2. Tells(p, s)'
  BY <1>1, TellsMute
<1>. QED BY <1>1, <1>2 DEF ToldOf

\* A step that queues one event of p and extends its stories by it.
LEMMA ToldSays ==
  ASSUME IInv, NEW p \in Pairings, NEW k \in Kinds, ToldOf(p), Says(p, k), view' = view,
         \A s \in Stories(p) : Append(s, k) \in Stories(p)'
  PROVE  ToldOf(p)'
<1>1. PICK s \in Stories(p) : Tells(p, s)
  BY DEF ToldOf
<1>2. Tells(p, Append(s, k))'
  BY <1>1, TellsSays, StoriesType
<1>3. PICK t : t = Append(s, k)
  OBVIOUS
<1>. QED BY <1>1, <1>2, <1>3 DEF ToldOf

\* Every step keeps the desktop's record of every pairing complete and in order.
LEMMA ToldStep ==
  ASSUME IInv, IInv', [Next]_vars, NEW p \in Pairings, ToldOf(p)
  PROVE  ToldOf(p)'
<1>1. CASE Deliver
  <2>1. PICK s \in Stories(p) : Tells(p, s)
    BY DEF ToldOf
  <2>2. Tells(p, s)'
    BY <1>1, <2>1, TellsDeliver, StoriesType
  <2>3. Stories(p)' = Stories(p)
    BY <1>1 DEF Deliver, Stories
  <2>. QED BY <2>1, <2>2, <2>3 DEF ToldOf
<1>2. CASE Account(p) /\ view' = view
  <2>1. CASE Created(p)
    <3>1. Stories(p) = {<<>>}
      BY <2>1 DEF Created, Stories, IInv, FreshUnused
    <3>2. Stories(p)' = {<<"created">>}
      <4>1. entries'[p] # Absent /\ entries'[p].state = "Pending" /\ ~entries'[p].claimed
        BY <2>1 DEF Created, NewEntry, Absent
      <4>. QED BY <4>1 DEF Stories, RecordStories
    <3>. QED BY <1>2, <2>1, <3>1, <3>2, ToldSays, StoriesExtend DEF Created, Kinds
  <2>2. CASE (p \in fresh <=> p \in fresh') /\ Unused(p)
    <3>1. Stories(p) \subseteq Stories(p)'
      BY <2>2 DEF Unused, Stories
    <3>. QED BY <1>2, <2>2, <3>1, ToldMute DEF Unused
  <2>3. CASE (p \in fresh <=> p \in fresh') /\ Evicted(p)
    <3>1. p \notin fresh /\ p \notin fresh'
      BY <2>3 DEF Evicted, IInv, FreshUnused
    <3>2. Stories(p)' = Closed \cup Completed
      BY <2>3, <3>1 DEF Evicted, Stories
    <3>3. Stories(p) \subseteq Closed \cup Completed
      BY <2>3 DEF Evicted, Stories, RecordStories, Live, LiveStates
    <3>. QED BY <1>2, <2>3, <3>2, <3>3, ToldMute DEF Evicted
  <2>4. CASE Kept(p)
    <3>0. /\ Stories(p) = RecordStories(entries[p])
          /\ Stories(p)' = RecordStories(entries'[p])
      <4>1. entries[p] # Absent /\ entries'[p] # Absent
        BY <2>4 DEF Kept
      <4>. QED BY <4>1 DEF Stories, RecordStories
    <3>1. CASE Mute(p) /\ Silent(entries[p], entries'[p])
      BY <1>2, <3>0, <3>1, SilentStories, ToldMute
    <3>2. CASE Mute(p) /\ (Opens(p) \/ Retries(p))
      <4>1. RecordStories(entries[p]) = RecordStories(entries'[p])
        BY <3>2 DEF Opens, Retries, RecordStories
      <4>. QED BY <1>2, <3>0, <3>2, <4>1, ToldMute
    <3>3. ASSUME NEW k \in Kinds, Says(p, k), Spoken(entries[p], entries'[p], k)
          PROVE  ToldOf(p)'
      <4>1. \A s \in Stories(p) : Append(s, k) \in Stories(p)'
        BY <3>0, <3>3, SpokenStories
      <4>. QED BY <1>2, <3>3, <4>1, ToldSays
    <3>. QED BY <2>4, <3>1, <3>2, <3>3 DEF Kept
  <2>. QED BY <1>2, <2>1, <2>2, <2>3, <2>4 DEF Account
<1>. QED BY <1>1, <1>2, NextAccounts DEF Accounts

\* What the desktop has read of a pairing and what is queued for it is one of
\* the stories of the pairing's record, for any number of pairings, any queue
\* and any interleaving: no widening is in force that was not queued before,
\* every outcome is queued once and last, and no record is evicted before its
\* outcome is queued (http.rs try_emit_event, pairing.rs notify, command).
THEOREM PairingDesktopTold == Spec => []DesktopTold
<1> DEFINE Told == \A p \in Pairings : ToldOf(p)
<1>1. Init => Told
  <2> SUFFICES ASSUME Init, NEW p \in Pairings PROVE ToldOf(p)
    OBVIOUS
  <2>1. Stories(p) = {<<>>}
    BY DEF Init, Stories
  <2>2. view[p] = <<>> /\ Queued(p) = {}
    BY DEF Init, Queued
  <2> DEFINE at == [k \in {} |-> 0]
  <2>3. at \in [1 .. 0 -> {}] /\ DOMAIN at = {} /\ Len(<<>>) = 0
    OBVIOUS
  <2>4. Places(p, <<>>, at) /\ ReadOf(p, <<>>)
    BY <2>2, <2>3 DEF Places, ReadOf
  <2>. QED BY <2>1, <2>4, TellsParts DEF ToldOf
<1>2. (IInv /\ Told) /\ [Next]_vars => (IInv /\ Told)'
  BY InvStep, ToldStep
<1>3. IInv /\ Told => DesktopTold
  BY DesktopToldOf
<1>. QED BY <1>1, <1>2, <1>3, InitInv, PTL DEF Spec
=============================================================================
