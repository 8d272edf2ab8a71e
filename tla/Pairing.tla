------------------------------ MODULE Pairing ------------------------------
(***************************************************************************)
(* The pairing table of the companion gateway                              *)
(* (src-tauri/companion/src/pairing.rs), the registration ceremonies that  *)
(* its tickets open (gateway_auth.rs, webauthn.rs) and the bounded queue   *)
(* of events through which the desktop learns of them (admin.rs).          *)
(*                                                                         *)
(* Three kinds of actor interleave here: the desktop's admin command loop, *)
(* HTTP handlers of phones (claim, the two critical sections of a long     *)
(* poll, ticket consumption, registration) and the one-second maintenance  *)
(* tick.  Every action below is one critical section of the `entries`      *)
(* mutex, or of the ceremonies mutex, exactly where the code takes it.     *)
(*                                                                         *)
(* The gateway is modelled while its policy runs: at the policy's end it   *)
(* refuses every command and registration and the process goes.            *)
(***************************************************************************)
EXTENDS Integers, Sequences, FiniteSets

CONSTANTS
  Pairings,             \* the random pairing ids
  TTL,                  \* lifetime of an offer
  TICKET_TTL,           \* lifetime of a ticket and of a registration
  REGISTRATION_WINDOW,  \* lifetime of an approval
  MAX_LIVE,             \* live records
  MAX_RECORDS,          \* records, live or not
  FAILURE_LIMIT,        \* failed attempts that kill a pairing
  MAX_POLLS,            \* parked status polls of the whole gateway
  REGISTRATION_LIMIT,   \* open registration ceremonies
  QUEUE,                \* slots of the event queue
  MaxTime,              \* bound: the clock stops here
  MaxTickets,           \* bound: tickets issued for one pairing
  MaxOther              \* bound: events other components queue

ASSUME PairingsFinite == IsFiniteSet(Pairings)
ASSUME DurationsPositive ==
  /\ TTL \in Nat \ {0}
  /\ TICKET_TTL \in Nat \ {0}
  /\ REGISTRATION_WINDOW \in Nat \ {0}
ASSUME LimitsPositive ==
  /\ MAX_LIVE \in Nat \ {0}
  /\ MAX_RECORDS \in Nat \ {0}
  /\ FAILURE_LIMIT \in Nat \ {0}
  /\ MAX_POLLS \in Nat \ {0}
  /\ REGISTRATION_LIMIT \in Nat \ {0}
  /\ QUEUE \in Nat \ {0}
ASSUME BoundsNatural == MaxTime \in Nat /\ MaxTickets \in Nat /\ MaxOther \in Nat

VARIABLES
  now,         \* the gateway's clock
  entries,     \* Pairings -> record of the pairing, or Absent
  fresh,       \* ids no pairing has been created with
  command,     \* the admin command between its two critical sections
  polls,       \* Pairings -> where the pairing's status poll stands
  options,     \* registrations whose options handler has no challenge yet
  ceremonies,  \* Pairings -> registration of the open ceremony, or None
  finishing,   \* registrations whose ceremony was taken, not yet committed
  queue,       \* events accepted by the EventSender, oldest first
  view,        \* Pairings -> events the desktop has read, oldest first
  other,       \* events queued by other components so far
  issued,      \* history: Pairings -> serial of the latest ticket
  spent        \* history: Pairings -> serial of the last consumed ticket

vars == <<now, entries, fresh, command, polls, options, ceremonies, finishing,
          queue, view, other, issued, spent>>

(***************************************************************************)
(* Records.                                                                *)
(***************************************************************************)
Absent == [state |-> "Absent"]
None == [kind |-> "none"]
LiveStates == {"Pending", "Approved", "Registering"}
States == LiveStates \cup {"Rejected", "Expired", "Registered"}
Times == 0 .. MaxTime + TTL + TICKET_TTL + REGISTRATION_WINDOW

\* `label` and `add_to_device` are fixed once the entry is claimed, so the
\* instants tell the registrations of one pairing apart as the code does.
Registrations == [pairing : Pairings, started : Times, deadline : Times]

Tickets == [serial : 1 .. MaxTickets, until : Times]

\* `secret`: still held for the SAS; `changed`: the watch channel holds a
\* change its one subscriber has not seen; `notification`: the desktop has
\* still to be told how the pairing ended.
Entries ==
  [state : States, claimed : BOOLEAN, secret : BOOLEAN,
   failures : 0 .. FAILURE_LIMIT, until : Times, changed : BOOLEAN,
   ticket : Tickets \cup {None}, registration : Registrations \cup {None},
   notification : BOOLEAN]

Kinds == {"created", "claimed", "approved", "rejected", "expired", "device"}
Events == [pairing : Pairings, kind : Kinds] \cup {None}
Ops == {"Approve", "Reject", "Cancel"}
Commands == [op : {"Create"}] \cup [op : Ops, pairing : Pairings]

Records == {p \in Pairings : entries[p] # Absent}
Live(e) == e.state \in LiveStates

(***************************************************************************)
(* Pairing::transition, expire, notify, fail on one entry.                 *)
(***************************************************************************)
\* Mutant: the ticket survives its consumption.
TransitionKeepsTicket(e, s) ==
  [e EXCEPT !.state = s,
            !.registration = IF s = "Registering" THEN @ ELSE None,
            !.secret = IF s = "Pending" THEN @ ELSE FALSE,
            !.changed = TRUE]

Transition(e, s) ==
  [e EXCEPT !.state = s,
            !.registration = IF s = "Registering" THEN @ ELSE None,
            !.ticket = IF s = "Approved" THEN @ ELSE None,
            !.secret = IF s = "Pending" THEN @ ELSE FALSE,
            !.changed = TRUE]

Deadline(e) == IF e.registration # None THEN e.registration.deadline ELSE e.until

Expire(e) ==
  IF Live(e) /\ now >= Deadline(e)
    THEN [Transition(e, "Expired") EXCEPT !.notification = TRUE]
    ELSE e

Room == Len(queue) < QUEUE

Event(p, kind) == [pairing |-> p, kind |-> kind]

Outcome(p, e) == Event(p, IF e.state = "Expired" THEN "expired" ELSE "rejected")

\* notify: the entry after it, and the queue after it.
Notified(e) == IF Room THEN [e EXCEPT !.notification = FALSE] ELSE e

QueueNotified(p, e) ==
  IF e.notification /\ Room THEN Append(queue, Outcome(p, e)) ELSE queue

\* Mutant: one attempt too many.
FailLate(e, secondClaim) ==
  LET counted == [e EXCEPT !.failures = @ + 1]
  IN  IF counted.failures > FAILURE_LIMIT \/ secondClaim
        THEN [Transition(counted, "Rejected") EXCEPT !.notification = TRUE]
        ELSE counted

\* fail, without the notify that ends it.
Fail(e, secondClaim) ==
  LET counted == [e EXCEPT !.failures = @ + 1]
  IN  IF counted.failures >= FAILURE_LIMIT \/ secondClaim
        THEN [Transition(counted, "Rejected") EXCEPT !.notification = TRUE]
        ELSE counted

\* Writes the entry of p and offers its notification to the queue.
SetAndNotify(p, e) ==
  /\ entries' = [entries EXCEPT ![p] = Notified(e)]
  /\ queue' = QueueNotified(p, e)

Set(p, e) ==
  /\ entries' = [entries EXCEPT ![p] = e]
  /\ UNCHANGED queue

\* Mutant: the widening is committed although its event was not queued.
SetUnannounced(p, e, kind) ==
  /\ queue' = IF Room THEN Append(queue, Event(p, kind)) ELSE queue
  /\ entries' = [entries EXCEPT ![p] = e]

\* A widening operation: the event is queued before the entry changes, and a
\* full queue refuses the operation.
SetAnnounced(p, e, kind) ==
  /\ Room
  /\ queue' = Append(queue, Event(p, kind))
  /\ entries' = [entries EXCEPT ![p] = e]

(***************************************************************************)
(* Initial state: a gateway that has just read its init frame.             *)
(***************************************************************************)
Init ==
  /\ now = 0
  /\ entries = [p \in Pairings |-> Absent]
  /\ fresh = Pairings
  /\ command = None
  /\ polls = [p \in Pairings |-> "none"]
  /\ options = {}
  /\ ceremonies = [p \in Pairings |-> None]
  /\ finishing = {}
  /\ queue = <<>>
  /\ view = [p \in Pairings |-> <<>>]
  /\ other = 0
  /\ issued = [p \in Pairings |-> 0]
  /\ spent = [p \in Pairings |-> 0]

(***************************************************************************)
(* The environment: time, the event writer, other users of the queue.      *)
(***************************************************************************)
Tick ==
  /\ now < MaxTime
  /\ now' = now + 1
  /\ UNCHANGED <<entries, fresh, command, polls, options, ceremonies,
                 finishing, queue, view, other, issued, spent>>

\* The writer task writes the oldest event to stdout; the desktop reads it.
Deliver ==
  /\ queue # <<>>
  /\ queue' = Tail(queue)
  /\ view' = IF Head(queue) = None THEN view
             ELSE [view EXCEPT ![Head(queue).pairing] = Append(@, Head(queue).kind)]
  /\ UNCHANGED <<now, entries, fresh, command, polls, options, ceremonies,
                 finishing, other, issued, spent>>

OtherEvent ==
  /\ Room
  /\ other < MaxOther
  /\ other' = other + 1
  /\ queue' = Append(queue, None)
  /\ UNCHANGED <<now, entries, fresh, command, polls, options, ceremonies,
                 finishing, view, issued, spent>>

(***************************************************************************)
(* Pairings::maintenance.  The table's order is arbitrary, so when the     *)
(* queue cannot take every outstanding notification any of them get in.    *)
(***************************************************************************)
Expired(p) == IF entries[p] = Absent THEN Absent ELSE Expire(entries[p])

Due == {p \in Records : Expired(p).notification}

TellOrders ==
  LET free == QUEUE - Len(queue)
      n == IF Cardinality(Due) < free THEN Cardinality(Due) ELSE free
  IN  {t \in [1 .. n -> Due] : \A i, j \in 1 .. n : t[i] = t[j] => i = j}

\* Mutant: maintenance only expires, and never retries a notification.
MaintainWithoutRetry ==
  /\ entries' = [p \in Pairings |-> Expired(p)]
  /\ UNCHANGED queue

MaintainEntries ==
  \E told \in TellOrders :
    /\ queue' = queue \o [i \in DOMAIN told |-> Outcome(told[i], Expired(told[i]))]
    /\ entries' = [p \in Pairings |->
                     IF \E i \in DOMAIN told : told[i] = p
                       THEN [Expired(p) EXCEPT !.notification = FALSE]
                       ELSE Expired(p)]

\* Ceremonies::purge.
Purged ==
  [p \in Pairings |->
     IF ceremonies[p] # None /\ now >= ceremonies[p].deadline
       THEN None ELSE ceremonies[p]]

Maintenance ==
  /\ MaintainEntries
  /\ ceremonies' = Purged
  /\ UNCHANGED <<now, fresh, command, polls, options, finishing, view, other,
                 issued, spent>>

(***************************************************************************)
(* Pairings::command: maintenance in a critical section of its own, then   *)
(* the command itself.  The admin loop handles one command at a time.      *)
(***************************************************************************)
CommandBegin(c) ==
  /\ command = None
  /\ command' = c
  /\ MaintainEntries
  /\ UNCHANGED <<now, fresh, polls, options, ceremonies, finishing, view,
                 other, issued, spent>>

CommandEnd ==
  /\ command' = None
  /\ UNCHANGED <<now, polls, options, ceremonies, finishing, view, other,
                 issued, spent>>

LiveCount == Cardinality({p \in Records : Live(entries[p])})

\* Mutant: a record is evicted although the desktop was not told its outcome.
EvictableUntold == {p \in Records : ~Live(entries[p])}

Evictable ==
  {p \in Records : ~Live(entries[p]) /\ ~entries[p].notification}

Oldest(S) == {p \in S : \A q \in S : entries[p].until <= entries[q].until}

NewEntry ==
  [state |-> "Pending", claimed |-> FALSE, secret |-> TRUE, failures |-> 0,
   until |-> now + TTL, changed |-> FALSE, ticket |-> None,
   registration |-> None, notification |-> FALSE]

\* Mutant: off by one in the limit on records.
SpacedLate ==
  IF Cardinality(Records) > MAX_RECORDS
    THEN {[entries EXCEPT ![p] = Absent] : p \in Oldest(Evictable)}
    ELSE {entries}

\* The records once Create has made space: one of the oldest evictable records
\* is dropped when the table is full.  No such record: the command is refused.
Spaced ==
  IF Cardinality(Records) >= MAX_RECORDS
    THEN {[entries EXCEPT ![p] = Absent] : p \in Oldest(Evictable)}
    ELSE {entries}

\* The eviction is not undone when the queue then refuses the event.
Create(p) ==
  /\ command.op = "Create"
  /\ p \in fresh
  /\ LiveCount < MAX_LIVE
  /\ \E table \in Spaced :
       \/ /\ Room
          /\ queue' = Append(queue, Event(p, "created"))
          /\ entries' = [table EXCEPT ![p] = NewEntry]
          /\ fresh' = fresh \ {p}
       \/ /\ ~Room
          /\ entries' = table
          /\ UNCHANGED <<queue, fresh>>
  /\ CommandEnd

\* Bound: a model with no id left refuses every Create.
CreateRefused ==
  /\ command.op = "Create"
  /\ fresh = {} \/ LiveCount >= MAX_LIVE \/ Spaced = {}
  /\ UNCHANGED <<entries, queue, fresh>>
  /\ CommandEnd

Decision(e, op) ==
  IF op = "Approve"
    THEN Transition([e EXCEPT !.until = now + REGISTRATION_WINDOW], "Approved")
    ELSE [Transition(e, "Rejected") EXCEPT !.notification = TRUE]

Decidable(e, op) ==
  /\ Live(e)
  /\ op = "Approve" => e.state = "Pending" /\ e.claimed

\* Pairings::decide.
Decide(p) ==
  LET e == Expired(p)
  IN  /\ command.op \in Ops
      /\ command.pairing = p
      /\ \/ /\ p \notin Records \/ ~Decidable(e, command.op)
            /\ Set(p, e)
         \/ /\ p \in Records /\ Decidable(e, command.op) /\ command.op = "Approve"
            /\ \/ SetAnnounced(p, Decision(e, "Approve"), "approved")
               \/ ~Room /\ Set(p, e)
         \/ /\ p \in Records /\ Decidable(e, command.op) /\ command.op # "Approve"
            /\ SetAndNotify(p, Decision(e, command.op))
      /\ UNCHANGED fresh
      /\ CommandEnd

(***************************************************************************)
(* Pairings::claim, with the right secret or a wrong one.                  *)
(***************************************************************************)
Claim(p, rightSecret) ==
  LET e == Expired(p)
  IN  /\ p \in Records
      /\ \/ ~Live(e) /\ SetAndNotify(p, e)
         \/ Live(e) /\ e.claimed /\ SetAndNotify(p, Fail(e, TRUE))
         \/ /\ Live(e) /\ ~e.claimed /\ ~rightSecret
            /\ SetAndNotify(p, Fail(e, FALSE))
         \/ /\ Live(e) /\ ~e.claimed /\ rightSecret /\ e.secret
            /\ SetAnnounced(p, [e EXCEPT !.claimed = TRUE, !.secret = FALSE], "claimed")
      /\ UNCHANGED <<now, fresh, command, polls, options, ceremonies,
                     finishing, view, other, issued, spent>>

(***************************************************************************)
(* Pairings::status: authenticate and subscribe; recheck; wait; answer.    *)
(***************************************************************************)
\* Any token is wrong while the pairing is unclaimed.
StatusRefused(p) ==
  LET e == Expired(p)
  IN  /\ p \in Records
      /\ IF Live(e) THEN SetAndNotify(p, Fail(e, FALSE)) ELSE Set(p, e)
      /\ UNCHANGED <<now, fresh, command, polls, options, ceremonies,
                     finishing, view, other, issued, spent>>

ActivePolls == {p \in Pairings : polls[p] # "none"}

StatusEnter(p) ==
  /\ p \in Records
  /\ entries[p].claimed
  /\ polls[p] = "none"
  /\ Cardinality(ActivePolls) < MAX_POLLS
  /\ issued[p] < MaxTickets
  /\ Set(p, [Expired(p) EXCEPT !.changed = FALSE])
  /\ polls' = [polls EXCEPT ![p] = "entered"]
  /\ UNCHANGED <<now, fresh, command, options, ceremonies, finishing, view,
                 other, issued, spent>>

IsPending(p) == p \in Records /\ entries[p].state = "Pending"

\* Mutant: wait without rechecking the state the subscription started from.
StatusWaitAlways(p) ==
  /\ polls[p] = "entered"
  /\ polls' = [polls EXCEPT ![p] = "waiting"]
  /\ UNCHANGED <<now, entries, fresh, command, options, ceremonies, finishing,
                 queue, view, other, issued, spent>>

StatusRecheck(p) ==
  /\ polls[p] = "entered"
  /\ polls' = [polls EXCEPT ![p] = IF IsPending(p) THEN "waiting" ELSE "ready"]
  /\ UNCHANGED <<now, entries, fresh, command, options, ceremonies, finishing,
                 queue, view, other, issued, spent>>

\* The change is seen, or the dropped record closed the channel.
StatusWake(p) ==
  /\ polls[p] = "waiting"
  /\ p \in Records => entries[p].changed
  /\ polls' = [polls EXCEPT ![p] = "ready"]
  /\ UNCHANGED <<now, entries, fresh, command, options, ceremonies, finishing,
                 queue, view, other, issued, spent>>

\* The offer's deadline, or the 25 seconds of a poll.
StatusTimer(p) ==
  /\ polls[p] = "waiting"
  /\ polls' = [polls EXCEPT ![p] = "ready"]
  /\ UNCHANGED <<now, entries, fresh, command, options, ceremonies, finishing,
                 queue, view, other, issued, spent>>

Earlier(a, b) == IF a < b THEN a ELSE b

Ticketed(e, p) ==
  [e EXCEPT !.ticket = [serial |-> issued[p] + 1,
                        until |-> Earlier(now + TICKET_TTL, e.until)]]

StatusAnswer(p) ==
  LET e == Expired(p)
  IN  /\ polls[p] = "ready"
      /\ polls' = [polls EXCEPT ![p] = "none"]
      /\ \/ /\ p \notin Records
            /\ UNCHANGED <<entries, queue, issued>>
         \/ /\ p \in Records /\ e.state # "Approved"
            /\ SetAndNotify(p, e)
            /\ UNCHANGED issued
         \/ /\ p \in Records /\ e.state = "Approved"
            /\ Set(p, Ticketed(e, p))
            /\ issued' = [issued EXCEPT ![p] = @ + 1]
      /\ UNCHANGED <<now, fresh, command, options, ceremonies, finishing, view,
                     other, spent>>

(***************************************************************************)
(* Gateway::registration_options: consume the ticket, then publish a       *)
(* challenge, or hand the approval back.                                   *)
(***************************************************************************)
TicketValid(e, serial) ==
  /\ e.ticket # None
  /\ e.ticket.serial = serial
  /\ now < e.ticket.until
  /\ e.state = "Approved"

Started(e, p) ==
  [pairing |-> p, started |-> now, deadline |-> Earlier(now + TICKET_TTL, e.until)]

ConsumeTicket(p, serial) ==
  LET e == Expired(p)
  IN  /\ p \in Records
      /\ TicketValid(e, serial)
      /\ Set(p, Transition([e EXCEPT !.registration = Started(e, p)], "Registering"))
      /\ options' = options \cup {Started(e, p)}
      /\ spent' = [spent EXCEPT ![p] = serial]
      /\ UNCHANGED <<now, fresh, command, polls, ceremonies, finishing, view,
                     other, issued>>

OpenCeremonies == {p \in Pairings : Purged[p] # None}

OptionsPublish(r) ==
  /\ r \in options
  /\ Cardinality(OpenCeremonies) < REGISTRATION_LIMIT
  /\ r.pairing \notin OpenCeremonies
  /\ ceremonies' = [Purged EXCEPT ![r.pairing] = r]
  /\ options' = options \ {r}
  /\ UNCHANGED <<now, entries, fresh, command, polls, finishing, queue, view,
                 other, issued, spent>>

\* Mutant: the approval is handed back whatever became of the pairing.
OptionsRefusedBlindly(r) ==
  LET p == r.pairing
  IN  /\ r \in options
      /\ options' = options \ {r}
      /\ p \in Records
      /\ Set(p, Transition(Expired(p), "Approved"))
      /\ UNCHANGED <<now, fresh, command, polls, ceremonies, finishing, view,
                     other, issued, spent>>

\* Mutant: the retry opens a new approval window.
OptionsRefusedRenews(r) ==
  LET p == r.pairing
      e == Expired(p)
  IN  /\ r \in options
      /\ options' = options \ {r}
      /\ IF e.state = "Registering" /\ e.registration = r
           THEN Set(p, Transition([e EXCEPT !.until = now + REGISTRATION_WINDOW], "Approved"))
           ELSE Set(p, e)
      /\ UNCHANGED <<now, fresh, command, polls, ceremonies, finishing, view,
                     other, issued, spent>>

\* The device to add to is gone, the options cannot be built, or the pool of
\* ceremonies is full: Pairings::retry_registration.
OptionsRefused(r) ==
  LET p == r.pairing
      e == Expired(p)
  IN  /\ r \in options
      /\ options' = options \ {r}
      /\ IF e.state = "Registering" /\ e.registration = r
           THEN Set(p, Transition(e, "Approved"))
           ELSE Set(p, e)
      /\ UNCHANGED <<now, fresh, command, polls, ceremonies, finishing, view,
                     other, issued, spent>>

(***************************************************************************)
(* Gateway::registration_finish: take the ceremony, verify without a lock, *)
(* then Pairings::finish with the identity commit inside it.               *)
(***************************************************************************)
\* Mutant: a verification leaves the challenge in the table.
TakeCeremonyKeeps(p) ==
  /\ Purged[p] # None
  /\ finishing' = finishing \cup {Purged[p]}
  /\ ceremonies' = Purged
  /\ UNCHANGED <<now, entries, fresh, command, polls, options, queue, view,
                 other, issued, spent>>

TakeCeremony(p) ==
  /\ Purged[p] # None
  /\ finishing' = finishing \cup {Purged[p]}
  /\ ceremonies' = [Purged EXCEPT ![p] = None]
  /\ UNCHANGED <<now, entries, fresh, command, polls, options, queue, view,
                 other, issued, spent>>

VerifyFailed(r) ==
  /\ r \in finishing
  /\ finishing' = finishing \ {r}
  /\ UNCHANGED <<now, entries, fresh, command, polls, options, ceremonies,
                 queue, view, other, issued, spent>>

Finishable(e, r) == e.state = "Registering" /\ e.registration = r

\* Mutant: the deadline is not rechecked after the verification.
FinishUnchecked(r) ==
  LET p == r.pairing
      e == entries[p]
  IN  /\ r \in finishing
      /\ finishing' = finishing \ {r}
      /\ \/ /\ p \in Records /\ Finishable(e, r)
            /\ SetAnnounced(p, Transition(e, "Registered"), "device")
         \/ Set(p, e)
      /\ UNCHANGED <<now, fresh, command, polls, options, ceremonies, view,
                     other, issued, spent>>

\* The identity commit announces the device before anything changes; when it
\* is refused the pairing stays Registering until its deadline.
Finish(r) ==
  LET p == r.pairing
      e == Expired(p)
  IN  /\ r \in finishing
      /\ finishing' = finishing \ {r}
      /\ \/ /\ p \in Records /\ Finishable(e, r)
            /\ SetAnnounced(p, Transition(e, "Registered"), "device")
         \/ Set(p, e)
      /\ UNCHANGED <<now, fresh, command, polls, options, ceremonies, view,
                     other, issued, spent>>

(***************************************************************************)
(* The specification.                                                      *)
(***************************************************************************)
Next ==
  \/ Tick
  \/ Deliver
  \/ OtherEvent
  \/ Maintenance
  \/ \E c \in Commands : CommandBegin(c)
  \/ command # None /\ (CreateRefused \/ \E p \in Pairings : Create(p) \/ Decide(p))
  \/ \E p \in Pairings :
       \/ \E right \in BOOLEAN : Claim(p, right)
       \/ StatusRefused(p)
       \/ StatusEnter(p)
       \/ StatusRecheck(p)
       \/ StatusWake(p)
       \/ StatusTimer(p)
       \/ StatusAnswer(p)
       \/ \E serial \in 1 .. MaxTickets : ConsumeTicket(p, serial)
       \/ TakeCeremony(p)
  \/ \E r \in options : OptionsPublish(r) \/ OptionsRefused(r)
  \/ \E r \in finishing : VerifyFailed(r) \/ Finish(r)

Spec == Init /\ [][Next]_vars
\* Fairness: the writer task drains the queue, the server runs maintenance
\* every second, the admin loop finishes the command it took, time passes.
Fairness ==
  /\ WF_vars(Tick)
  /\ WF_vars(Deliver)
  /\ WF_vars(Maintenance)
  /\ WF_vars(command # None /\ (CreateRefused \/ \E p \in Pairings : Create(p) \/ Decide(p)))

FairSpec == Spec /\ Fairness

(***************************************************************************)
(* Properties.                                                             *)
(***************************************************************************)

\* Every variable has its type.
TypeOK ==
  /\ now \in 0 .. MaxTime
  /\ entries \in [Pairings -> Entries \cup {Absent}]
  /\ fresh \in SUBSET Pairings
  /\ command \in Commands \cup {None}
  /\ polls \in [Pairings -> {"none", "entered", "waiting", "ready"}]
  /\ options \in SUBSET Registrations
  /\ ceremonies \in [Pairings -> Registrations \cup {None}]
  /\ finishing \in SUBSET Registrations
  /\ queue \in Seq(Events)
  /\ view \in [Pairings -> Seq(Kinds)]
  /\ other \in 0 .. MaxOther
  /\ issued \in [Pairings -> 0 .. MaxTickets]
  /\ spent \in [Pairings -> 0 .. MaxTickets]

\* The fields of a record agree with its state: the secret is dropped at the
\* first claim, a ticket is held only while Approved, a registration exactly
\* while Registering, nothing past Pending is unclaimed, no live record owes
\* the desktop an outcome, and neither ticket nor registration outlives the
\* window of the approval it came from.
Shaped(e) ==
  /\ e.secret => e.state = "Pending" /\ ~e.claimed
  /\ e.ticket # None => e.state = "Approved"
  /\ e.registration # None <=> e.state = "Registering"
  /\ e.state \in {"Approved", "Registering", "Registered"} => e.claimed
  /\ e.notification => e.state \in {"Rejected", "Expired"}
  /\ e.ticket # None => e.ticket.until <= e.until
  /\ e.registration # None => e.registration.deadline <= e.until

\* Every record is Shaped, whatever handlers ran in between (pairing.rs:
\* transition, claim, expire).
StateShape == \A p \in Records : Shaped(entries[p])

\* A record that has used up its attempts is dead, whoever spent them: wrong
\* secrets, wrong poll tokens, before or after the claim (pairing.rs: fail).
AttemptsLimited ==
  \A p \in Records : Live(entries[p]) => entries[p].failures < FAILURE_LIMIT

\* A parked poll never sleeps through a decision: while it waits with nothing
\* to wake it, its pairing is still Pending (pairing.rs: status, "Subscribe
\* under the same lock as decisions; recheck before waiting").
NoLostWakeup ==
  \A p \in Pairings :
    polls[p] = "waiting" =>
      \/ p \notin Records
      \/ entries[p].changed
      \/ entries[p].state = "Pending"

\* The events of p that are still queued, by their place.
Queued(p) == {i \in DOMAIN queue : queue[i] # None /\ queue[i].pairing = p}

\* What the desktop has read of p, followed by what is queued for it, is story:
\* at[k] is the place in the queue of the k-th event.
Tells(p, story) ==
  LET read == Len(view[p])
  IN  /\ read <= Len(story)
      /\ \A k \in 1 .. read : view[p][k] = story[k]
      /\ \E at \in [read + 1 .. Len(story) -> Queued(p)] :
           /\ \A i \in Queued(p) : \E k \in DOMAIN at : at[k] = i
           /\ \A k, l \in DOMAIN at : k < l => at[k] < at[l]
           /\ \A k \in DOMAIN at : queue[at[k]].kind = story[k]

TellsOne(p, stories) == \E story \in stories : Tells(p, story)

Progress == {<<"created">>, <<"created", "claimed">>, <<"created", "claimed", "approved">>}
Closed == {Append(s, k) : s \in Progress, k \in {"rejected", "expired"}}
Completed == {<<"created", "claimed", "approved", "device">>}

\* The desktop's record of every pairing is complete and in order: no widening
\* is in force that was not queued first, an outcome is queued exactly once
\* and last, and a record is not evicted before its outcome is queued
\* (http.rs try_emit_event: "Call before committing widening operations only.
\* Tightening commits first and defers notifications").
DesktopTold ==
  \A p \in Pairings :
    LET e == entries[p]
    IN  IF e = Absent
          THEN IF p \in fresh THEN Tells(p, <<>>) ELSE TellsOne(p, Closed \cup Completed)
          ELSE /\ e.state = "Pending" =>
                    Tells(p, IF e.claimed THEN <<"created", "claimed">> ELSE <<"created">>)
               /\ e.state \in {"Approved", "Registering"} =>
                    Tells(p, <<"created", "claimed", "approved">>)
               /\ e.state = "Registered" => TellsOne(p, Completed)
               /\ e.state \in {"Rejected", "Expired"} =>
                    TellsOne(p, IF e.notification THEN Progress ELSE Closed)

\* Places where registration r is still in flight.
InFlight(r) ==
  {s \in {"options", "ceremony", "finishing"} :
     \/ s = "options" /\ r \in options
     \/ s = "ceremony" /\ ceremonies[r.pairing] = r
     \/ s = "finishing" /\ r \in finishing}

\* The registration a pairing waits for is in flight in at most one handler:
\* one challenge per approval, answered once (webauthn.rs take_registration,
\* pairing.rs consume_ticket and retry_registration).
OneRegistrationInFlight ==
  \A p \in Records :
    entries[p].registration # None =>
      Cardinality(InFlight(entries[p].registration)) <= 1

\* The table respects its two limits (pairing.rs: command, Create).
TableBounded ==
  /\ LiveCount <= MAX_LIVE
  /\ Cardinality(Records) <= MAX_RECORDS

\* No sequence of creations, evictions and failed attempts passes a limit.
LimitsHold == TableBounded /\ AttemptsLimited

\* A pairing that was rejected, expired or completed stays so until its record
\* is dropped, whatever handler was in flight when that happened (pairing.rs
\* retry_registration: "never resurrect cancelled/expired/completed pairings").
EndedIsFinal ==
  [][\A p \in Records :
       ~Live(entries[p]) => entries'[p] = Absent \/ entries'[p].state = entries[p].state]_vars

\* A device is only registered through the registration the desktop's approval
\* opened, before that registration's deadline and inside the approval window.
RegisteredInWindow ==
  [][\A p \in Records :
       entries[p].state # "Registered" /\ entries'[p] # Absent
         /\ entries'[p].state = "Registered"
       => /\ entries[p].state = "Registering"
          /\ entries[p].registration \in finishing
          /\ now < entries[p].registration.deadline
          /\ entries[p].registration.deadline <= entries[p].until]_vars

\* A registration is opened only with the latest ticket issued, and no ticket
\* opens two (pairing.rs: "Only one current ticket exists; each approved
\* status rotates it atomically").
TicketSpentOnce ==
  [][\A p \in Records :
       entries[p].state # "Registering" /\ entries'[p] # Absent
         /\ entries'[p].state = "Registering"
       => spent'[p] = issued[p] /\ spent'[p] > spent[p]]_vars

\* Every pairing ends: no sequence of claims, polls, tickets and retries keeps
\* one alive past the window of its one approval.  (Bound: the clock must be
\* able to reach the end of that window.)
EveryPairingEnds ==
  \A p \in Pairings :
    (entries[p] # Absent /\ Live(entries[p]) /\ entries[p].until + REGISTRATION_WINDOW <= MaxTime)
      ~> (entries[p] = Absent \/ ~Live(entries[p]))

\* Every rejection and expiry reaches the desktop, even when the queue was
\* full when it happened.
OutcomeDelivered ==
  \A p \in Pairings :
    (entries[p] # Absent /\ entries[p].state \in {"Rejected", "Expired"})
      ~> (view[p] \in Closed)
=============================================================================
