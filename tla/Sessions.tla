------------------------------ MODULE Sessions ------------------------------
(***************************************************************************)
(* Sessions, elevations and connected peers of the gateway                 *)
(* (companion/src/session.rs), and the login and elevation ceremonies that *)
(* create and raise them (companion/src/gateway_auth.rs, webauthn.rs).     *)
(*                                                                         *)
(* Everything under the identity lock is one action.  A ceremony is taken  *)
(* under its own lock first (`taken`), so a revocation, a lock-out, a      *)
(* logout or time can come between the two.                                *)
(*                                                                         *)
(* Session ids are random, challenges are fresh: both are numbered here in *)
(* the order they are issued.  Credentials, bindings and the one relying   *)
(* party of a gateway are abstracted to the verdict of the verification.   *)
(* An optional instant that is absent is 0.                                *)
(***************************************************************************)
EXTENDS Integers, FiniteSets

CONSTANTS
  Devices,
  Untils,               \* the instants a control grant may end
  FULL_ENABLED,         \* policy.full_session_enabled
  ENABLE_UNTIL,         \* policy.enable_until
  VIEW_IDLE,            \* policy.view_idle_min
  VIEW_ABSOLUTE,        \* policy.view_absolute_hours
  ELEVATION_MAX,        \* policy.elevation_max_min
  FULL_MAX,             \* longest full elevation (900 s)
  CEREMONY_TTL,         \* life of a challenge (120 s)
  SESSIONS_PER_DEVICE,  \* 4
  MAX_DEVICES,          \* policy.max_devices
  LOGIN_LIMIT,          \* login challenges kept (48)
  FAILURE_LIMIT,        \* failed verifications that lock a device (5)
  PEERS_PER_DEVICE,     \* 2
  MAX_PEERS,
  MaxTime, MaxSessions, MaxChallenges, MaxPeers    \* bounds

ASSUME DevicesFinite == IsFiniteSet(Devices)
ASSUME UntilsPositive == Untils \subseteq Nat \ {0}
ASSUME FullBoolean == FULL_ENABLED \in BOOLEAN
ASSUME PolicyPositive ==
  /\ ENABLE_UNTIL \in Nat \ {0}
  /\ VIEW_IDLE \in Nat \ {0}
  /\ VIEW_ABSOLUTE \in Nat \ {0}
  /\ ELEVATION_MAX \in Nat \ {0}
  /\ FULL_MAX \in Nat \ {0}
  /\ CEREMONY_TTL \in Nat \ {0}
ASSUME LimitsPositive ==
  /\ SESSIONS_PER_DEVICE \in Nat \ {0}
  /\ MAX_DEVICES \in Nat \ {0}
  /\ LOGIN_LIMIT \in Nat \ {0}
  /\ FAILURE_LIMIT \in Nat \ {0}
  /\ PEERS_PER_DEVICE \in Nat \ {0}
  /\ MAX_PEERS \in Nat \ {0}
ASSUME BoundsNatural ==
  MaxTime \in Nat /\ MaxSessions \in Nat /\ MaxChallenges \in Nat /\ MaxPeers \in Nat

VARIABLES
  now,         \* the clock
  device,      \* Devices -> Device, Unpaired or, once revoked, None
  failures,    \* Devices -> failed verifications in a row
  session,     \* session ids -> Session or None
  issued,      \* sessions issued so far
  peer,        \* peer ids -> Peer or None
  next_peer,   \* peers registered so far
  logins,      \* login challenges, in the order of their numbers (login_order)
  elevations,  \* elevation challenges
  taken,       \* challenges taken by a finish request that has yet to verify
  challenges   \* challenges issued so far

identity == <<device, failures, session, issued, peer, next_peer>>
ceremonies == <<logins, elevations, taken, challenges>>
vars == <<now, identity, ceremonies>>

None == [kind |-> "none"]
Unpaired == [kind |-> "unpaired"]
SessionIds == 1 .. MaxSessions
PeerIds == 1 .. MaxPeers
Challenges == 1 .. MaxChallenges
Scopes == {"control", "full"}
Verdicts == {"ok", "invalid", "policy", "rollback"}

Grants == [control : Untils \cup {0}, full : BOOLEAN]
Device == [grants : Grants, locked : BOOLEAN]
NewDevice == [grants |-> [control |-> 0, full |-> FALSE], locked |-> FALSE]
Session ==
  [d : Devices, created_at : Nat, last_seen : Nat,
   control_until : Nat, control_at : Nat, full_until : Nat, full_at : Nat]
Peer == [s : SessionIds, d : Devices, invalidated : BOOLEAN]
Login == [c : Challenges, until : Nat]
Elevation == [c : Challenges, s : SessionIds, scope : Scopes, until : Nat]
Taken ==
  [c : Challenges, kind : {"login"}]
    \cup [c : Challenges, kind : {"elevation"}, s : SessionIds, scope : Scopes]

NewSession(d) ==
  [d |-> d, created_at |-> now, last_seen |-> now,
   control_until |-> 0, control_at |-> 0, full_until |-> 0, full_at |-> 0]

Min2(a, b) == IF a < b THEN a ELSE b

(***************************************************************************)
(* The tables.                                                             *)
(***************************************************************************)
Live == {s \in SessionIds : session[s] # None}
SessionsOf(d) == {s \in Live : session[s].d = d}
PeersOf(d) == {p \in PeerIds : peer[p] # None /\ peer[p].d = d}
Connected == {p \in PeerIds : peer[p] # None}
Known == {d \in Devices : device[d] \notin {None, Unpaired}}
Usable(d) == d \in Known /\ ~device[d].locked

\* The limit for sessions, and for elevation challenges.
SESSION_LIMIT == MAX_DEVICES * SESSIONS_PER_DEVICE

\* Identity::active.
Active(s) ==
  /\ session[s] # None
  /\ now < ENABLE_UNTIL
  /\ now < session[s].created_at + VIEW_ABSOLUTE
  /\ now < session[s].last_seen + VIEW_IDLE
  /\ Usable(session[s].d)

Inactive == {s \in Live : ~Active(s)}

\* Identity::invalidate_session, of each of S: the sessions and the peers left.
Without(S) == [s \in SessionIds |-> IF s \in S THEN None ELSE session[s]]

\* Mutant: the sockets are not told.
HungUpNone(S) == peer

HungUp(S) ==
  [p \in PeerIds |->
     IF peer[p] # None /\ peer[p].s \in S
       THEN [peer[p] EXCEPT !.invalidated = TRUE]
       ELSE peer[p]]

Invalidate(S) == session' = Without(S) /\ peer' = HungUp(S)

\* Identity::validate refreshes the session.
Seen(s) == [session EXCEPT ![s].last_seen = now]

\* Identity::can_elevate, and what validate asks of the device.
Granted(d, scope) ==
  /\ Usable(d)
  /\ CASE scope = "control" -> now < device[d].grants.control
       [] scope = "full" -> FULL_ENABLED /\ device[d].grants.full

Elevated(s, scope) ==
  CASE scope = "control" -> now < session[s].control_until
    [] scope = "full" -> now < session[s].full_until

Init ==
  /\ now = 0
  /\ device \in [Devices -> Device \cup {Unpaired}]
  /\ Cardinality(Known) <= MAX_DEVICES
  /\ failures = [d \in Devices |-> 0]
  /\ session = [s \in SessionIds |-> None]
  /\ issued = 0
  /\ peer = [p \in PeerIds |-> None]
  /\ next_peer = 0
  /\ logins = {}
  /\ elevations = {}
  /\ taken = {}
  /\ challenges = 0

Tick ==
  /\ now < MaxTime
  /\ now' = now + 1
  /\ UNCHANGED <<identity, ceremonies>>

(***************************************************************************)
(* Requests of an authenticated phone (Gateway::with_authorized).          *)
(***************************************************************************)
\* Identity::validate of a session that is over: what every request with it
\* comes to.
Lapse(s) ==
  /\ session[s] # None
  /\ ~Active(s)
  /\ Invalidate({s})
  /\ UNCHANGED <<now, device, failures, issued, next_peer, ceremonies>>

\* A request that needs no more than View, or is refused its scope.
View(s) ==
  /\ Active(s)
  /\ session' = Seen(s)
  /\ UNCHANGED <<now, device, failures, issued, peer, next_peer, ceremonies>>

\* A write under the identity lock.
Authorize(s, scope) ==
  /\ Active(s)
  /\ Granted(session[s].d, scope)
  /\ Elevated(s, scope)
  /\ session' = Seen(s)
  /\ UNCHANGED <<now, device, failures, issued, peer, next_peer, ceremonies>>

\* Gateway::logout.
Logout(s) ==
  /\ Active(s)
  /\ Invalidate({s})
  /\ UNCHANGED <<now, device, failures, issued, next_peer, ceremonies>>

\* Mutant: only the peers of the device are counted.
RegisterPeerOfDevice(s) ==
  /\ Active(s)
  /\ Cardinality(PeersOf(session[s].d)) < PEERS_PER_DEVICE
  /\ next_peer < MaxPeers
  /\ next_peer' = next_peer + 1
  /\ peer' = [peer EXCEPT ![next_peer + 1] =
                [s |-> s, d |-> session[s].d, invalidated |-> FALSE]]
  /\ session' = Seen(s)
  /\ UNCHANGED <<now, device, failures, issued, ceremonies>>

\* Identity::register_peer, in the closure of with_authorized.
RegisterPeer(s) ==
  /\ Active(s)
  /\ Cardinality(Connected) < MAX_PEERS
  /\ Cardinality(PeersOf(session[s].d)) < PEERS_PER_DEVICE
  /\ next_peer < MaxPeers
  /\ next_peer' = next_peer + 1
  /\ peer' = [peer EXCEPT ![next_peer + 1] =
                [s |-> s, d |-> session[s].d, invalidated |-> FALSE]]
  /\ session' = Seen(s)
  /\ UNCHANGED <<now, device, failures, issued, ceremonies>>

\* Identity::unregister_peer: the socket is closed, by either side.
UnregisterPeer(p) ==
  /\ peer[p] # None
  /\ peer' = [peer EXCEPT ![p] = None]
  /\ UNCHANGED <<now, device, failures, session, issued, next_peer, ceremonies>>

(***************************************************************************)
(* The desktop's commands (Gateway::command, Identity::command) and a new  *)
(* device or a further passkey (Identity::register_verified); each ends    *)
(* the device's sessions.  What the event queue refuses changes nothing    *)
(* here: DeviceSync has that part.                                         *)
(***************************************************************************)
Tightens(old, new) == new.control < old.control \/ (old.full /\ ~new.full)
Widens(old, new) == new.control > old.control \/ (new.full /\ ~old.full)

\* Mutant: a change of grants keeps the sessions.
UpdateKeepsSessions(d, grants) ==
  /\ d \in Known
  /\ now < ENABLE_UNTIL
  /\ ~(Tightens(device[d].grants, grants) /\ Widens(device[d].grants, grants))
  /\ device' = [device EXCEPT ![d].grants = grants]
  /\ UNCHANGED <<now, failures, session, issued, peer, next_peer, ceremonies>>

Update(d, grants) ==
  /\ d \in Known
  /\ now < ENABLE_UNTIL
  /\ ~(Tightens(device[d].grants, grants) /\ Widens(device[d].grants, grants))
  /\ device' = [device EXCEPT ![d].grants = grants]
  /\ Invalidate(SessionsOf(d))
  /\ UNCHANGED <<now, failures, issued, next_peer, ceremonies>>

Unlock(d) ==
  /\ d \in Known
  /\ now < ENABLE_UNTIL
  /\ device' = [device EXCEPT ![d].locked = FALSE]
  /\ failures' = [failures EXCEPT ![d] = 0]
  /\ Invalidate(SessionsOf(d))
  /\ UNCHANGED <<now, issued, next_peer, ceremonies>>

Revoke(d) ==
  /\ d \in Known
  /\ now < ENABLE_UNTIL
  /\ device' = [device EXCEPT ![d] = None]
  /\ failures' = [failures EXCEPT ![d] = 0]
  /\ Invalidate(SessionsOf(d))
  /\ UNCHANGED <<now, issued, next_peer, ceremonies>>

Register(d) ==
  /\ device[d] = Unpaired
  /\ Cardinality(Known) < MAX_DEVICES
  /\ now < ENABLE_UNTIL
  /\ device' = [device EXCEPT ![d] = NewDevice]
  /\ Invalidate(SessionsOf(d))
  /\ UNCHANGED <<now, failures, issued, next_peer, ceremonies>>

AddCredential(d) ==
  /\ Usable(d)
  /\ now < ENABLE_UNTIL
  /\ Invalidate(SessionsOf(d))
  /\ UNCHANGED <<now, device, failures, issued, next_peer, ceremonies>>

(***************************************************************************)
(* Ceremonies.                                                             *)
(***************************************************************************)
\* Ceremonies::purge.
FreshLogins == {l \in logins : now < l.until}
FreshElevations == {e \in elevations : now < e.until}
CeremonyEnd == Min2(now + CEREMONY_TTL, ENABLE_UNTIL)

\* Mutant: the oldest is kept when the pool is full.
AllFreshLogins == FreshLogins

\* Gateway::login_options and Ceremonies::insert: the oldest makes room.
KeptLogins ==
  IF Cardinality(FreshLogins) >= LOGIN_LIMIT
    THEN {l \in FreshLogins : \E k \in FreshLogins : k.c < l.c}
    ELSE FreshLogins

LoginOptions ==
  /\ challenges < MaxChallenges
  /\ challenges' = challenges + 1
  /\ logins' = KeptLogins \cup {[c |-> challenges + 1, until |-> CeremonyEnd]}
  /\ elevations' = FreshElevations
  /\ UNCHANGED <<now, identity, taken>>

\* Ceremonies::retain_sessions and insert: other sessions' challenges stay, as
\* far as those sessions do, and the session's own earlier one is replaced.
Others(s) == {e \in FreshElevations : e.s \in Live \ Inactive /\ e.s # s}

\* Gateway::elevation_options.
ElevationOptions(s, scope) ==
  /\ Active(s)
  /\ Granted(session[s].d, scope)
  /\ challenges < MaxChallenges
  /\ session' = [Without(Inactive) EXCEPT ![s].last_seen = now]
  /\ peer' = HungUp(Inactive)
  /\ logins' = FreshLogins
  /\ IF Cardinality(Others(s)) < SESSION_LIMIT
       THEN /\ challenges' = challenges + 1
            /\ elevations' = Others(s) \cup
                 {[c |-> challenges + 1, s |-> s, scope |-> scope, until |-> CeremonyEnd]}
       ELSE elevations' = Others(s) /\ UNCHANGED challenges
  /\ UNCHANGED <<now, device, failures, issued, next_peer, taken>>

\* Ceremonies::take_assertion: an unexpired challenge is consumed once, and by
\* nobody but the session and scope it was issued for.
TakeLogin(l) ==
  /\ l \in FreshLogins
  /\ logins' = FreshLogins \ {l}
  /\ elevations' = FreshElevations
  /\ taken' = taken \cup {[c |-> l.c, kind |-> "login"]}
  /\ UNCHANGED <<now, identity, challenges>>

\* Mutant: the challenge stays for another try.
TakeElevationKept(e) ==
  /\ e \in FreshElevations
  /\ elevations' = FreshElevations
  /\ logins' = FreshLogins
  /\ taken' = taken \cup {[c |-> e.c, kind |-> "elevation", s |-> e.s, scope |-> e.scope]}
  /\ UNCHANGED <<now, identity, challenges>>

TakeElevation(e) ==
  /\ e \in FreshElevations
  /\ elevations' = FreshElevations \ {e}
  /\ logins' = FreshLogins
  /\ taken' = taken \cup {[c |-> e.c, kind |-> "elevation", s |-> e.s, scope |-> e.scope]}
  /\ UNCHANGED <<now, identity, challenges>>

(***************************************************************************)
(* Identity::finish_assertion.                                             *)
(***************************************************************************)
\* Mutant: the lock-out leaves the device's sessions.
FailedKeepsSessions(d, rollback, seen) ==
  /\ failures' = [failures EXCEPT ![d] = failures[d] + 1]
  /\ IF rollback \/ failures[d] + 1 >= FAILURE_LIMIT
       THEN device' = [device EXCEPT ![d].locked = TRUE]
       ELSE UNCHANGED device
  /\ session' = seen
  /\ UNCHANGED <<issued, peer>>

\* Mutant: one failure too many is allowed.
FailedPastLimit(d, rollback, seen) ==
  /\ failures' = [failures EXCEPT ![d] = failures[d] + 1]
  /\ IF rollback \/ failures[d] + 1 > FAILURE_LIMIT
       THEN /\ device' = [device EXCEPT ![d].locked = TRUE]
            /\ Invalidate(SessionsOf(d))
       ELSE /\ session' = seen
            /\ UNCHANGED <<device, peer>>
  /\ UNCHANGED issued

\* Identity::assertion_failed with the sessions as `seen` leaves them.
Failed(d, rollback, seen) ==
  /\ failures' = [failures EXCEPT ![d] = failures[d] + 1]
  /\ IF rollback \/ failures[d] + 1 >= FAILURE_LIMIT
       THEN /\ device' = [device EXCEPT ![d].locked = TRUE]
            /\ Invalidate(SessionsOf(d))
       ELSE /\ session' = seen
            /\ UNCHANGED <<device, peer>>
  /\ UNCHANGED issued

Rejected ==
  UNCHANGED <<device, failures, session, issued, peer>>

\* Mutant: the newest goes.
Newest(S) == {s \in S : \A t \in S : session[s].created_at >= session[t].created_at}

\* Identity::issue_session, after purge_expired has dropped the inactive ones:
\* a device at its limit loses (one of) its oldest.
Oldest(S) == {s \in S : \A t \in S : session[s].created_at <= session[t].created_at}

\* Mutant: only a device beyond its limit loses one.
EvictedPastLimit(d) ==
  LET mine == SessionsOf(d) \ Inactive
  IN  IF Cardinality(mine) > SESSIONS_PER_DEVICE
        THEN {{s} : s \in Oldest(mine)}
        ELSE {{}}

Evicted(d) ==
  LET mine == SessionsOf(d) \ Inactive
  IN  IF Cardinality(mine) >= SESSIONS_PER_DEVICE
        THEN {{s} : s \in Oldest(mine)}
        ELSE {{}}

IssueSession(d) ==
  /\ failures' = [failures EXCEPT ![d] = 0]
  /\ UNCHANGED device
  /\ \/ /\ now >= ENABLE_UNTIL
        /\ Invalidate(Inactive)
        /\ UNCHANGED issued
     \/ /\ now < ENABLE_UNTIL
        /\ \E out \in Evicted(d) :
             LET over == Inactive \cup out
             IN  /\ peer' = HungUp(over)
                 /\ issued < MaxSessions
                 /\ IF Cardinality(Live \ over) < SESSION_LIMIT
                      THEN /\ issued' = issued + 1
                           /\ session' = [Without(over) EXCEPT ![issued + 1] = NewSession(d)]
                      ELSE session' = Without(over) /\ UNCHANGED issued

\* Gateway::login_finish with a credential of device d.
FinishLogin(t, d, verdict) ==
  /\ t \in taken /\ t.kind = "login"
  /\ taken' = taken \ {t}
  /\ \/ verdict = "invalid" /\ Rejected
     \/ verdict \in {"policy", "rollback"} /\ Usable(d) /\ Failed(d, verdict = "rollback", session)
     \/ verdict = "ok" /\ Usable(d) /\ IssueSession(d)
  /\ UNCHANGED <<now, next_peer, logins, elevations, challenges>>

\* Identity::elevate: the end of the elevation, after now since the session is
\* active and the scope granted.
ElevationEnd(s, scope) ==
  LET cap == IF scope = "control" THEN device[session[s].d].grants.control
                                  ELSE now + FULL_MAX
      end == Min2(now + ELEVATION_MAX, cap)
  IN  Min2(Min2(end, ENABLE_UNTIL), session[s].created_at + VIEW_ABSOLUTE)

Elevate(s, scope) ==
  /\ failures' = [failures EXCEPT ![session[s].d] = 0]
  /\ session' =
       CASE scope = "control" ->
              [session EXCEPT ![s].last_seen = now,
                              ![s].control_until = ElevationEnd(s, scope),
                              ![s].control_at = now]
         [] scope = "full" ->
              [session EXCEPT ![s].last_seen = now,
                              ![s].full_until = ElevationEnd(s, scope),
                              ![s].full_at = now]
  /\ UNCHANGED <<device, issued, peer>>

\* Gateway::elevation_finish: the session may be over, or its grant gone, by
\* the time the identity lock is taken.
FinishElevation(t, verdict) ==
  /\ t \in taken /\ t.kind = "elevation"
  /\ taken' = taken \ {t}
  /\ \/ /\ session[t.s] = None
        /\ Rejected
     \/ /\ session[t.s] # None /\ ~Active(t.s)
        /\ Invalidate({t.s})
        /\ UNCHANGED <<device, failures, issued>>
     \/ /\ Active(t.s)
        /\ ~Granted(session[t.s].d, t.scope) \/ verdict = "invalid"
        /\ session' = Seen(t.s)
        /\ UNCHANGED <<device, failures, issued, peer>>
     \/ /\ Active(t.s) /\ Granted(session[t.s].d, t.scope)
        /\ verdict \in {"policy", "rollback"}
        /\ Failed(session[t.s].d, verdict = "rollback", Seen(t.s))
     \/ /\ Active(t.s) /\ Granted(session[t.s].d, t.scope)
        /\ verdict = "ok"
        /\ Elevate(t.s, t.scope)
  /\ UNCHANGED <<now, next_peer, logins, elevations, challenges>>

\* Mutant: sessions end only when they are next used.
MaintenanceOfCeremonies ==
  /\ logins' = FreshLogins
  /\ elevations' = FreshElevations
  /\ UNCHANGED <<now, identity, taken, challenges>>

\* Gateway::maintenance: the ceremonies, then the sessions.
Maintenance ==
  /\ logins' = FreshLogins
  /\ elevations' = FreshElevations
  /\ Invalidate(Inactive)
  /\ UNCHANGED <<now, device, failures, issued, next_peer, taken, challenges>>

Next ==
  \/ Tick
  \/ Maintenance
  \/ \E s \in SessionIds :
       \/ Lapse(s)
       \/ View(s)
       \/ Logout(s)
       \/ RegisterPeer(s)
       \/ \E scope \in Scopes : Authorize(s, scope) \/ ElevationOptions(s, scope)
  \/ \E p \in PeerIds : UnregisterPeer(p)
  \/ \E d \in Devices :
       \/ \E grants \in Grants : Update(d, grants)
       \/ Unlock(d)
       \/ Revoke(d)
       \/ Register(d)
       \/ AddCredential(d)
       \/ \E t \in taken, verdict \in Verdicts : FinishLogin(t, d, verdict)
  \/ LoginOptions
  \/ \E l \in logins : TakeLogin(l)
  \/ \E e \in elevations : TakeElevation(e)
  \/ \E t \in taken, verdict \in Verdicts : FinishElevation(t, verdict)

Spec == Init /\ [][Next]_vars

\* Weak fairness of the maintenance interval and of the task that serves a
\* peer, which ends the socket when told its session is over.
HangUp(p) == peer[p] # None /\ peer[p].invalidated /\ UnregisterPeer(p)

FairSpec ==
  /\ Spec
  /\ WF_vars(Maintenance)
  /\ \A p \in PeerIds : WF_vars(HangUp(p))

(***************************************************************************)
(* Properties.                                                             *)
(***************************************************************************)

\* The tables under the identity lock.
IdentityTypes ==
  /\ now \in 0 .. MaxTime
  /\ device \in [Devices -> Device \cup {None, Unpaired}]
  /\ failures \in [Devices -> 0 .. FAILURE_LIMIT]
  /\ session \in [SessionIds -> Session \cup {None}]
  /\ issued \in 0 .. MaxSessions
  /\ peer \in [PeerIds -> Peer \cup {None}]
  /\ next_peer \in 0 .. MaxPeers

\* The challenges.
CeremonyTypes ==
  /\ logins \subseteq Login /\ Cardinality(logins) <= LOGIN_LIMIT
  /\ elevations \subseteq Elevation
  /\ taken \subseteq Taken
  /\ challenges \in 0 .. MaxChallenges

\* Every variable has its type.
TypeOK == IdentityTypes /\ CeremonyTypes

\* A session in the table belongs to a device that is paired and not locked:
\* no revocation or lock-out, not even one that comes while a ceremony of the
\* device is being verified, leaves a session behind (session.rs: "grant
\* updates/revocation cannot race validation").
NoOrphanSession == \A s \in Live : Usable(session[s].d)

\* An elevation ends with the grant it rests on, with the policy, with the
\* session and ELEVATION_MAX after the ceremony, whatever was changed or
\* repeated since (Identity::elevate, and command's invalidate_device).
ElevationCovered ==
  \A s \in Live :
    LET S == session[s]
    IN  /\ S.control_until # 0 =>
             /\ S.control_until <= device[S.d].grants.control
             /\ S.control_until <= ENABLE_UNTIL
             /\ S.control_until <= S.created_at + VIEW_ABSOLUTE
             /\ S.control_until <= S.control_at + ELEVATION_MAX
        /\ S.full_until # 0 =>
             /\ FULL_ENABLED /\ device[S.d].grants.full
             /\ S.full_until <= ENABLE_UNTIL
             /\ S.full_until <= S.created_at + VIEW_ABSOLUTE
             /\ S.full_until <= S.full_at + Min2(ELEVATION_MAX, FULL_MAX)

\* A connected peer that was not told to hang up has its session, and its
\* session is its device's: whatever ends a session tells every socket of it
\* (session.rs: "revoke cannot fall between them").
PeerBacked ==
  \A p \in Connected :
    ~peer[p].invalidated => peer[p].s \in Live /\ session[peer[p].s].d = peer[p].d

\* The limits on sessions and peers hold for each device and in all.
TablesBounded ==
  /\ \A d \in Devices :
       /\ Cardinality(SessionsOf(d)) <= SESSIONS_PER_DEVICE
       /\ Cardinality(PeersOf(d)) <= PEERS_PER_DEVICE
  /\ Cardinality(Connected) <= MAX_PEERS

\* The limits over all devices never refuse anybody: a session always finds
\* room for its challenge and a device for its session, since the pools have
\* SESSIONS_PER_DEVICE places for each of MAX_DEVICES devices and what outlived
\* its device or session is cleared first.
RoomForEveryDevice ==
  /\ \A s \in Live \ Inactive : Cardinality(Others(s)) < SESSION_LIMIT
  /\ \A d \in Devices : Usable(d) =>
       \A out \in Evicted(d) : Cardinality(Live \ (Inactive \cup out)) < SESSION_LIMIT

\* A device with FAILURE_LIMIT failed verifications since the last one that
\* succeeded, across the logins and elevations of all its sessions, is locked;
\* what unlocks or revokes it also forgets them.
LockedAtLimit ==
  \A d \in Devices : failures[d] >= FAILURE_LIMIT => d \in Known /\ device[d].locked

\* No sequence of logins, connections and failures passes a limit, and none of
\* the limits in all refuses a device that keeps its own.
LimitsExact == TablesBounded /\ LockedAtLimit /\ RoomForEveryDevice

\* A challenge is in one place only and a session has at most one: a finish
\* request that repeats it, or that answers one since replaced, finds nothing
\* (webauthn.rs: "Once correctly bound, verification failures still consume
\* single use").
ChallengeOnce ==
  LET loginIds == {l.c : l \in logins}
      elevationIds == {e.c : e \in elevations}
      takenIds == {t.c : t \in taken}
  IN  /\ loginIds \cap (elevationIds \cup takenIds) = {}
      /\ elevationIds \cap takenIds = {}
      /\ \A e, f \in elevations : e.s = f.s => e = f

\* A session that is not over is only ended by its own logout, by the desktop's
\* commands on its device, by a new passkey or the lock-out of its device, or,
\* when it is the oldest, by a login of its own device at the limit: never by
\* what another device does (Identity::issue_session).
EndedForACause ==
  [][\A s \in SessionIds :
       Active(s) /\ session'[s] = None =>
         LET d == session[s].d
         IN  \/ Logout(s)
             \/ \E grants \in Grants : Update(d, grants)
             \/ Unlock(d) \/ Revoke(d) \/ AddCredential(d)
             \/ device'[d].locked
             \/ /\ Cardinality(SessionsOf(d)) >= SESSIONS_PER_DEVICE
                /\ \A t \in SessionsOf(d) \ Inactive :
                     session[s].created_at <= session[t].created_at
                /\ issued' = issued + 1
                /\ session'[issued'].d = d]_vars

\* A peer whose session is over is hung up and gives its place back.
OverIsHungUp ==
  \A p \in PeerIds :
    (peer[p] # None /\ ~Active(peer[p].s)) ~> peer[p] = None
=============================================================================
