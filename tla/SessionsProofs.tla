--------------------------- MODULE SessionsProofs ---------------------------
(***************************************************************************)
(* Sessions, elevations and peers for every policy, any number of devices  *)
(* and unbounded time: no session without a usable device, no elevation    *)
(* beyond its grant, no socket left behind, and the lock-out.              *)
(***************************************************************************)
EXTENDS Sessions, TLAPS

\* A session S and its device D: usable, and covering the elevations.
Good(S, D) ==
  /\ S \in Session
  /\ D \in Device
  /\ ~D.locked
  /\ S.control_until # 0 =>
       /\ S.control_until <= D.grants.control
       /\ S.control_until <= ENABLE_UNTIL
       /\ S.control_until <= S.created_at + VIEW_ABSOLUTE
       /\ S.control_until <= S.control_at + ELEVATION_MAX
  /\ S.full_until # 0 =>
       /\ FULL_ENABLED /\ D.grants.full
       /\ S.full_until <= ENABLE_UNTIL
       /\ S.full_until <= S.created_at + VIEW_ABSOLUTE
       /\ S.full_until <= S.full_at + Min2(ELEVATION_MAX, FULL_MAX)

SessionsGood ==
  \A s \in SessionIds : session[s] = None \/ Good(session[s], device[session[s].d])

\* A peer p of the table and the sessions it may rely on.
Backed(p, table) ==
  p.invalidated \/ (table[p.s] # None /\ table[p.s].d = p.d)

PeersGood == \A p \in PeerIds : peer[p] = None \/ Backed(peer[p], session)

\* Ids are issued in order, so a new session takes nobody's place.
IssuedInOrder == \A s \in SessionIds : issued < s => session[s] = None

\* What an elevation that waits for its verification names.
TakenSound ==
  /\ \A e \in elevations : e.s \in SessionIds /\ e.scope \in Scopes
  /\ \A t \in taken : t.kind = "elevation" => t.s \in SessionIds /\ t.scope \in Scopes

\* A device is locked by the failure that reaches the limit, so the counter of
\* a device that is not locked is below it.
FailuresSound ==
  \A d \in Devices : failures[d] = FAILURE_LIMIT => device[d] \in Device /\ device[d].locked

IInv ==
  /\ IdentityTypes
  /\ TakenSound
  /\ IssuedInOrder
  /\ SessionsGood
  /\ PeersGood
  /\ FailuresSound

(***************************************************************************)
(* Lemmas about the operators.                                             *)
(***************************************************************************)

\* The absent session, device and peer are none.
LEMMA Distinct ==
  /\ None \notin Session
  /\ None \notin Device
  /\ Unpaired \notin Device
  /\ None \notin Peer
  BY DEF None, Unpaired, Session, Device, Peer

\* A usable device is in the table and not locked.
LEMMA UsableDevice ==
  ASSUME IdentityTypes, NEW d \in Devices
  PROVE  Usable(d) <=> (device[d] \in Device /\ ~device[d].locked)
  BY Distinct DEF IdentityTypes, Usable, Known

\* What an active session stands on.
LEMMA ActiveSession ==
  ASSUME IInv, NEW s \in SessionIds, Active(s)
  PROVE  /\ session[s] # None
         /\ session[s] \in Session
         /\ session[s].d \in Devices
         /\ device[session[s].d] \in Device
         /\ ~device[session[s].d].locked
         /\ now < ENABLE_UNTIL
         /\ now < session[s].created_at + VIEW_ABSOLUTE
         /\ Good(session[s], device[session[s].d])
<1>1. session[s] # None /\ session[s] \in Session
  BY DEF IInv, IdentityTypes, Active
<1>2. session[s].d \in Devices
  BY <1>1 DEF Session
<1>3. Good(session[s], device[session[s].d])
  BY <1>1 DEF IInv, SessionsGood
<1> QED
  BY <1>1, <1>2, <1>3 DEF Active, Good

\* Dropping sessions and hanging up their peers keeps the tables good, if the
\* devices of the sessions that stay are left alone.
LEMMA DropKeeps ==
  ASSUME IInv, NEW S, Invalidate(S),
         \A s \in SessionIds \ S :
           session[s] # None => device'[session[s].d] = device[session[s].d]
  PROVE  /\ session' \in [SessionIds -> Session \cup {None}]
         /\ peer' \in [PeerIds -> Peer \cup {None}]
         /\ SessionsGood' /\ PeersGood'
         /\ \A s \in SessionIds : session[s] = None => session'[s] = None
<1>1. session' \in [SessionIds -> Session \cup {None}]
  BY DEF IInv, IdentityTypes, Invalidate, Without
<1>2. \A p \in PeerIds : peer[p] = None \/ peer[p] \in Peer
  BY DEF IInv, IdentityTypes
<1>3. \A p \in PeerIds :
        peer'[p] = IF peer[p] # None /\ peer[p].s \in S
                     THEN [peer[p] EXCEPT !.invalidated = TRUE] ELSE peer[p]
  BY DEF Invalidate, HungUp
<1>4. \A p \in PeerIds : peer'[p] \in Peer \cup {None}
  BY <1>2, <1>3 DEF Peer
<1>5. peer' \in [PeerIds -> Peer \cup {None}]
  BY <1>4 DEF Invalidate, HungUp
<1>6. \A s \in SessionIds : session'[s] = IF s \in S THEN None ELSE session[s]
  BY DEF Invalidate, Without
<1>7. SessionsGood'
  <2> SUFFICES ASSUME NEW s \in SessionIds, session'[s] # None
               PROVE  Good(session'[s], device'[session'[s].d])
    BY DEF SessionsGood
  <2>1. s \notin S /\ session'[s] = session[s]
    BY <1>6
  <2> QED
    BY <2>1 DEF IInv, SessionsGood
<1>8. PeersGood'
  <2> SUFFICES ASSUME NEW p \in PeerIds, peer'[p] # None
               PROVE  Backed(peer'[p], session')
    BY DEF PeersGood
  <2>1. peer[p] # None /\ peer[p] \in Peer
    BY <1>2, <1>3
  <2>2. CASE peer[p].s \in S
    BY <2>1, <2>2, <1>3 DEF Backed, Peer
  <2>3. CASE peer[p].s \notin S
    <3>1. peer'[p] = peer[p] /\ Backed(peer[p], session) /\ peer[p].s \in SessionIds
      BY <2>1, <2>3, <1>3 DEF IInv, PeersGood, Peer
    <3> QED
      BY <3>1, <2>3, <1>6 DEF Backed
  <2> QED
    BY <2>2, <2>3
<1> QED
  BY <1>1, <1>5, <1>6, <1>7, <1>8

\* A session t in place of session s of the same device, as good as it, changes
\* nothing for anybody else.
LEMMA RenewKeeps ==
  ASSUME IInv, NEW s \in SessionIds, session[s] # None,
         NEW t \in Session, t.d = session[s].d, Good(t, device[t.d]),
         session' = [session EXCEPT ![s] = t],
         device' = device, peer' = peer
  PROVE  /\ session' \in [SessionIds -> Session \cup {None}]
         /\ SessionsGood' /\ PeersGood'
         /\ \A r \in SessionIds : session[r] = None => session'[r] = None
<1>1. session \in [SessionIds -> Session \cup {None}]
  BY DEF IInv, IdentityTypes
<1>2. session' \in [SessionIds -> Session \cup {None}]
  BY <1>1
<1>3. \A r \in SessionIds : session'[r] = IF r = s THEN t ELSE session[r]
  BY <1>1
<1>4. SessionsGood'
  BY <1>3 DEF IInv, SessionsGood
<1>5. PeersGood'
  <2> SUFFICES ASSUME NEW p \in PeerIds, peer[p] # None
               PROVE  Backed(peer[p], session')
    BY DEF PeersGood
  <2>1. peer[p].s \in SessionIds
    BY DEF IInv, IdentityTypes, Peer
  <2>2. Backed(peer[p], session)
    BY DEF IInv, PeersGood
  <2> QED
    BY <2>1, <2>2, <1>3, Distinct DEF Backed
<1> QED
  BY <1>2, <1>3, <1>4, <1>5

\* Identity::validate's refresh of an active session.
LEMMA SeenRenews ==
  ASSUME IInv, NEW s \in SessionIds, Active(s)
  PROVE  \E t \in Session :
           /\ Seen(s) = [session EXCEPT ![s] = t]
           /\ t = [session[s] EXCEPT !.last_seen = now]
           /\ t.d = session[s].d
           /\ Good(t, device[t.d])
<1> DEFINE t == [session[s] EXCEPT !.last_seen = now]
<1>1. session[s] \in Session /\ Good(session[s], device[session[s].d])
  BY ActiveSession
<1>2. now \in Nat
  BY BoundsNatural DEF IInv, IdentityTypes
<1>3. t \in Session /\ t.d = session[s].d
  BY <1>1, <1>2 DEF Session
<1>4. /\ t.control_until = session[s].control_until
      /\ t.control_at = session[s].control_at
      /\ t.full_until = session[s].full_until
      /\ t.full_at = session[s].full_at
      /\ t.created_at = session[s].created_at
  BY <1>1 DEF Session
<1>5. Good(t, device[t.d])
  BY <1>1, <1>3, <1>4 DEF Good
<1>6. Seen(s) = [session EXCEPT ![s] = t]
  BY DEF Seen, IInv, IdentityTypes
<1> QED
  BY <1>3, <1>5, <1>6

(***************************************************************************)
(* Every action keeps the invariant.                                       *)
(***************************************************************************)

\* Requests and maintenance that only end sessions.
LEMMA EndingStep ==
  ASSUME IInv, NEW S, Invalidate(S), TakenSound',
         UNCHANGED <<now, device, failures, issued, next_peer>>
  PROVE  IInv'
<1>1. /\ session' \in [SessionIds -> Session \cup {None}]
      /\ peer' \in [PeerIds -> Peer \cup {None}]
      /\ SessionsGood' /\ PeersGood'
      /\ \A s \in SessionIds : session[s] = None => session'[s] = None
  BY DropKeeps
<1> QED
  BY <1>1 DEF IInv, IdentityTypes, IssuedInOrder, FailuresSound

\* Requests that only refresh their session.
LEMMA SeenStep ==
  ASSUME IInv, NEW s \in SessionIds, Active(s), session' = Seen(s), TakenSound',
         UNCHANGED <<now, device, failures, issued, peer, next_peer>>
  PROVE  IInv'
<1>1. PICK t \in Session : /\ Seen(s) = [session EXCEPT ![s] = t]
                           /\ t.d = session[s].d
                           /\ Good(t, device[t.d])
  BY SeenRenews
<1>2. session[s] # None
  BY DEF Active
<1>3. /\ session' \in [SessionIds -> Session \cup {None}]
      /\ SessionsGood' /\ PeersGood'
      /\ \A r \in SessionIds : session[r] = None => session'[r] = None
  BY <1>1, <1>2, RenewKeeps
<1> QED
  BY <1>3 DEF IInv, IdentityTypes, IssuedInOrder, FailuresSound

\* The desktop's commands and registrations: a device becomes v, or is gone,
\* and loses its sessions.
LEMMA DeviceStep ==
  ASSUME IInv, NEW d \in Devices, NEW v \in Device \cup {None},
         device' = [device EXCEPT ![d] = v],
         Invalidate(SessionsOf(d)),
         UNCHANGED <<now, issued, next_peer>>, TakenSound',
         failures' \in [Devices -> 0 .. FAILURE_LIMIT],
         \A e \in Devices : failures'[e] = FAILURE_LIMIT =>
            /\ e # d => failures[e] = FAILURE_LIMIT
            /\ e = d => v \in Device /\ v.locked
  PROVE  IInv'
<1>1. device \in [Devices -> Device \cup {None, Unpaired}]
  BY DEF IInv, IdentityTypes
<1>2. \A s \in SessionIds \ SessionsOf(d) :
        session[s] # None => device'[session[s].d] = device[session[s].d]
  BY <1>1 DEF SessionsOf, Live, IInv, IdentityTypes, Session
<1>3. /\ session' \in [SessionIds -> Session \cup {None}]
      /\ peer' \in [PeerIds -> Peer \cup {None}]
      /\ SessionsGood' /\ PeersGood'
      /\ \A s \in SessionIds : session[s] = None => session'[s] = None
  BY <1>2, DropKeeps
<1>4. IssuedInOrder'
  BY <1>3 DEF IInv, IssuedInOrder
<1>5. FailuresSound'
  BY <1>1 DEF IInv, FailuresSound
<1> QED
  BY <1>1, <1>3, <1>4, <1>5 DEF IInv, IdentityTypes

\* Identity::register_peer.
LEMMA RegisterPeerStep ==
  ASSUME IInv, NEW s \in SessionIds, RegisterPeer(s)
  PROVE  IInv'
<1> DEFINE q == [s |-> s, d |-> session[s].d, invalidated |-> FALSE]
<1>1. Active(s)
  BY DEF RegisterPeer
<1>2. session[s] # None /\ session[s].d \in Devices
  BY <1>1, ActiveSession
<1>3. PICK t \in Session : /\ Seen(s) = [session EXCEPT ![s] = t]
                           /\ t.d = session[s].d
                           /\ Good(t, device[t.d])
  BY <1>1, SeenRenews
<1>4. session \in [SessionIds -> Session \cup {None}]
  BY DEF IInv, IdentityTypes
<1>5. /\ session' \in [SessionIds -> Session \cup {None}]
      /\ \A r \in SessionIds : session'[r] = IF r = s THEN t ELSE session[r]
  BY <1>3, <1>4 DEF RegisterPeer
<1>6. SessionsGood' /\ IssuedInOrder'
  BY <1>2, <1>3, <1>5 DEF IInv, SessionsGood, IssuedInOrder, RegisterPeer
<1>7. next_peer + 1 \in PeerIds /\ q \in Peer
  BY <1>2, BoundsNatural DEF RegisterPeer, IInv, IdentityTypes, PeerIds, Peer
<1>8. /\ peer' \in [PeerIds -> Peer \cup {None}]
      /\ \A p \in PeerIds : peer'[p] = IF p = next_peer + 1 THEN q ELSE peer[p]
  BY <1>7 DEF RegisterPeer, IInv, IdentityTypes
<1>9. PeersGood'
  <2> SUFFICES ASSUME NEW p \in PeerIds, peer'[p] # None
               PROVE  Backed(peer'[p], session')
    BY DEF PeersGood
  <2>1. CASE p = next_peer + 1
    BY <2>1, <1>3, <1>5, <1>8, Distinct DEF Backed
  <2>2. CASE p # next_peer + 1
    <3>1. peer'[p] = peer[p] /\ Backed(peer[p], session) /\ peer[p].s \in SessionIds
      BY <2>2, <1>8 DEF IInv, PeersGood, IdentityTypes, Peer
    <3> QED
      BY <3>1, <1>3, <1>5, Distinct DEF Backed
  <2> QED
    BY <2>1, <2>2
<1>10. next_peer' \in 0 .. MaxPeers
  BY BoundsNatural DEF RegisterPeer, IInv, IdentityTypes
<1> QED
  BY <1>5, <1>6, <1>8, <1>9, <1>10
     DEF IInv, IdentityTypes, TakenSound, FailuresSound, RegisterPeer, ceremonies

\* Identity::unregister_peer.
LEMMA UnregisterPeerStep ==
  ASSUME IInv, NEW p \in PeerIds, UnregisterPeer(p)
  PROVE  IInv'
<1>1. peer' \in [PeerIds -> Peer \cup {None}]
  BY DEF IInv, IdentityTypes, UnregisterPeer
<1>2. \A r \in PeerIds : peer'[r] = IF r = p THEN None ELSE peer[r]
  BY DEF IInv, IdentityTypes, UnregisterPeer
<1>3. PeersGood'
  BY <1>2 DEF IInv, PeersGood, UnregisterPeer
<1> QED
  BY <1>1, <1>3 DEF IInv, IdentityTypes, TakenSound, IssuedInOrder, SessionsGood,
       FailuresSound, UnregisterPeer, ceremonies

\* Gateway::elevation_options: the others' inactive sessions go, its own is
\* refreshed.
LEMMA ElevationOptionsStep ==
  ASSUME IInv, NEW s \in SessionIds, NEW scope \in Scopes, ElevationOptions(s, scope)
  PROVE  IInv'
<1>1. Active(s)
  BY DEF ElevationOptions
<1>2. PICK t \in Session : /\ t = [session[s] EXCEPT !.last_seen = now]
                           /\ t.d = session[s].d
                           /\ Good(t, device[t.d])
  BY <1>1, SeenRenews
<1>3. session \in [SessionIds -> Session \cup {None}] /\ s \notin Inactive
  BY <1>1 DEF IInv, IdentityTypes, Inactive
<1>4. /\ session' \in [SessionIds -> Session \cup {None}]
      /\ \A r \in SessionIds :
           session'[r] = IF r = s THEN t ELSE IF r \in Inactive THEN None ELSE session[r]
  BY <1>2, <1>3 DEF ElevationOptions, Without
<1>5. SessionsGood' /\ IssuedInOrder'
  BY <1>1, <1>2, <1>4 DEF IInv, SessionsGood, IssuedInOrder, ElevationOptions, Active
<1>6. \A p \in PeerIds : peer[p] = None \/ peer[p] \in Peer
  BY DEF IInv, IdentityTypes
<1>7. \A p \in PeerIds :
        peer'[p] = IF peer[p] # None /\ peer[p].s \in Inactive
                     THEN [peer[p] EXCEPT !.invalidated = TRUE] ELSE peer[p]
  BY DEF ElevationOptions, HungUp
<1>8. \A p \in PeerIds : peer'[p] \in Peer \cup {None}
  BY <1>6, <1>7 DEF Peer
<1>9. peer' \in [PeerIds -> Peer \cup {None}]
  BY <1>8 DEF ElevationOptions, HungUp
<1>10. PeersGood'
  <2> SUFFICES ASSUME NEW p \in PeerIds, peer'[p] # None
               PROVE  Backed(peer'[p], session')
    BY DEF PeersGood
  <2>1. peer[p] # None /\ peer[p] \in Peer
    BY <1>6, <1>7
  <2>2. CASE peer[p].s \in Inactive
    BY <2>1, <2>2, <1>7 DEF Backed, Peer
  <2>3. CASE peer[p].s \notin Inactive
    <3>1. peer'[p] = peer[p] /\ Backed(peer[p], session) /\ peer[p].s \in SessionIds
      BY <2>1, <2>3, <1>7 DEF IInv, PeersGood, Peer
    <3> QED
      BY <3>1, <2>3, <1>2, <1>4, Distinct DEF Backed
  <2> QED
    BY <2>2, <2>3
<1>11. TakenSound'
  <2>1. Others(s) \subseteq elevations
    BY DEF Others, FreshElevations
  <2>2. \A e \in elevations' : e \in elevations \/ (e.s = s /\ e.scope = scope)
    BY <2>1 DEF ElevationOptions
  <2> QED
    BY <2>2 DEF IInv, TakenSound, ElevationOptions
<1> QED
  BY <1>4, <1>5, <1>9, <1>10, <1>11
     DEF IInv, IdentityTypes, FailuresSound, ElevationOptions

\* Ceremonies::take_assertion of an elevation.
LEMMA TakeElevationStep ==
  ASSUME IInv, NEW e \in elevations, TakeElevation(e)
  PROVE  IInv'
<1>1. e.s \in SessionIds /\ e.scope \in Scopes
  BY DEF IInv, TakenSound
<1>2. TakenSound'
  BY <1>1 DEF IInv, TakenSound, TakeElevation, FreshElevations
<1> QED
  BY <1>2 DEF IInv, IdentityTypes, IssuedInOrder, SessionsGood, PeersGood, FailuresSound,
       TakeElevation, identity

\* Identity::assertion_failed.
LEMMA FailedStep ==
  ASSUME IInv, NEW d \in Devices, Usable(d), NEW rollback \in BOOLEAN, NEW seen,
         \/ seen = session
         \/ \E s \in SessionIds : Active(s) /\ seen = Seen(s),
         Failed(d, rollback, seen), TakenSound',
         UNCHANGED <<now, next_peer>>
  PROVE  IInv'
<1>1. device[d] \in Device /\ ~device[d].locked
  BY UsableDevice DEF IInv
<1>2. failures \in [Devices -> 0 .. FAILURE_LIMIT]
  BY DEF IInv, IdentityTypes
<1>3. failures[d] < FAILURE_LIMIT
  BY <1>1, <1>2, LimitsPositive DEF IInv, FailuresSound
<1>4. failures' \in [Devices -> 0 .. FAILURE_LIMIT]
  BY <1>2, <1>3, LimitsPositive DEF Failed
<1>5. \A e \in Devices : failures'[e] = IF e = d THEN failures[d] + 1 ELSE failures[e]
  BY <1>2 DEF Failed
<1>6. CASE rollback \/ failures[d] + 1 >= FAILURE_LIMIT
  <2> DEFINE v == [device[d] EXCEPT !.locked = TRUE]
  <2>1. v \in Device /\ v.locked
    BY <1>1 DEF Device
  <2>2. device' = [device EXCEPT ![d] = v]
    BY <1>6 DEF Failed, IInv, IdentityTypes
  <2>3. Invalidate(SessionsOf(d)) /\ issued' = issued
    BY <1>6 DEF Failed
  <2> QED
    BY <1>4, <1>5, <2>1, <2>2, <2>3, DeviceStep
<1>7. CASE ~(rollback \/ failures[d] + 1 >= FAILURE_LIMIT)
  <2>1. session' = seen /\ device' = device /\ peer' = peer /\ issued' = issued
    BY <1>7 DEF Failed
  <2>2. FailuresSound'
    BY <1>2, <1>3, <1>5, <1>7, <2>1, LimitsPositive DEF IInv, FailuresSound
  <2>3. CASE seen = session
    BY <2>1, <2>2, <2>3, <1>4 DEF IInv, IdentityTypes, IssuedInOrder, SessionsGood, PeersGood
  <2>4. CASE \E s \in SessionIds : Active(s) /\ seen = Seen(s)
    <3>1. PICK s \in SessionIds : Active(s) /\ seen = Seen(s)
      BY <2>4
    <3>2. PICK t \in Session : /\ Seen(s) = [session EXCEPT ![s] = t]
                               /\ t.d = session[s].d
                               /\ Good(t, device[t.d])
      BY <3>1, SeenRenews
    <3>3. session[s] # None
      BY <3>1 DEF Active
    <3>4. /\ session' \in [SessionIds -> Session \cup {None}]
          /\ SessionsGood' /\ PeersGood'
          /\ \A r \in SessionIds : session[r] = None => session'[r] = None
      BY <2>1, <3>1, <3>2, <3>3, RenewKeeps
    <3> QED
      BY <2>1, <2>2, <3>4, <1>4 DEF IInv, IdentityTypes, IssuedInOrder
  <2> QED
    BY <2>3, <2>4
<1> QED
  BY <1>6, <1>7

\* A counter set back to zero still tells of its device's lock.
LEMMA ResetFailures ==
  ASSUME IInv, NEW d \in Devices, failures' = [failures EXCEPT ![d] = 0], device' = device
  PROVE  FailuresSound' /\ failures' \in [Devices -> 0 .. FAILURE_LIMIT]
<1>1. failures \in [Devices -> 0 .. FAILURE_LIMIT]
  BY DEF IInv, IdentityTypes
<1>2. failures' \in [Devices -> 0 .. FAILURE_LIMIT]
  BY <1>1, LimitsPositive
<1>3. \A e \in Devices : failures'[e] = IF e = d THEN 0 ELSE failures[e]
  BY <1>1
<1>4. FailuresSound'
  BY <1>3, LimitsPositive DEF IInv, FailuresSound
<1> QED
  BY <1>2, <1>4

\* Identity::issue_session.
LEMMA IssueSessionStep ==
  ASSUME IInv, NEW d \in Devices, Usable(d), IssueSession(d), TakenSound',
         UNCHANGED <<now, next_peer>>
  PROVE  IInv'
<1>1. device' = device /\ failures' = [failures EXCEPT ![d] = 0]
  BY DEF IssueSession
<1>2. FailuresSound' /\ failures' \in [Devices -> 0 .. FAILURE_LIMIT]
  BY <1>1, ResetFailures
<1>3. CASE now >= ENABLE_UNTIL /\ Invalidate(Inactive) /\ UNCHANGED issued
  <2>1. /\ session' \in [SessionIds -> Session \cup {None}]
        /\ peer' \in [PeerIds -> Peer \cup {None}]
        /\ SessionsGood' /\ PeersGood'
        /\ \A s \in SessionIds : session[s] = None => session'[s] = None
    BY <1>1, <1>3, DropKeeps
  <2> QED
    BY <1>1, <1>2, <1>3, <2>1 DEF IInv, IdentityTypes, IssuedInOrder
<1>4. ASSUME NEW out,
             LET over == Inactive \cup out
             IN  /\ peer' = HungUp(over)
                 /\ issued < MaxSessions
                 /\ IF Cardinality(Live \ over) < SESSION_LIMIT
                      THEN /\ issued' = issued + 1
                           /\ session' = [Without(over) EXCEPT ![issued + 1] = NewSession(d)]
                      ELSE session' = Without(over) /\ UNCHANGED issued
      PROVE  IInv'
  <2> DEFINE over == Inactive \cup out
  <2> DEFINE n == issued + 1
  <2>1. n \in SessionIds /\ session[n] = None /\ issued \in Nat
    BY <1>4, BoundsNatural DEF IInv, IdentityTypes, IssuedInOrder, SessionIds
  <2>2. CASE session' = Without(over) /\ UNCHANGED issued
    <3>1. Invalidate(over)
      BY <1>4, <2>2 DEF Invalidate
    <3>2. /\ session' \in [SessionIds -> Session \cup {None}]
          /\ peer' \in [PeerIds -> Peer \cup {None}]
          /\ SessionsGood' /\ PeersGood'
          /\ \A s \in SessionIds : session[s] = None => session'[s] = None
      BY <1>1, <3>1, DropKeeps
    <3> QED
      BY <1>1, <1>2, <2>2, <3>2 DEF IInv, IdentityTypes, IssuedInOrder
  <2>3. CASE issued' = n /\ session' = [Without(over) EXCEPT ![n] = NewSession(d)]
    <3>1. device[d] \in Device /\ ~device[d].locked
      BY UsableDevice DEF IInv
    <3>2. now \in Nat
      BY BoundsNatural DEF IInv, IdentityTypes
    <3>3. NewSession(d) \in Session /\ NewSession(d).d = d
      BY <3>2 DEF NewSession, Session
    <3>4. Good(NewSession(d), device[d])
      BY <3>1, <3>3 DEF Good, NewSession
    <3>5. Without(over) \in [SessionIds -> Session \cup {None}]
      BY DEF Without, IInv, IdentityTypes
    <3>6. \A s \in SessionIds :
            session'[s] = IF s = n THEN NewSession(d)
                          ELSE IF s \in over THEN None ELSE session[s]
      BY <2>3, <2>1, <3>5 DEF Without
    <3>7. session' \in [SessionIds -> Session \cup {None}]
      BY <2>3, <3>3, <3>5
    <3>8. SessionsGood'
      BY <1>1, <3>3, <3>4, <3>6 DEF IInv, SessionsGood
    <3>9. IssuedInOrder' /\ issued' \in 0 .. MaxSessions
      BY <2>1, <2>3, <3>6, <1>4, BoundsNatural DEF IInv, IssuedInOrder, SessionIds
    <3>10. \A p \in PeerIds : peer[p] = None \/ peer[p] \in Peer
      BY DEF IInv, IdentityTypes
    <3>11. \A p \in PeerIds :
             peer'[p] = IF peer[p] # None /\ peer[p].s \in over
                          THEN [peer[p] EXCEPT !.invalidated = TRUE] ELSE peer[p]
      BY <1>4 DEF HungUp
    <3>12. \A p \in PeerIds : peer'[p] \in Peer \cup {None}
      BY <3>10, <3>11 DEF Peer
    <3>13. peer' \in [PeerIds -> Peer \cup {None}]
      BY <1>4, <3>12 DEF HungUp
    <3>14. PeersGood'
      <4> SUFFICES ASSUME NEW p \in PeerIds, peer'[p] # None
                   PROVE  Backed(peer'[p], session')
        BY DEF PeersGood
      <4>1. peer[p] # None /\ peer[p] \in Peer
        BY <3>10, <3>11
      <4>2. CASE peer[p].s \in over
        BY <4>1, <4>2, <3>11 DEF Backed, Peer
      <4>3. CASE peer[p].s \notin over
        <5>1. peer'[p] = peer[p] /\ Backed(peer[p], session) /\ peer[p].s \in SessionIds
          BY <4>1, <4>3, <3>11 DEF IInv, PeersGood, Peer
        <5> QED
          BY <5>1, <4>3, <2>1, <3>6 DEF Backed
      <4> QED
        BY <4>2, <4>3
    <3> QED
      BY <1>1, <1>2, <3>7, <3>8, <3>9, <3>13, <3>14 DEF IInv, IdentityTypes
  <2> QED
    BY <1>4, <2>2, <2>3
<1> QED
  BY <1>3, <1>4 DEF IssueSession

\* Gateway::login_finish.
LEMMA FinishLoginStep ==
  ASSUME IInv, NEW d \in Devices, NEW t \in taken, NEW verdict \in Verdicts,
         FinishLogin(t, d, verdict)
  PROVE  IInv'
<1>1. TakenSound' /\ UNCHANGED <<now, next_peer>>
  BY DEF IInv, TakenSound, FinishLogin
<1>2. CASE Rejected
  BY <1>1, <1>2 DEF IInv, IdentityTypes, IssuedInOrder, SessionsGood, PeersGood,
       FailuresSound, Rejected
<1>3. CASE Usable(d) /\ Failed(d, verdict = "rollback", session)
  BY <1>1, <1>3, FailedStep
<1>4. CASE Usable(d) /\ IssueSession(d)
  BY <1>1, <1>4, IssueSessionStep
<1> QED
  BY <1>2, <1>3, <1>4 DEF FinishLogin

\* Identity::elevate grants no more than Good allows.
LEMMA ElevateStep ==
  ASSUME IInv, NEW s \in SessionIds, NEW scope \in Scopes, Active(s),
         Granted(session[s].d, scope), Elevate(s, scope), TakenSound',
         UNCHANGED <<now, next_peer>>
  PROVE  IInv'
<1> DEFINE S == session[s]
<1> DEFINE D == device[S.d]
<1> DEFINE end == ElevationEnd(s, scope)
<1>1. /\ S # None /\ S \in Session /\ S.d \in Devices
      /\ D \in Device /\ ~D.locked
      /\ Good(S, D)
  BY ActiveSession
<1>2. now \in Nat /\ S.created_at \in Nat
  BY <1>1, BoundsNatural DEF IInv, IdentityTypes, Session
<1>3. FailuresSound' /\ failures' \in [Devices -> 0 .. FAILURE_LIMIT]
  BY <1>1, ResetFailures DEF Elevate
<1>4. /\ device' = device /\ peer' = peer /\ issued' = issued
      /\ session \in [SessionIds -> Session \cup {None}]
  BY DEF Elevate, IInv, IdentityTypes
<1>5. D.grants.control \in Nat
  <2>1. D.grants \in Grants
    BY <1>1 DEF Device
  <2>2. D.grants.control \in Untils \cup {0}
    BY <2>1 DEF Grants
  <2>3. \A u \in Untils \cup {0} : u \in Nat
    BY UntilsPositive
  <2> QED
    BY <2>2, <2>3
<1>6. CASE scope = "control"
  <2> DEFINE t == [S EXCEPT !.last_seen = now, !.control_until = end, !.control_at = now]
  <2>1. /\ end \in Nat
        /\ end <= D.grants.control
        /\ end <= ENABLE_UNTIL
        /\ end <= S.created_at + VIEW_ABSOLUTE
        /\ end <= now + ELEVATION_MAX
    BY <1>2, <1>5, <1>6, PolicyPositive DEF ElevationEnd, Min2
  <2>2. t \in Session /\ t.d = S.d
    BY <1>1, <1>2, <2>1 DEF Session
  <2>3. Good(t, D)
    BY <1>1, <2>1, <2>2 DEF Good, Session
  <2>4. session' = [session EXCEPT ![s] = t]
    BY <1>4, <1>6 DEF Elevate
  <2>5. /\ session' \in [SessionIds -> Session \cup {None}]
        /\ SessionsGood' /\ PeersGood'
        /\ \A r \in SessionIds : session[r] = None => session'[r] = None
    BY <1>1, <1>4, <2>2, <2>3, <2>4, RenewKeeps
  <2> QED
    BY <1>3, <1>4, <2>5 DEF IInv, IdentityTypes, IssuedInOrder
<1>7. CASE scope = "full"
  <2> DEFINE t == [S EXCEPT !.last_seen = now, !.full_until = end, !.full_at = now]
  <2>1. /\ end \in Nat
        /\ end <= ENABLE_UNTIL
        /\ end <= S.created_at + VIEW_ABSOLUTE
        /\ end <= now + Min2(ELEVATION_MAX, FULL_MAX)
    BY <1>2, <1>7, PolicyPositive DEF ElevationEnd, Min2
  <2>2. t \in Session /\ t.d = S.d
    BY <1>1, <1>2, <2>1 DEF Session
  <2>3. FULL_ENABLED /\ D.grants.full
    BY <1>7 DEF Granted
  <2>4. Good(t, D)
    BY <1>1, <2>1, <2>2, <2>3 DEF Good, Session
  <2>5. session' = [session EXCEPT ![s] = t]
    BY <1>4, <1>7 DEF Elevate
  <2>6. /\ session' \in [SessionIds -> Session \cup {None}]
        /\ SessionsGood' /\ PeersGood'
        /\ \A r \in SessionIds : session[r] = None => session'[r] = None
    BY <1>1, <1>4, <2>2, <2>4, <2>5, RenewKeeps
  <2> QED
    BY <1>3, <1>4, <2>6 DEF IInv, IdentityTypes, IssuedInOrder
<1> QED
  BY <1>6, <1>7 DEF Scopes

\* Gateway::elevation_finish.
LEMMA FinishElevationStep ==
  ASSUME IInv, NEW t \in taken, NEW verdict \in Verdicts, FinishElevation(t, verdict)
  PROVE  IInv'
<1>1. TakenSound' /\ UNCHANGED <<now, next_peer>>
  BY DEF IInv, TakenSound, FinishElevation
<1>2. t.s \in SessionIds /\ t.scope \in Scopes
  BY DEF IInv, TakenSound, FinishElevation
<1>3. CASE Rejected
  BY <1>1, <1>3 DEF IInv, IdentityTypes, IssuedInOrder, SessionsGood, PeersGood,
       FailuresSound, Rejected
<1>4. CASE Invalidate({t.s}) /\ UNCHANGED <<device, failures, issued>>
  BY <1>1, <1>4, EndingStep
<1>5. CASE Active(t.s) /\ session' = Seen(t.s) /\ UNCHANGED <<device, failures, issued, peer>>
  BY <1>1, <1>2, <1>5, SeenStep
<1>6. CASE Active(t.s) /\ Failed(session[t.s].d, verdict = "rollback", Seen(t.s))
  <2>1. session[t.s].d \in Devices /\ Usable(session[t.s].d)
    BY <1>2, <1>6, ActiveSession DEF Active
  <2> QED
    BY <1>1, <1>2, <1>6, <2>1, FailedStep
<1>7. CASE /\ Active(t.s) /\ Granted(session[t.s].d, t.scope)
           /\ Elevate(t.s, t.scope)
  BY <1>1, <1>2, <1>7, ElevateStep
<1> QED
  BY <1>3, <1>4, <1>5, <1>6, <1>7 DEF FinishElevation

\* The four ways a device's grants, lock or registration change.
LEMMA DeviceCommandStep ==
  ASSUME IInv, NEW d \in Devices,
         \/ \E grants \in Grants : Update(d, grants)
         \/ Unlock(d)
         \/ Revoke(d)
         \/ Register(d)
  PROVE  IInv'
<1>1. device \in [Devices -> Device \cup {None, Unpaired}]
  BY DEF IInv, IdentityTypes
<1>2. failures \in [Devices -> 0 .. FAILURE_LIMIT]
  BY DEF IInv, IdentityTypes
<1>3. TakenSound' /\ UNCHANGED <<now, issued, next_peer>> /\ Invalidate(SessionsOf(d))
  BY DEF IInv, TakenSound, ceremonies, Update, Unlock, Revoke, Register
<1>4. ASSUME NEW grants \in Grants, Update(d, grants)
      PROVE  IInv'
  <2> DEFINE v == [device[d] EXCEPT !.grants = grants]
  <2>1. device[d] \in Device
    BY <1>1, <1>4 DEF Update, Known
  <2>2. v \in Device /\ v.locked = device[d].locked
    BY <2>1 DEF Device
  <2>3. device' = [device EXCEPT ![d] = v] /\ failures' = failures
    BY <1>1, <1>4 DEF Update
  <2>4. failures[d] = FAILURE_LIMIT => v.locked
    BY <2>2 DEF IInv, FailuresSound
  <2> QED
    BY <1>2, <1>3, <2>2, <2>3, <2>4, DeviceStep
<1>5. CASE Unlock(d)
  <2> DEFINE v == [device[d] EXCEPT !.locked = FALSE]
  <2>1. device[d] \in Device
    BY <1>1, <1>5 DEF Unlock, Known
  <2>2. v \in Device
    BY <2>1 DEF Device
  <2>3. device' = [device EXCEPT ![d] = v] /\ failures' = [failures EXCEPT ![d] = 0]
    BY <1>1, <1>5 DEF Unlock
  <2>4. /\ failures' \in [Devices -> 0 .. FAILURE_LIMIT]
        /\ \A e \in Devices : failures'[e] = IF e = d THEN 0 ELSE failures[e]
    BY <1>2, <2>3, LimitsPositive
  <2> QED
    BY <1>3, <2>2, <2>3, <2>4, LimitsPositive, DeviceStep
<1>6. CASE Revoke(d)
  <2>1. device' = [device EXCEPT ![d] = None] /\ failures' = [failures EXCEPT ![d] = 0]
    BY <1>6 DEF Revoke
  <2>2. /\ failures' \in [Devices -> 0 .. FAILURE_LIMIT]
        /\ \A e \in Devices : failures'[e] = IF e = d THEN 0 ELSE failures[e]
    BY <1>2, <2>1, LimitsPositive
  <2> QED
    BY <1>3, <2>1, <2>2, LimitsPositive, DeviceStep
<1>7. CASE Register(d)
  <2>1. NewDevice \in Device
    BY DEF NewDevice, Device, Grants
  <2>2. device' = [device EXCEPT ![d] = NewDevice] /\ failures' = failures
    BY <1>7 DEF Register
  <2>3. failures[d] # FAILURE_LIMIT
    BY <1>7, Distinct DEF Register, IInv, FailuresSound
  <2> QED
    BY <1>2, <1>3, <2>1, <2>2, <2>3, DeviceStep
<1> QED
  BY <1>4, <1>5, <1>6, <1>7

\* A gateway starts with no session and no peer.
LEMMA InitInv == Init => IInv
<1> SUFFICES ASSUME Init PROVE IInv
  OBVIOUS
<1>1. IdentityTypes
  BY BoundsNatural, LimitsPositive DEF Init, IdentityTypes
<1>2. TakenSound /\ IssuedInOrder /\ SessionsGood /\ PeersGood
  BY DEF Init, TakenSound, IssuedInOrder, SessionsGood, PeersGood
<1>3. FailuresSound
  BY LimitsPositive DEF Init, FailuresSound
<1> QED
  BY <1>1, <1>2, <1>3 DEF IInv

\* Every step keeps the invariant.
LEMMA NextInv == IInv /\ [Next]_vars => IInv'
<1> SUFFICES ASSUME IInv, [Next]_vars PROVE IInv'
  OBVIOUS
<1> USE DEF ceremonies
<1>1. CASE UNCHANGED vars
  BY <1>1 DEF IInv, IdentityTypes, TakenSound, IssuedInOrder, SessionsGood, PeersGood,
       FailuresSound, vars, identity
<1>2. CASE Tick
  BY <1>2, BoundsNatural DEF Tick, IInv, IdentityTypes, TakenSound, IssuedInOrder,
       SessionsGood, PeersGood, FailuresSound, identity
<1>3. CASE Maintenance
  <2>1. TakenSound' /\ Invalidate(Inactive) /\ UNCHANGED <<now, device, failures, issued, next_peer>>
    BY <1>3 DEF Maintenance, IInv, TakenSound, FreshElevations
  <2> QED
    BY <2>1, EndingStep
<1>4. ASSUME NEW s \in SessionIds, Lapse(s) \/ Logout(s)
      PROVE  IInv'
  <2>1. TakenSound' /\ Invalidate({s}) /\ UNCHANGED <<now, device, failures, issued, next_peer>>
    BY <1>4 DEF Lapse, Logout, IInv, TakenSound
  <2> QED
    BY <2>1, EndingStep
<1>5. ASSUME NEW s \in SessionIds, View(s) \/ \E scope \in Scopes : Authorize(s, scope)
      PROVE  IInv'
  <2>1. /\ TakenSound' /\ Active(s) /\ session' = Seen(s)
        /\ UNCHANGED <<now, device, failures, issued, peer, next_peer>>
    BY <1>5 DEF View, Authorize, IInv, TakenSound
  <2> QED
    BY <2>1, SeenStep
<1>6. ASSUME NEW d \in Devices, AddCredential(d)
      PROVE  IInv'
  <2>1. /\ TakenSound' /\ Invalidate(SessionsOf(d))
        /\ UNCHANGED <<now, device, failures, issued, next_peer>>
    BY <1>6 DEF AddCredential, IInv, TakenSound
  <2> QED
    BY <2>1, EndingStep
<1>7. ASSUME LoginOptions \/ \E l \in logins : TakeLogin(l)
      PROVE  IInv'
  <2>1. FreshElevations \subseteq elevations
    BY DEF FreshElevations
  <2>2. /\ elevations' = FreshElevations /\ UNCHANGED <<now, identity>>
        /\ \A t \in taken' : t \in taken \/ t.kind = "login"
    <3>1. CASE LoginOptions
      BY <3>1 DEF LoginOptions
    <3>2. ASSUME NEW l \in logins, TakeLogin(l)
          PROVE  /\ elevations' = FreshElevations /\ UNCHANGED <<now, identity>>
                 /\ taken' = taken \cup {[c |-> l.c, kind |-> "login"]}
      BY <3>2, Zenon DEF TakeLogin
    <3> QED
      BY <1>7, <3>1, <3>2
  <2>3. TakenSound'
    BY <2>1, <2>2 DEF IInv, TakenSound
  <2> QED
    BY <2>2, <2>3 DEF IInv, IdentityTypes, IssuedInOrder, SessionsGood, PeersGood, FailuresSound,
         identity
<1> QED
  BY <1>1, <1>2, <1>3, <1>4, <1>5, <1>6, <1>7, RegisterPeerStep, UnregisterPeerStep,
     ElevationOptionsStep, TakeElevationStep, FinishLoginStep, FinishElevationStep,
     DeviceCommandStep DEF Next

(***************************************************************************)
(* The theorems.                                                           *)
(***************************************************************************)

\* What the invariant says of the properties the runs check.
LEMMA InvImplies ==
  IInv => IdentityTypes /\ NoOrphanSession /\ ElevationCovered /\ PeerBacked /\ LockedAtLimit
<1> SUFFICES ASSUME IInv
             PROVE  IdentityTypes /\ NoOrphanSession /\ ElevationCovered /\ PeerBacked
                      /\ LockedAtLimit
  OBVIOUS
<1>1. IdentityTypes
  BY DEF IInv
<1>2. \A s \in Live :
        /\ session[s] # None /\ session[s].d \in Devices
        /\ Good(session[s], device[session[s].d])
  BY DEF IInv, Live, SessionsGood, Good, Session
<1>3. NoOrphanSession
  BY <1>1, <1>2, UsableDevice DEF NoOrphanSession, Good
<1>4. ElevationCovered
  BY <1>2 DEF ElevationCovered, Good
<1>5. PeerBacked
  BY DEF PeerBacked, Connected, Live, IInv, PeersGood, Backed, IdentityTypes, Peer
<1>6. LockedAtLimit
  BY Distinct, LimitsPositive DEF LockedAtLimit, IInv, FailuresSound, IdentityTypes, Known
<1> QED
  BY <1>1, <1>3, <1>4, <1>5, <1>6

\* In every behaviour of the gateway's identity table, a session belongs to a
\* paired, unlocked device, its elevations are covered by that device's grants
\* and the policy, every socket that was not told to hang up has its session,
\* and the failures of a device in a row are limited.
THEOREM SessionsInvariant ==
  Spec => [](IdentityTypes /\ NoOrphanSession /\ ElevationCovered /\ PeerBacked /\ LockedAtLimit)
<1>1. Spec => []IInv
  BY InitInv, NextInv, PTL DEF Spec
<1> QED
  BY <1>1, InvImplies, PTL
=============================================================================
