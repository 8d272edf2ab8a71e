------------------------ MODULE SessionsLimitsProofs ------------------------
(***************************************************************************)
(* The limits of the identity table and the challenges of the ceremonies,  *)
(* for every policy and any number of devices, and why a session ends:     *)
(* what rests on the invariant of SessionsProofs and on counting.          *)
(***************************************************************************)
EXTENDS SessionsProofs, FiniteSetTheorems, FunctionTheorems, WellFoundedInduction

(***************************************************************************)
(* The ceremonies.                                                         *)
(***************************************************************************)

\* Challenges are numbered as they are issued.
Numbered ==
  /\ \A l \in logins : l.c <= challenges
  /\ \A e \in elevations : e.c <= challenges
  /\ \A t \in taken : t.c <= challenges

\* A number is that of one challenge, in one place, and a session has one.
NumbersApart ==
  /\ \A k, l \in logins : k.c = l.c => k = l
  /\ \A e, f \in elevations : e.c = f.c => e = f
  /\ \A e, f \in elevations : e.s = f.s => e = f
  /\ \A l \in logins, e \in elevations : l.c # e.c
  /\ \A l \in logins, t \in taken : l.c # t.c
  /\ \A e \in elevations, t \in taken : e.c # t.c

CeremonyInv ==
  /\ CeremonyTypes
  /\ IsFiniteSet(logins)
  /\ Numbered
  /\ NumbersApart

\* Fields of the challenges.
LEMMA ChallengeFields ==
  ASSUME CeremonyTypes
  PROVE  /\ challenges \in Nat
         /\ \A l \in logins : l \in Login /\ l.c \in Nat
         /\ \A e \in elevations : e \in Elevation /\ e.c \in Nat /\ e.s \in SessionIds
         /\ \A t \in taken : t \in Taken /\ t.c \in Nat
<1>1. \A c \in Challenges : c \in Nat
  BY BoundsNatural DEF Challenges
<1>2. \A l \in logins : l \in Login /\ l.c \in Nat
  BY <1>1 DEF CeremonyTypes, Login
<1>3. \A e \in elevations : e \in Elevation /\ e.c \in Nat /\ e.s \in SessionIds
  BY <1>1 DEF CeremonyTypes, Elevation
<1>4. \A t \in taken : t \in Taken /\ t.c \in Nat
  BY <1>1 DEF CeremonyTypes, Taken
<1>5. challenges \in Nat
  BY BoundsNatural DEF CeremonyTypes
<1> QED
  BY <1>2, <1>3, <1>4, <1>5

\* A set of naturals that is not empty has a least element.
LEMMA LeastNatural ==
  ASSUME NEW T, T \subseteq Nat, T # {}
  PROVE  \E x \in T : \A y \in T : ~(y < x)
<1> DEFINE R == OpToRel(<, Nat)
<1>1. IsWellFoundedOn(R, Nat)
  BY NatLessThanWellFounded
<1>2. \A x, y \in Nat : y < x => <<y, x>> \in R
  BY DEF OpToRel
<1> HIDE DEF R
<1>3. PICK x \in T : \A y \in T : ~(<<y, x>> \in R)
  BY <1>1, WFMin
<1> QED
  BY <1>2, <1>3

\* What is purged or consumed disturbs nothing.
LEMMA ShrinkKeeps ==
  ASSUME CeremonyInv, logins' \subseteq logins, elevations' \subseteq elevations,
         taken' \subseteq taken, challenges' = challenges
  PROVE  CeremonyInv'
<1>1. IsFiniteSet(logins') /\ Cardinality(logins') <= Cardinality(logins)
  BY FS_Subset DEF CeremonyInv
<1>2. Cardinality(logins') <= LOGIN_LIMIT
  <2>1. Cardinality(logins) \in Nat /\ Cardinality(logins') \in Nat
    BY <1>1, FS_CardinalityType DEF CeremonyInv
  <2> QED
    BY <1>1, <2>1, LimitsPositive DEF CeremonyInv, CeremonyTypes
<1>3. CeremonyTypes'
  BY <1>2 DEF CeremonyInv, CeremonyTypes
<1>4. Numbered'
  BY DEF CeremonyInv, Numbered
<1>5. NumbersApart'
  BY DEF CeremonyInv, NumbersApart
<1> QED
  BY <1>1, <1>3, <1>4, <1>5 DEF CeremonyInv

\* Ceremonies::insert leaves room for one more login challenge.
LEMMA KeptLoginsRoom ==
  ASSUME CeremonyInv
  PROVE  /\ KeptLogins \subseteq logins
         /\ IsFiniteSet(KeptLogins)
         /\ Cardinality(KeptLogins) + 1 <= LOGIN_LIMIT
<1>1. KeptLogins \subseteq FreshLogins /\ FreshLogins \subseteq logins
  BY DEF KeptLogins, FreshLogins
<1>2. IsFiniteSet(FreshLogins) /\ Cardinality(FreshLogins) <= Cardinality(logins)
  BY <1>1, FS_Subset DEF CeremonyInv
<1>3. IsFiniteSet(KeptLogins) /\ Cardinality(KeptLogins) <= Cardinality(FreshLogins)
  BY <1>1, <1>2, FS_Subset
<1>4. /\ Cardinality(logins) \in Nat /\ Cardinality(FreshLogins) \in Nat
      /\ Cardinality(KeptLogins) \in Nat
  BY <1>2, <1>3, FS_CardinalityType DEF CeremonyInv
<1>5. Cardinality(logins) <= LOGIN_LIMIT
  BY DEF CeremonyInv, CeremonyTypes
<1>6. CASE ~(Cardinality(FreshLogins) >= LOGIN_LIMIT)
  <2>1. KeptLogins = FreshLogins
    BY <1>6 DEF KeptLogins
  <2> QED
    BY <1>1, <1>3, <1>4, <1>6, <2>1, LimitsPositive
<1>7. CASE Cardinality(FreshLogins) >= LOGIN_LIMIT
  <2>1. FreshLogins # {}
    BY <1>2, <1>4, <1>7, FS_EmptySet, LimitsPositive
  <2>2. KeptLogins = {l \in FreshLogins : \E k \in FreshLogins : k.c < l.c}
    BY <1>7 DEF KeptLogins
  <2> DEFINE C == {l.c : l \in FreshLogins}
  <2>3. C \subseteq Nat /\ C # {}
    BY <1>1, <2>1, ChallengeFields DEF CeremonyInv
  <2>4. PICK x \in C : \A y \in C : ~(y < x)
    BY <2>3, LeastNatural
  <2>5. PICK m \in FreshLogins : m.c = x
    OBVIOUS
  <2>6. m \notin KeptLogins
    BY <2>2, <2>4, <2>5
  <2>7. Cardinality(KeptLogins) # Cardinality(FreshLogins)
    BY <1>1, <1>2, <2>5, <2>6, FS_Subset
  <2> QED
    BY <1>1, <1>2, <1>3, <1>4, <1>5, <2>7, LimitsPositive
<1> QED
  BY <1>6, <1>7

\* Gateway::login_options.
LEMMA LoginOptionsCeremony ==
  ASSUME IdentityTypes, CeremonyInv, LoginOptions
  PROVE  CeremonyInv'
<1>1. PICK new : new = [c |-> challenges + 1, until |-> CeremonyEnd]
  OBVIOUS
<1>2. /\ logins' = KeptLogins \cup {new}
      /\ elevations' \subseteq elevations /\ taken' = taken
      /\ challenges' = challenges + 1 /\ challenges < MaxChallenges
  BY <1>1 DEF LoginOptions, FreshElevations
<1>3. /\ challenges \in Nat
      /\ \A l \in logins : l \in Login /\ l.c \in Nat
      /\ \A e \in elevations : e \in Elevation /\ e.c \in Nat /\ e.s \in SessionIds
      /\ \A t \in taken : t \in Taken /\ t.c \in Nat
  BY ChallengeFields DEF CeremonyInv
<1>4. new.c = challenges + 1
  BY <1>1
<1>5. new \in Login
  <2>1. CeremonyEnd \in Nat
    BY BoundsNatural, PolicyPositive DEF IdentityTypes, CeremonyEnd, Min2
  <2>2. challenges + 1 \in Challenges
    BY <1>2, <1>3, BoundsNatural DEF Challenges
  <2> QED
    BY <1>1, <2>1, <2>2 DEF Login
<1>6. /\ KeptLogins \subseteq logins
      /\ IsFiniteSet(KeptLogins)
      /\ Cardinality(KeptLogins) + 1 <= LOGIN_LIMIT
  BY KeptLoginsRoom
<1>7. IsFiniteSet(logins') /\ Cardinality(logins') <= LOGIN_LIMIT
  <2>1. Cardinality(KeptLogins) \in Nat
    BY <1>6, FS_CardinalityType
  <2>2. /\ IsFiniteSet(KeptLogins \cup {new})
        /\ Cardinality(KeptLogins \cup {new}) =
             IF new \in KeptLogins THEN Cardinality(KeptLogins) ELSE Cardinality(KeptLogins) + 1
    BY <1>6, FS_AddElement
  <2> QED
    BY <1>2, <1>6, <2>1, <2>2, LimitsPositive
<1>8. CeremonyTypes'
  BY <1>2, <1>3, <1>5, <1>6, <1>7, BoundsNatural DEF CeremonyInv, CeremonyTypes
<1>9. /\ \A l \in logins : l.c <= challenges
      /\ \A e \in elevations : e.c <= challenges
      /\ \A t \in taken : t.c <= challenges
  BY DEF CeremonyInv, Numbered
<1>10. Numbered'
  BY <1>2, <1>3, <1>4, <1>6, <1>9 DEF Numbered
<1>11. NumbersApart'
  <2>1. \A k, l \in logins' : k.c = l.c => k = l
    BY <1>2, <1>3, <1>4, <1>6, <1>9 DEF CeremonyInv, NumbersApart
  <2>2. \A l \in logins', e \in elevations' : l.c # e.c
    BY <1>2, <1>3, <1>4, <1>6, <1>9 DEF CeremonyInv, NumbersApart
  <2>3. \A l \in logins', t \in taken' : l.c # t.c
    BY <1>2, <1>3, <1>4, <1>6, <1>9 DEF CeremonyInv, NumbersApart
  <2> QED
    BY <1>2, <2>1, <2>2, <2>3 DEF CeremonyInv, NumbersApart
<1> QED
  BY <1>7, <1>8, <1>10, <1>11 DEF CeremonyInv

\* Gateway::elevation_options.
LEMMA ElevationOptionsCeremony ==
  ASSUME IdentityTypes, CeremonyInv, NEW s \in SessionIds, NEW scope \in Scopes,
         ElevationOptions(s, scope)
  PROVE  CeremonyInv'
<1>1. PICK new : new = [c |-> challenges + 1, s |-> s, scope |-> scope, until |-> CeremonyEnd]
  OBVIOUS
<1>2. /\ logins' \subseteq logins /\ taken' = taken /\ challenges < MaxChallenges
      /\ Others(s) \subseteq elevations
      /\ \A e \in Others(s) : e.s # s
  BY DEF ElevationOptions, FreshLogins, Others, FreshElevations
<1>3. CASE elevations' = Others(s) /\ UNCHANGED challenges
  BY <1>2, <1>3, ShrinkKeeps
<1>4. CASE challenges' = challenges + 1 /\ elevations' = Others(s) \cup {new}
  <2>1. /\ challenges \in Nat
        /\ \A l \in logins : l \in Login /\ l.c \in Nat
        /\ \A e \in elevations : e \in Elevation /\ e.c \in Nat /\ e.s \in SessionIds
        /\ \A t \in taken : t \in Taken /\ t.c \in Nat
    BY ChallengeFields DEF CeremonyInv
  <2>2. new.c = challenges + 1 /\ new.s = s
    BY <1>1
  <2>3. new \in Elevation
    <3>1. CeremonyEnd \in Nat
      BY BoundsNatural, PolicyPositive DEF IdentityTypes, CeremonyEnd, Min2
    <3>2. challenges + 1 \in Challenges
      BY <1>2, <2>1, BoundsNatural DEF Challenges
    <3> QED
      BY <1>1, <3>1, <3>2 DEF Elevation
  <2>4. IsFiniteSet(logins') /\ Cardinality(logins') <= LOGIN_LIMIT
    <3>1. IsFiniteSet(logins') /\ Cardinality(logins') <= Cardinality(logins)
      BY <1>2, FS_Subset DEF CeremonyInv
    <3>2. Cardinality(logins) \in Nat /\ Cardinality(logins') \in Nat
      BY <3>1, FS_CardinalityType DEF CeremonyInv
    <3> QED
      BY <3>1, <3>2, LimitsPositive DEF CeremonyInv, CeremonyTypes
  <2>5. CeremonyTypes'
    BY <1>2, <1>4, <2>1, <2>3, <2>4, BoundsNatural DEF CeremonyInv, CeremonyTypes
  <2>6. /\ \A l \in logins : l.c <= challenges
        /\ \A e \in elevations : e.c <= challenges
        /\ \A t \in taken : t.c <= challenges
    BY DEF CeremonyInv, Numbered
  <2>7. Numbered'
    BY <1>2, <1>4, <2>1, <2>2, <2>6 DEF Numbered
  <2>8. NumbersApart'
    <3>1. \A e, f \in elevations' : e.c = f.c => e = f
      BY <1>2, <1>4, <2>1, <2>2, <2>6 DEF CeremonyInv, NumbersApart
    <3>2. \A e, f \in elevations' : e.s = f.s => e = f
      BY <1>2, <1>4, <2>2 DEF CeremonyInv, NumbersApart
    <3>3. \A l \in logins', e \in elevations' : l.c # e.c
      BY <1>2, <1>4, <2>1, <2>2, <2>6 DEF CeremonyInv, NumbersApart
    <3>4. \A e \in elevations', t \in taken' : e.c # t.c
      BY <1>2, <1>4, <2>1, <2>2, <2>6 DEF CeremonyInv, NumbersApart
    <3> QED
      BY <1>2, <3>1, <3>2, <3>3, <3>4 DEF CeremonyInv, NumbersApart
  <2> QED
    BY <2>4, <2>5, <2>7, <2>8 DEF CeremonyInv
<1> QED
  BY <1>1, <1>3, <1>4 DEF ElevationOptions

\* Ceremonies::take_assertion moves one challenge to the requests that verify.
LEMMA TakeCeremony ==
  ASSUME CeremonyInv,
         \/ \E l \in logins : TakeLogin(l)
         \/ \E e \in elevations : TakeElevation(e)
  PROVE  CeremonyInv'
<1>1. /\ challenges \in Nat
      /\ \A l \in logins : l \in Login /\ l.c \in Nat
      /\ \A e \in elevations : e \in Elevation /\ e.c \in Nat /\ e.s \in SessionIds
      /\ \A t \in taken : t \in Taken /\ t.c \in Nat
  BY ChallengeFields DEF CeremonyInv
<1>2. /\ \A l \in logins : l.c <= challenges
      /\ \A e \in elevations : e.c <= challenges
      /\ \A t \in taken : t.c <= challenges
  BY DEF CeremonyInv, Numbered
<1>3. ASSUME NEW new \in Taken,
             logins' \subseteq logins, elevations' \subseteq elevations,
             taken' = taken \cup {new}, challenges' = challenges, new.c <= challenges,
             \A l \in logins' : l.c # new.c, \A e \in elevations' : e.c # new.c
      PROVE  CeremonyInv'
  <2>1. IsFiniteSet(logins') /\ Cardinality(logins') <= Cardinality(logins)
    BY <1>3, FS_Subset DEF CeremonyInv
  <2>2. Cardinality(logins) \in Nat /\ Cardinality(logins') \in Nat
    BY <2>1, FS_CardinalityType DEF CeremonyInv
  <2>3. Cardinality(logins') <= LOGIN_LIMIT
    BY <2>1, <2>2, LimitsPositive DEF CeremonyInv, CeremonyTypes
  <2>4. CeremonyTypes'
    BY <1>3, <2>3 DEF CeremonyInv, CeremonyTypes
  <2>5. Numbered'
    BY <1>2, <1>3 DEF Numbered
  <2>6. NumbersApart'
    BY <1>3 DEF CeremonyInv, NumbersApart
  <2> QED
    BY <2>1, <2>4, <2>5, <2>6 DEF CeremonyInv
<1>4. ASSUME NEW l \in logins, TakeLogin(l)
      PROVE  CeremonyInv'
  <2>1. PICK new : new = [c |-> l.c, kind |-> "login"]
    OBVIOUS
  <2>2. new \in Taken /\ new.c = l.c
    BY <1>1, <2>1 DEF Taken, Login
  <2>3. /\ logins' \subseteq logins \ {l} /\ elevations' \subseteq elevations
        /\ taken' = taken \cup {new} /\ challenges' = challenges
    BY <1>4, <2>1 DEF TakeLogin, FreshLogins, FreshElevations
  <2>4. \A k \in logins' : k.c # new.c
    BY <2>2, <2>3 DEF CeremonyInv, NumbersApart
  <2>5. \A e \in elevations' : e.c # new.c
    BY <2>2, <2>3 DEF CeremonyInv, NumbersApart
  <2> QED
    BY <1>2, <1>3, <2>2, <2>3, <2>4, <2>5
<1>5. ASSUME NEW e \in elevations, TakeElevation(e)
      PROVE  CeremonyInv'
  <2>1. PICK new : new = [c |-> e.c, kind |-> "elevation", s |-> e.s, scope |-> e.scope]
    OBVIOUS
  <2>2. new \in Taken /\ new.c = e.c
    BY <1>1, <2>1 DEF Taken, Elevation
  <2>3. /\ logins' \subseteq logins /\ elevations' \subseteq elevations \ {e}
        /\ taken' = taken \cup {new} /\ challenges' = challenges
    BY <1>5, <2>1 DEF TakeElevation, FreshLogins, FreshElevations
  <2>4. \A l \in logins' : l.c # new.c
    BY <2>2, <2>3 DEF CeremonyInv, NumbersApart
  <2>5. \A f \in elevations' : f.c # new.c
    BY <2>2, <2>3 DEF CeremonyInv, NumbersApart
  <2> QED
    BY <1>2, <1>3, <2>2, <2>3, <2>4, <2>5
<1> QED
  BY <1>4, <1>5

\* No challenge is issued yet.
LEMMA InitCeremony == Init => CeremonyInv
<1> SUFFICES ASSUME Init PROVE CeremonyInv
  OBVIOUS
<1>1. /\ logins = {} /\ elevations = {} /\ taken = {} /\ challenges = 0
  BY DEF Init
<1>2. IsFiniteSet(logins) /\ Cardinality(logins) = 0
  BY <1>1, FS_EmptySet
<1>3. CeremonyTypes
  BY <1>1, <1>2, BoundsNatural, LimitsPositive DEF CeremonyTypes
<1> QED
  BY <1>1, <1>2, <1>3 DEF CeremonyInv, Numbered, NumbersApart

\* Every step keeps the challenges apart.
LEMMA NextCeremony == IInv /\ CeremonyInv /\ [Next]_vars => CeremonyInv'
<1> SUFFICES ASSUME IInv, CeremonyInv, [Next]_vars PROVE CeremonyInv'
  OBVIOUS
<1>1. IdentityTypes
  BY DEF IInv
<1>2. CASE UNCHANGED ceremonies
  BY <1>2, ShrinkKeeps DEF ceremonies
<1>3. CASE Maintenance
  BY <1>3, ShrinkKeeps DEF Maintenance, FreshLogins, FreshElevations
<1>4. ASSUME NEW t \in taken, NEW d \in Devices, NEW verdict \in Verdicts,
             FinishLogin(t, d, verdict)
      PROVE  CeremonyInv'
  <2>1. /\ logins' = logins /\ elevations' = elevations /\ challenges' = challenges
        /\ taken' \subseteq taken
    BY <1>4 DEF FinishLogin
  <2> QED
    BY <2>1, ShrinkKeeps
<1>5. ASSUME NEW t \in taken, NEW verdict \in Verdicts, FinishElevation(t, verdict)
      PROVE  CeremonyInv'
  <2>1. /\ logins' = logins /\ elevations' = elevations /\ challenges' = challenges
        /\ taken' \subseteq taken
    BY <1>5 DEF FinishElevation
  <2> QED
    BY <2>1, ShrinkKeeps
<1>6. ASSUME NEW s \in SessionIds,
             \/ Lapse(s) \/ View(s) \/ Logout(s) \/ RegisterPeer(s)
             \/ \E scope \in Scopes : Authorize(s, scope)
      PROVE  UNCHANGED ceremonies
  BY <1>6 DEF Lapse, View, Logout, RegisterPeer, Authorize
<1>7. ASSUME NEW d \in Devices,
             \/ \E grants \in Grants : Update(d, grants)
             \/ Unlock(d) \/ Revoke(d) \/ Register(d) \/ AddCredential(d)
      PROVE  UNCHANGED ceremonies
  BY <1>7 DEF Update, Unlock, Revoke, Register, AddCredential
<1>8. Tick \/ UNCHANGED vars => UNCHANGED ceremonies
  BY DEF Tick, vars
<1>9. \A p \in PeerIds : UnregisterPeer(p) => UNCHANGED ceremonies
  BY DEF UnregisterPeer
<1> QED
  BY <1>1, <1>2, <1>3, <1>4, <1>5, <1>6, <1>7, <1>8, <1>9, LoginOptionsCeremony,
     ElevationOptionsCeremony, TakeCeremony DEF Next

\* The properties of the challenges.
LEMMA CeremonyImplies == CeremonyInv => CeremonyTypes /\ ChallengeOnce
<1> SUFFICES ASSUME CeremonyInv PROVE CeremonyTypes /\ ChallengeOnce
  OBVIOUS
<1>1. CeremonyTypes /\ NumbersApart
  BY DEF CeremonyInv
<1> QED
  BY <1>1 DEF ChallengeOnce, NumbersApart

\* The identity table and the challenges keep their types, the pool of login
\* challenges its limit, in every behaviour.
THEOREM SessionsTypes == Spec => []TypeOK
<1>1. Spec => []IInv
  BY InitInv, NextInv, PTL DEF Spec
<1>2. Spec => []CeremonyInv
  BY <1>1, InitCeremony, NextCeremony, PTL DEF Spec
<1>3. IInv /\ CeremonyInv => TypeOK
  BY CeremonyImplies DEF IInv, TypeOK
<1> QED
  BY <1>1, <1>2, <1>3, PTL

\* A challenge that was taken, replaced or has expired is nowhere else: no
\* finish request can use it a second time.
THEOREM ChallengeSpentOnce == Spec => []ChallengeOnce
<1>1. Spec => []IInv
  BY InitInv, NextInv, PTL DEF Spec
<1>2. Spec => []CeremonyInv
  BY <1>1, InitCeremony, NextCeremony, PTL DEF Spec
<1> QED
  BY <1>2, CeremonyImplies, PTL

\* No session of a device that is revoked or locked stays in the table.
THEOREM SessionsNoOrphan == Spec => []NoOrphanSession
  BY SessionsInvariant, PTL

\* A peer that was not told to hang up has its session.
THEOREM PeersStayBacked == Spec => []PeerBacked
  BY SessionsInvariant, PTL

(***************************************************************************)
(* Counting.                                                               *)
(***************************************************************************)

\* A finite set can be numbered.
LEMMA Numbering ==
  ASSUME NEW S, IsFiniteSet(S)
  PROVE  \E b \in [S -> 1 .. Cardinality(S)] : \A x, y \in S : b[x] = b[y] => x = y
<1>1. ExistsBijection(S, 1 .. Cardinality(S))
  BY FS_CardinalityType, Fun_ExistsBijSymmetric
<1>2. PICK b : b \in Bijection(S, 1 .. Cardinality(S))
  BY <1>1 DEF ExistsBijection
<1> QED
  BY <1>2 DEF Bijection, Injection, IsInjective

\* What is in T is shared out over D, at most k to each: with a place left at
\* one of them, T has fewer than k for each of D.
Share(T, f, d) == {t \in T : f[t] = d}

LEMMA SharedOut ==
  ASSUME NEW D, IsFiniteSet(D), NEW T, IsFiniteSet(T), NEW f \in [T -> D],
         NEW k \in Nat \ {0},
         \A d \in D : Cardinality(Share(T, f, d)) <= k,
         NEW home \in D, Cardinality(Share(T, f, home)) < k
  PROVE  Cardinality(T) < Cardinality(D) * k
<1> DEFINE Numbers(d, b) ==
      /\ b \in [Share(T, f, d) -> 1 .. Cardinality(Share(T, f, d))]
      /\ \A x, y \in Share(T, f, d) : b[x] = b[y] => x = y
<1> DEFINE g == [d \in D |-> CHOOSE b : Numbers(d, b)]
<1>1. \A d \in D : IsFiniteSet(Share(T, f, d)) /\ Cardinality(Share(T, f, d)) \in Nat
  <2> TAKE d \in D
  <2>1. Share(T, f, d) \in SUBSET T
    BY DEF Share
  <2> QED
    BY <2>1, FS_Subset, FS_CardinalityType
<1>2. \A d \in D : \E b : Numbers(d, b)
  BY <1>1, Numbering
<1>3. \A d \in D : Numbers(d, g[d])
  <2> HIDE DEF Numbers
  <2> QED
    BY <1>2, Zenon
<1> HIDE DEF g
<1>4. \A d \in D : \A x \in Share(T, f, d) : g[d][x] \in 1 .. Cardinality(Share(T, f, d))
  BY <1>3
<1>5. \A d \in D : \A x, y \in Share(T, f, d) : g[d][x] = g[d][y] => x = y
  BY <1>3
<1> DEFINE h == [t \in T |-> <<f[t], g[f[t]][t]>>]
<1> DEFINE Places == (D \X (1 .. k)) \ {<<home, k>>}
<1>6. \A t \in T : f[t] \in D /\ t \in Share(T, f, f[t])
  BY DEF Share
<1>7. \A t \in T : g[f[t]][t] \in 1 .. k /\ (f[t] = home => g[f[t]][t] # k)
  BY <1>1, <1>4, <1>6
<1>8. h \in [T -> Places]
  BY <1>6, <1>7
<1>9. \A x, y \in T : h[x] = h[y] => x = y
  <2> SUFFICES ASSUME NEW x \in T, NEW y \in T, h[x] = h[y] PROVE x = y
    OBVIOUS
  <2>1. f[x] = f[y] /\ g[f[x]][x] = g[f[y]][y]
    OBVIOUS
  <2> QED
    BY <2>1, <1>5, <1>6
<1>10. h \in Injection(T, Places)
  BY <1>8, <1>9 DEF Injection, IsInjective
<1>11. /\ IsFiniteSet(D \X (1 .. k))
       /\ Cardinality(D \X (1 .. k)) = Cardinality(D) * k
  <2>1. IsFiniteSet(1 .. k) /\ Cardinality(1 .. k) = k
    BY FS_Interval
  <2> QED
    BY <2>1, FS_Product
<1>12. <<home, k>> \in D \X (1 .. k)
  OBVIOUS
<1>13. IsFiniteSet(Places) /\ Cardinality(Places) = Cardinality(D) * k - 1
  <2>1. PICK G : G = D \X (1 .. k)
    OBVIOUS
  <2>2. PICK last : last = <<home, k>>
    OBVIOUS
  <2>3. IsFiniteSet(G) /\ last \in G /\ Places = G \ {last}
    BY <1>11, <1>12, <2>1, <2>2
  <2>4. IsFiniteSet(G \ {last}) /\ Cardinality(G \ {last}) = Cardinality(G) - 1
    BY <2>3, FS_RemoveElement
  <2> QED
    BY <1>11, <2>1, <2>3, <2>4
<1>14. Cardinality(T) <= Cardinality(Places)
  BY <1>10, <1>13, FS_Injection
<1>15. Cardinality(T) \in Nat /\ Cardinality(D \X (1 .. k)) \in Nat
  BY <1>11, FS_CardinalityType
<1>16. PICK n \in Nat : n = Cardinality(D) * k
  BY <1>11, <1>15
<1>17. PICK c \in Nat : c = Cardinality(T)
  BY <1>15
<1>18. c <= n - 1
  BY <1>13, <1>14, <1>16, <1>17
<1>19. c < n
  BY <1>18
<1> QED
  BY <1>16, <1>17, <1>19

\* The tables are finite.
LEMMA TablesFinite ==
  /\ IsFiniteSet(SessionIds) /\ IsFiniteSet(PeerIds)
  /\ IsFiniteSet(Known) /\ IsFiniteSet(Live) /\ IsFiniteSet(Connected)
  /\ \A d : IsFiniteSet(SessionsOf(d)) /\ IsFiniteSet(PeersOf(d))
<1>1. IsFiniteSet(SessionIds) /\ IsFiniteSet(PeerIds)
  BY BoundsNatural, FS_Interval DEF SessionIds, PeerIds
<1>2. /\ Live \in SUBSET SessionIds /\ Connected \in SUBSET PeerIds
      /\ Known \in SUBSET Devices
      /\ \A d : SessionsOf(d) \in SUBSET SessionIds /\ PeersOf(d) \in SUBSET PeerIds
  BY DEF Live, Connected, Known, SessionsOf, PeersOf
<1> QED
  BY <1>1, <1>2, FS_Subset, DevicesFinite

\* The cardinalities of two finite sets, one within the other.
LEMMA CardinalitiesWithin ==
  ASSUME NEW S, IsFiniteSet(S), NEW T, T \subseteq S
  PROVE  /\ IsFiniteSet(T)
         /\ Cardinality(T) \in Nat /\ Cardinality(S) \in Nat
         /\ Cardinality(T) <= Cardinality(S)
  BY FS_Subset, FS_CardinalityType

\* One element more.
LEMMA CardinalitiesWithinOneMore ==
  ASSUME NEW S, IsFiniteSet(S), NEW x, NEW T, T \subseteq S \cup {x}
  PROVE  /\ Cardinality(T) \in Nat /\ Cardinality(S) \in Nat
         /\ Cardinality(T) <= Cardinality(S) + 1
<1>1. PICK U : U = S \cup {x}
  OBVIOUS
<1>2. Cardinality(S) \in Nat
  BY FS_CardinalityType
<1>3. IsFiniteSet(U) /\ Cardinality(U) = IF x \in S THEN Cardinality(S) ELSE Cardinality(S) + 1
  BY <1>1, FS_AddElement
<1>4. /\ Cardinality(T) \in Nat /\ Cardinality(U) \in Nat
      /\ Cardinality(T) <= Cardinality(U)
  BY <1>1, <1>3, CardinalitiesWithin
<1> QED
  BY <1>2, <1>3, <1>4

(***************************************************************************)
(* The limits of the tables.                                               *)
(***************************************************************************)

\* Known devices, sessions and peers within their limits.
TableInv == Cardinality(Known) <= MAX_DEVICES /\ TablesBounded

\* A step that issues no session, and one that registers no peer.
NoNewSession ==
  \A s \in SessionIds :
    session'[s] # None => session[s] # None /\ session'[s].d = session[s].d

NoNewPeer ==
  \A p \in PeerIds :
    peer'[p] # None => peer[p] # None /\ peer'[p].d = peer[p].d

NoNewDevice == Known' \subseteq Known

DeviceSessionsBounded ==
  \A d \in Devices : Cardinality(SessionsOf(d)) <= SESSIONS_PER_DEVICE

PeersBounded ==
  /\ \A d \in Devices : Cardinality(PeersOf(d)) <= PEERS_PER_DEVICE
  /\ Cardinality(Connected) <= MAX_PEERS

\* No new session, no limit passed.
LEMMA SessionsStayBounded ==
  ASSUME TableInv, NoNewSession
  PROVE  DeviceSessionsBounded'
<1> SUFFICES ASSUME NEW d \in Devices
             PROVE  Cardinality(SessionsOf(d)') <= SESSIONS_PER_DEVICE
  BY DEF DeviceSessionsBounded
<1>1. SessionsOf(d)' \subseteq SessionsOf(d)
  BY DEF NoNewSession, SessionsOf, Live
<1>2. /\ Cardinality(SessionsOf(d)') \in Nat /\ Cardinality(SessionsOf(d)) \in Nat
      /\ Cardinality(SessionsOf(d)') <= Cardinality(SessionsOf(d))
  BY <1>1, TablesFinite, CardinalitiesWithin
<1>3. Cardinality(SessionsOf(d)) <= SESSIONS_PER_DEVICE
  BY DEF TableInv, TablesBounded
<1> QED
  BY <1>2, <1>3, LimitsPositive

\* No new peer, no limit passed.
LEMMA PeersStayBounded ==
  ASSUME TableInv, NoNewPeer
  PROVE  PeersBounded'
<1>1. ASSUME NEW d \in Devices
      PROVE  Cardinality(PeersOf(d)') <= PEERS_PER_DEVICE
  <2>1. PeersOf(d)' \subseteq PeersOf(d)
    BY DEF NoNewPeer, PeersOf
  <2>2. /\ Cardinality(PeersOf(d)') \in Nat /\ Cardinality(PeersOf(d)) \in Nat
        /\ Cardinality(PeersOf(d)') <= Cardinality(PeersOf(d))
    BY <2>1, TablesFinite, CardinalitiesWithin
  <2>3. Cardinality(PeersOf(d)) <= PEERS_PER_DEVICE
    BY DEF TableInv, TablesBounded
  <2> QED
    BY <2>2, <2>3, LimitsPositive
<1>2. Cardinality(Connected') <= MAX_PEERS
  <2>1. Connected' \subseteq Connected
    BY DEF NoNewPeer, Connected
  <2>2. /\ Cardinality(Connected') \in Nat /\ Cardinality(Connected) \in Nat
        /\ Cardinality(Connected') <= Cardinality(Connected)
    BY <2>1, TablesFinite, CardinalitiesWithin
  <2>3. Cardinality(Connected) <= MAX_PEERS
    BY DEF TableInv, TablesBounded
  <2> QED
    BY <2>2, <2>3, LimitsPositive
<1> QED
  BY <1>1, <1>2 DEF PeersBounded

\* No new device, no limit passed.
LEMMA DevicesStayBounded ==
  ASSUME TableInv, NoNewDevice
  PROVE  Cardinality(Known') <= MAX_DEVICES
<1>1. /\ Cardinality(Known') \in Nat /\ Cardinality(Known) \in Nat
      /\ Cardinality(Known') <= Cardinality(Known)
  BY TablesFinite, CardinalitiesWithin DEF NoNewDevice
<1> QED
  BY <1>1, LimitsPositive DEF TableInv

\* Ending sessions and hanging up their peers adds none.
LEMMA HungUpAddsNone ==
  ASSUME IInv, NEW S, peer' = HungUp(S)
  PROVE  NoNewPeer
<1> SUFFICES ASSUME NEW p \in PeerIds, peer'[p] # None
             PROVE  peer[p] # None /\ peer'[p].d = peer[p].d
  BY DEF NoNewPeer
<1>1. peer'[p] = IF peer[p] # None /\ peer[p].s \in S
                   THEN [peer[p] EXCEPT !.invalidated = TRUE] ELSE peer[p]
  BY DEF HungUp
<1>2. peer[p] # None /\ peer[p] \in Peer
  BY <1>1 DEF IInv, IdentityTypes
<1> QED
  BY <1>1, <1>2 DEF Peer

LEMMA InvalidateAddsNone ==
  ASSUME IInv, NEW S, Invalidate(S)
  PROVE  NoNewSession /\ NoNewPeer
<1>1. NoNewPeer
  BY HungUpAddsNone DEF Invalidate
<1>2. NoNewSession
  BY DEF Invalidate, Without, NoNewSession
<1> QED
  BY <1>1, <1>2

\* Nor does the refresh of an active session.
LEMMA SeenAddsNone ==
  ASSUME IInv, NEW s \in SessionIds, Active(s), session' = Seen(s)
  PROVE  NoNewSession
<1>1. PICK t \in Session : /\ Seen(s) = [session EXCEPT ![s] = t]
                           /\ t.d = session[s].d
  BY SeenRenews
<1>2. session \in [SessionIds -> Session \cup {None}] /\ session[s] # None
  BY DEF IInv, IdentityTypes, Active
<1> QED
  BY <1>1, <1>2 DEF NoNewSession

\* What happens to one device that is known makes no new one.
LEMMA KnownAddsNone ==
  ASSUME IInv, NEW d \in Known, NEW v, device' = [device EXCEPT ![d] = v]
  PROVE  NoNewDevice
<1>1. \A e \in Devices : e # d => device'[e] = device[e]
  BY DEF IInv, IdentityTypes
<1> QED
  BY <1>1 DEF NoNewDevice, Known

\* Nothing is added: most steps.
Quiet == NoNewSession /\ NoNewPeer /\ NoNewDevice

LEMMA QuietKeeps ==
  ASSUME TableInv, Quiet
  PROVE  TableInv'
<1>1. DeviceSessionsBounded' /\ PeersBounded' /\ Cardinality(Known') <= MAX_DEVICES
  BY SessionsStayBounded, PeersStayBounded, DevicesStayBounded DEF Quiet
<1> QED
  BY <1>1 DEF TableInv, TablesBounded, DeviceSessionsBounded, PeersBounded

\* Identity::assertion_failed.
LEMMA FailedQuiet ==
  ASSUME IInv, NEW d \in Devices, Usable(d), NEW rollback \in BOOLEAN,
         \/ Failed(d, rollback, session)
         \/ \E s \in SessionIds : Active(s) /\ Failed(d, rollback, Seen(s))
  PROVE  Quiet
<1>1. d \in Known
  BY DEF Usable
<1>2. CASE /\ device' = [device EXCEPT ![d].locked = TRUE]
           /\ Invalidate(SessionsOf(d))
  <2>1. device' = [device EXCEPT ![d] = [device[d] EXCEPT !.locked = TRUE]]
    BY <1>2 DEF IInv, IdentityTypes
  <2> QED
    BY <1>1, <1>2, <2>1, KnownAddsNone, InvalidateAddsNone DEF Quiet
<1>3. CASE UNCHANGED <<session, device, peer>>
  BY <1>3 DEF Quiet, NoNewSession, NoNewPeer, NoNewDevice, Known
<1>4. ASSUME NEW s \in SessionIds, Active(s), session' = Seen(s), UNCHANGED <<device, peer>>
      PROVE  Quiet
  BY <1>4, SeenAddsNone DEF Quiet, NoNewPeer, NoNewDevice, Known
<1> QED
  BY <1>2, <1>3, <1>4 DEF Failed

\* Identity::elevate.
LEMMA ElevateQuiet ==
  ASSUME IInv, NEW s \in SessionIds, NEW scope \in Scopes, Active(s), Elevate(s, scope)
  PROVE  Quiet
<1>1. session[s] \in Session /\ session[s] # None
  BY ActiveSession
<1>2. session \in [SessionIds -> Session \cup {None}]
  BY DEF IInv, IdentityTypes
<1>3. UNCHANGED <<device, peer>>
  BY DEF Elevate
<1>4. \E t : session' = [session EXCEPT ![s] = t] /\ t.d = session[s].d
  <2>1. CASE scope = "control"
    <3>1. PICK t : t = [session[s] EXCEPT !.last_seen = now,
                          !.control_until = ElevationEnd(s, scope), !.control_at = now]
      OBVIOUS
    <3>2. t.d = session[s].d
      BY <1>1, <3>1 DEF Session
    <3>3. session' = [session EXCEPT ![s] = t]
      BY <1>2, <2>1, <3>1 DEF Elevate
    <3> QED
      BY <3>2, <3>3
  <2>2. CASE scope = "full"
    <3>1. PICK t : t = [session[s] EXCEPT !.last_seen = now,
                          !.full_until = ElevationEnd(s, scope), !.full_at = now]
      OBVIOUS
    <3>2. t.d = session[s].d
      BY <1>1, <3>1 DEF Session
    <3>3. session' = [session EXCEPT ![s] = t]
      BY <1>2, <2>2, <3>1 DEF Elevate
    <3> QED
      BY <3>2, <3>3
  <2> QED
    BY <2>1, <2>2 DEF Scopes
<1>5. NoNewSession
  BY <1>1, <1>2, <1>4 DEF NoNewSession
<1> QED
  BY <1>3, <1>5 DEF Quiet, NoNewPeer, NoNewDevice, Known

\* Gateway::elevation_options.
LEMMA ElevationOptionsQuiet ==
  ASSUME IInv, NEW s \in SessionIds, NEW scope \in Scopes, ElevationOptions(s, scope)
  PROVE  Quiet
<1>1. Active(s) /\ peer' = HungUp(Inactive) /\ device' = device
  BY DEF ElevationOptions
<1>2. PICK t \in Session : /\ t = [session[s] EXCEPT !.last_seen = now]
                           /\ t.d = session[s].d
  BY <1>1, SeenRenews
<1>3. session[s] # None /\ s \notin Inactive
  BY <1>1 DEF Active, Inactive
<1>4. \A r \in SessionIds :
        session'[r] = IF r = s THEN t ELSE IF r \in Inactive THEN None ELSE session[r]
  BY <1>2, <1>3 DEF ElevationOptions, Without
<1>5. NoNewSession
  BY <1>2, <1>3, <1>4 DEF NoNewSession
<1> QED
  BY <1>1, <1>5, HungUpAddsNone DEF Quiet, NoNewDevice, Known

\* Identity::register_peer asks for room first.
LEMMA RegisterPeerKeeps ==
  ASSUME IInv, TableInv, NEW s \in SessionIds, RegisterPeer(s)
  PROVE  TableInv'
<1>1. PICK new : new = next_peer + 1
  OBVIOUS
<1>2. PICK q : q = [s |-> s, d |-> session[s].d, invalidated |-> FALSE]
  OBVIOUS
<1>3. /\ Active(s) /\ session' = Seen(s) /\ device' = device
      /\ peer' = [peer EXCEPT ![new] = q]
      /\ Cardinality(Connected) < MAX_PEERS
      /\ Cardinality(PeersOf(session[s].d)) < PEERS_PER_DEVICE
  BY <1>1, <1>2 DEF RegisterPeer
<1>4. DeviceSessionsBounded' /\ Cardinality(Known') <= MAX_DEVICES
  BY <1>3, SeenAddsNone, SessionsStayBounded, DevicesStayBounded DEF NoNewDevice, Known
<1>5. \A p \in PeerIds : p # new => peer'[p] = peer[p]
  BY <1>3 DEF IInv, IdentityTypes
<1>6. new \in PeerIds => peer'[new] = q
  BY <1>3 DEF IInv, IdentityTypes
<1>7. q.d = session[s].d
  BY <1>2
<1>8. Connected' \subseteq Connected \cup {new}
  BY <1>5 DEF Connected
<1>9. Cardinality(Connected') <= MAX_PEERS
  <2>1. /\ Cardinality(Connected') \in Nat /\ Cardinality(Connected) \in Nat
        /\ Cardinality(Connected') <= Cardinality(Connected) + 1
    BY <1>8, TablesFinite, CardinalitiesWithinOneMore
  <2> QED
    BY <1>3, <2>1, LimitsPositive
<1>10. ASSUME NEW d \in Devices
       PROVE  Cardinality(PeersOf(d)') <= PEERS_PER_DEVICE
  <2>1. IsFiniteSet(PeersOf(d)) /\ Cardinality(PeersOf(d)) \in Nat
    BY TablesFinite, FS_CardinalityType
  <2>2. Cardinality(PeersOf(d)) <= PEERS_PER_DEVICE
    BY DEF TableInv, TablesBounded
  <2>3. CASE d = session[s].d
    <3>1. PeersOf(d)' \subseteq PeersOf(d) \cup {new}
      BY <1>5 DEF PeersOf
    <3>2. /\ Cardinality(PeersOf(d)') \in Nat
          /\ Cardinality(PeersOf(d)') <= Cardinality(PeersOf(d)) + 1
      BY <2>1, <3>1, CardinalitiesWithinOneMore
    <3>3. Cardinality(PeersOf(d)) < PEERS_PER_DEVICE
      BY <1>3, <2>3
    <3> QED
      BY <2>1, <3>2, <3>3, LimitsPositive
  <2>4. CASE d # session[s].d
    <3>1. PeersOf(d)' \subseteq PeersOf(d)
      BY <1>5, <1>6, <1>7, <2>4 DEF PeersOf
    <3>2. /\ Cardinality(PeersOf(d)') \in Nat
          /\ Cardinality(PeersOf(d)') <= Cardinality(PeersOf(d))
      BY <2>1, <3>1, CardinalitiesWithin
    <3> QED
      BY <2>1, <2>2, <3>2, LimitsPositive
  <2> QED
    BY <2>3, <2>4
<1> QED
  BY <1>4, <1>9, <1>10 DEF TableInv, TablesBounded, DeviceSessionsBounded

\* Identity::register_verified asks for room first.
LEMMA RegisterKeeps ==
  ASSUME IInv, TableInv, NEW d \in Devices, Register(d)
  PROVE  TableInv'
<1>1. /\ Invalidate(SessionsOf(d)) /\ Cardinality(Known) < MAX_DEVICES
      /\ device' = [device EXCEPT ![d] = NewDevice]
  BY DEF Register
<1>2. DeviceSessionsBounded' /\ PeersBounded'
  BY <1>1, InvalidateAddsNone, SessionsStayBounded, PeersStayBounded
<1>3. Known' \subseteq Known \cup {d}
  BY <1>1 DEF Known, IInv, IdentityTypes
<1>4. /\ Cardinality(Known') \in Nat /\ Cardinality(Known) \in Nat
      /\ Cardinality(Known') <= Cardinality(Known) + 1
  BY <1>3, TablesFinite, CardinalitiesWithinOneMore
<1>5. Cardinality(Known') <= MAX_DEVICES
  BY <1>1, <1>4, LimitsPositive
<1> QED
  BY <1>2, <1>5 DEF TableInv, TablesBounded, DeviceSessionsBounded, PeersBounded

\* Identity::issue_session drops one of the device's sessions when it has no
\* room for another, and none otherwise.
LEMMA EvictionMakesRoom ==
  ASSUME TableInv, NEW d \in Devices, NEW out \in Evicted(d)
  PROVE  /\ out \subseteq SessionsOf(d) \ Inactive
         /\ Cardinality((SessionsOf(d) \ Inactive) \ out) < SESSIONS_PER_DEVICE
<1>1. PICK mine : mine = SessionsOf(d) \ Inactive
  OBVIOUS
<1>2. mine \subseteq SessionsOf(d)
  BY <1>1
<1>3. /\ IsFiniteSet(mine) /\ Cardinality(mine) \in Nat /\ Cardinality(SessionsOf(d)) \in Nat
      /\ Cardinality(mine) <= Cardinality(SessionsOf(d))
  BY <1>2, TablesFinite, CardinalitiesWithin
<1>4. Cardinality(SessionsOf(d)) <= SESSIONS_PER_DEVICE
  BY DEF TableInv, TablesBounded
<1>5. out \in IF Cardinality(mine) >= SESSIONS_PER_DEVICE
                THEN {{s} : s \in Oldest(mine)} ELSE {{}}
  BY <1>1 DEF Evicted
<1>6. CASE Cardinality(mine) >= SESSIONS_PER_DEVICE
  <2>1. PICK s \in Oldest(mine) : out = {s}
    BY <1>5, <1>6
  <2>2. s \in mine
    BY DEF Oldest
  <2>3. Cardinality(mine \ {s}) = Cardinality(mine) - 1
    BY <1>3, <2>2, FS_RemoveElement
  <2> QED
    BY <1>1, <1>3, <1>4, <2>1, <2>2, <2>3, LimitsPositive
<1>7. CASE ~(Cardinality(mine) >= SESSIONS_PER_DEVICE)
  <2>1. out = {}
    BY <1>5, <1>7
  <2>2. mine \ out = mine
    BY <2>1
  <2> QED
    BY <1>1, <1>3, <1>7, <2>1, <2>2, LimitsPositive
<1> QED
  BY <1>6, <1>7

\* A login issues its session within the limit of its device.
LEMMA IssueSessionKeeps ==
  ASSUME IInv, TableInv, NEW d \in Devices, IssueSession(d)
  PROVE  TableInv'
<1>1. NoNewDevice
  BY DEF IssueSession, NoNewDevice, Known
<1>2. CASE Invalidate(Inactive)
  BY <1>1, <1>2, InvalidateAddsNone, QuietKeeps DEF Quiet
<1>3. ASSUME NEW out \in Evicted(d), peer' = HungUp(Inactive \cup out),
             session' = Without(Inactive \cup out)
      PROVE  TableInv'
  BY <1>1, <1>3, InvalidateAddsNone, QuietKeeps DEF Quiet, Invalidate
<1>4. ASSUME NEW out \in Evicted(d), peer' = HungUp(Inactive \cup out),
             session' = [Without(Inactive \cup out) EXCEPT ![issued + 1] = NewSession(d)]
      PROVE  TableInv'
  <2>1. PICK new : new = issued + 1
    OBVIOUS
  <2>2. PICK t : t = NewSession(d)
    OBVIOUS
  <2>3. t.d = d
    BY <2>2 DEF NewSession
  <2>4. \A s \in SessionIds :
          session'[s] = IF s = new THEN t
                        ELSE IF s \in Inactive \cup out THEN None ELSE session[s]
    BY <1>4, <2>1, <2>2 DEF Without
  <2>5. ASSUME NEW e \in Devices
        PROVE  Cardinality(SessionsOf(e)') <= SESSIONS_PER_DEVICE
    <3>1. CASE e = d
      <4>1. PICK kept : kept = (SessionsOf(d) \ Inactive) \ out
        OBVIOUS
      <4>2. IsFiniteSet(kept)
        BY <4>1, TablesFinite, FS_Difference
      <4>3. Cardinality(kept) < SESSIONS_PER_DEVICE
        BY <1>4, <4>1, EvictionMakesRoom
      <4>4. SessionsOf(e)' \subseteq kept \cup {new}
        BY <2>4, <3>1, <4>1 DEF SessionsOf, Live
      <4>5. /\ Cardinality(SessionsOf(e)') \in Nat /\ Cardinality(kept) \in Nat
            /\ Cardinality(SessionsOf(e)') <= Cardinality(kept) + 1
        BY <4>2, <4>4, CardinalitiesWithinOneMore
      <4> QED
        BY <4>3, <4>5, LimitsPositive
    <3>2. CASE e # d
      <4>1. SessionsOf(e)' \subseteq SessionsOf(e)
        BY <2>3, <2>4, <3>2 DEF SessionsOf, Live
      <4>2. /\ Cardinality(SessionsOf(e)') \in Nat /\ Cardinality(SessionsOf(e)) \in Nat
            /\ Cardinality(SessionsOf(e)') <= Cardinality(SessionsOf(e))
        BY <4>1, TablesFinite, CardinalitiesWithin
      <4>3. Cardinality(SessionsOf(e)) <= SESSIONS_PER_DEVICE
        BY DEF TableInv, TablesBounded
      <4> QED
        BY <4>2, <4>3, LimitsPositive
    <3> QED
      BY <3>1, <3>2
  <2>6. PeersBounded' /\ Cardinality(Known') <= MAX_DEVICES
    BY <1>1, <1>4, HungUpAddsNone, PeersStayBounded, DevicesStayBounded
  <2> QED
    BY <2>5, <2>6 DEF TableInv, TablesBounded, PeersBounded
<1>5. ASSUME NEW out \in Evicted(d)
      PROVE  LET over == Inactive \cup out
             IN  /\ peer' = HungUp(over)
                 /\ issued < MaxSessions
                 /\ IF Cardinality(Live \ over) < SESSION_LIMIT
                      THEN /\ issued' = issued + 1
                           /\ session' = [Without(over) EXCEPT ![issued + 1] = NewSession(d)]
                      ELSE session' = Without(over) /\ UNCHANGED issued
             => TableInv'
  BY <1>3, <1>4
<1> QED
  BY <1>2, <1>5 DEF IssueSession

\* The gateway starts with no more devices than the policy allows.
LEMMA InitTable == Init => TableInv
<1> SUFFICES ASSUME Init PROVE TableInv
  OBVIOUS
<1>1. Cardinality(Known) <= MAX_DEVICES
  BY DEF Init
<1>2. Connected = {} /\ \A d : SessionsOf(d) = {} /\ PeersOf(d) = {}
  BY DEF Init, Connected, SessionsOf, Live, PeersOf
<1>3. Cardinality({}) = 0
  BY FS_EmptySet
<1> QED
  BY <1>1, <1>2, <1>3, LimitsPositive DEF TableInv, TablesBounded

\* Every step keeps the limits.
LEMMA NextTable == IInv /\ TableInv /\ [Next]_vars => TableInv'
<1> SUFFICES ASSUME IInv, TableInv, [Next]_vars PROVE TableInv'
  OBVIOUS
<1>1. ASSUME UNCHANGED <<device, session, peer>>
      PROVE  TableInv'
  BY <1>1, QuietKeeps DEF Quiet, NoNewSession, NoNewPeer, NoNewDevice, Known
<1>2. ASSUME NEW S, Invalidate(S), device' = device
      PROVE  TableInv'
  BY <1>2, InvalidateAddsNone, QuietKeeps DEF Quiet, NoNewDevice, Known
<1>3. ASSUME NEW s \in SessionIds, Active(s), session' = Seen(s), UNCHANGED <<device, peer>>
      PROVE  TableInv'
  BY <1>3, SeenAddsNone, QuietKeeps DEF Quiet, NoNewPeer, NoNewDevice, Known
<1>4. CASE Tick \/ LoginOptions \/ UNCHANGED vars
  BY <1>1, <1>4 DEF Tick, LoginOptions, vars, identity
<1>5. ASSUME NEW l \in logins, TakeLogin(l)
      PROVE  TableInv'
  BY <1>1, <1>5 DEF TakeLogin, identity
<1>6. ASSUME NEW e \in elevations, TakeElevation(e)
      PROVE  TableInv'
  BY <1>1, <1>6 DEF TakeElevation, identity
<1>7. CASE Maintenance
  BY <1>2, <1>7 DEF Maintenance
<1>8. ASSUME NEW s \in SessionIds, Lapse(s) \/ Logout(s)
      PROVE  TableInv'
  BY <1>2, <1>8 DEF Lapse, Logout
<1>9. ASSUME NEW s \in SessionIds, View(s) \/ \E scope \in Scopes : Authorize(s, scope)
      PROVE  TableInv'
  BY <1>3, <1>9 DEF View, Authorize
<1>10. ASSUME NEW s \in SessionIds, NEW scope \in Scopes, ElevationOptions(s, scope)
       PROVE  TableInv'
  BY <1>10, ElevationOptionsQuiet, QuietKeeps
<1>11. ASSUME NEW p \in PeerIds, UnregisterPeer(p)
       PROVE  TableInv'
  <2>1. UNCHANGED <<device, session>> /\ NoNewPeer
    BY <1>11 DEF UnregisterPeer, NoNewPeer, IInv, IdentityTypes
  <2> QED
    BY <2>1, QuietKeeps DEF Quiet, NoNewSession, NoNewDevice, Known
<1>12. ASSUME NEW d \in Devices,
              (\E grants \in Grants : Update(d, grants)) \/ Unlock(d) \/ Revoke(d)
       PROVE  TableInv'
  <2>1. d \in Known /\ Invalidate(SessionsOf(d))
    BY <1>12 DEF Update, Unlock, Revoke
  <2>2. \E v : device' = [device EXCEPT ![d] = v]
    <3>1. \A g : [device EXCEPT ![d].grants = g]
                   = [device EXCEPT ![d] = [device[d] EXCEPT !.grants = g]]
      BY DEF IInv, IdentityTypes
    <3>2. [device EXCEPT ![d].locked = FALSE]
            = [device EXCEPT ![d] = [device[d] EXCEPT !.locked = FALSE]]
      BY DEF IInv, IdentityTypes
    <3> QED
      BY <1>12, <3>1, <3>2 DEF Update, Unlock, Revoke
  <2> QED
    BY <2>1, <2>2, KnownAddsNone, InvalidateAddsNone, QuietKeeps DEF Quiet
<1>13. ASSUME NEW d \in Devices, AddCredential(d)
       PROVE  TableInv'
  BY <1>2, <1>13 DEF AddCredential
<1>14. ASSUME NEW d \in Devices, NEW t \in taken, NEW verdict \in Verdicts,
              FinishLogin(t, d, verdict)
       PROVE  TableInv'
  <2>1. CASE Rejected
    BY <1>1, <2>1 DEF Rejected
  <2>2. CASE Usable(d) /\ Failed(d, verdict = "rollback", session)
    BY <2>2, FailedQuiet, QuietKeeps
  <2>3. CASE IssueSession(d)
    BY <2>3, IssueSessionKeeps
  <2> QED
    BY <1>14, <2>1, <2>2, <2>3 DEF FinishLogin
<1>15. ASSUME NEW t \in taken, NEW verdict \in Verdicts, FinishElevation(t, verdict)
       PROVE  TableInv'
  <2>1. t.s \in SessionIds /\ t.scope \in Scopes
    BY <1>15 DEF IInv, TakenSound, FinishElevation
  <2>2. CASE Rejected
    BY <1>1, <2>2 DEF Rejected
  <2>3. CASE Invalidate({t.s}) /\ device' = device
    BY <1>2, <2>3
  <2>4. CASE Active(t.s) /\ session' = Seen(t.s) /\ UNCHANGED <<device, peer>>
    BY <1>3, <2>1, <2>4
  <2>5. CASE Active(t.s) /\ Failed(session[t.s].d, verdict = "rollback", Seen(t.s))
    <3>1. session[t.s].d \in Devices /\ Usable(session[t.s].d)
      BY <2>1, <2>5, ActiveSession DEF Active
    <3> QED
      BY <2>1, <2>5, <3>1, FailedQuiet, QuietKeeps
  <2>6. CASE Active(t.s) /\ Elevate(t.s, t.scope)
    BY <2>1, <2>6, ElevateQuiet, QuietKeeps
  <2> QED
    BY <1>15, <2>2, <2>3, <2>4, <2>5, <2>6 DEF FinishElevation
<1> QED
  BY <1>4, <1>5, <1>6, <1>7, <1>8, <1>9, <1>10, <1>11, <1>12, <1>13, <1>14, <1>15,
     RegisterPeerKeeps, RegisterKeeps DEF Next

(***************************************************************************)
(* The limits over all devices.                                            *)
(***************************************************************************)

\* Active sessions belong to known devices, so a set of them in which one
\* device has a place left is below the limit in all.
LEMMA ActiveBelowLimit ==
  ASSUME IInv, TableInv, NEW T, T \subseteq Live \ Inactive,
         NEW home \in Devices, Usable(home),
         Cardinality(T \cap SessionsOf(home)) < SESSIONS_PER_DEVICE
  PROVE  IsFiniteSet(T) /\ Cardinality(T) < SESSION_LIMIT
<1>1. PICK f : f = [s \in T |-> session[s].d]
  OBVIOUS
<1>2. \A s \in T : s \in SessionIds /\ Active(s)
  BY DEF Live, Inactive
<1>3. f \in [T -> Known]
  BY <1>1, <1>2 DEF Active, Usable
<1>4. \A d : Share(T, f, d) = T \cap SessionsOf(d)
  BY <1>1 DEF Share, SessionsOf
<1>5. IsFiniteSet(T)
  BY TablesFinite, FS_Subset
<1>6. \A d \in Known : Cardinality(Share(T, f, d)) <= SESSIONS_PER_DEVICE
  <2> TAKE d \in Known
  <2>1. Share(T, f, d) \subseteq SessionsOf(d)
    BY <1>4
  <2>2. /\ Cardinality(Share(T, f, d)) \in Nat /\ Cardinality(SessionsOf(d)) \in Nat
        /\ Cardinality(Share(T, f, d)) <= Cardinality(SessionsOf(d))
    BY <2>1, TablesFinite, CardinalitiesWithin
  <2>3. Cardinality(SessionsOf(d)) <= SESSIONS_PER_DEVICE
    BY DEF TableInv, TablesBounded, Known
  <2> QED
    BY <2>2, <2>3, LimitsPositive
<1>7. home \in Known /\ Cardinality(Share(T, f, home)) < SESSIONS_PER_DEVICE
  BY <1>4 DEF Usable
<1>8. Cardinality(T) < Cardinality(Known) * SESSIONS_PER_DEVICE
  BY <1>3, <1>5, <1>6, <1>7, TablesFinite, LimitsPositive, SharedOut
<1>9. Cardinality(Known) * SESSIONS_PER_DEVICE <= SESSION_LIMIT
  <2>1. PICK n \in Nat : n = Cardinality(Known)
    BY TablesFinite, FS_CardinalityType
  <2>2. n <= MAX_DEVICES
    BY <2>1 DEF TableInv
  <2>3. \A a, b, c \in Nat : a <= b => a * c <= b * c
    OBVIOUS
  <2> QED
    BY <2>1, <2>2, <2>3, LimitsPositive DEF SESSION_LIMIT
<1>10. /\ Cardinality(T) \in Nat
       /\ Cardinality(Known) * SESSIONS_PER_DEVICE \in Nat /\ SESSION_LIMIT \in Nat
  <2>1. Cardinality(T) \in Nat /\ Cardinality(Known) \in Nat
    BY <1>5, TablesFinite, FS_CardinalityType
  <2> QED
    BY <2>1, LimitsPositive DEF SESSION_LIMIT
<1>11. \A a, b, c \in Nat : a < b /\ b <= c => a < c
  OBVIOUS
<1> QED
  BY <1>5, <1>8, <1>9, <1>10, <1>11

\* A device always finds room for its session.
LEMMA RoomForSession ==
  ASSUME IInv, TableInv, NEW d \in Devices, Usable(d), NEW out \in Evicted(d)
  PROVE  Cardinality(Live \ (Inactive \cup out)) < SESSION_LIMIT
<1>1. PICK T : T = Live \ (Inactive \cup out)
  OBVIOUS
<1>2. PICK kept : kept = (SessionsOf(d) \ Inactive) \ out
  OBVIOUS
<1>3. T \cap SessionsOf(d) = kept
  BY <1>1, <1>2 DEF SessionsOf
<1>4. Cardinality(kept) < SESSIONS_PER_DEVICE
  BY <1>2, EvictionMakesRoom
<1>5. T \subseteq Live \ Inactive
  BY <1>1
<1> QED
  BY <1>1, <1>3, <1>4, <1>5, ActiveBelowLimit

\* A session always finds room for its challenge.
LEMMA RoomForChallenge ==
  ASSUME IInv, TableInv, CeremonyInv, NEW s \in Live \ Inactive
  PROVE  Cardinality(Others(s)) < SESSION_LIMIT
<1>1. PICK T : T = (Live \ Inactive) \ {s}
  OBVIOUS
<1>2. PICK d : d = session[s].d
  OBVIOUS
<1>3. s \in SessionIds /\ Active(s)
  BY DEF Live, Inactive
<1>4. d \in Devices /\ Usable(d)
  BY <1>2, <1>3, ActiveSession DEF Active
<1>5. T \cap SessionsOf(d) \subseteq SessionsOf(d) \ {s} /\ s \in SessionsOf(d)
  BY <1>1, <1>2 DEF SessionsOf
<1>6. Cardinality(T \cap SessionsOf(d)) < SESSIONS_PER_DEVICE
  <2>1. PICK mine : mine = SessionsOf(d)
    OBVIOUS
  <2>2. IsFiniteSet(mine) /\ Cardinality(mine) \in Nat
    BY <2>1, TablesFinite, FS_CardinalityType
  <2>3. IsFiniteSet(mine \ {s}) /\ Cardinality(mine \ {s}) = Cardinality(mine) - 1
    BY <1>5, <2>1, <2>2, FS_RemoveElement
  <2>4. /\ Cardinality(T \cap SessionsOf(d)) \in Nat /\ Cardinality(mine \ {s}) \in Nat
        /\ Cardinality(T \cap SessionsOf(d)) <= Cardinality(mine \ {s})
    BY <1>5, <2>1, <2>3, CardinalitiesWithin
  <2>5. Cardinality(mine) <= SESSIONS_PER_DEVICE
    BY <1>4, <2>1 DEF TableInv, TablesBounded
  <2> QED
    BY <2>2, <2>3, <2>4, <2>5, LimitsPositive
<1>7. IsFiniteSet(T) /\ Cardinality(T) < SESSION_LIMIT
  BY <1>1, <1>4, <1>6, ActiveBelowLimit
<1>8. PICK h : h = [e \in Others(s) |-> e.s]
  OBVIOUS
<1>9. Others(s) \subseteq elevations /\ \A e \in Others(s) : e.s \in T
  BY <1>1 DEF Others, FreshElevations
<1>10. h \in Injection(Others(s), T)
  <2>1. h \in [Others(s) -> T]
    BY <1>8, <1>9
  <2>2. \A e, g \in Others(s) : h[e] = h[g] => e = g
    BY <1>8, <1>9 DEF CeremonyInv, NumbersApart
  <2> QED
    BY <2>1, <2>2 DEF Injection, IsInjective
<1>11. IsFiniteSet(Others(s)) /\ Cardinality(Others(s)) <= Cardinality(T)
  BY <1>7, <1>10, FS_Injection
<1>12. Cardinality(Others(s)) \in Nat /\ Cardinality(T) \in Nat /\ SESSION_LIMIT \in Nat
  BY <1>7, <1>11, FS_CardinalityType, LimitsPositive DEF SESSION_LIMIT
<1>13. \A a, b, c \in Nat : a <= b /\ b < c => a < c
  OBVIOUS
<1> QED
  BY <1>7, <1>11, <1>12, <1>13

LEMMA TableImplies ==
  IInv /\ CeremonyInv /\ TableInv => LimitsExact
<1> SUFFICES ASSUME IInv, CeremonyInv, TableInv PROVE LimitsExact
  OBVIOUS
<1>1. RoomForEveryDevice
  BY RoomForSession, RoomForChallenge DEF RoomForEveryDevice
<1> QED
  BY <1>1, InvImplies DEF LimitsExact, TableInv

\* The inductive invariant of the whole component.
LEMMA SessionsSafe == Spec => [](IInv /\ CeremonyInv /\ TableInv)
<1>1. Spec => []IInv
  BY InitInv, NextInv, PTL DEF Spec
<1>2. Spec => []CeremonyInv
  BY <1>1, InitCeremony, NextCeremony, PTL DEF Spec
<1>3. Spec => []TableInv
  BY <1>1, InitTable, NextTable, PTL DEF Spec
<1> QED
  BY <1>1, <1>2, <1>3, PTL

\* The limits hold for each device and in all, and the limits in all never
\* refuse a device that keeps its own, whatever the policy's numbers are.
THEOREM SessionsLimitsExact == Spec => []LimitsExact
  BY SessionsSafe, TableImplies, PTL

(***************************************************************************)
(* Why a session ends.                                                     *)
(***************************************************************************)

\* What EndedForACause accepts.
Cause(s) ==
  LET d == session[s].d
  IN  \/ Logout(s)
      \/ \E grants \in Grants : Update(d, grants)
      \/ Unlock(d) \/ Revoke(d) \/ AddCredential(d)
      \/ device'[d].locked
      \/ /\ Cardinality(SessionsOf(d)) >= SESSIONS_PER_DEVICE
         /\ \A t \in SessionsOf(d) \ Inactive :
              session[s].created_at <= session[t].created_at
         /\ issued' = issued + 1
         /\ session'[issued'].d = d

\* Only the sessions in S are ended.
LEMMA DroppedAreNamed ==
  ASSUME NEW S, Invalidate(S), NEW s \in SessionIds, session[s] # None, session'[s] = None
  PROVE  s \in S
  BY DEF Invalidate, Without

\* A refreshed session stays, and so do the others.
LEMMA SeenStays ==
  ASSUME IInv, NEW r \in SessionIds, Active(r), session' = Seen(r),
         NEW s \in SessionIds, session[s] # None
  PROVE  session'[s] # None
<1>1. PICK t \in Session : Seen(r) = [session EXCEPT ![r] = t]
  BY SeenRenews
<1>2. session \in [SessionIds -> Session \cup {None}]
  BY DEF IInv, IdentityTypes
<1> QED
  BY <1>1, <1>2, Distinct

\* A lock-out names its device.
LEMMA FailedCause ==
  ASSUME IInv, NEW d \in Devices, Usable(d), NEW rollback \in BOOLEAN,
         NEW s \in SessionIds, Active(s), session'[s] = None,
         \/ Failed(d, rollback, session)
         \/ \E r \in SessionIds : Active(r) /\ Failed(d, rollback, Seen(r))
  PROVE  Cause(s)
<1>1. session[s] # None
  BY DEF Active
<1>2. CASE /\ device' = [device EXCEPT ![d].locked = TRUE]
           /\ Invalidate(SessionsOf(d))
  <2>1. session[s].d = d
    BY <1>1, <1>2, DroppedAreNamed DEF SessionsOf
  <2>2. device[d] \in Device
    BY UsableDevice DEF IInv
  <2>3. device' = [device EXCEPT ![d] = [device[d] EXCEPT !.locked = TRUE]]
    BY <1>2 DEF IInv, IdentityTypes
  <2>4. device'[d] = [device[d] EXCEPT !.locked = TRUE]
    BY <2>3 DEF IInv, IdentityTypes
  <2>5. device'[d].locked
    BY <2>2, <2>4 DEF Device
  <2> QED
    BY <2>1, <2>5 DEF Cause
<1>3. CASE session' = session
  BY <1>1, <1>3
<1>4. ASSUME NEW r \in SessionIds, Active(r), session' = Seen(r)
      PROVE  FALSE
  BY <1>1, <1>4, SeenStays
<1> QED
  BY <1>2, <1>3, <1>4 DEF Failed

\* Identity::elevate ends nothing.
LEMMA ElevateStays ==
  ASSUME IInv, NEW r \in SessionIds, NEW scope \in Scopes, Active(r), Elevate(r, scope),
         NEW s \in SessionIds, session[s] # None
  PROVE  session'[s] # None
<1>1. session[r] \in Session
  BY ActiveSession
<1>2. session \in [SessionIds -> Session \cup {None}]
  BY DEF IInv, IdentityTypes
<1>3. CASE scope = "control"
  <2>1. PICK t : t = [session[r] EXCEPT !.last_seen = now,
                        !.control_until = ElevationEnd(r, scope), !.control_at = now]
    OBVIOUS
  <2>2. t # None
    BY <1>1, <2>1 DEF Session, None
  <2>3. session' = [session EXCEPT ![r] = t]
    BY <1>2, <1>3, <2>1 DEF Elevate
  <2> QED
    BY <1>2, <2>2, <2>3
<1>4. CASE scope = "full"
  <2>1. PICK t : t = [session[r] EXCEPT !.last_seen = now,
                        !.full_until = ElevationEnd(r, scope), !.full_at = now]
    OBVIOUS
  <2>2. t # None
    BY <1>1, <2>1 DEF Session, None
  <2>3. session' = [session EXCEPT ![r] = t]
    BY <1>2, <1>4, <2>1 DEF Elevate
  <2> QED
    BY <1>2, <2>2, <2>3
<1> QED
  BY <1>3, <1>4 DEF Scopes

\* Gateway::elevation_options ends the inactive ones only.
LEMMA ElevationOptionsStays ==
  ASSUME IInv, NEW r \in SessionIds, NEW scope \in Scopes, ElevationOptions(r, scope),
         NEW s \in SessionIds, Active(s)
  PROVE  session'[s] # None
<1>1. Active(r)
  BY DEF ElevationOptions
<1>2. PICK t \in Session : t = [session[r] EXCEPT !.last_seen = now]
  BY <1>1, SeenRenews
<1>3. r \notin Inactive /\ s \notin Inactive /\ session[s] # None
  BY <1>1 DEF Active, Inactive
<1>4. session'[s] = IF s = r THEN t ELSE session[s]
  BY <1>2, <1>3 DEF ElevationOptions, Without
<1> QED
  BY <1>2, <1>3, <1>4, Distinct

\* A login ends the oldest session of its own device, if that is at its limit,
\* and then has its own: it is never refused after it made room.
LEMMA IssueCause ==
  ASSUME IInv, TableInv, NEW d \in Devices, Usable(d), IssueSession(d),
         NEW s \in SessionIds, Active(s), session'[s] = None
  PROVE  Cause(s)
<1>1. session[s] # None /\ s \notin Inactive /\ now < ENABLE_UNTIL
  BY DEF Active, Inactive
<1>2. ~(now >= ENABLE_UNTIL)
  <2>1. now \in Nat
    BY BoundsNatural DEF IInv, IdentityTypes
  <2> QED
    BY <1>1, <2>1, PolicyPositive
<1>3. PICK out \in Evicted(d) :
        LET over == Inactive \cup out
        IN  /\ peer' = HungUp(over)
            /\ issued < MaxSessions
            /\ IF Cardinality(Live \ over) < SESSION_LIMIT
                 THEN /\ issued' = issued + 1
                      /\ session' = [Without(over) EXCEPT ![issued + 1] = NewSession(d)]
                 ELSE session' = Without(over) /\ UNCHANGED issued
  BY <1>2, Zenon DEF IssueSession
<1>4. PICK over : over = Inactive \cup out
  OBVIOUS
<1>5. PICK new : new = issued + 1
  OBVIOUS
<1>6. Cardinality(Live \ over) < SESSION_LIMIT
  BY <1>4, RoomForSession
<1>7. /\ issued < MaxSessions /\ issued' = new
      /\ session' = [Without(over) EXCEPT ![new] = NewSession(d)]
  BY <1>3, <1>4, <1>5, <1>6
<1>8. new \in SessionIds
  BY <1>5, <1>7, BoundsNatural DEF SessionIds, IInv, IdentityTypes
<1>9. session'[new] = NewSession(d)
  BY <1>7, <1>8 DEF Without
<1>10. NewSession(d) # None /\ NewSession(d).d = d
  BY DEF NewSession, None
<1>11. s # new
  BY <1>9, <1>10
<1>12. session'[s] = IF s \in over THEN None ELSE session[s]
  BY <1>7, <1>11 DEF Without
<1>13. s \in out
  BY <1>1, <1>4, <1>12
<1>14. PICK mine : mine = SessionsOf(d) \ Inactive
  OBVIOUS
<1>15. out \in IF Cardinality(mine) >= SESSIONS_PER_DEVICE
                 THEN {{r} : r \in Oldest(mine)} ELSE {{}}
  BY <1>14 DEF Evicted
<1>16. Cardinality(mine) >= SESSIONS_PER_DEVICE /\ s \in Oldest(mine)
  BY <1>13, <1>15
<1>17. s \in mine /\ \A t \in mine : session[s].created_at <= session[t].created_at
  BY <1>16 DEF Oldest
<1>18. session[s].d = d
  BY <1>14, <1>17 DEF SessionsOf
<1>19. Cardinality(SessionsOf(d)) >= SESSIONS_PER_DEVICE
  <2>1. /\ Cardinality(mine) \in Nat /\ Cardinality(SessionsOf(d)) \in Nat
        /\ Cardinality(mine) <= Cardinality(SessionsOf(d))
    BY <1>14, TablesFinite, CardinalitiesWithin
  <2> QED
    BY <1>16, <2>1, LimitsPositive
<1> QED
  BY <1>5, <1>7, <1>9, <1>10, <1>14, <1>17, <1>18, <1>19 DEF Cause

\* Whatever ends an active session is one of its causes.
LEMMA EndedStep ==
  ASSUME IInv, TableInv, [Next]_vars, NEW s \in SessionIds, Active(s), session'[s] = None
  PROVE  Cause(s)
<1>1. session[s] # None /\ s \notin Inactive /\ Usable(session[s].d)
  BY DEF Active, Inactive
<1>2. session' # session
  BY <1>1
<1>3. \A S : Invalidate(S) => s \in S
  BY <1>1, DroppedAreNamed
<1>4. ~Tick /\ ~LoginOptions /\ ~UNCHANGED vars /\ ~Maintenance
  BY <1>1, <1>2, <1>3 DEF Tick, LoginOptions, vars, identity, Maintenance
<1>5. \A l : ~TakeLogin(l)
  BY <1>2 DEF TakeLogin, identity
<1>6. \A e : ~TakeElevation(e)
  BY <1>2 DEF TakeElevation, identity
<1>7. \A p : ~UnregisterPeer(p)
  BY <1>2 DEF UnregisterPeer
<1>8. \A r \in SessionIds : ~Lapse(r) /\ (Logout(r) => Cause(s))
  BY <1>3 DEF Lapse, Logout, Cause
<1>9. \A r \in SessionIds : ~(Active(r) /\ session' = Seen(r))
  BY <1>1, SeenStays
<1>10. \A r \in SessionIds :
         ~View(r) /\ ~RegisterPeer(r) /\ \A scope \in Scopes : ~Authorize(r, scope)
  BY <1>9 DEF View, RegisterPeer, Authorize
<1>11. \A r \in SessionIds, scope \in Scopes : ~ElevationOptions(r, scope)
  BY ElevationOptionsStays
<1>12. ASSUME NEW d \in Devices,
              \/ \E grants \in Grants : Update(d, grants)
              \/ Unlock(d) \/ Revoke(d) \/ Register(d) \/ AddCredential(d)
       PROVE  Cause(s)
  <2>1. Invalidate(SessionsOf(d))
    BY <1>12 DEF Update, Unlock, Revoke, Register, AddCredential
  <2>2. session[s].d = d
    BY <1>3, <2>1 DEF SessionsOf
  <2>3. ~Register(d)
    BY <1>1, <2>2 DEF Register, Usable, Known
  <2> QED
    BY <1>12, <2>2, <2>3 DEF Cause
<1>13. ASSUME NEW d \in Devices, NEW t \in taken, NEW verdict \in Verdicts,
              FinishLogin(t, d, verdict)
       PROVE  Cause(s)
  <2>1. ~Rejected
    BY <1>2 DEF Rejected
  <2>2. CASE Usable(d) /\ Failed(d, verdict = "rollback", session)
    BY <2>2, FailedCause
  <2>3. CASE Usable(d) /\ IssueSession(d)
    BY <2>3, IssueCause
  <2> QED
    BY <1>13, <2>1, <2>2, <2>3 DEF FinishLogin
<1>14. ASSUME NEW t \in taken, NEW verdict \in Verdicts, FinishElevation(t, verdict)
       PROVE  Cause(s)
  <2>1. t.s \in SessionIds /\ t.scope \in Scopes
    BY <1>14 DEF IInv, TakenSound, FinishElevation
  <2>2. ~Rejected
    BY <1>2 DEF Rejected
  <2>3. ~(~Active(t.s) /\ Invalidate({t.s}))
    BY <1>3
  <2>4. ~(Active(t.s) /\ session' = Seen(t.s))
    BY <1>9, <2>1
  <2>5. CASE Active(t.s) /\ Failed(session[t.s].d, verdict = "rollback", Seen(t.s))
    <3>1. session[t.s].d \in Devices /\ Usable(session[t.s].d)
      BY <2>1, <2>5, ActiveSession DEF Active
    <3> QED
      BY <2>1, <2>5, <3>1, FailedCause
  <2>6. ~(Active(t.s) /\ Elevate(t.s, t.scope))
    BY <1>1, <2>1, ElevateStays
  <2> QED
    BY <1>14, <2>2, <2>3, <2>4, <2>5, <2>6 DEF FinishElevation
<1> QED
  BY <1>4, <1>5, <1>6, <1>7, <1>8, <1>10, <1>11, <1>12, <1>13, <1>14 DEF Next

\* An active session ends by its own logout, by what is done to its own device,
\* or as the oldest of its device at its limit when that device logs in again:
\* no other device's request, and no limit over all devices, ever ends it.
THEOREM SessionsEndForACause == Spec => EndedForACause
<1>1. IInv /\ TableInv /\ [Next]_vars =>
        [\A s \in SessionIds :
           Active(s) /\ session'[s] = None =>
             LET d == session[s].d
             IN  \/ Logout(s)
                 \/ \E grants \in Grants : Update(d, grants)
                 \/ Unlock(d) \/ Revoke(d) \/ AddCredential(d)
                 \/ device'[d].locked
                 \/ /\ Cardinality(SessionsOf(d)) >= SESSIONS_PER_DEVICE
                    /\ \A t \in SessionsOf(d) \ Inactive :
                         session[s].created_at <= session[t].created_at
                    /\ issued' = issued + 1
                    /\ session'[issued'].d = d]_vars
  BY EndedStep DEF Cause
<1> QED
  BY <1>1, SessionsSafe, PTL DEF Spec, EndedForACause
=============================================================================
