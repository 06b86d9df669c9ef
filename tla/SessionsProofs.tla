--------------------------- MODULE SessionsProofs ---------------------------
(***************************************************************************)
(* Proofs about Sessions, for any number of sessions, renewals and         *)
(* revocations, any lifetimes, and whatever of Redis and the provider      *)
(* fails.                                                                  *)
(***************************************************************************)
EXTENDS Sessions, FiniteSetTheorems, WellFoundedInduction, TLAPS

-----------------------------------------------------------------------------
(* The inductive invariant.                                                *)

RenewalRecord ==
    [stage : {"idle", "planned", "asking", "ready", "rotated", "refused"},
     layer : {"api", "silent"}, session : Session \union {0}, id : 0..MaxId,
     held : Nat, sealed : Nat,
     answer : {"none", "accepted", "rejected", "failed", "unreadable"},
     fresh : Nat, newId : 0..MaxId]

RevocationRecord ==
    [stage : {"idle", "locking", "deleting", "marked", "unmarked"},
     scope : SUBSET Session, extra : SUBSET Session, spare : SUBSET Session,
     found : SUBSET Session, waiting : SUBSET Session,
     targets : SUBSET (Session \X Nat), gone : SUBSET Session]

\* Every variable but the guards, which no property depends on.
Shapes ==
    /\ row \in [Session -> [id : 0..MaxId, idp : Nat, due : BOOLEAN]]
    /\ lastId \in [Session -> 0..MaxId]
    /\ cookie \in [Session -> 0..MaxId]
    /\ access \in [Session -> Nat]
    /\ mark \in [Session -> Nat]
    /\ lock \in [Session -> Renewal \union Revocation \union {Nobody}]
    /\ idp \in [Session -> [token : Nat, alive : BOOLEAN]]
    /\ renewal \in [Renewal -> RenewalRecord]
    /\ revocation \in [Revocation -> RevocationRecord]
    /\ revoked \subseteq Session
    /\ cutOff \subseteq Session

\* The renewals that may still ask for a new row of s.
Open(s) == {r \in Renewal : /\ renewal[r].session = s
                            /\ renewal[r].stage \in {"planned", "asking", "ready"}}

\* Rows have ids that were given out, and there are ids for all who may ask.
IdsGivenOut ==
    \A s \in Session :
        /\ row[s].id <= lastId[s]
        /\ access[s] <= AccessLife
        /\ access[s] > 0 => lastId[s] > 0
        /\ lastId[s] + Cardinality(Open(s)) <= MaxId

\* A renewal that has claimed its row holds the session's lock, and the row it
\* presented is still the one that is committed.
Claimed(r) == renewal[r].stage \in {"rotated", "refused"}

ClaimsHold ==
    \A r \in Renewal : renewal[r].stage # "idle" =>
        LET s == renewal[r].session
        IN  /\ s \in Session /\ renewal[r].id \in 1..lastId[s]
            /\ Claimed(r) => lock[s] = r /\ row[s].id = renewal[r].id
            /\ renewal[r].stage = "rotated" => renewal[r].newId \in 1..lastId[s]

\* A revocation holds the locks it no longer waits for; no renewal has claimed a
\* row its DELETE removed; and once the DELETE has its snapshot, each session it
\* set out to revoke has no row, or has the row the DELETE takes.
LocksHeld(v) ==
    LET rec == revocation[v]
    IN  /\ rec.found \union rec.extra \subseteq rec.scope
        /\ rec.waiting \subseteq rec.found \union rec.extra
        /\ \A s \in (rec.found \union rec.extra) \ rec.waiting : lock[s] = v
        /\ \A s \in rec.found \union rec.extra \union rec.gone : lastId[s] > 0
        /\ \A s \in rec.gone : lock[s] \notin Renewal
        /\ rec.stage \in {"deleting", "marked", "unmarked"} => rec.waiting = {}
        /\ rec.stage \notin {"marked", "unmarked"} => rec.gone = {}

RowsCovered(v) ==
    LET rec == revocation[v]
    IN  \A s \in rec.found \union rec.extra :
            /\ rec.stage = "deleting" => row[s].id = 0 \/ <<s, row[s].id>> \in rec.targets
            /\ rec.stage \in {"marked", "unmarked"} => row[s].id = 0 \/ s \in rec.gone

\* The access tokens a revocation has marked are all older than the mark.
Refused(s) == access[s] > 0 => access[s] < mark[s]

MarksLast(v) ==
    LET rec == revocation[v]
    IN  rec.stage = "marked" => \A s \in (rec.extra \union rec.gone) \ rec.spare : Refused(s)

RevocationsHold == \A v \in Revocation : LocksHeld(v) /\ RowsCovered(v) /\ MarksLast(v)

RevokedForGood ==
    /\ \A s \in revoked : row[s].id = 0 /\ lastId[s] > 0
    /\ \A s \in cutOff : s \in revoked /\ Refused(s)

SessionInv == Shapes /\ IdsGivenOut /\ ClaimsHold /\ RevocationsHold /\ RevokedForGood

-----------------------------------------------------------------------------
(* What does not touch a row id, a lock or a request.                      *)

\* The parts of the state the invariant is about.
Kept == UNCHANGED <<lastId, lock, renewal, revocation, revoked, cutOff>>

\* A step that leaves the row ids, the locks and the requests alone, and lets no
\* access token outlive its mark (time, the provider, the row's other columns).
LEMMA QuietKeepsInv ==
    ASSUME SessionInv, Kept, Shapes',
           \A s \in Session : row'[s].id = row[s].id /\ access'[s] <= access[s],
           \A s \in Session : Refused(s) => Refused(s)'
    PROVE  SessionInv'
  <1> USE SessionsAssumption DEF Kept
  <1>0. Shapes /\ IdsGivenOut /\ ClaimsHold /\ RevocationsHold /\ RevokedForGood
    BY DEF SessionInv
  <1>1. IdsGivenOut'
    <2> SUFFICES ASSUME NEW s \in Session
                 PROVE  /\ row'[s].id <= lastId'[s]
                        /\ access'[s] <= AccessLife
                        /\ access'[s] > 0 => lastId'[s] > 0
                        /\ lastId'[s] + Cardinality(Open(s)') <= MaxId
      BY DEF IdsGivenOut
    <2>1. Open(s)' = Open(s)
      BY DEF Open
    <2>2. access[s] \in Nat /\ access'[s] \in Nat
      BY <1>0 DEF Shapes
    <2>3. QED
      BY <1>0, <2>1, <2>2 DEF IdsGivenOut
  <1>2. ClaimsHold'
    BY <1>0 DEF ClaimsHold, Claimed
  <1>3. RevocationsHold'
    <2> SUFFICES ASSUME NEW v \in Revocation
                 PROVE  LocksHeld(v)' /\ RowsCovered(v)' /\ MarksLast(v)'
      BY DEF RevocationsHold
    <2>1. LocksHeld(v) /\ RowsCovered(v) /\ MarksLast(v)
      BY <1>0 DEF RevocationsHold
    <2>2. revocation[v] \in RevocationRecord
      BY <1>0 DEF Shapes
    <2>3. LocksHeld(v)'
      BY <2>1 DEF LocksHeld
    <2>4. RowsCovered(v)'
      BY <2>1, <2>2 DEF RowsCovered, RevocationRecord
    <2>5. MarksLast(v)'
      BY <2>1, <2>2 DEF MarksLast, RevocationRecord
    <2>6. QED
      BY <2>3, <2>4, <2>5
  <1>4. RevokedForGood'
    BY <1>0 DEF RevokedForGood, Shapes
  <1>5. QED
    BY <1>1, <1>2, <1>3, <1>4 DEF SessionInv

\* A sign-in takes a session id nobody has used: no request is about it.
LEMMA LoginKeepsInv ==
    ASSUME SessionInv, NEW s \in Session, Login(s)
    PROVE  SessionInv'
  <1> USE SessionsAssumption
  <1>0. Shapes /\ IdsGivenOut /\ ClaimsHold /\ RevocationsHold /\ RevokedForGood
    BY DEF SessionInv
  <1>1. Shapes'
    <2>1. [id |-> 1, idp |-> IF s \in Sso THEN 1 ELSE 0, due |-> FALSE]
             \in [id : 0..MaxId, idp : Nat, due : BOOLEAN]
      BY DEF Login
    <2>2. QED
      BY <1>0, <2>1 DEF Shapes, Login
  <1>2. lastId[s] = 0 /\ row[s].id = 0 /\ MaxId > 0
    BY <1>0 DEF Shapes, IdsGivenOut, Login
  <1>3. \A r \in Renewal : renewal[r].stage # "idle" => renewal[r].session # s
    BY <1>0, <1>2 DEF ClaimsHold
  <1>4. IdsGivenOut'
    <2> SUFFICES ASSUME NEW u \in Session
                 PROVE  /\ row'[u].id <= lastId'[u]
                        /\ access'[u] <= AccessLife
                        /\ access'[u] > 0 => lastId'[u] > 0
                        /\ lastId'[u] + Cardinality(Open(u)') <= MaxId
      BY DEF IdsGivenOut
    <2>1. CASE u = s
      <3>1. Open(s)' = {}
        BY <1>3 DEF Open, Login
      <3>2. QED
        BY <1>0, <1>2, <2>1, <3>1, FS_EmptySet DEF Login, Shapes
    <2>2. CASE u # s
      <3>1. Open(u)' = Open(u)
        BY DEF Open, Login
      <3>2. QED
        BY <1>0, <2>2, <3>1 DEF Login, Shapes, IdsGivenOut
    <2>3. QED
      BY <2>1, <2>2
  <1>5. ClaimsHold'
    BY <1>0, <1>3 DEF ClaimsHold, Claimed, Login, Shapes
  <1>6. RevocationsHold'
    <2> SUFFICES ASSUME NEW v \in Revocation
                 PROVE  LocksHeld(v)' /\ RowsCovered(v)' /\ MarksLast(v)'
      BY DEF RevocationsHold
    <2>1. LocksHeld(v) /\ RowsCovered(v) /\ MarksLast(v) /\ revocation[v] \in RevocationRecord
      BY <1>0 DEF RevocationsHold, Shapes
    <2>2. s \notin revocation[v].found \union revocation[v].extra \union revocation[v].gone
      BY <1>2, <2>1 DEF LocksHeld
    <2>3. LocksHeld(v)'
      BY <1>0, <2>1, <2>2 DEF LocksHeld, Login, Shapes, RevocationRecord
    <2>4. RowsCovered(v)'
      BY <1>0, <2>1, <2>2 DEF RowsCovered, Login, Shapes, RevocationRecord
    <2>5. MarksLast(v)'
      BY <1>0, <2>1, <2>2 DEF MarksLast, Refused, Login, Shapes, RevocationRecord
    <2>6. QED
      BY <2>3, <2>4, <2>5
  <1>7. RevokedForGood'
    BY <1>0, <1>2 DEF RevokedForGood, Refused, Login, Shapes
  <1>8. QED
    BY <1>1, <1>4, <1>5, <1>6, <1>7 DEF SessionInv

\* Sign-ins, time, administrators and the provider keep the invariant.
LEMMA EnvironmentKeepsInv ==
    ASSUME SessionInv, Environment
    PROVE  SessionInv'
  <1> USE SessionsAssumption
  <1>1. CASE Tick
    <2>1. Shapes'
      BY <1>1 DEF SessionInv, Shapes, Tick
    <2>2. \A s \in Session : access'[s] <= access[s] /\ (Refused(s) => Refused(s)')
      BY <1>1 DEF SessionInv, Shapes, Tick, Refused
    <2>3. QED
      BY <1>1, <2>1, <2>2, QuietKeepsInv DEF Tick, Kept
  <1>2. ASSUME NEW s \in Session, Login(s)
        PROVE  SessionInv'
    BY <1>2, LoginKeepsInv
  <1>3. ASSUME NEW s \in Session, CheckFallsDue(s) \/ DropIdpToken(s)
        PROVE  SessionInv'
    <2>1. row[s] \in [id : 0..MaxId, idp : Nat, due : BOOLEAN]
      BY DEF SessionInv, Shapes
    <2>2. PICK new \in [id : 0..MaxId, idp : Nat, due : BOOLEAN] :
              new.id = row[s].id /\ row' = [row EXCEPT ![s] = new]
      <3>1. CASE CheckFallsDue(s)
        BY <3>1, <2>1 DEF CheckFallsDue
      <3>2. CASE DropIdpToken(s)
        BY <3>2, <2>1 DEF DropIdpToken
      <3>3. QED
        BY <1>3, <3>1, <3>2
    <2>3. Shapes' /\ \A u \in Session : row'[u].id = row[u].id
      BY <1>3, <2>2 DEF SessionInv, Shapes, CheckFallsDue, DropIdpToken
    <2>4. \A u \in Session : access'[u] <= access[u] /\ (Refused(u) => Refused(u)')
      BY <1>3 DEF SessionInv, Shapes, CheckFallsDue, DropIdpToken, Refused
    <2>5. QED
      BY <1>3, <2>3, <2>4, QuietKeepsInv DEF CheckFallsDue, DropIdpToken, Kept
  <1>4. ASSUME NEW s \in Session, LoseStanding(s) \/ EndAtIdp(s)
        PROVE  SessionInv'
    <2>1. idp' \in [Session -> [token : Nat, alive : BOOLEAN]]
      <3>1. [token |-> idp[s].token, alive |-> FALSE] \in [token : Nat, alive : BOOLEAN]
        BY DEF SessionInv, Shapes
      <3>2. QED
        BY <1>4, <3>1 DEF SessionInv, Shapes, LoseStanding, EndAtIdp
    <2>2. Shapes'
      BY <1>4, <2>1 DEF SessionInv, Shapes, LoseStanding, EndAtIdp
    <2>3. \A u \in Session : access'[u] <= access[u] /\ (Refused(u) => Refused(u)')
      BY <1>4 DEF SessionInv, Shapes, LoseStanding, EndAtIdp, Refused
    <2>4. QED
      BY <1>4, <2>2, <2>3, QuietKeepsInv DEF LoseStanding, EndAtIdp, Kept
  <1>5. QED
    BY <1>1, <1>2, <1>3, <1>4 DEF Environment

-----------------------------------------------------------------------------
(* Renewals up to the claim.                                               *)

\* The open renewals of a session can be counted.
LEMMA OpenCounted ==
    ASSUME NEW s
    PROVE  IsFiniteSet(Open(s)) /\ Cardinality(Open(s)) \in Nat
  BY SessionsAssumption, FS_Subset, FS_CardinalityType DEF Open

\* A step of a renewal that has claimed nothing, before and after it, touches
\* nobody else.
LEMMA UnclaimedKeepsInv ==
    ASSUME SessionInv, NEW r \in Renewal, NEW new \in RenewalRecord,
           renewal' = [renewal EXCEPT ![r] = new],
           UNCHANGED <<row, lastId, cookie, access, mark, lock, revocation, revoked, cutOff>>,
           idp' \in [Session -> [token : Nat, alive : BOOLEAN]],
           ~Claimed(r), new.stage \in {"idle", "planned", "asking", "ready"},
           new.stage # "idle" => new.session \in Session /\ new.id \in 1..lastId[new.session],
           \A s \in Session : lastId[s] + Cardinality(Open(s)') <= MaxId
    PROVE  SessionInv'
  <1>0. Shapes /\ IdsGivenOut /\ ClaimsHold /\ RevocationsHold /\ RevokedForGood
    BY DEF SessionInv
  <1>1. Shapes'
    BY <1>0 DEF Shapes
  <1>2. IdsGivenOut'
    BY <1>0 DEF IdsGivenOut
  <1>3. ClaimsHold'
    BY <1>0 DEF ClaimsHold, Claimed, Shapes
  <1>4. RevocationsHold'
    BY <1>0 DEF RevocationsHold, LocksHeld, RowsCovered, MarksLast, Refused
  <1>5. RevokedForGood'
    BY <1>0 DEF RevokedForGood, Refused
  <1>6. QED
    BY <1>1, <1>2, <1>3, <1>4, <1>5 DEF SessionInv

\* The number of open renewals does not grow unless one starts.
LEMMA OpenShrinks ==
    ASSUME SessionInv, NEW s \in Session, Open(s)' \subseteq Open(s), lastId'[s] = lastId[s]
    PROVE  lastId'[s] + Cardinality(Open(s)') <= MaxId
  <1>1. Cardinality(Open(s)') <= Cardinality(Open(s)) /\ Cardinality(Open(s)') \in Nat
    BY OpenCounted, FS_Subset, FS_CardinalityType
  <1>2. QED
    BY <1>1, OpenCounted, SessionsAssumption DEF SessionInv, IdsGivenOut, Shapes

\* A renewal that starts (AuthService.refresh, up to plan_recheck) has read the
\* row its cookie names, and there is an id left for it.
LEMMA StartRenewalKeepsInv ==
    ASSUME SessionInv, NEW r \in Renewal, NEW s \in Session, NEW layer \in {"api", "silent"},
           StartRenewal(r, s, layer)
    PROVE  SessionInv'
  <1> USE SessionsAssumption
  <1>0. Shapes /\ IdsGivenOut
    BY DEF SessionInv
  <1>1. PlanRecheck(s) \in Nat
    BY <1>0 DEF PlanRecheck, Shapes
  <1>2. /\ Planned(s, layer) \in RenewalRecord
        /\ Planned(s, layer).stage \in {"planned", "ready"}
        /\ Planned(s, layer).session = s
        /\ Planned(s, layer).id \in 1..lastId[s]
    BY <1>0, <1>1 DEF StartRenewal, CookieKnown, Planned, RenewalRecord, Shapes, IdsGivenOut
  <1>3. \A u \in Session : lastId[u] + Cardinality(Open(u)') <= MaxId
    <2> SUFFICES ASSUME NEW u \in Session
                 PROVE  lastId[u] + Cardinality(Open(u)') <= MaxId
      OBVIOUS
    <2>1. CASE u = s
      <3> DEFINE Here == {q \in Renewal : renewal[q].session = s}
      <3>1. IsFiniteSet(Here) /\ Cardinality(Here) \in Nat
        BY FS_Subset, FS_CardinalityType
      <3>2. /\ IsFiniteSet(Here \union {r})
            /\ Cardinality(Here \union {r}) <= Cardinality(Here) + 1
            /\ Cardinality(Here \union {r}) \in Nat
        <4>1. /\ IsFiniteSet(Here \union {r})
              /\ Cardinality(Here \union {r}) =
                    IF r \in Here THEN Cardinality(Here) ELSE Cardinality(Here) + 1
          BY <3>1, FS_AddElement
        <4>2. QED
          BY <3>1, <4>1
      <3>3. Open(s)' \subseteq Here \union {r}
        BY <1>0 DEF Open, StartRenewal, SetRenewal, Shapes
      <3>4. Cardinality(Open(s)') <= Cardinality(Here) + 1 /\ Cardinality(Open(s)') \in Nat
        BY <3>1, <3>2, <3>3, FS_Subset, FS_CardinalityType
      <3>5. lastId[s] + Cardinality(Here) < MaxId
        BY DEF StartRenewal
      <3>6. lastId[s] \in Nat
        BY <1>0 DEF Shapes
      <3>7. QED
        BY <2>1, <3>1, <3>4, <3>5, <3>6
    <2>2. CASE u # s
      <3>1. Open(u)' \subseteq Open(u)
        BY <1>0, <1>2, <2>2 DEF Open, StartRenewal, SetRenewal, Shapes
      <3>2. QED
        BY <3>1, OpenShrinks DEF StartRenewal
    <2>3. QED
      BY <2>1, <2>2
  <1>4. QED
    BY <1>0, <1>2, <1>3, UnclaimedKeepsInv DEF StartRenewal, SetRenewal, Claimed, Shapes

\* The guard, the question to the provider, the refusal of a row that is gone
\* and an interruption: steps of a renewal before its claim.
LEMMA BeforeClaimKeepsInv ==
    ASSUME SessionInv, NEW r \in Renewal,
           TakeGuard(r) \/ AskIdp(r) \/ RefuseGone(r) \/ Interrupt(r)
    PROVE  SessionInv'
  <1> USE SessionsAssumption
  <1> DEFINE old == renewal[r]
  <1>0. Shapes /\ ClaimsHold /\ old \in RenewalRecord
    BY DEF SessionInv, Shapes
  <1>1. old.stage \in {"planned", "asking", "ready"}
    BY DEF TakeGuard, AskIdp, RefuseGone, CanClaim, Interrupt
  <1>2. old.session \in Session /\ old.id \in 1..lastId[old.session]
    BY <1>0, <1>1 DEF ClaimsHold
  <1>3. idp[old.session].token \in Nat
    BY <1>0, <1>2 DEF Shapes
  <1>4. IdleRenewal \in RenewalRecord /\ IdleRenewal.stage = "idle"
    BY DEF IdleRenewal, RenewalRecord
  <1>5. PICK new \in RenewalRecord :
           /\ renewal' = [renewal EXCEPT ![r] = new]
           /\ new.stage \in {"idle", "asking", "ready"}
           /\ new.stage # "idle" => new.session = old.session /\ new.id = old.id
    <2>1. CASE TakeGuard(r)
      <3>1. [old EXCEPT !.stage = "asking"] \in RenewalRecord
        BY <1>0 DEF RenewalRecord
      <3>2. \/ renewal' = [renewal EXCEPT ![r] = [old EXCEPT !.stage = "asking"]]
            \/ renewal' = [renewal EXCEPT ![r] = IdleRenewal]
        BY <2>1 DEF TakeGuard, SetRenewal
      <3>3. QED
        BY <1>0, <1>4, <3>1, <3>2 DEF RenewalRecord
    <2>2. CASE AskIdp(r)
      <3>1. \A answer \in {"accepted", "rejected", "failed", "unreadable"}, fresh \in Nat :
               /\ Answered(old, answer, fresh) \in RenewalRecord
               /\ Answered(old, answer, fresh).stage = "ready"
               /\ Answered(old, answer, fresh).session = old.session
               /\ Answered(old, answer, fresh).id = old.id
        BY <1>0 DEF Answered, RenewalRecord
      <3>2. PICK answer \in {"accepted", "rejected", "failed", "unreadable"}, fresh \in Nat :
               renewal' = [renewal EXCEPT ![r] = Answered(old, answer, fresh)]
        BY <1>3, <2>2 DEF AskIdp, SetRenewal
      <3>3. QED
        BY <3>1, <3>2
    <2>3. CASE RefuseGone(r) \/ Interrupt(r)
      BY <1>4, <2>3 DEF RefuseGone, Interrupt, SetRenewal
    <2>4. QED
      BY <2>1, <2>2, <2>3
  <1>6. idp' \in [Session -> [token : Nat, alive : BOOLEAN]]
    <2>1. CASE AskIdp(r)
      <3>1. \A n \in {0, 1} : [token |-> idp[old.session].token + n, alive |-> TRUE]
                                 \in [token : Nat, alive : BOOLEAN]
        BY <1>3
      <3>2. \/ idp' = idp
            \/ \E n \in {0, 1} :
                  idp' = [idp EXCEPT ![old.session] =
                             [token |-> idp[old.session].token + n, alive |-> TRUE]]
        BY <2>1 DEF AskIdp
      <3>3. CASE idp' = idp
        BY <1>0, <3>3 DEF Shapes
      <3>4. ASSUME NEW n \in {0, 1},
                   idp' = [idp EXCEPT ![old.session] =
                              [token |-> idp[old.session].token + n, alive |-> TRUE]]
            PROVE  idp' \in [Session -> [token : Nat, alive : BOOLEAN]]
        BY <1>0, <1>2, <3>1, <3>4 DEF Shapes
      <3>5. QED
        BY <3>2, <3>3, <3>4
    <2>2. CASE ~AskIdp(r)
      BY <1>0, <2>2 DEF Shapes, TakeGuard, RefuseGone, Interrupt
    <2>3. QED
      BY <2>1, <2>2
  <1>7. UNCHANGED <<row, lastId, cookie, access, mark, lock, revocation, revoked, cutOff>>
    BY DEF TakeGuard, AskIdp, RefuseGone, Interrupt
  <1>8. \A s \in Session : lastId[s] + Cardinality(Open(s)') <= MaxId
    <2> SUFFICES ASSUME NEW s \in Session
                 PROVE  lastId[s] + Cardinality(Open(s)') <= MaxId
      OBVIOUS
    <2>1. Open(s)' \subseteq Open(s)
      BY <1>0, <1>1, <1>5 DEF Open, Shapes
    <2>2. QED
      BY <1>7, <2>1, OpenShrinks
  <1>9. QED
    BY <1>1, <1>2, <1>5, <1>6, <1>7, <1>8, UnclaimedKeepsInv DEF Claimed

-----------------------------------------------------------------------------
(* The claim.                                                              *)

\* Nobody has a claim on a session that is free: no renewal has claimed its row,
\* no revocation holds its lock or has deleted its row.
LEMMA FreeSession ==
    ASSUME SessionInv, NEW s \in Session, lock[s] = Nobody, RowFree(s)
    PROVE  /\ \A q \in Renewal : Claimed(q) => renewal[q].session # s
           /\ \A v \in Revocation :
                 /\ s \notin (revocation[v].found \union revocation[v].extra) \ revocation[v].waiting
                 /\ s \notin revocation[v].gone
  <1>1. \A q \in Renewal : Claimed(q) => renewal[q].session # s
    BY SessionsAssumption DEF SessionInv, ClaimsHold, Claimed
  <1>2. QED
    BY <1>1, SessionsAssumption DEF SessionInv, RevocationsHold, LocksHeld, RowFree

\* What a renewal that may claim its row knows.
LEMMA ClaimFacts ==
    ASSUME SessionInv, NEW r \in Renewal, CanClaim(r),
           row[renewal[r].session].id = renewal[r].id
    PROVE  /\ renewal[r] \in RenewalRecord
           /\ renewal[r].session \in Session
           /\ row[renewal[r].session].id \in 1..lastId[renewal[r].session]
           /\ renewal[r].session \notin revoked
           /\ r \in Open(renewal[r].session)
           /\ \A q \in Renewal : Claimed(q) => renewal[q].session # renewal[r].session
           /\ \A v \in Revocation :
                 /\ renewal[r].session \notin
                       (revocation[v].found \union revocation[v].extra) \ revocation[v].waiting
                 /\ renewal[r].session \notin revocation[v].gone
  <1>1. /\ renewal[r] \in RenewalRecord /\ renewal[r].session \in Session
        /\ renewal[r].id \in 1..lastId[renewal[r].session]
    BY DEF SessionInv, ClaimsHold, Shapes, CanClaim
  <1>2. renewal[r].session \notin revoked /\ r \in Open(renewal[r].session)
    BY <1>1 DEF SessionInv, RevokedForGood, Shapes, Open, CanClaim
  <1>3. QED
    BY <1>1, <1>2, FreeSession DEF CanClaim

\* _rotate, steps 5 and 6: the renewal itself revokes the session.
LEMMA RotateEndsKeepsInv ==
    ASSUME SessionInv, NEW r \in Renewal, NEW up, NEW s \in Session, s = renewal[r].session,
           CanClaim(r), row[s].id = renewal[r].id, RotateEnds(r, up),
           UNCHANGED <<cookie, status, idp, revocation, replayed>>
    PROVE  SessionInv'
  <1> USE SessionsAssumption
  <1>0. Shapes /\ IdsGivenOut /\ ClaimsHold /\ RevocationsHold /\ RevokedForGood
    BY DEF SessionInv
  <1>1. /\ lastId[s] > 0
        /\ \A q \in Renewal : Claimed(q) => renewal[q].session # s
    <2>1. lastId[s] \in Nat
      BY <1>0 DEF Shapes
    <2>2. QED
      BY <2>1, ClaimFacts
  <1>2. /\ row' = [row EXCEPT ![s] = NoRow]
        /\ renewal' = [renewal EXCEPT ![r] = IdleRenewal]
        /\ revoked' = revoked \union {s}
        /\ UNCHANGED <<lastId, access, lock>>
    BY DEF RotateEnds, SetRenewal
  <1>3. \A u \in Session : mark'[u] = mark[u] \/ mark'[u] = AccessLife + 1
    BY <1>0 DEF RotateEnds, Marked, Shapes
  <1>4. \/ cutOff' = cutOff
        \/ cutOff' = cutOff \union {s} /\ mark'[s] = AccessLife + 1
    BY <1>1 DEF RotateEnds, Marked
  <1>5. mark' \in [Session -> Nat]
    BY <1>0 DEF RotateEnds, Marked, Shapes
  <1>6. IdleRenewal \in RenewalRecord /\ IdleRenewal.stage = "idle"
    BY DEF IdleRenewal, RenewalRecord
  <1>7. NoRow \in [id : 0..MaxId, idp : Nat, due : BOOLEAN] /\ NoRow.id = 0
    BY DEF NoRow
  <1>8. Shapes'
    BY <1>0, <1>1, <1>2, <1>4, <1>5, <1>6, <1>7 DEF Shapes
  <1>9. \A u \in Session : Refused(u) => Refused(u)'
    BY <1>0, <1>2, <1>3 DEF Refused, IdsGivenOut, Shapes
  <1>10. IdsGivenOut'
    <2> SUFFICES ASSUME NEW u \in Session
                 PROVE  /\ row'[u].id <= lastId'[u]
                        /\ access'[u] <= AccessLife
                        /\ access'[u] > 0 => lastId'[u] > 0
                        /\ lastId'[u] + Cardinality(Open(u)') <= MaxId
      BY DEF IdsGivenOut
    <2>1. Open(u)' \subseteq Open(u)
      BY <1>0, <1>2, <1>6 DEF Open, Shapes
    <2>2. lastId'[u] + Cardinality(Open(u)') <= MaxId
      BY <1>2, <2>1, OpenShrinks
    <2>3. QED
      BY <1>0, <1>1, <1>2, <1>7, <2>2 DEF IdsGivenOut, Shapes
  <1>11. ClaimsHold'
    BY <1>0, <1>1, <1>2, <1>6 DEF ClaimsHold, Claimed, Shapes
  <1>12. RevocationsHold'
    <2> SUFFICES ASSUME NEW v \in Revocation
                 PROVE  LocksHeld(v)' /\ RowsCovered(v)' /\ MarksLast(v)'
      BY DEF RevocationsHold
    <2>1. LocksHeld(v) /\ RowsCovered(v) /\ MarksLast(v) /\ revocation[v] \in RevocationRecord
      BY <1>0 DEF RevocationsHold, Shapes
    <2>2. LocksHeld(v)'
      BY <1>2, <2>1 DEF LocksHeld
    <2>3. RowsCovered(v)'
      BY <1>0, <1>1, <1>2, <1>7, <2>1 DEF RowsCovered, RevocationRecord, Shapes
    <2>4. MarksLast(v)'
      BY <1>9, <2>1 DEF MarksLast, RevocationRecord
    <2>5. QED
      BY <2>2, <2>3, <2>4
  <1>13. RevokedForGood'
    <2>1. \A u \in revoked' : row'[u].id = 0 /\ lastId'[u] > 0
      BY <1>0, <1>1, <1>2, <1>7 DEF RevokedForGood, Shapes
    <2>2. cutOff' = cutOff \union {s} /\ mark'[s] = AccessLife + 1 => Refused(s)'
      BY <1>0, <1>1, <1>2 DEF Refused, IdsGivenOut, Shapes
    <2>3. \A u \in cutOff' : u \in revoked' /\ Refused(u)'
      BY <1>0, <1>2, <1>4, <1>9, <2>2 DEF RevokedForGood, Shapes
    <2>4. QED
      BY <2>1, <2>3 DEF RevokedForGood
  <1>14. QED
    BY <1>8, <1>10, <1>11, <1>12, <1>13 DEF SessionInv

\* _rotate, steps 3 and 4: the claimed row is kept locked until the rollback.
LEMMA RotateRefusesKeepsInv ==
    ASSUME SessionInv, NEW r \in Renewal, NEW up, NEW s \in Session, s = renewal[r].session,
           CanClaim(r), row[s].id = renewal[r].id, RotateRefuses(r, up),
           UNCHANGED <<cookie, status, idp, revocation, replayed>>
    PROVE  SessionInv'
  <1> USE SessionsAssumption
  <1> DEFINE new == [renewal[r] EXCEPT !.stage = "refused"]
  <1>0. Shapes /\ IdsGivenOut /\ ClaimsHold /\ RevocationsHold /\ RevokedForGood
    BY DEF SessionInv
  <1>1. /\ row[s].id \in 1..lastId[s]
        /\ \A q \in Renewal : Claimed(q) => renewal[q].session # s
        /\ \A v \in Revocation :
              /\ s \notin (revocation[v].found \union revocation[v].extra) \ revocation[v].waiting
              /\ s \notin revocation[v].gone
    BY ClaimFacts
  <1>2. /\ lock' = [lock EXCEPT ![s] = r]
        /\ renewal' = [renewal EXCEPT ![r] = new]
        /\ UNCHANGED <<row, lastId, access, mark, revoked, cutOff>>
    BY DEF RotateRefuses, SetRenewal
  <1>3. /\ new \in RenewalRecord /\ new.stage = "refused"
        /\ new.session = s /\ new.id = renewal[r].id
    <2>1. renewal[r] \in RenewalRecord
      BY <1>0 DEF Shapes
    <2>2. QED
      BY <2>1 DEF RenewalRecord
  <1>4. Shapes'
    BY <1>0, <1>2, <1>3 DEF Shapes
  <1>5. IdsGivenOut'
    <2> SUFFICES ASSUME NEW u \in Session
                 PROVE  lastId'[u] + Cardinality(Open(u)') <= MaxId
      BY <1>0, <1>2 DEF IdsGivenOut
    <2>1. Open(u)' \subseteq Open(u)
      BY <1>0, <1>2, <1>3 DEF Open, Shapes
    <2>2. QED
      BY <1>2, <2>1, OpenShrinks
  <1>6. ClaimsHold'
    BY <1>0, <1>1, <1>2, <1>3 DEF ClaimsHold, Claimed, Shapes
  <1>7. RevocationsHold'
    <2> SUFFICES ASSUME NEW v \in Revocation
                 PROVE  LocksHeld(v)' /\ RowsCovered(v)' /\ MarksLast(v)'
      BY DEF RevocationsHold
    <2>1. LocksHeld(v) /\ RowsCovered(v) /\ MarksLast(v) /\ revocation[v] \in RevocationRecord
      BY <1>0 DEF RevocationsHold, Shapes
    <2>2. LocksHeld(v)'
      BY <1>0, <1>1, <1>2, <2>1 DEF LocksHeld, RevocationRecord, Shapes
    <2>3. RowsCovered(v)' /\ MarksLast(v)'
      BY <1>2, <2>1 DEF RowsCovered, MarksLast, Refused
    <2>4. QED
      BY <2>2, <2>3
  <1>8. RevokedForGood'
    BY <1>0, <1>2 DEF RevokedForGood, Refused
  <1>9. QED
    BY <1>4, <1>5, <1>6, <1>7, <1>8 DEF SessionInv

\* _rotate, step 7: a new row id and a new access token; the session is in no
\* revocation that has its lock, so no mark is to outlive that token.
LEMMA RotateIssuesKeepsInv ==
    ASSUME SessionInv, NEW r \in Renewal, NEW up, NEW s \in Session, s = renewal[r].session,
           CanClaim(r), row[s].id = renewal[r].id, RotateIssues(r, up),
           UNCHANGED <<cookie, status, idp, revocation, replayed>>
    PROVE  SessionInv'
  <1> USE SessionsAssumption
  <1> DEFINE new == Rotated(renewal[r], lastId[s] + 1)
  <1>0. Shapes /\ IdsGivenOut /\ ClaimsHold /\ RevocationsHold /\ RevokedForGood
    BY DEF SessionInv
  <1>1. /\ row[s].id \in 1..lastId[s]
        /\ s \notin revoked
        /\ r \in Open(s)
        /\ \A q \in Renewal : Claimed(q) => renewal[q].session # s
        /\ \A v \in Revocation :
              /\ s \notin (revocation[v].found \union revocation[v].extra) \ revocation[v].waiting
              /\ s \notin revocation[v].gone
    BY ClaimFacts
  <1>2. /\ lock' = [lock EXCEPT ![s] = r]
        /\ renewal' = [renewal EXCEPT ![r] = new]
        /\ lastId' = [lastId EXCEPT ![s] = lastId[s] + 1]
        /\ access' = [access EXCEPT ![s] = AccessLife]
        /\ UNCHANGED <<row, mark, revoked, cutOff>>
    BY DEF RotateIssues, SetRenewal
  <1>3. Open(s)' = Open(s) \ {r} /\ \A u \in Session \ {s} : Open(u)' = Open(u)
    <2>1. new.stage = "rotated"
      BY DEF Rotated
    <2>2. QED
      BY <1>0, <1>2, <2>1 DEF Open, Shapes
  <1>4. lastId[s] + 1 + Cardinality(Open(s)') <= MaxId /\ Cardinality(Open(s)') \in Nat
    <2>1. Cardinality(Open(s)') = Cardinality(Open(s)) - 1 /\ IsFiniteSet(Open(s)')
      BY <1>1, <1>3, OpenCounted, FS_RemoveElement
    <2>2. Cardinality(Open(s)') \in Nat
      BY <2>1, FS_CardinalityType
    <2>3. lastId[s] \in Nat /\ lastId[s] + Cardinality(Open(s)) <= MaxId
      BY <1>0 DEF IdsGivenOut, Shapes
    <2>4. QED
      BY <2>1, <2>2, <2>3, OpenCounted
  <1>5. lastId[s] \in Nat /\ lastId[s] + 1 \in 0..MaxId
    BY <1>0, <1>4 DEF Shapes
  <1>6. /\ new \in RenewalRecord /\ new.stage = "rotated"
        /\ new.session = s /\ new.id = renewal[r].id /\ new.newId = lastId[s] + 1
    BY <1>0, <1>5 DEF Shapes, RenewalRecord, Rotated
  <1>7. Shapes'
    BY <1>0, <1>2, <1>5, <1>6 DEF Shapes
  <1>8. IdsGivenOut'
    <2> SUFFICES ASSUME NEW u \in Session
                 PROVE  /\ row'[u].id <= lastId'[u]
                        /\ access'[u] <= AccessLife
                        /\ access'[u] > 0 => lastId'[u] > 0
                        /\ lastId'[u] + Cardinality(Open(u)') <= MaxId
      BY DEF IdsGivenOut
    <2>1. CASE u = s
      BY <1>0, <1>1, <1>2, <1>4, <1>5, <2>1 DEF Shapes
    <2>2. CASE u # s
      BY <1>0, <1>2, <1>3, <2>2 DEF IdsGivenOut, Shapes
    <2>3. QED
      BY <2>1, <2>2
  <1>9. ClaimsHold'
    <2> SUFFICES ASSUME NEW q \in Renewal, renewal'[q].stage # "idle"
                 PROVE  LET u == renewal'[q].session
                        IN  /\ u \in Session /\ renewal'[q].id \in 1..lastId'[u]
                            /\ Claimed(q)' => lock'[u] = q /\ row'[u].id = renewal'[q].id
                            /\ renewal'[q].stage = "rotated" => renewal'[q].newId \in 1..lastId'[u]
      BY DEF ClaimsHold
    <2>1. CASE q = r
      <3>1. renewal'[q] = new /\ lock'[s] = r /\ row' = row /\ lastId'[s] = lastId[s] + 1
        BY <1>0, <1>2, <2>1 DEF Shapes
      <3>2. new.id \in 1..(lastId[s] + 1) /\ new.newId \in 1..(lastId[s] + 1)
        BY <1>1, <1>5, <1>6
      <3> HIDE DEF new
      <3>3. QED
        BY <1>6, <2>1, <3>1, <3>2
    <2>2. CASE q # r
      <3>1. renewal'[q] = renewal[q]
        BY <1>0, <1>2, <2>2 DEF Shapes
      <3>2. PICK u \in Session : u = renewal[q].session
        BY <1>0, <3>1 DEF ClaimsHold
      <3>3. lastId[u] \in Nat /\ lastId'[u] \in Nat /\ lastId[u] <= lastId'[u]
        BY <1>0, <1>2, <1>5 DEF Shapes
      <3>4. u = s => ~Claimed(q)
        BY <1>1, <3>2
      <3>5. /\ renewal[q].id \in 1..lastId[u]
            /\ Claimed(q) => lock[u] = q /\ row[u].id = renewal[q].id
            /\ renewal[q].stage = "rotated" => renewal[q].newId \in 1..lastId[u]
        BY <1>0, <3>1, <3>2 DEF ClaimsHold
      <3>6. renewal[q].id \in 1..lastId'[u] /\ (renewal[q].stage = "rotated" => renewal[q].newId \in 1..lastId'[u])
        BY <3>3, <3>5
      <3>7. Claimed(q)' => lock'[u] = q /\ row'[u].id = renewal'[q].id
        BY <1>0, <1>2, <3>1, <3>4, <3>5 DEF Claimed, Shapes
      <3>8. QED
        BY <3>1, <3>2, <3>6, <3>7
    <2>3. QED
      BY <2>1, <2>2
  <1>10. RevocationsHold'
    <2> SUFFICES ASSUME NEW v \in Revocation
                 PROVE  LocksHeld(v)' /\ RowsCovered(v)' /\ MarksLast(v)'
      BY DEF RevocationsHold
    <2>1. LocksHeld(v) /\ RowsCovered(v) /\ MarksLast(v) /\ revocation[v] \in RevocationRecord
      BY <1>0 DEF RevocationsHold, Shapes
    <2>2. LocksHeld(v)'
      BY <1>0, <1>1, <1>2, <1>5, <2>1 DEF LocksHeld, RevocationRecord, Shapes
    <2>3. RowsCovered(v)'
      BY <1>2, <2>1 DEF RowsCovered
    <2>4. MarksLast(v)'
      BY <1>0, <1>1, <1>2, <2>1 DEF MarksLast, LocksHeld, Refused, RevocationRecord, Shapes
    <2>5. QED
      BY <2>2, <2>3, <2>4
  <1>11. RevokedForGood'
    BY <1>0, <1>1, <1>2 DEF RevokedForGood, Refused, Shapes
  <1>12. QED
    BY <1>7, <1>8, <1>9, <1>10, <1>11 DEF SessionInv

\* _rotate as a whole.
LEMMA RotateKeepsInv ==
    ASSUME SessionInv, NEW r \in Renewal, Rotate(r)
    PROVE  SessionInv'
  <1>1. PICK s \in Session : s = renewal[r].session
    BY ClaimFacts DEF Rotate
  <1>2. PICK up \in RedisAnswers : RotateEnds(r, up) \/ RotateRefuses(r, up) \/ RotateIssues(r, up)
    BY DEF Rotate
  <1>3. CanClaim(r) /\ row[s].id = renewal[r].id /\ UNCHANGED <<cookie, status, idp, revocation, replayed>>
    BY <1>1 DEF Rotate
  <1>4. QED
    BY <1>1, <1>2, <1>3, RotateEndsKeepsInv, RotateRefusesKeepsInv, RotateIssuesKeepsInv

-----------------------------------------------------------------------------
(* The end of a renewal that has claimed its row.                          *)

\* The transaction of a renewal that has claimed its row ends: it stores a row
\* with an id that was given out, deletes the row, or rolls back, and gives the
\* session's lock back (CommitRenewal, FailRenewal, EndRefused).
LEMMA EndOfClaimKeepsInv ==
    ASSUME SessionInv, NEW r \in Renewal, NEW s \in Session, s = renewal[r].session,
           Claimed(r), EndRenewal(r),
           NEW new \in [id : 0..MaxId, idp : Nat, due : BOOLEAN],
           new.id <= lastId[s],
           row' = [row EXCEPT ![s] = new],
           cookie' \in [Session -> 0..MaxId]
    PROVE  SessionInv'
  <1> USE SessionsAssumption
  <1>0. Shapes /\ IdsGivenOut /\ ClaimsHold /\ RevocationsHold /\ RevokedForGood
    BY DEF SessionInv
  <1>1. lock[s] = r /\ row[s].id # 0 /\ s \notin revoked
    <2>1. lock[s] = r /\ row[s].id \in 1..lastId[s]
      BY <1>0 DEF ClaimsHold, Claimed
    <2>2. lastId[s] \in Nat
      BY <1>0 DEF Shapes
    <2>3. row[s].id # 0
      BY <2>1, <2>2
    <2>4. QED
      BY <1>0, <2>1, <2>3 DEF RevokedForGood
  <1>2. /\ lock' = [lock EXCEPT ![s] = Nobody]
        /\ renewal' = [renewal EXCEPT ![r] = IdleRenewal]
        /\ UNCHANGED <<lastId, access, mark, idp, revocation, revoked, cutOff>>
    BY DEF EndRenewal, SetRenewal
  <1>3. IdleRenewal \in RenewalRecord /\ IdleRenewal.stage = "idle"
    BY DEF IdleRenewal, RenewalRecord
  <1>4. Shapes'
    BY <1>0, <1>2, <1>3 DEF Shapes
  <1>5. IdsGivenOut'
    <2> SUFFICES ASSUME NEW u \in Session
                 PROVE  /\ row'[u].id <= lastId'[u]
                        /\ lastId'[u] + Cardinality(Open(u)') <= MaxId
      BY <1>0, <1>2 DEF IdsGivenOut
    <2>1. Open(u)' \subseteq Open(u)
      BY <1>0, <1>2, <1>3 DEF Open, Shapes
    <2>2. lastId'[u] + Cardinality(Open(u)') <= MaxId
      BY <1>2, <2>1, OpenShrinks
    <2>3. row'[u].id <= lastId'[u]
      BY <1>0, <1>2 DEF IdsGivenOut, Shapes
    <2>4. QED
      BY <2>2, <2>3
  <1>6. ClaimsHold'
    <2>1. \A q \in Renewal \ {r} : Claimed(q) => renewal[q].session # s
      BY <1>0, <1>1 DEF ClaimsHold, Claimed
    <2>2. QED
      BY <1>0, <1>2, <1>3, <2>1 DEF ClaimsHold, Claimed, Shapes
  <1>7. RevocationsHold'
    <2> SUFFICES ASSUME NEW v \in Revocation
                 PROVE  LocksHeld(v)' /\ RowsCovered(v)' /\ MarksLast(v)'
      BY DEF RevocationsHold
    <2>1. LocksHeld(v) /\ RowsCovered(v) /\ MarksLast(v) /\ revocation[v] \in RevocationRecord
      BY <1>0 DEF RevocationsHold, Shapes
    <2>2. /\ s \notin (revocation[v].found \union revocation[v].extra) \ revocation[v].waiting
          /\ s \notin revocation[v].gone
      BY <1>1, <2>1 DEF LocksHeld
    <2>3. LocksHeld(v)'
      BY <1>0, <1>2, <2>1, <2>2 DEF LocksHeld, RevocationRecord, Shapes
    <2>4. RowsCovered(v)'
      <3>1. \A u \in (revocation[v].found \union revocation[v].extra) \ revocation[v].waiting :
                row'[u] = row[u]
        BY <1>0, <2>1, <2>2 DEF RevocationRecord, Shapes
      <3>2. QED
        BY <1>2, <2>1, <3>1 DEF RowsCovered, LocksHeld
    <2>5. MarksLast(v)'
      BY <1>2, <2>1 DEF MarksLast, Refused
    <2>6. QED
      BY <2>3, <2>4, <2>5
  <1>8. RevokedForGood'
    BY <1>0, <1>1, <1>2 DEF RevokedForGood, Refused, Shapes
  <1>9. QED
    BY <1>4, <1>5, <1>6, <1>7, <1>8 DEF SessionInv

\* What a claimed renewal's session, row and next row are.
LEMMA ClaimedRow ==
    ASSUME SessionInv, NEW r \in Renewal, Claimed(r)
    PROVE  /\ renewal[r].session \in Session
           /\ row[renewal[r].session].id = renewal[r].id
           /\ renewal[r].stage = "rotated" =>
                 /\ RotatedRow(r) \in [id : 0..MaxId, idp : Nat, due : BOOLEAN]
                 /\ RotatedRow(r).id = renewal[r].newId
                 /\ renewal[r].newId \in 1..lastId[renewal[r].session]
                 /\ renewal[r].newId \in 0..MaxId
  <1>1. renewal[r] \in RenewalRecord /\ row \in [Session -> [id : 0..MaxId, idp : Nat, due : BOOLEAN]]
    BY DEF SessionInv, Shapes
  <1>2. /\ renewal[r].session \in Session
        /\ row[renewal[r].session].id = renewal[r].id
        /\ renewal[r].stage = "rotated" => renewal[r].newId \in 1..lastId[renewal[r].session]
    BY DEF SessionInv, ClaimsHold, Claimed
  <1>3. /\ renewal[r].newId \in 0..MaxId /\ renewal[r].fresh \in Nat /\ renewal[r].held \in Nat
        /\ row[renewal[r].session].idp \in Nat
    BY <1>1, <1>2 DEF RenewalRecord
  <1>4. row[renewal[r].session].due \in BOOLEAN
    BY <1>1, <1>2
  <1>5. RotatedRow(r) \in [id : 0..MaxId, idp : Nat, due : BOOLEAN] /\ RotatedRow(r).id = renewal[r].newId
    BY <1>3, <1>4 DEF RotatedRow
  <1>6. QED
    BY <1>2, <1>3, <1>5

\* CommitRenewal, FailRenewal and EndRefused keep the invariant.
LEMMA EndsKeepInv ==
    ASSUME SessionInv, NEW r \in Renewal,
           CommitRenewal(r) \/ FailRenewal(r) \/ EndRefused(r)
    PROVE  SessionInv'
  <1> USE SessionsAssumption
  <1>0. Shapes /\ IdsGivenOut
    BY DEF SessionInv
  <1>1. Claimed(r) /\ EndRenewal(r)
    BY DEF Claimed, CommitRenewal, FailRenewal, EndRefused
  <1>2. PICK s \in Session : s = renewal[r].session
    BY <1>1, ClaimedRow
  <1>3. cookie' \in [Session -> 0..MaxId]
    <2>1. CASE cookie' = cookie
      BY <1>0, <2>1 DEF Shapes
    <2>2. CASE renewal[r].stage = "rotated" /\ cookie' = [cookie EXCEPT ![s] = renewal[r].newId]
      <3>1. renewal[r].newId \in 0..MaxId
        BY <1>1, <2>2, ClaimedRow
      <3>2. QED
        BY <1>0, <2>2, <3>1 DEF Shapes
    <2>3. QED
      BY <1>2, <2>1, <2>2 DEF CommitRenewal, FailRenewal, EndRefused
  <1>4. lastId[s] \in Nat /\ row[s].id <= lastId[s]
    BY <1>0 DEF Shapes, IdsGivenOut
  <1>5. CASE CommitRenewal(r)
    <2>1. /\ RotatedRow(r) \in [id : 0..MaxId, idp : Nat, due : BOOLEAN]
          /\ RotatedRow(r).id <= lastId[s]
      BY <1>1, <1>2, <1>4, <1>5, ClaimedRow DEF CommitRenewal
    <2>2. row' = [row EXCEPT ![s] = RotatedRow(r)]
      BY <1>2, <1>5 DEF CommitRenewal
    <2>3. QED
      BY <1>1, <1>2, <1>3, <2>1, <2>2, EndOfClaimKeepsInv
  <1>6. CASE row' = row
    <2>1. row[s] \in [id : 0..MaxId, idp : Nat, due : BOOLEAN] /\ row' = [row EXCEPT ![s] = row[s]]
      BY <1>0, <1>6 DEF Shapes
    <2>2. QED
      BY <1>1, <1>2, <1>3, <1>4, <2>1, EndOfClaimKeepsInv
  <1>7. CASE row' = [row EXCEPT ![s] = NoRow]
    <2>1. NoRow \in [id : 0..MaxId, idp : Nat, due : BOOLEAN] /\ NoRow.id <= lastId[s]
      BY <1>4 DEF NoRow
    <2>2. QED
      BY <1>1, <1>2, <1>3, <1>7, <2>1, EndOfClaimKeepsInv
  <1>8. QED
    BY <1>2, <1>5, <1>6, <1>7 DEF FailRenewal, EndRefused

-----------------------------------------------------------------------------
(* Revocations.                                                            *)

\* A step of a revocation that touches no row: it takes or gives back locks of
\* its own, and may lengthen marks.
LEMMA RevocationStepKeepsInv ==
    ASSUME SessionInv, NEW v \in Revocation, NEW new \in RevocationRecord,
           revocation' = [revocation EXCEPT ![v] = new],
           UNCHANGED <<row, lastId, cookie, access, idp, renewal, revoked, cutOff>>,
           lock' \in [Session -> Renewal \union Revocation \union {Nobody}],
           \A s \in Session : lock'[s] # lock[s] => lock[s] \in {v, Nobody} /\ lock'[s] \in {v, Nobody},
           mark' \in [Session -> Nat],
           \A s \in Session : Refused(s) => Refused(s)',
           LocksHeld(v)', RowsCovered(v)', MarksLast(v)'
    PROVE  SessionInv'
  <1> USE SessionsAssumption
  <1>0. Shapes /\ IdsGivenOut /\ ClaimsHold /\ RevocationsHold /\ RevokedForGood
    BY DEF SessionInv
  <1>1. Shapes'
    BY <1>0 DEF Shapes
  <1>2. IdsGivenOut'
    BY <1>0 DEF IdsGivenOut, Open
  <1>3. ClaimsHold'
    <2>1. \A s \in Session : lock[s] \in Renewal => lock'[s] = lock[s]
      OBVIOUS
    <2> SUFFICES ASSUME NEW r \in Renewal, renewal[r].stage # "idle"
                 PROVE  LET s == renewal[r].session
                        IN  /\ s \in Session /\ renewal[r].id \in 1..lastId[s]
                            /\ Claimed(r) => lock'[s] = r /\ row[s].id = renewal[r].id
                            /\ renewal[r].stage = "rotated" => renewal[r].newId \in 1..lastId[s]
      BY DEF ClaimsHold, Claimed
    <2>2. QED
      BY <1>0, <2>1 DEF ClaimsHold
  <1>4. RevocationsHold'
    <2> SUFFICES ASSUME NEW u \in Revocation, u # v
                 PROVE  LocksHeld(u)' /\ RowsCovered(u)' /\ MarksLast(u)'
      BY DEF RevocationsHold
    <2>1. LocksHeld(u) /\ RowsCovered(u) /\ MarksLast(u) /\ revocation[u] \in RevocationRecord
      BY <1>0 DEF RevocationsHold, Shapes
    <2>2. revocation'[u] = revocation[u]
      BY <1>0 DEF Shapes
    <2>3. LocksHeld(u)'
      <3>1. \A s \in Session : /\ lock[s] = u => lock'[s] = u
                               /\ lock[s] \notin Renewal => lock'[s] \notin Renewal
        OBVIOUS
      <3>2. QED
        BY <2>1, <2>2, <3>1 DEF LocksHeld, RevocationRecord
    <2>4. RowsCovered(u)'
      BY <2>1, <2>2 DEF RowsCovered
    <2>5. MarksLast(u)'
      BY <2>1, <2>2 DEF MarksLast, RevocationRecord
    <2>6. QED
      BY <2>3, <2>4, <2>5
  <1>5. RevokedForGood'
    BY <1>0 DEF RevokedForGood, Shapes
  <1>6. QED
    BY <1>1, <1>2, <1>3, <1>4, <1>5 DEF SessionInv

\* A revocation starts on sessions that have been signed in to.
LEMMA StartRevocationKeepsInv ==
    ASSUME SessionInv, NEW v \in Revocation, NEW scope \in SUBSET Session,
           NEW extra \in SUBSET scope, NEW spare \in SUBSET Session,
           \A s \in extra : lastId[s] > 0,
           StartRevocation(v, scope, extra, spare)
    PROVE  SessionInv'
  <1> USE SessionsAssumption
  <1> DEFINE found == {s \in scope : row[s].id # 0}
             new == [stage |-> "locking", scope |-> scope, extra |-> extra, spare |-> spare,
                     found |-> found, waiting |-> found \union extra, targets |-> {}, gone |-> {}]
  <1>0. Shapes /\ IdsGivenOut
    BY DEF SessionInv
  <1>1. /\ revocation' = [revocation EXCEPT ![v] = new]
        /\ UNCHANGED <<row, lastId, cookie, access, mark, lock, idp, renewal, revoked, cutOff>>
    BY DEF StartRevocation, SetRevocation
  <1>2. new \in RevocationRecord
    BY DEF RevocationRecord
  <1>3. revocation'[v] = new
    BY <1>0, <1>1 DEF Shapes
  <1>4. \A s \in found \union extra : lastId[s] > 0
    BY <1>0 DEF IdsGivenOut, Shapes
  <1>5. LocksHeld(v)'
    <2>1. /\ revocation'[v].found = found /\ revocation'[v].extra = extra
          /\ revocation'[v].scope = scope /\ revocation'[v].waiting = found \union extra
          /\ revocation'[v].gone = {} /\ revocation'[v].stage = "locking"
      BY <1>3
    <2> HIDE DEF found, new
    <2>2. found \subseteq scope
      BY DEF found
    <2>3. QED
      BY <1>1, <1>4, <2>1, <2>2 DEF LocksHeld
  <1>6. RowsCovered(v)' /\ MarksLast(v)'
    BY <1>3 DEF RowsCovered, MarksLast
  <1>7. QED
    BY <1>0, <1>1, <1>2, <1>5, <1>6, RevocationStepKeepsInv DEF Shapes, Refused

\* Every way a revocation starts is a StartRevocation of that kind.
LEMMA BeginKeepsInv ==
    ASSUME SessionInv, Begin
    PROVE  SessionInv'
  <1> USE SessionsAssumption
  <1>0. Shapes /\ IdsGivenOut
    BY DEF SessionInv
  <1>1. \A s \in Session : row[s].id # 0 \/ access[s] > 0 => lastId[s] > 0
    BY <1>0 DEF IdsGivenOut, Shapes
  <1>2. ASSUME NEW r \in Renewal, NEW s \in Session, NEW layer \in {"api", "silent"},
               StartRenewal(r, s, layer)
        PROVE  SessionInv'
    BY <1>2, StartRenewalKeepsInv
  <1>3. ASSUME NEW v \in Revocation, NEW scope \in SUBSET Session, NEW spare \in SUBSET Session,
               StartRevocation(v, scope, {}, spare)
        PROVE  SessionInv'
    BY <1>3, StartRevocationKeepsInv
  <1>4. ASSUME NEW v \in Revocation, NEW s \in Session, row[s].id # 0 \/ access[s] > 0,
               StartRevocation(v, {s}, {s}, {})
        PROVE  SessionInv'
    BY <1>1, <1>4, StartRevocationKeepsInv
  <1>5. ASSUME NEW v \in Revocation, LogoutAll(v)
        PROVE  SessionInv'
    BY <1>3, <1>5 DEF LogoutAll, RevokeUser
  <1>6. ASSUME NEW v \in Revocation, NEW s \in Session, EndBrowserSession(v, s) \/ RevokeSession(v, s)
        PROVE  SessionInv'
    BY <1>4, <1>6 DEF EndBrowserSession, RevokeSession, RevokeOne, CookieKnown
  <1>7. ASSUME NEW v \in Revocation, NEW s \in Session, LogoutOtherSessions(v, s)
        PROVE  SessionInv'
    BY <1>3, <1>7 DEF LogoutOtherSessions, RevokeUser
  <1>8. ASSUME NEW v \in Revocation, NEW S \in SUBSET Sso, RevokeByIdentity(v, S)
        PROVE  SessionInv'
    BY <1>3, <1>8 DEF RevokeByIdentity
  <1>9. QED
    BY <1>2, <1>5, <1>6, <1>7, <1>8 DEF Begin

\* A set of naturals that is not empty has a least element.
LEMMA LeastOfSet ==
    ASSUME NEW S \in SUBSET Nat, S # {}
    PROVE  \E s \in S : \A u \in S : s <= u
  <1> DEFINE Less == OpToRel(<, Nat)
  <1>1. IsWellFoundedOn(Less, Nat)
    BY NatLessThanWellFounded
  <1> HIDE DEF Less
  <1>2. PICK s \in S : \A u \in S : ~ (<<u, s>> \in Less)
    BY <1>1, WFMin
  <1>3. \A u \in S : u < s => <<u, s>> \in Less
    BY DEF Less, OpToRel
  <1>4. \A u \in S : ~ (u < s)
    BY <1>2, <1>3
  <1>5. QED
    BY <1>4

\* LockNext, StartDelete, FinishDelete and AbortRevocation keep the invariant:
\* the DELETE waits for every renewal that has claimed one of its rows, and a
\* session it found has kept its row since then, or lost it.
LEMMA LockNextKeepsInv ==
    ASSUME SessionInv, NEW v \in Revocation, LockNext(v)
    PROVE  SessionInv'
  <1> USE SessionsAssumption
  <1>0. Shapes /\ LocksHeld(v) /\ RowsCovered(v) /\ revocation[v] \in RevocationRecord
    BY DEF SessionInv, RevocationsHold, Shapes
  <1>1. NextToLock(v) \in revocation[v].waiting
    <2>1. revocation[v].waiting \subseteq Nat /\ revocation[v].waiting # {}
      BY <1>0 DEF LockNext, RevocationRecord
    <2>2. QED
      BY <2>1, LeastOfSet DEF NextToLock
  <1>2. PICK s \in revocation[v].waiting : s = NextToLock(v)
    BY <1>1
  <1> DEFINE new == [revocation[v] EXCEPT !.waiting = revocation[v].waiting \ {s}]
  <1>3. s \in Session
    BY <1>0 DEF RevocationRecord
  <1>4. /\ lock[s] = Nobody
        /\ lock' = [lock EXCEPT ![s] = v]
        /\ revocation' = [revocation EXCEPT ![v] = new]
        /\ revocation[v].stage = "locking"
        /\ UNCHANGED <<row, lastId, cookie, access, mark, idp, renewal, revoked, cutOff>>
    BY <1>2 DEF LockNext, SetRevocation
  <1>5. /\ new \in RevocationRecord
        /\ new.stage = "locking"
        /\ new.waiting = revocation[v].waiting \ {s}
        /\ \A f \in {"found", "extra", "scope", "gone"} : new[f] = revocation[v][f]
    BY <1>0, <1>4 DEF RevocationRecord
  <1>6. revocation'[v] = new
    BY <1>0, <1>4 DEF Shapes
  <1>7. LocksHeld(v)'
    BY <1>0, <1>3, <1>4, <1>5, <1>6 DEF LocksHeld, Shapes, RevocationRecord
  <1>8. RowsCovered(v)' /\ MarksLast(v)'
    BY <1>5, <1>6 DEF RowsCovered, MarksLast
  <1>9. QED
    BY <1>0, <1>3, <1>4, <1>5, <1>7, <1>8, RevocationStepKeepsInv DEF Shapes, Refused

\* The DELETE's snapshot holds the row of every session the revocation found.
LEMMA StartDeleteKeepsInv ==
    ASSUME SessionInv, NEW v \in Revocation, StartDelete(v)
    PROVE  SessionInv'
  <1> USE SessionsAssumption
  <1> DEFINE rec == revocation[v]
             targets == {<<s, row[s].id>> : s \in {u \in rec.scope : row[u].id # 0}}
             new == [stage |-> "deleting", scope |-> rec.scope, extra |-> rec.extra,
                     spare |-> rec.spare, found |-> rec.found, waiting |-> {},
                     targets |-> targets, gone |-> {}]
  <1>0. Shapes /\ LocksHeld(v) /\ rec \in RevocationRecord
    BY DEF SessionInv, RevocationsHold, Shapes
  <1>1. /\ revocation' = [revocation EXCEPT ![v] = new]
        /\ rec.waiting = {}
        /\ UNCHANGED <<row, lastId, cookie, access, mark, lock, idp, renewal, revoked, cutOff>>
    BY DEF StartDelete, SetRevocation
  <1>2. targets \in SUBSET (Session \X Nat)
    BY <1>0 DEF RevocationRecord, Shapes
  <1>3. \A s \in rec.scope : row[s].id = 0 \/ <<s, row[s].id>> \in targets
    OBVIOUS
  <1> HIDE DEF targets
  <1>4. new \in RevocationRecord
    BY <1>0, <1>2 DEF RevocationRecord
  <1>5. revocation'[v] = new
    BY <1>0, <1>1 DEF Shapes
  <1>6. LocksHeld(v)'
    BY <1>0, <1>1, <1>5 DEF LocksHeld
  <1>7. RowsCovered(v)' /\ MarksLast(v)'
    BY <1>0, <1>1, <1>3, <1>5 DEF RowsCovered, MarksLast, LocksHeld
  <1>8. QED
    BY <1>0, <1>1, <1>4, <1>6, <1>7, RevocationStepKeepsInv DEF Shapes, Refused

\* The DELETE takes the rows of its snapshot that are still there, each free of
\* a renewal's claim, and the marks outlive every access token.
LEMMA FinishDeleteKeepsInv ==
    ASSUME SessionInv, NEW v \in Revocation, FinishDelete(v)
    PROVE  SessionInv'
  <1> USE SessionsAssumption
  <1> DEFINE rec == revocation[v]
             deleted == {s \in Session : row[s].id # 0 /\ <<s, row[s].id>> \in rec.targets}
  <1>0. Shapes /\ IdsGivenOut /\ LocksHeld(v) /\ RowsCovered(v) /\ rec \in RevocationRecord
    BY DEF SessionInv, RevocationsHold, Shapes
  <1>1. PICK up \in RedisAnswers :
            /\ mark' = Marked((rec.extra \union deleted) \ rec.spare, up)
            /\ revocation' = [revocation EXCEPT ![v] =
                                 [stage |-> IF up THEN "marked" ELSE "unmarked",
                                  scope |-> rec.scope, extra |-> rec.extra, spare |-> rec.spare,
                                  found |-> rec.found, waiting |-> {}, targets |-> rec.targets,
                                  gone |-> deleted]]
    BY DEF FinishDelete, SetRevocation
  <1>2. /\ rec.stage = "deleting"
        /\ \A target \in rec.targets : ~Busy(v, target[1])
        /\ UNCHANGED <<row, lastId, cookie, access, lock, idp, renewal, revoked, cutOff>>
    BY DEF FinishDelete
  <1>3. \A s \in deleted : lock[s] \notin Renewal /\ lastId[s] > 0
    <2> SUFFICES ASSUME NEW s \in deleted
                 PROVE  lock[s] \notin Renewal /\ lastId[s] > 0
      OBVIOUS
    <2>1. s \in Session /\ row[s].id # 0 /\ <<s, row[s].id>> \in rec.targets
      OBVIOUS
    <2>2. ~Busy(v, <<s, row[s].id>>[1])
      BY <1>2, <2>1
    <2>3. lock[s] \notin Renewal
      BY <2>2 DEF Busy
    <2>4. row[s].id <= lastId[s]
      BY <1>0, <2>1 DEF IdsGivenOut
    <2>5. row[s].id \in Nat /\ lastId[s] \in Nat
      BY <1>0, <2>1 DEF Shapes
    <2>6. lastId[s] > 0
      BY <2>1, <2>4, <2>5
    <2>7. QED
      BY <2>3, <2>6
  <1>4. \A s \in rec.found \union rec.extra : row[s].id = 0 \/ s \in deleted
    BY <1>0, <1>2 DEF RowsCovered, RevocationRecord
  <1>5. deleted \in SUBSET Session
    OBVIOUS
  <1> HIDE DEF deleted
  <1> DEFINE new == [stage |-> IF up THEN "marked" ELSE "unmarked",
                     scope |-> rec.scope, extra |-> rec.extra, spare |-> rec.spare,
                     found |-> rec.found, waiting |-> {}, targets |-> rec.targets,
                     gone |-> deleted]
  <1>6. new \in RevocationRecord
    BY <1>0, <1>5 DEF RevocationRecord
  <1>7. revocation' = [revocation EXCEPT ![v] = new] /\ revocation'[v] = new
    BY <1>0, <1>1 DEF Shapes
  <1>8. LocksHeld(v)'
    BY <1>0, <1>2, <1>3, <1>7 DEF LocksHeld
  <1>9. RowsCovered(v)'
    BY <1>2, <1>4, <1>7 DEF RowsCovered
  <1>10. /\ mark' \in [Session -> Nat]
         /\ \A s \in Session : mark'[s] = mark[s] \/ mark'[s] = AccessLife + 1
         /\ up => \A s \in (rec.extra \union deleted) \ rec.spare : mark'[s] = AccessLife + 1
    BY <1>0, <1>1, <1>5 DEF Marked, Shapes, RevocationRecord
  <1>11. \A s \in Session : /\ mark'[s] = AccessLife + 1 => Refused(s)'
                            /\ Refused(s) => Refused(s)'
    BY <1>0, <1>2, <1>10 DEF Refused, IdsGivenOut, Shapes
  <1>12. MarksLast(v)'
    BY <1>0, <1>5, <1>7, <1>10, <1>11 DEF MarksLast, RevocationRecord
  <1>13. QED
    BY <1>0, <1>2, <1>6, <1>7, <1>8, <1>9, <1>10, <1>11, <1>12, RevocationStepKeepsInv DEF Shapes

\* The end of a revocation gives back its locks and nobody else's.
LEMMA EndRevocationFacts ==
    ASSUME SessionInv, NEW v \in Revocation, EndRevocation(v)
    PROVE  /\ lock' \in [Session -> Renewal \union Revocation \union {Nobody}]
           /\ \A s \in Session : lock'[s] # lock[s] => lock[s] = v /\ lock'[s] = Nobody
           /\ revocation' = [revocation EXCEPT ![v] = IdleRevocation]
           /\ IdleRevocation \in RevocationRecord
           /\ LocksHeld(v)' /\ RowsCovered(v)' /\ MarksLast(v)'
  <1>1. IdleRevocation \in RevocationRecord
    BY DEF IdleRevocation, RevocationRecord
  <1>2. revocation' = [revocation EXCEPT ![v] = IdleRevocation] /\ revocation'[v] = IdleRevocation
    BY DEF EndRevocation, SetRevocation, SessionInv, Shapes
  <1>3. LocksHeld(v)' /\ RowsCovered(v)' /\ MarksLast(v)'
    BY <1>2 DEF LocksHeld, RowsCovered, MarksLast, IdleRevocation
  <1>4. /\ lock' \in [Session -> Renewal \union Revocation \union {Nobody}]
        /\ \A s \in Session : lock'[s] # lock[s] => lock[s] = v /\ lock'[s] = Nobody
    BY DEF EndRevocation, SessionInv, Shapes
  <1>5. QED
    BY <1>1, <1>2, <1>3, <1>4

\* A revocation that fails on the way.
LEMMA AbortRevocationKeepsInv ==
    ASSUME SessionInv, NEW v \in Revocation, AbortRevocation(v)
    PROVE  SessionInv'
  <1>1. /\ EndRevocation(v)
        /\ UNCHANGED <<row, lastId, cookie, access, mark, idp, renewal, revoked, cutOff>>
    BY DEF AbortRevocation, EndRevocation
  <1>2. mark' \in [Session -> Nat] /\ \A s \in Session : Refused(s) => Refused(s)'
    BY <1>1 DEF SessionInv, Shapes, Refused
  <1>3. QED
    BY <1>1, <1>2, EndRevocationFacts, RevocationStepKeepsInv

\* A committed revocation leaves no row of a session it covered: what it found
\* it has locked since, so no renewal has put a row there its DELETE missed.
LEMMA CommitRevocationKeepsInv ==
    ASSUME SessionInv, NEW v \in Revocation, CommitRevocation(v)
    PROVE  SessionInv'
  <1> USE SessionsAssumption
  <1> DEFINE rec == revocation[v]
             covered == rec.found \union rec.extra \union rec.gone
  <1>0. /\ Shapes /\ IdsGivenOut /\ ClaimsHold /\ RevocationsHold /\ RevokedForGood
        /\ rec \in RevocationRecord /\ LocksHeld(v) /\ RowsCovered(v) /\ MarksLast(v)
    BY DEF SessionInv, RevocationsHold, Shapes
  <1>1. /\ rec.stage \in {"marked", "unmarked"}
        /\ row' = [s \in Session |-> IF s \in rec.gone THEN NoRow ELSE row[s]]
        /\ revoked' = revoked \union covered
        /\ cutOff' = IF rec.stage = "marked"
                       THEN cutOff \union ((rec.extra \union rec.gone) \ rec.spare) ELSE cutOff
        /\ EndRevocation(v)
        /\ UNCHANGED <<lastId, cookie, access, mark, idp, renewal>>
    BY DEF CommitRevocation, EndRevocation
  <1>2. /\ lock' \in [Session -> Renewal \union Revocation \union {Nobody}]
        /\ \A s \in Session : lock'[s] # lock[s] => lock[s] = v /\ lock'[s] = Nobody
        /\ revocation' = [revocation EXCEPT ![v] = IdleRevocation]
        /\ IdleRevocation \in RevocationRecord
        /\ LocksHeld(v)' /\ RowsCovered(v)' /\ MarksLast(v)'
    BY <1>1, EndRevocationFacts
  <1>3. NoRow \in [id : 0..MaxId, idp : Nat, due : BOOLEAN] /\ NoRow.id = 0
    BY DEF NoRow
  <1>4. \A s \in Session : row'[s] = row[s] \/ (s \in rec.gone /\ row'[s].id = 0)
    BY <1>1, <1>3
  <1>5. covered \in SUBSET Session
    BY <1>0 DEF RevocationRecord
  <1>6. Shapes'
    <2>1. row' \in [Session -> [id : 0..MaxId, idp : Nat, due : BOOLEAN]]
      BY <1>0, <1>1, <1>3 DEF Shapes
    <2>2. cutOff' \subseteq Session /\ revoked' \subseteq Session
      BY <1>0, <1>1, <1>5 DEF Shapes
    <2>3. QED
      BY <1>0, <1>1, <1>2, <2>1, <2>2 DEF Shapes
  <1>7. IdsGivenOut'
    <2> SUFFICES ASSUME NEW s \in Session
                 PROVE  row'[s].id <= lastId'[s]
      BY <1>0, <1>1 DEF IdsGivenOut, Open
    <2>1. row[s].id <= lastId[s] /\ lastId[s] \in Nat
      BY <1>0 DEF IdsGivenOut, Shapes
    <2>2. QED
      BY <1>1, <1>4, <2>1
  <1>8. ClaimsHold'
    <2> SUFFICES ASSUME NEW q \in Renewal, renewal[q].stage # "idle", Claimed(q)
                 PROVE  LET s == renewal[q].session
                        IN  lock'[s] = q /\ row'[s].id = renewal[q].id
      BY <1>0, <1>1 DEF ClaimsHold, Claimed
    <2>1. PICK s \in Session : s = renewal[q].session
      BY <1>0 DEF ClaimsHold
    <2>2. lock[s] = q /\ row[s].id = renewal[q].id
      BY <1>0, <2>1 DEF ClaimsHold
    <2>3. s \notin rec.gone
      BY <1>0, <2>2 DEF LocksHeld
    <2>4. lock'[s] = q
      BY <1>2, <2>2
    <2>5. QED
      BY <1>4, <2>1, <2>2, <2>3, <2>4
  <1>9. RevocationsHold'
    <2> SUFFICES ASSUME NEW u \in Revocation, u # v
                 PROVE  LocksHeld(u)' /\ RowsCovered(u)' /\ MarksLast(u)'
      BY <1>2 DEF RevocationsHold
    <2>1. LocksHeld(u) /\ RowsCovered(u) /\ MarksLast(u) /\ revocation[u] \in RevocationRecord
      BY <1>0 DEF RevocationsHold, Shapes
    <2>2. revocation'[u] = revocation[u]
      BY <1>0, <1>2 DEF Shapes
    <2>3. LocksHeld(u)'
      <3>1. \A s \in Session : /\ lock[s] = u => lock'[s] = u
                               /\ lock[s] \notin Renewal => lock'[s] \notin Renewal
        BY <1>2
      <3>2. QED
        BY <1>1, <2>1, <2>2, <3>1 DEF LocksHeld, RevocationRecord
    <2>4. RowsCovered(u)'
      BY <1>4, <2>1, <2>2 DEF RowsCovered, RevocationRecord
    <2>5. MarksLast(u)'
      BY <1>1, <2>1, <2>2 DEF MarksLast, Refused
    <2>6. QED
      BY <2>3, <2>4, <2>5
  <1>10. RevokedForGood'
    <2>1. \A s \in covered : row'[s].id = 0 /\ lastId[s] > 0
      <3> SUFFICES ASSUME NEW s \in covered
                   PROVE  row'[s].id = 0 /\ lastId[s] > 0
        OBVIOUS
      <3>1. lastId[s] > 0 /\ (row[s].id = 0 \/ s \in rec.gone)
        BY <1>0, <1>1 DEF LocksHeld, RowsCovered
      <3>2. row'[s].id = 0
        BY <1>1, <1>3, <1>5, <3>1
      <3>3. QED
        BY <3>1, <3>2
    <2>2. \A s \in revoked : row'[s].id = 0 /\ lastId[s] > 0
      BY <1>0, <1>4 DEF RevokedForGood, Shapes
    <2>3. \A s \in cutOff' : s \in revoked' /\ Refused(s)
      BY <1>0, <1>1 DEF RevokedForGood, MarksLast
    <2>4. \A s \in cutOff' : Refused(s)'
      BY <1>1, <2>3 DEF Refused
    <2>5. QED
      BY <1>1, <2>1, <2>2, <2>3, <2>4 DEF RevokedForGood
  <1>11. QED
    BY <1>6, <1>7, <1>8, <1>9, <1>10 DEF SessionInv

-----------------------------------------------------------------------------
(* The theorems.                                                           *)

\* No session, request or history at the start.
LEMMA InitSatisfiesInv ==
    ASSUME Init
    PROVE  SessionInv
  <1> USE SessionsAssumption
  <1>1. /\ NoRow \in [id : 0..MaxId, idp : Nat, due : BOOLEAN] /\ NoRow.id = 0
        /\ IdleRenewal \in RenewalRecord /\ IdleRenewal.stage = "idle"
        /\ IdleRevocation \in RevocationRecord
    BY DEF NoRow, IdleRenewal, IdleRevocation, RenewalRecord, RevocationRecord
  <1>2. Shapes
    <2>1. [token |-> 1, alive |-> TRUE] \in [token : Nat, alive : BOOLEAN]
      OBVIOUS
    <2>2. QED
      BY <1>1, <2>1 DEF Init, Shapes
  <1>3. IdsGivenOut
    <2> SUFFICES ASSUME NEW s \in Session
                 PROVE  row[s].id <= lastId[s] /\ access[s] <= AccessLife
                        /\ (access[s] > 0 => lastId[s] > 0)
                        /\ lastId[s] + Cardinality(Open(s)) <= MaxId
      BY DEF IdsGivenOut
    <2>1. Open(s) = {}
      BY <1>1 DEF Init, Open
    <2>2. Cardinality(Open(s)) = 0
      BY <2>1, FS_EmptySet
    <2>3. QED
      BY <1>1, <2>2 DEF Init
  <1>4. ClaimsHold /\ RevokedForGood
    BY <1>1 DEF Init, ClaimsHold, RevokedForGood
  <1>5. RevocationsHold
    BY DEF Init, RevocationsHold, LocksHeld, RowsCovered, MarksLast, IdleRevocation
  <1>6. QED
    BY <1>2, <1>3, <1>4, <1>5 DEF SessionInv

\* Every step keeps the invariant.
LEMMA NextKeepsInv ==
    ASSUME SessionInv, [Next]_vars
    PROVE  SessionInv'
  <1>1. CASE Environment
    BY <1>1, EnvironmentKeepsInv
  <1>2. CASE Begin
    BY <1>2, BeginKeepsInv
  <1>3. ASSUME NEW r \in Renewal, Renew(r) \/ Interrupt(r)
        PROVE  SessionInv'
    BY <1>3, BeforeClaimKeepsInv, RotateKeepsInv, EndsKeepInv DEF Renew
  <1>4. ASSUME NEW v \in Revocation, Revoke(v) \/ AbortRevocation(v)
        PROVE  SessionInv'
    BY <1>4, LockNextKeepsInv, StartDeleteKeepsInv, FinishDeleteKeepsInv,
       CommitRevocationKeepsInv, AbortRevocationKeepsInv DEF Revoke
  <1>5. CASE UNCHANGED vars
    <2>1. Kept /\ UNCHANGED <<row, access, mark, cookie, idp>>
      BY <1>5 DEF vars, Kept
    <2>2. Shapes' /\ \A s \in Session : access'[s] <= access[s] /\ (Refused(s) => Refused(s)')
      BY <2>1 DEF SessionInv, Shapes, Kept, Refused
    <2>3. QED
      BY <2>1, <2>2, QuietKeepsInv
  <1>6. QED
    BY <1>1, <1>2, <1>3, <1>4, <1>5 DEF Next, Accident

\* The inductive invariant of sign-in, renewal and revocation.
THEOREM SessionInvariant == Spec => []SessionInv
  <1>1. Init => SessionInv
    BY InitSatisfiesInv
  <1>2. SessionInv /\ [Next]_vars => SessionInv'
    BY NextKeepsInv
  <1>3. QED
    BY <1>1, <1>2, PTL DEF Spec

\* Rows, locks and requests keep their shapes, whatever requests overlap.
THEOREM SessionsTypeCorrect == Spec => []TypeOK
  <1>1. SessionInv => TypeOK
    <2> SUFFICES ASSUME SessionInv
                 PROVE  TypeOK
      OBVIOUS
    <2>1. Shapes /\ ClaimsHold
      BY DEF SessionInv
    <2>2. \A r \in Renewal : renewal[r].stage # "idle" =>
              renewal[r].session \in Session /\ renewal[r].id \in 1..MaxId
      <3> SUFFICES ASSUME NEW r \in Renewal, renewal[r].stage # "idle"
                   PROVE  renewal[r].session \in Session /\ renewal[r].id \in 1..MaxId
        OBVIOUS
      <3>1. PICK s \in Session : s = renewal[r].session /\ renewal[r].id \in 1..lastId[s]
        BY <2>1 DEF ClaimsHold
      <3>2. lastId[s] \in 0..MaxId
        BY <2>1 DEF Shapes
      <3>3. QED
        BY <3>1, <3>2, SessionsAssumption
    <2>3. QED
      BY <2>1, <2>2 DEF TypeOK, Shapes
  <1>2. QED
    BY <1>1, SessionInvariant, PTL

\* "Rotation cannot outlive a concurrent revocation" (AuthService.refresh): a
\* session a committed revocation covered never has a refresh row again.
THEOREM RevokedNeverReturns == Spec => []RevokedStaysRevoked
  <1>1. SessionInv => RevokedStaysRevoked
    BY DEF SessionInv, RevokedForGood, RevokedStaysRevoked
  <1>2. QED
    BY <1>1, SessionInvariant, PTL

\* mark_sessions_revoked: the mark of a cut-off session outlives its access
\* tokens, for every access-token lifetime.
THEOREM MarksOutliveTokens == Spec => []RevokedTokensRefused
  <1>1. SessionInv => RevokedTokensRefused
    BY DEF SessionInv, RevokedForGood, RevokedTokensRefused, Refused
  <1>2. QED
    BY <1>1, SessionInvariant, PTL

\* A step other than CommitRenewal keeps the id of a row, or deletes the row.
LEMMA OnlyCommitsChangeIds ==
    ASSUME SessionInv, [Next]_vars, NEW s \in Session, row[s].id # 0,
           \A r \in Renewal : ~CommitRenewal(r)
    PROVE  row'[s].id \in {0, row[s].id}
  <1> USE SessionsAssumption
  <1>0. row \in [Session -> [id : 0..MaxId, idp : Nat, due : BOOLEAN]] /\ NoRow.id = 0
    BY DEF SessionInv, Shapes, NoRow
  <1>1. CASE row' = row
    BY <1>1
  <1>2. CASE Environment
    <2>1. ASSUME NEW u \in Session, Login(u)
          PROVE  row'[s] = row[s]
      <3>1. row[u].id = 0
        BY <2>1 DEF SessionInv, IdsGivenOut, Shapes, Login
      <3>2. QED
        BY <1>0, <2>1, <3>1 DEF Login
    <2>2. ASSUME NEW u \in Session, CheckFallsDue(u) \/ DropIdpToken(u)
          PROVE  row'[s].id = row[s].id
      BY <1>0, <2>2 DEF CheckFallsDue, DropIdpToken
    <2>3. QED
      BY <1>1, <1>2, <2>1, <2>2 DEF Environment, Tick, LoseStanding, EndAtIdp
  <1>3. CASE Begin
    BY <1>1, <1>3 DEF Begin, StartRenewal, LogoutAll, EndBrowserSession, RevokeSession,
       LogoutOtherSessions, RevokeByIdentity, RevokeOne, RevokeUser, StartRevocation
  <1>4. ASSUME NEW r \in Renewal, Renew(r) \/ Interrupt(r)
        PROVE  row'[s].id \in {0, row[s].id}
    <2>1. row' = row \/ \E u : row' = [row EXCEPT ![u] = NoRow]
      BY <1>4 DEF Renew, Interrupt, TakeGuard, AskIdp, RefuseGone, Rotate, RotateEnds,
         RotateRefuses, RotateIssues, FailRenewal, EndRefused
    <2>2. QED
      BY <1>0, <2>1
  <1>5. ASSUME NEW v \in Revocation, Revoke(v) \/ AbortRevocation(v)
        PROVE  row'[s].id \in {0, row[s].id}
    BY <1>0, <1>5 DEF Revoke, LockNext, StartDelete, FinishDelete, CommitRevocation, AbortRevocation
  <1>6. QED
    BY <1>1, <1>2, <1>3, <1>4, <1>5 DEF Next, Accident, vars

\* _rotate: a refresh row gives way only to the row issued to a request that
\* presented it, so no token is exchanged twice.
THEOREM TokensExchangedOnce == Spec => TokenExchangedOnce
  <1> DEFINE Exchanged ==
          \A s \in Session :
              row[s].id # 0 /\ row'[s].id \notin {0, row[s].id} =>
                  \E r \in Renewal : /\ renewal[r].session = s
                                     /\ renewal[r].id = row[s].id
                                     /\ renewal[r].newId = row'[s].id
  <1>1. ASSUME SessionInv, [Next]_vars
        PROVE  [Exchanged]_vars
    <2> SUFFICES ASSUME NEW s \in Session, row[s].id # 0, row'[s].id \notin {0, row[s].id}
                 PROVE  \E r \in Renewal : /\ renewal[r].session = s
                                           /\ renewal[r].id = row[s].id
                                           /\ renewal[r].newId = row'[s].id
      OBVIOUS
    <2>1. PICK r \in Renewal : CommitRenewal(r)
      BY <1>1, OnlyCommitsChangeIds
    <2>2. Claimed(r) /\ row' = [row EXCEPT ![renewal[r].session] = RotatedRow(r)]
      BY <2>1 DEF CommitRenewal, Claimed
    <2>3. /\ row[renewal[r].session].id = renewal[r].id
          /\ RotatedRow(r).id = renewal[r].newId
      BY <1>1, <2>1, <2>2, ClaimedRow DEF CommitRenewal
    <2>4. row \in [Session -> [id : 0..MaxId, idp : Nat, due : BOOLEAN]]
      BY <1>1 DEF SessionInv, Shapes
    <2>5. renewal[r].session = s
      BY <2>2, <2>4
    <2>6. QED
      BY <2>2, <2>3, <2>4, <2>5
  <1>2. QED
    BY <1>1, SessionInvariant, PTL DEF Spec, TokenExchangedOnce

=============================================================================
