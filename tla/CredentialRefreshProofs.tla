----------------------- MODULE CredentialRefreshProofs -----------------------
(***************************************************************************)
(* Proofs about CredentialRefresh, for any number of sessions, any lease   *)
(* length and any bounds.                                                  *)
(***************************************************************************)
EXTENDS CredentialRefresh, TLAPS

\* What has not been stored yet was neither presented nor refreshed.
FutureClean == \A v \in Version : v > version => presented[v] = 0 /\ origin[v] = 0

\* A session works with a version that was stored.
VersionKnown == \A s \in Session : session[s].phase # "new" => session[s].version \in 1..version

\* A session that knows its intent to be durable is the only one that may ever
\* present its version's token, and nobody has.
GrantExclusive ==
    /\ \A s \in Session : session[s].phase = "granted" =>
          /\ presented[session[s].version] = 0
          /\ session[s].version = version =>
                lease # None /\ lease.token = s /\ lease.started
    /\ \A s, r \in Session :
          session[s].phase = "granted" /\ session[r].phase = "granted"
             /\ session[s].version = session[r].version => s = r

\* A replacement was obtained by presenting the token once.
StagedPresented ==
    \A s \in Session : session[s].phase = "staged" => presented[session[s].version] = 1

\* The inductive invariant.
RefreshInv ==
    /\ TypeOK
    /\ FutureClean
    /\ VersionKnown
    /\ GrantExclusive
    /\ StagedPresented
    /\ PresentedOnce
    /\ PresentedIsFenced

\* The invariant holds before the account is imported.
LEMMA RefreshInit == Init => RefreshInv
  BY RefreshAssumption
  DEF Init, RefreshInv, TypeOK, FutureClean, VersionKnown, GrantExclusive,
      StagedPresented, PresentedOnce, PresentedIsFenced, Phase, Version, Lease

\* Every step keeps the invariant.
LEMMA RefreshStep == RefreshInv /\ [Next]_vars => RefreshInv'
<1> SUFFICES ASSUME RefreshInv, [Next]_vars PROVE RefreshInv'
  OBVIOUS
<1> USE RefreshAssumption DEF RefreshInv, Version, Started
<1>1. CASE Tick
  BY <1>1 DEF Tick, TypeOK, FutureClean, VersionKnown, GrantExclusive,
              StagedPresented, PresentedOnce, PresentedIsFenced
<1>2. CASE Import
  <2>1. TypeOK'
    BY <1>2 DEF Import, TypeOK
  <2>2. (FutureClean /\ VersionKnown /\ StagedPresented /\ PresentedOnce)'
    BY <1>2 DEF Import, TypeOK, FutureClean, VersionKnown, StagedPresented, PresentedOnce
  <2>3. GrantExclusive'
    BY <1>2 DEF Import, TypeOK, VersionKnown, GrantExclusive
  <2>4. PresentedIsFenced'
    BY <1>2 DEF Import, TypeOK, FutureClean, PresentedIsFenced
  <2> QED BY <2>1, <2>2, <2>3, <2>4
<1>3. ASSUME NEW s \in Session, Begin(s) PROVE RefreshInv'
  <2>1. TypeOK'
    BY <1>3 DEF Begin, MayLease, Deadline, TypeOK, Lease, Phase
  <2>2. (FutureClean /\ VersionKnown /\ StagedPresented /\ PresentedOnce)'
    BY <1>3 DEF Begin, MayLease, TypeOK, FutureClean, VersionKnown, StagedPresented,
                PresentedOnce
  <2>3. GrantExclusive'
    BY <1>3 DEF Begin, MayLease, TypeOK, GrantExclusive
  <2>4. PresentedIsFenced'
    BY <1>3 DEF Begin, MayLease, TypeOK, PresentedIsFenced
  <2> QED BY <2>1, <2>2, <2>3, <2>4
<1>4. ASSUME NEW s \in Session, Load(s) PROVE RefreshInv'
  BY <1>4 DEF Load, TypeOK, Phase, FutureClean, VersionKnown, GrantExclusive,
              StagedPresented, PresentedOnce, PresentedIsFenced
<1>5. ASSUME NEW s \in Session, PrepareRefresh(s) PROVE RefreshInv'
  <2>1. lease \in Lease /\ lease # None
    BY <1>5 DEF PrepareRefresh, CheckLease, TypeOK
  <2>2. lease' = [token |-> lease.token, expires |-> lease.expires, started |-> TRUE]
    BY <1>5, <2>1 DEF PrepareRefresh, Lease
  <2>3. lease' \in Lease /\ lease' # None /\ lease'.token = s /\ lease'.started
    <3>1. lease.token = s
      BY <1>5 DEF PrepareRefresh, CheckLease
    <3>2. lease' \in Lease
      BY <2>1, <2>2 DEF Lease
    <3>3. lease' # None
      BY <3>2 DEF Lease
    <3> QED BY <2>2, <3>1, <3>2, <3>3
  <2>4. PICK phase \in {"granted", "closing"} : session' = [session EXCEPT ![s].phase = phase]
    BY <1>5 DEF PrepareRefresh, Enter
  <2>5. TypeOK'
    BY <1>5, <2>3, <2>4 DEF PrepareRefresh, TypeOK, Phase
  <2>6. (FutureClean /\ VersionKnown /\ StagedPresented /\ PresentedOnce)'
    BY <1>5, <2>4 DEF PrepareRefresh, CheckLease, TypeOK, FutureClean, VersionKnown,
                StagedPresented, PresentedOnce
  <2>7. version > 0 /\ presented[version] = 0 /\ version = session[s].version
    BY <1>5 DEF PrepareRefresh, CheckLease, TypeOK, VersionKnown, PresentedIsFenced
  <2>8. GrantExclusive'
    BY <1>5, <2>3, <2>4, <2>7 DEF PrepareRefresh, TypeOK, GrantExclusive
  <2>9. PresentedIsFenced'
    BY <1>5, <2>3 DEF PrepareRefresh, PresentedIsFenced
  <2> QED BY <2>5, <2>6, <2>8, <2>9
<1>6. ASSUME NEW s \in Session, PrepareFails(s) \/ CommitFails(s) PROVE RefreshInv'
  <2>1. session' = [session EXCEPT ![s].phase = "closing"]
        /\ UNCHANGED <<now, version, lease, presented, origin>>
        /\ session[s].phase \in {"leased", "staged"}
    BY <1>6 DEF PrepareFails, CommitFails, Enter
  <2>2. TypeOK'
    BY <2>1 DEF TypeOK, Phase
  <2> QED
    BY <2>1, <2>2 DEF TypeOK, FutureClean, VersionKnown, GrantExclusive,
                      StagedPresented, PresentedOnce, PresentedIsFenced
<1>7. ASSUME NEW s \in Session, Refresh(s) PROVE RefreshInv'
  <2>1. session[s].version \in Version /\ session[s].version <= version
        /\ presented[session[s].version] = 0
    BY <1>7 DEF Refresh, TypeOK, VersionKnown, GrantExclusive
  <2>2. TypeOK'
    BY <1>7, <2>1 DEF Refresh, Enter, TypeOK, Phase
  <2>3. (FutureClean /\ VersionKnown /\ PresentedOnce)'
    BY <1>7, <2>1 DEF Refresh, Enter, TypeOK, FutureClean, VersionKnown, PresentedOnce
  <2>4. StagedPresented'
    <3> SUFFICES ASSUME NEW r \in Session, session'[r].phase = "staged"
                 PROVE  presented'[session'[r].version] = 1
      BY DEF StagedPresented
    <3>1. CASE r = s
      BY <1>7, <2>1, <3>1 DEF Refresh, Enter, TypeOK
    <3>2. CASE r # s
      <4>1. presented[session[r].version] = 1 /\ session'[r] = session[r]
        BY <1>7, <3>2 DEF Refresh, Enter, TypeOK, StagedPresented
      <4> QED BY <1>7, <2>1, <4>1 DEF Refresh, TypeOK
    <3> QED BY <3>1, <3>2
  <2>5. GrantExclusive'
    BY <1>7, <2>1 DEF Refresh, Enter, TypeOK, VersionKnown, GrantExclusive
  <2>6. PresentedIsFenced'
    BY <1>7, <2>1 DEF Refresh, TypeOK, GrantExclusive, PresentedIsFenced
  <2> QED BY <2>2, <2>3, <2>4, <2>5, <2>6
<1>8. ASSUME NEW s \in Session, Commit(s) PROVE RefreshInv'
  <2>1. version' = version + 1 /\ version = session[s].version /\ version + 1 \in Version
    BY <1>8 DEF Commit, MayCommit, CheckLease, TypeOK
  <2>2. /\ lease' = None /\ UNCHANGED <<now, presented>>
        /\ origin' = [origin EXCEPT ![version + 1] = version]
    BY <1>8, <2>1 DEF Commit
  <2>3. PICK row \in [phase : {"bound", "closing"}, version : {version, version + 1}] :
           session' = [session EXCEPT ![s] = row]
    <3>1. CASE session' = [session EXCEPT ![s] =
                  [phase |-> "bound", version |-> session[s].version + 1]]
      BY <2>1, <3>1
    <3>2. CASE Enter(s, {"closing"})
      <4>1. [session[s] EXCEPT !.phase = "closing"]
              = [phase |-> "closing", version |-> session[s].version]
        BY DEF TypeOK
      <4> QED BY <2>1, <3>2, <4>1 DEF Enter
    <3> QED BY <1>8, <3>1, <3>2 DEF Commit
  <2>4. TypeOK'
    BY <2>1, <2>2, <2>3 DEF TypeOK, Phase
  <2>5. FutureClean' /\ PresentedOnce'
    BY <2>1, <2>2 DEF TypeOK, FutureClean, PresentedOnce
  <2>6. VersionKnown' /\ StagedPresented'
    BY <1>8, <2>1, <2>2, <2>3 DEF Commit, TypeOK, VersionKnown, StagedPresented
  <2>7. GrantExclusive'
    BY <2>1, <2>2, <2>3 DEF TypeOK, VersionKnown, GrantExclusive
  <2>8. PresentedIsFenced'
    BY <2>1, <2>2 DEF TypeOK, FutureClean, PresentedIsFenced
  <2> QED BY <2>4, <2>5, <2>6, <2>7, <2>8
<1>9. ASSUME NEW s \in Session, Release(s) PROVE RefreshInv'
  <2>1. PICK phase \in {"bound", "gone"} : session' = [session EXCEPT ![s].phase = phase]
    BY <1>9 DEF Release, Enter
  <2>2. /\ lease # None /\ version = session[s].version /\ lease.token = s
        /\ ~ lease.started /\ lease' = None /\ UNCHANGED <<now, version, presented, origin>>
        /\ session[s].phase \in {"leased", "closing"}
    BY <1>9 DEF Release, MayRelease, CheckLease
  <2>3. TypeOK'
    BY <2>1, <2>2 DEF TypeOK, Phase
  <2>4. (FutureClean /\ VersionKnown /\ StagedPresented /\ PresentedOnce)'
    BY <2>1, <2>2 DEF TypeOK, FutureClean, VersionKnown, StagedPresented, PresentedOnce
  <2>5. GrantExclusive'
    BY <2>1, <2>2 DEF TypeOK, GrantExclusive
  <2>6. PresentedIsFenced'
    BY <2>2 DEF TypeOK, PresentedIsFenced
  <2> QED BY <2>3, <2>4, <2>5, <2>6
<1>10. ASSUME NEW s \in Session, Dispatch(s) PROVE RefreshInv'
  BY <1>10 DEF Dispatch, Enter, TypeOK, Phase, FutureClean, VersionKnown,
               GrantExclusive, StagedPresented, PresentedOnce, PresentedIsFenced
<1>11. CASE UNCHANGED vars
  BY <1>11 DEF vars, TypeOK, FutureClean, VersionKnown, GrantExclusive,
               StagedPresented, PresentedOnce, PresentedIsFenced
<1> QED
  BY <1>1, <1>2, <1>3, <1>4, <1>5, <1>6, <1>7, <1>8, <1>9, <1>10, <1>11 DEF Next

\* The invariant holds always.
LEMMA RefreshCorrect == Spec => []RefreshInv
  BY RefreshInit, RefreshStep, PTL DEF Spec

\* No refresh token is presented to the provider twice (refresh.rs, begin and
\* prepare_refresh), however many sessions compete and whichever of them stop.
THEOREM PresentedOnceHolds == Spec => []PresentedOnce
<1>1. RefreshInv => PresentedOnce
  BY DEF RefreshInv
<1> QED BY RefreshCorrect, <1>1, PTL

\* A presented token that is still stored is locked by its intent (refresh.rs,
\* release and begin).
THEOREM PresentedIsFencedHolds == Spec => []PresentedIsFenced
<1>1. RefreshInv => PresentedIsFenced
  BY DEF RefreshInv
<1> QED BY RefreshCorrect, <1>1, PTL

\* A refresh is stored only directly over the token it was exchanged for
\* (refresh.rs, commit, against credentials.rs, import_in).
THEOREM RefreshFollowsItsTokenHolds == Spec => RefreshFollowsItsToken
<1> DEFINE Follows ==
      version' # version \/ origin' # origin =>
         /\ version' = version + 1
         /\ origin'[version'] # 0 => origin'[version'] = version /\ presented[version] = 1
<1>1. ASSUME RefreshInv, [Next]_vars PROVE [Follows]_vars
  <2> USE RefreshAssumption, <1>1 DEF RefreshInv, Version
  <2>1. CASE Import
    BY <2>1 DEF Import, TypeOK, FutureClean
  <2>2. ASSUME NEW s \in Session, Commit(s) PROVE Follows
    BY <2>2 DEF Commit, MayCommit, CheckLease, TypeOK, StagedPresented
  <2>3. CASE UNCHANGED <<version, origin>>
    BY <2>3
  <2> QED
    BY <2>1, <2>2, <2>3 DEF Next, vars, Tick, Begin, Load, PrepareRefresh,
       PrepareFails, Refresh, CommitFails, Release, Dispatch
<1> QED BY <1>1, RefreshCorrect, PTL DEF Spec, RefreshFollowsItsToken

\* A request is dispatched with the stored credential whose token nobody has
\* presented (credentials.rs, fence).
THEOREM DispatchesUnspentHolds == Spec => DispatchesUnspent
<1> DEFINE Unspent ==
      \A s \in Session : session[s].phase = "bound" /\ session'[s].phase = "sent" =>
         session[s].version = version /\ presented[session[s].version] = 0
<1>1. ASSUME RefreshInv, [Next]_vars PROVE [Unspent]_vars
  <2> USE RefreshAssumption, <1>1 DEF RefreshInv, Version
  <2>1. ASSUME NEW s \in Session, Dispatch(s) PROVE Unspent
    BY <2>1 DEF Dispatch, Fence, Enter, TypeOK, VersionKnown, PresentedIsFenced
  <2>2. ASSUME NEW s \in Session,
               Begin(s) \/ Load(s) \/ PrepareRefresh(s) \/ PrepareFails(s)
                 \/ Refresh(s) \/ Commit(s) \/ CommitFails(s) \/ Release(s)
        PROVE  Unspent
    BY <2>2 DEF Begin, Load, PrepareRefresh, PrepareFails, Refresh, Commit,
                CommitFails, Release, Enter, TypeOK
  <2>3. CASE Tick \/ Import \/ UNCHANGED vars
    BY <2>3 DEF Tick, Import, vars
  <2> QED
    BY <2>1, <2>2, <2>3 DEF Next
<1> QED BY <1>1, RefreshCorrect, PTL DEF Spec, DispatchesUnspent

\* The version, the lease and the sessions keep their types under every load,
\* refresh, import and lost reply (credentials.rs, credentials/refresh.rs).
THEOREM TypeCorrect == Spec => []TypeOK
  BY RefreshCorrect, PTL DEF RefreshInv
=============================================================================
