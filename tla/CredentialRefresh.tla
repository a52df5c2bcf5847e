-------------------------- MODULE CredentialRefresh --------------------------
(***************************************************************************)
(* One account of the shared gateway's credential store and the sessions   *)
(* that use it: credentials.rs, credentials/refresh.rs and the OAuth       *)
(* session of providers/auth/store.rs.                                     *)
(*                                                                         *)
(* The provider rotates refresh tokens: a token presented twice is treated *)
(* as stolen.  A session therefore stores the intent to refresh before it  *)
(* talks to the provider, and no database lock is held meanwhile.          *)
(*                                                                         *)
(* A session is one request's use of the account and carries its own lease *)
(* token; it may be dropped at any await, which is the absence of further  *)
(* steps, and every reply of the database may be lost.  The secret of the  *)
(* account is identified with the version it was sealed under.             *)
(*                                                                         *)
(* Definitions named Wrong... are deliberately wrong variants of the       *)
(* definition that follows them and are not used.                          *)
(***************************************************************************)
EXTENDS Integers

CONSTANTS
    Session,
    None,
    LeaseTicks,   \* REFRESH_LEASE_MS in clock ticks
    MaxTime,      \* bound: the last tick of the database clock
    MaxVersion    \* bound: the highest version of the account

ASSUME RefreshAssumption ==
    /\ None \notin Session \cup [token : Session, expires : Nat, started : BOOLEAN]
    /\ LeaseTicks \in Nat \ {0}
    /\ MaxTime \in Nat
    /\ MaxVersion \in Nat

Version == 1..MaxVersion

VARIABLES
    now,        \* the database clock
    version,    \* the account's stamp version, 0 before its first import
    lease,      \* the account's RefreshLease, or None
    session,    \* the local state of each session
    presented,  \* history: how often a version's refresh token was presented
    origin      \* history: the version a refreshed version was exchanged for

vars == <<now, version, lease, session, presented, origin>>

-----------------------------------------------------------------------------
Phase ==
    {"new",        \* has not touched the account
     "leased",     \* holds a lease and read the credential
     "granted",    \* knows that its refresh intent is durable
     "staged",     \* holds the provider's replacement
     "closing",    \* failed or uncertain, about to release
     "bound",      \* supplies a credential of a known version
     "sent",       \* its request was dispatched with that version
     "gone"}

Lease == [token : Session, expires : Nat, started : BOOLEAN]

TypeOK ==
    /\ now \in 0..MaxTime
    /\ version \in 0..MaxVersion
    /\ lease \in Lease \cup {None}
    /\ session \in [Session -> [phase : Phase, version : 0..MaxVersion]]
    /\ presented \in [Version -> Nat]
    /\ origin \in [Version -> 0..MaxVersion]

Init ==
    /\ now = 0
    /\ version = 0
    /\ lease = None
    /\ session = [s \in Session |-> [phase |-> "new", version |-> 0]]
    /\ presented = [v \in Version |-> 0]
    /\ origin = [v \in Version |-> 0]

-----------------------------------------------------------------------------
Tick ==
    /\ now < MaxTime
    /\ now' = now + 1
    /\ UNCHANGED <<version, lease, session, presented, origin>>

Enter(s, phases) ==
    \E phase \in phases : session' = [session EXCEPT ![s].phase = phase]

\* The account's refresh is under way or was left unresolved.
Started == lease # None /\ lease.started

\* Wrong: expiry also gives up a refresh that may have been presented.
WrongMayLease == version > 0 /\ (lease # None => lease.expires <= now)

\* begin: expiry only gives up a lease without refresh intent.
MayLease == version > 0 /\ (lease # None => ~ lease.started /\ lease.expires <= now)

\* The end of a lease granted now.
Deadline == now + LeaseTicks

Begin(s) ==
    /\ session[s].phase = "new"
    /\ MayLease
    /\ lease' = [token |-> s, expires |-> Deadline, started |-> FALSE]
    /\ \E phase \in {"leased", "gone"} :
          session' = [session EXCEPT ![s] = [phase |-> phase, version |-> version]]
    /\ UNCHANGED <<now, version, presented, origin>>

\* load: a snapshot without a lease, refused while a refresh is unresolved.
Load(s) ==
    /\ session[s].phase = "new"
    /\ version > 0
    /\ ~ Started
    /\ session' = [session EXCEPT ![s] = [phase |-> "bound", version |-> version]]
    /\ UNCHANGED <<now, version, lease, presented, origin>>

\* check_lease: the lease is this session's own, unexpired, on the version that
\* it read.
CheckLease(s) ==
    /\ lease # None
    /\ version = session[s].version
    /\ lease.token = s
    /\ lease.expires > now

\* prepare_refresh: make the intent durable.  Without the reply the session
\* does not know whether it is, and must not present the token.
PrepareRefresh(s) ==
    /\ session[s].phase = "leased"
    /\ CheckLease(s)
    /\ ~ lease.started
    /\ lease' = [lease EXCEPT !.started = TRUE]
    /\ Enter(s, {"granted", "closing"})
    /\ UNCHANGED <<now, version, presented, origin>>

\* The refresh fails before anything is stored.
PrepareFails(s) ==
    /\ session[s].phase = "leased"
    /\ Enter(s, {"closing"})
    /\ UNCHANGED <<now, version, lease, presented, origin>>

\* Wrong: the exchange is repeated after an error.
WrongRefresh(s) ==
    /\ session[s].phase = "granted"
    /\ presented' = [presented EXCEPT ![session[s].version] = @ + 1]
    /\ Enter(s, {"staged", "granted"})
    /\ UNCHANGED <<now, version, lease, origin>>

\* The exchange with the provider, which may take any time and whose answer may
\* be an error or be lost.
Refresh(s) ==
    /\ session[s].phase = "granted"
    /\ presented' = [presented EXCEPT ![session[s].version] = @ + 1]
    /\ Enter(s, {"staged", "closing"})
    /\ UNCHANGED <<now, version, lease, origin>>

\* Wrong: any refresh under way is taken for the session's own.
WrongMayCommit(s) == Started

\* The session's own intent is the account's, on the version it read.
MayCommit(s) == CheckLease(s) /\ lease.started

\* commit: store the replacement under the next version and end the lease.
Commit(s) ==
    /\ session[s].phase = "staged"
    /\ MayCommit(s)
    /\ version < MaxVersion
    /\ version' = session[s].version + 1
    /\ lease' = None
    /\ origin' = [origin EXCEPT ![session[s].version + 1] = session[s].version]
    /\ \/ session' = [session EXCEPT ![s] =
            [phase |-> "bound", version |-> session[s].version + 1]]
       \/ Enter(s, {"closing"})
    /\ UNCHANGED <<now, presented>>

\* The commit is rejected or fails; the replacement is lost with the session.
CommitFails(s) ==
    /\ session[s].phase = "staged"
    /\ Enter(s, {"closing"})
    /\ UNCHANGED <<now, version, lease, presented, origin>>

\* release: only a lease without intent is given back.
MayRelease(s) == CheckLease(s) /\ ~ lease.started

\* A session that reuses the stored token supplies it once its release is
\* acknowledged; one that failed releases and ends.
Release(s) ==
    /\ session[s].phase \in {"leased", "closing"}
    /\ MayRelease(s)
    /\ lease' = None
    /\ Enter(s, IF session[s].phase = "leased" THEN {"bound", "gone"} ELSE {"gone"})
    /\ UNCHANGED <<now, version, presented, origin>>

\* import_in: an operator stores the account, or replaces it whatever its lease
\* says, under the next version.
Import ==
    /\ version < MaxVersion
    /\ version' = version + 1
    /\ lease' = None
    /\ UNCHANGED <<now, session, presented, origin>>

\* Wrong: the dispatch does not ask for an unresolved refresh.
WrongFence(s) == version = session[s].version

\* fence: the request's version is the account's, and no refresh is unresolved.
Fence(s) == version = session[s].version /\ ~ Started

\* The engine dispatches a request that carries the session's credential.
Dispatch(s) ==
    /\ session[s].phase = "bound"
    /\ Fence(s)
    /\ Enter(s, {"sent"})
    /\ UNCHANGED <<now, version, lease, presented, origin>>

-----------------------------------------------------------------------------
Next ==
    \/ Tick
    \/ Import
    \/ \E s \in Session :
         \/ Begin(s) \/ Load(s) \/ PrepareRefresh(s) \/ PrepareFails(s)
         \/ Refresh(s) \/ Commit(s) \/ CommitFails(s) \/ Release(s)
         \/ Dispatch(s)

Spec == Init /\ [][Next]_vars

-----------------------------------------------------------------------------
(* Properties *)

\* No refresh token is presented twice, whichever sessions crash, lose replies,
\* outlive their lease or are overtaken by an operator's import.
PresentedOnce == \A v \in Version : presented[v] <= 1

\* A stored token that was presented is fenced: until its replacement or an
\* import is stored, the account stays locked by the unresolved intent.
PresentedIsFenced ==
    version > 0 /\ presented[version] > 0 => Started

\* The account's versions advance by one, and a refresh is stored only directly
\* over the token it was exchanged for: a slow refresh never overwrites an
\* operator's import, nor another session's refresh.
RefreshFollowsItsToken ==
    [][version' # version \/ origin' # origin =>
          /\ version' = version + 1
          /\ origin'[version'] # 0 =>
                origin'[version'] = version /\ presented[version] = 1]_vars

\* A request is dispatched with the account's current credential, and never
\* with one whose refresh token was already presented.
DispatchesUnspent ==
    [][\A s \in Session : session[s].phase = "bound" /\ session'[s].phase = "sent" =>
          session[s].version = version /\ presented[session[s].version] = 0]_vars
=============================================================================
