--------------------------- MODULE MCSharedEngine ---------------------------
(* Instances of SharedEngine for TLC: values of the structured constants. *)
EXTENDS SharedEngine, TLC

CONSTANTS t1, r1

OneTenant  == [p \in Principal |-> t1]
OneEpisode == [e \in Episode |-> t1]

Limits(executions_, rpm, pools) ==
    [concurrent_executions |-> executions_, requests_per_minute |-> rpm,
     resource_pools |-> pools]

\* Room for two concurrent executions, never a rate limit.
RoomyTenant == {Limits(2, 9, {r1})}

\* Room for three.
WideTenant == {Limits(3, 9, {r1})}

\* Policies that fall below occupancy, remove the pool and lift the limits.
TightAndRoomy == {Limits(0, 9, {r1}), Limits(2, 9, {}), Limits(2, 9, {r1})}

\* Two requests a minute.
RatedTenant == {Limits(3, 2, {})}

Never == MaxTime + 1
Key0  == [active |-> TRUE, expires |-> Never, rpm |-> None]

\* One active key that never changes.
FixedKey == {Key0}

\* A key that is revoked, restored and may expire.
RevocableKey == {Key0, [Key0 EXCEPT !.active = FALSE], [Key0 EXCEPT !.expires = 2]}

\* Keys with and without their own rate limit.
RatedKey == {Key0, [Key0 EXCEPT !.rpm = 1]}

Ids == Permutations(Execution) \cup Permutations(Attempt) \cup Permutations(Owner)
=============================================================================
