------------------------------ MODULE EnvLease ------------------------------
(***************************************************************************)
(* What the environment pool promises its clients: an environment is       *)
(* leased to one client at a time, it is marked busy exactly while it is   *)
(* leased, and only the client that leased it gives it back.               *)
(***************************************************************************)
CONSTANTS Clients, Envs, None

VARIABLES
    lease,  \* client -> the environment it has leased, or None
    busy    \* environment -> 0 or 1

LeaseVars == <<lease, busy>>

LeaseInit ==
    /\ lease = [a \in Clients |-> None]
    /\ busy = [e \in Envs |-> 0]

Take(a, e) ==
    /\ lease[a] = None
    /\ \A b \in Clients : lease[b] # e
    /\ busy[e] = 0
    /\ lease' = [lease EXCEPT ![a] = e]
    /\ busy' = [busy EXCEPT ![e] = 1]

GiveBack(a) ==
    /\ lease[a] # None
    /\ busy[lease[a]] = 1
    /\ lease' = [lease EXCEPT ![a] = None]
    /\ busy' = [busy EXCEPT ![lease[a]] = 0]

LeaseNext == \E a \in Clients : (\E e \in Envs : Take(a, e)) \/ GiveBack(a)

LeaseSpec == LeaseInit /\ [][LeaseNext]_LeaseVars
=============================================================================
