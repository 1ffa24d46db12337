-------------------------- MODULE HolderDirectory --------------------------
(***************************************************************************)
(* What the relay engine promises of who holds what, said without events,  *)
(* claims, timers or sockets: somebody is given a copy, may then declare   *)
(* that it is held, and may withdraw that (docs/relay-model.md, "a holder  *)
(* earns a row").  Module Relay implements it with reed_allocations for    *)
(* held and the bodies put on live sockets for given.                      *)
(***************************************************************************)
CONSTANTS
    Users,      \* who may hold a copy
    Reeds,      \* what there are copies of
    InitHeld    \* the copies held from the start

VARIABLES
    held,       \* pairs <<reed, user>>: the copies the server counts on
    given       \* pairs <<reed, user>>: the copies it has handed over

DirectoryInit ==
    /\ held = InitHeld
    /\ given = {}

\* A copy is handed to a user.
Give(r, u) ==
    /\ given' = given \cup {<<r, u>>}
    /\ UNCHANGED held

\* A user who was given the copy holds it.
Hold(r, u) ==
    /\ <<r, u>> \in given
    /\ held' = held \cup {<<r, u>>}
    /\ UNCHANGED given

\* A user no longer holds the copy; no step takes more than one.
Drop(r, u) ==
    /\ <<r, u>> \in held
    /\ held' = held \ {<<r, u>>}
    /\ UNCHANGED given

DirectoryNext == \E r \in Reeds, u \in Users : Give(r, u) \/ Hold(r, u) \/ Drop(r, u)

DirectorySpec == DirectoryInit /\ [][DirectoryNext]_<<held, given>>
=============================================================================
