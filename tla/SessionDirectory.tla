--------------------------- MODULE SessionDirectory ---------------------------
(***************************************************************************)
(* What the registry promises its readers (get, get_default, list), with   *)
(* no lock, task or channel in sight: a directory that names at most one   *)
(* handle for a session id, in which a handle is entered once, under one   *)
(* id, and to which it never comes back once it has left, be it removed or *)
(* replaced by a later registration of its id.                             *)
(***************************************************************************)
CONSTANTS Id, Handle

VARIABLES
  listed,   \* present id -> handle
  entered   \* the handles that have ever been entered

directoryVars == <<listed, entered>>

DirectoryInit ==
  /\ listed = [i \in {} |-> {}]
  /\ entered = {}

Enter(h, i) ==
  /\ h \notin entered
  /\ entered' = entered \cup {h}
  /\ listed' = [j \in DOMAIN listed \cup {i} |-> IF j = i THEN h ELSE listed[j]]

Leave(i) ==
  /\ i \in DOMAIN listed
  /\ listed' = [j \in DOMAIN listed \ {i} |-> listed[j]]
  /\ UNCHANGED entered

DirectoryNext == \E i \in Id : Leave(i) \/ \E h \in Handle : Enter(h, i)

DirectorySpec == DirectoryInit /\ [][DirectoryNext]_directoryVars
=============================================================================
