-------------------------- MODULE AgeVerification ---------------------------
(* What the system promises: a relying party grants a session at most once,  *)
(* and only to the holder of a credential of the issuer it trusts whose date *)
(* of birth satisfies its policy; the nullifier it learns is the             *)
(* credential's.                                                             *)

CONSTANTS
  Credentials,      \* what issuers may be asked for
  Sessions,         \* what relying parties may ask
  Satisfies(_, _),  \* a credential satisfies the policy of a session
  NullifierOf(_)    \* of a credential

VARIABLES
  credentials,  \* issued ones
  sessions,     \* open ones
  grants        \* sessions and the nullifiers they were granted with

Init == credentials = {} /\ sessions = {} /\ grants = {}

Issue == \E q \in Credentials :
  /\ credentials' = credentials \cup {q}
  /\ UNCHANGED <<sessions, grants>>

Open == \E s \in Sessions :
  /\ sessions' = sessions \cup {s}
  /\ UNCHANGED <<credentials, grants>>

Grant == \E s \in sessions, q \in credentials :
  /\ Satisfies(q, s)
  /\ \A g \in grants : g.session # s
  /\ grants' = grants \cup {[session |-> s, nullifier |-> NullifierOf(q)]}
  /\ UNCHANGED <<credentials, sessions>>

Next == Issue \/ Open \/ Grant

Spec == Init /\ [][Next]_<<credentials, sessions, grants>>
=============================================================================
