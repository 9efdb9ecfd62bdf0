----------------------------- MODULE VkRegistry ------------------------------
(***************************************************************************)
(* crypto-verifier: the process-wide VK_REGISTRY, filled by concurrent     *)
(* calls of init_with_vk_bytes and init_with_vk_registry, and read by      *)
(* concurrent calls of verify_age_snark.                                   *)
(*                                                                         *)
(* OnceCell's set and get are atomic, so each is one step; parsing the     *)
(* entries happens before, on data of the caller.  A verifying key is a    *)
(* member of Keys, bytes that do not parse are Garbage.  A proof is what   *)
(* it was made for: a key and the public inputs; Garbage does not parse.   *)
(***************************************************************************)
EXTENDS Naturals, Sequences

CONSTANTS
  Inits,      \* calls of the init functions
  Verifiers,  \* calls of verify_age_snark
  Ids,        \* vk_id values; init_with_vk_bytes uses id 0
  Keys,       \* prepared verifying keys
  Garbage,    \* bytes that do not parse
  Publics,    \* assembled public inputs
  MaxEntries, \* bound: entries given to init_with_vk_registry
  Nothing     \* an absent key or registry

ASSUME IdAssumption == 0 \in Ids
ASSUME BytesAssumption ==
  Garbage \notin Keys /\ Nothing \notin Keys /\ Nothing # Garbage
ASSUME MaxEntriesAssumption == MaxEntries \in Nat \ {0}

Entry == [id : Ids, key : Keys \cup {Garbage}]
EntryLists == UNION {[1..n -> Entry] : n \in 0..MaxEntries}
Maps  == [Ids -> Keys \cup {Nothing}]
EmptyMap == [id \in Ids |-> Nothing]
Proofs == [key : Keys, public : Publics]
Requests == [id : Ids, proof : Proofs \cup {Garbage}, public : Publics]

ASSUME NothingAssumption ==
  Nothing \notin Maps /\ Nothing \notin Requests /\ Garbage \notin Proofs

VARIABLES
  registry,  \* VK_REGISTRY: Nothing or a map
  pc,        \* where each call is
  entries,   \* the argument of each init call
  next,      \* the entry an init call parses next
  map,       \* the HashMap an init call builds
  request,   \* the arguments of each verify call
  pvk,       \* the key a verify call found
  result     \* what each call returned

initVars   == <<entries, next, map>>
verifyVars == <<request, pvk>>
vars == <<registry, pc, result, initVars, verifyVars>>

Calls == Inits \cup Verifiers
ASSUME CallsAssumption == Inits \cap Verifiers = {}

Init ==
  /\ registry = Nothing
  /\ pc = [c \in Calls |-> "begin"]
  /\ entries = [i \in Inits |-> <<>>]
  /\ next = [i \in Inits |-> 1]
  /\ map = [i \in Inits |-> EmptyMap]
  /\ request = [v \in Verifiers |-> Nothing]
  /\ pvk = [v \in Verifiers |-> Nothing]
  /\ result = [c \in Calls |-> "none"]

Go(c, p) == pc' = [pc EXCEPT ![c] = p]
Return(c, r) == Go(c, "returned") /\ result' = [result EXCEPT ![c] = r]

------------------------------------------------------------------------------

\* init_with_vk_bytes is given one key and stores it under id 0.
BeginBytes(i) ==
  /\ pc[i] = "begin"
  /\ \E k \in Keys \cup {Garbage} :
       entries' = [entries EXCEPT ![i] = <<[id |-> 0, key |-> k]>>]
  /\ Go(i, "load")
  /\ UNCHANGED <<registry, result, next, map, verifyVars>>

\* init_with_vk_registry refuses an empty list.
BeginRegistry(i) ==
  /\ pc[i] = "begin"
  /\ \E es \in EntryLists :
       /\ entries' = [entries EXCEPT ![i] = es]
       /\ \/ es = <<>> /\ Return(i, "InvalidInput")
          \/ es # <<>> /\ Go(i, "load") /\ UNCHANGED result
  /\ UNCHANGED <<registry, next, map, verifyVars>>

\* Broken: the first key of an id stays.
LoadEntryFirstWins(i) ==
  /\ pc[i] = "load"
  /\ next[i] <= Len(entries[i])
  /\ LET e == entries[i][next[i]] IN
       \/ /\ e.key = Garbage
          /\ Return(i, "InvalidFormat")
          /\ UNCHANGED <<map, next>>
       \/ /\ e.key # Garbage
          /\ map' = [map EXCEPT ![i][e.id] = IF @ = Nothing THEN e.key ELSE @]
          /\ next' = [next EXCEPT ![i] = @ + 1]
          /\ UNCHANGED <<pc, result>>
  /\ UNCHANGED <<registry, entries, verifyVars>>

\* Broken: a repeated id is refused.
LoadEntryRefusingRepeats(i) ==
  /\ pc[i] = "load"
  /\ next[i] <= Len(entries[i])
  /\ LET e == entries[i][next[i]] IN
       \/ /\ e.key = Garbage \/ map[i][e.id] # Nothing
          /\ Return(i, "InvalidFormat")
          /\ UNCHANGED <<map, next>>
       \/ /\ e.key # Garbage /\ map[i][e.id] = Nothing
          /\ map' = [map EXCEPT ![i][e.id] = e.key]
          /\ next' = [next EXCEPT ![i] = @ + 1]
          /\ UNCHANGED <<pc, result>>
  /\ UNCHANGED <<registry, entries, verifyVars>>

\* load_vk on the next entry; a duplicate id overwrites the earlier key.
LoadEntry(i) ==
  /\ pc[i] = "load"
  /\ next[i] <= Len(entries[i])
  /\ LET e == entries[i][next[i]] IN
       \/ /\ e.key = Garbage
          /\ Return(i, "InvalidFormat")
          /\ UNCHANGED <<map, next>>
       \/ /\ e.key # Garbage
          /\ map' = [map EXCEPT ![i][e.id] = e.key]
          /\ next' = [next EXCEPT ![i] = @ + 1]
          /\ UNCHANGED <<pc, result>>
  /\ UNCHANGED <<registry, entries, verifyVars>>

\* Broken: a later call replaces the registry.
SetRegistryOverwriting(i) ==
  /\ pc[i] = "load"
  /\ next[i] > Len(entries[i])
  /\ registry' = map[i] /\ Return(i, "ok")
  /\ UNCHANGED <<initVars, verifyVars>>

\* Broken: a later call succeeds without any effect.
SetRegistryIgnoringLoss(i) ==
  /\ pc[i] = "load"
  /\ next[i] > Len(entries[i])
  /\ registry' = IF registry = Nothing THEN map[i] ELSE registry
  /\ Return(i, "ok")
  /\ UNCHANGED <<initVars, verifyVars>>

\* VK_REGISTRY.set: the first call to get here wins.
SetRegistry(i) ==
  /\ pc[i] = "load"
  /\ next[i] > Len(entries[i])
  /\ \/ registry = Nothing /\ registry' = map[i] /\ Return(i, "ok")
     \/ registry # Nothing /\ UNCHANGED registry /\ Return(i, "AlreadyInitialized")
  /\ UNCHANGED <<initVars, verifyVars>>

\* Broken: an id that is not registered falls back to id 0.
LookupWithFallback(v) == \E r \in Requests :
  /\ pc[v] = "begin"
  /\ request' = [request EXCEPT ![v] = r]
  /\ LET id == IF registry # Nothing /\ registry[r.id] = Nothing THEN 0 ELSE r.id IN
       \/ /\ registry # Nothing /\ registry[id] # Nothing
          /\ pvk' = [pvk EXCEPT ![v] = registry[id]]
          /\ Go(v, "check")
          /\ UNCHANGED result
       \/ /\ registry # Nothing => registry[id] = Nothing
          /\ Return(v, "VerifierNotInitialized")
          /\ UNCHANGED pvk
  /\ UNCHANGED <<registry, initVars>>

\* verify_age_snark: VK_REGISTRY.get and the lookup of vk_id.
Lookup(v) == \E r \in Requests :
  /\ pc[v] = "begin"
  /\ request' = [request EXCEPT ![v] = r]
  /\ \/ /\ registry # Nothing
        /\ registry[r.id] # Nothing
        /\ pvk' = [pvk EXCEPT ![v] = registry[r.id]]
        /\ Go(v, "check")
        /\ UNCHANGED result
     \/ /\ registry # Nothing => registry[r.id] = Nothing
        /\ Return(v, "VerifierNotInitialized")
        /\ UNCHANGED pvk
  /\ UNCHANGED <<registry, initVars>>

\* Parse the proof, then verify it with the key found and the inputs given.
CheckProof(v) ==
  /\ pc[v] = "check"
  /\ LET r == request[v] IN
       \/ r.proof = Garbage /\ Return(v, "InvalidFormat")
       \/ /\ r.proof # Garbage
          /\ \/ r.proof = [key |-> pvk[v], public |-> r.public] /\ Return(v, "ok")
             \/ r.proof # [key |-> pvk[v], public |-> r.public]
                /\ Return(v, "VerificationFailed")
  /\ UNCHANGED <<registry, initVars, verifyVars>>

InitStep(i) == BeginBytes(i) \/ BeginRegistry(i) \/ LoadEntry(i) \/ SetRegistry(i)
VerifyStep(v) == Lookup(v) \/ CheckProof(v)

Finished == (\A c \in Calls : pc[c] = "returned") /\ UNCHANGED vars

Next ==
  \/ \E i \in Inits : InitStep(i)
  \/ \E v \in Verifiers : VerifyStep(v)
  \/ Finished

Spec == Init /\ [][Next]_vars

\* Nothing in these calls waits: a scheduled thread moves.
FairSpec == Spec /\ \A i \in Inits : WF_vars(InitStep(i))
                 /\ \A v \in Verifiers : WF_vars(VerifyStep(v))

------------------------------------------------------------------------------

Results == {"none", "ok", "InvalidInput", "InvalidFormat", "AlreadyInitialized",
            "VerifierNotInitialized", "VerificationFailed"}

\* The types of the registry and of every call's locals.
TypeOK ==
  /\ registry \in Maps \cup {Nothing}
  /\ pc \in [Calls -> {"begin", "load", "check", "returned"}]
  /\ entries \in [Inits -> EntryLists]
  /\ next \in [Inits -> Nat \ {0}]
  /\ map \in [Inits -> Maps]
  /\ request \in [Verifiers -> Requests \cup {Nothing}]
  /\ pvk \in [Verifiers -> Keys \cup {Nothing}]
  /\ result \in [Calls -> Results]

\* The key that the first `n' entries of a list leave under an id: that of the
\* last entry for it.
LastKey(es, n, id) ==
  LET at == {m \in 1..n : es[m].id = id}
  IN  IF at = {} THEN Nothing
      ELSE es[CHOOSE m \in at : \A k \in at : k <= m].key

\* Exactly the init calls that returned Ok filled the registry; there is at most
\* one, and what it registered is its whole list, the last entry of an id winning.
OneWinner ==
  /\ \A i, j \in Inits : result[i] = "ok" /\ result[j] = "ok" => i = j
  /\ registry # Nothing <=> \E i \in Inits : result[i] = "ok"
  /\ \A i \in Inits : result[i] = "ok" =>
       registry = [id \in Ids |-> LastKey(entries[i], Len(entries[i]), id)]

\* However initialisation and verification race, a proof is only accepted under
\* the key that the one successful init call registered for the requested id, and
\* for exactly the inputs the caller gave.
AcceptedUnderRegisteredKey == \A v \in Verifiers :
  result[v] = "ok" =>
    /\ registry # Nothing
    /\ request[v].proof = [key |-> registry[request[v].id], public |-> request[v].public]

\* Malformed and empty init calls do not keep a good one from succeeding: if some
\* call is given a good list, some call fills the registry.
GoodInitFillsRegistry == \A i \in Inits :
  (pc[i] = "load" /\ \A n \in 1..Len(entries[i]) : entries[i][n].key # Garbage)
    ~> registry # Nothing

\* The inductive invariant: a call without a result is under way; a half-built map
\* is that of the entries parsed so far; a key that was found is the registered
\* one.
Built(i, n) == [id \in Ids |-> LastKey(entries[i], n, id)]

LoadInv == \A i \in Inits :
  /\ result[i] = "none" <=> pc[i] # "returned"
  /\ pc[i] # "check"
  /\ pc[i] = "begin" => map[i] = EmptyMap /\ next[i] = 1
  /\ pc[i] = "load" => next[i] <= Len(entries[i]) + 1 /\ map[i] = Built(i, next[i] - 1)

WinnerInv ==
  /\ \A i, j \in Inits : result[i] = "ok" /\ result[j] = "ok" => i = j
  /\ registry # Nothing <=> \E i \in Inits : result[i] = "ok"
  /\ \A i \in Inits : result[i] = "ok" => registry = Built(i, Len(entries[i]))

VerifyInv == \A v \in Verifiers :
  /\ pc[v] = "check" => /\ registry # Nothing
                         /\ request[v] \in Requests
                         /\ pvk[v] = registry[request[v].id]
  /\ result[v] = "ok" => /\ pc[v] = "returned"
                          /\ registry # Nothing
                          /\ request[v].proof =
                               [key |-> registry[request[v].id], public |-> request[v].public]

\* The whole inductive invariant of the verifier.
IInv == TypeOK /\ LoadInv /\ WinnerInv /\ VerifyInv

------------------------------------------------------------------------------
(* The refinement: an init call publishes, the cell is the registry. *)

Outcome(i) ==
  CASE result[i] = "none"               -> "pending"
    [] result[i] = "ok"                 -> "won"
    [] result[i] = "AlreadyInitialized" -> "lost"
    [] OTHER                            -> "rejected"

Cell == INSTANCE WriteOnce WITH
  Publishers <- Inits, Values <- Maps, NoValue <- Nothing,
  cell <- registry, outcome <- [i \in Inits |-> Outcome(i)]

\* The registry is a write-once cell.
ImplementsWriteOnce == Cell!Spec
=============================================================================
