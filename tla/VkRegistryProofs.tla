-------------------------- MODULE VkRegistryProofs ---------------------------
(* Proofs about VkRegistry: the invariant, and that it implements WriteOnce. *)
EXTENDS VkRegistry, SequenceTheorems, TLAPS

\* An entry list is a sequence of entries.
LEMMA EntryListsAreSeqs ==
  ASSUME NEW es \in EntryLists
  PROVE  es \in Seq(Entry)
  <1>1. PICK n \in 0..MaxEntries : es \in [1..n -> Entry]
    BY DEF EntryLists
  <1>2. n \in Nat
    BY MaxEntriesAssumption
  <1>3. QED
    BY <1>1, <1>2, SeqDef

\* Parsing no entry leaves no key under any id.
LEMMA LastKeyBase ==
  ASSUME NEW es, NEW id
  PROVE  LastKey(es, 0, id) = Nothing
  BY DEF LastKey

\* Parsing one more entry sets the key of its id and no other.
LEMMA LastKeyStep ==
  ASSUME NEW es, NEW n \in Nat, NEW id
  PROVE  LastKey(es, n + 1, id) =
           IF es[n + 1].id = id THEN es[n + 1].key ELSE LastKey(es, n, id)
  <1> DEFINE At(m) == {k \in 1..m : es[k].id = id}
  <1>1. CASE es[n + 1].id = id
    <2>1. n + 1 \in At(n + 1) /\ \A k \in At(n + 1) : k <= n + 1
      BY <1>1
    <2>2. \A m \in At(n + 1) : (\A k \in At(n + 1) : k <= m) => m = n + 1
      BY <2>1
    <2>3. (CHOOSE m \in At(n + 1) : \A k \in At(n + 1) : k <= m) = n + 1
      BY <2>1, <2>2
    <2>4. QED
      BY <1>1, <2>1, <2>3 DEF LastKey
  <1>2. CASE es[n + 1].id # id
    <2>1. At(n + 1) = At(n)
      BY <1>2
    <2> DEFINE Latest(S) == IF S = {} THEN Nothing
                            ELSE es[CHOOSE m \in S : \A k \in S : k <= m].key
    <2>2. LastKey(es, n + 1, id) = Latest(At(n + 1)) /\ LastKey(es, n, id) = Latest(At(n))
      BY Zenon DEF LastKey
    <2> HIDE DEF At, Latest
    <2>3. LastKey(es, n + 1, id) = LastKey(es, n, id)
      BY <2>1, <2>2
    <2>4. QED
      BY <1>2, <2>3
  <1>3. QED
    BY <1>1, <1>2

\* The initial states of the registry satisfy the invariant.
LEMMA InitInv == Init => IInv
  <1> SUFFICES ASSUME Init PROVE IInv
    OBVIOUS
  <1>1. <<>> \in EntryLists
    <2>1. <<>> \in [1..0 -> Entry] /\ 0 \in 0..MaxEntries
      BY MaxEntriesAssumption
    <2>2. QED
      BY <2>1 DEF EntryLists
  <1>2. EmptyMap \in Maps
    BY DEF EmptyMap, Maps
  <1>3. TypeOK
    BY <1>1, <1>2 DEF Init, TypeOK, Results
  <1>4. LoadInv /\ WinnerInv /\ VerifyInv
    BY CallsAssumption DEF Init, LoadInv, WinnerInv, VerifyInv, Calls
  <1>5. QED
    BY <1>3, <1>4 DEF IInv

\* Every step of the registry keeps the invariant.
LEMMA StepInv ==
  ASSUME IInv, [Next]_vars
  PROVE  IInv'
  <1> USE CallsAssumption, BytesAssumption, NothingAssumption
      DEF IInv, Calls, Go, Return, initVars, verifyVars
  <1>1. ASSUME NEW i \in Inits, BeginBytes(i) PROVE IInv'
    <2>1. PICK k \in Keys \cup {Garbage} :
            entries' = [entries EXCEPT ![i] = <<[id |-> 0, key |-> k]>>]
      BY <1>1 DEF BeginBytes
    <2>2. <<[id |-> 0, key |-> k]>> \in EntryLists
      <3>1. [id |-> 0, key |-> k] \in Entry
        BY IdAssumption DEF Entry
      <3>2. <<[id |-> 0, key |-> k]>> \in [1..1 -> Entry] /\ 1 \in 0..MaxEntries
        BY <3>1, MaxEntriesAssumption
      <3>3. QED
        BY <3>2 DEF EntryLists
    <2>3. Len(<<[id |-> 0, key |-> k]>>) = 1
      OBVIOUS
    <2>4. TypeOK'
      BY <1>1, <2>1, <2>2 DEF BeginBytes, TypeOK
    <2>5. LoadInv'
      BY <1>1, <2>1, <2>3, LastKeyBase DEF BeginBytes, TypeOK, LoadInv, Built, EmptyMap
    <2>6. WinnerInv'
      <3>1. result[i] = "none" /\ UNCHANGED <<registry, result>>
        BY <1>1 DEF BeginBytes, LoadInv
      <3>2. \A j \in Inits : j # i => entries'[j] = entries[j]
        BY <2>1 DEF TypeOK
      <3>3. QED
        BY <3>1, <3>2 DEF WinnerInv, Built
    <2>7. VerifyInv'
      BY <1>1 DEF BeginBytes, TypeOK, VerifyInv
    <2>8. QED
      BY <2>4, <2>5, <2>6, <2>7
  <1>2. ASSUME NEW i \in Inits, BeginRegistry(i) PROVE IInv'
    <2>1. PICK es \in EntryLists :
            /\ entries' = [entries EXCEPT ![i] = es]
            /\ \/ es = <<>> /\ Return(i, "InvalidInput")
               \/ es # <<>> /\ Go(i, "load") /\ UNCHANGED result
      BY <1>2 DEF BeginRegistry
    <2>2. es \in Seq(Entry) /\ Len(es) \in Nat
      BY <2>1, EntryListsAreSeqs, LenProperties
    <2>3. TypeOK'
      BY <1>2, <2>1 DEF BeginRegistry, TypeOK, Results
    <2>4. LoadInv'
      BY <1>2, <2>1, <2>2, LastKeyBase DEF BeginRegistry, TypeOK, LoadInv, Built, EmptyMap
    <2>5. WinnerInv'
      <3>1. result[i] = "none" /\ UNCHANGED registry
        BY <1>2 DEF BeginRegistry, LoadInv
      <3>2. \A j \in Inits : result'[j] = "ok" <=> result[j] = "ok"
        BY <2>1, <3>1 DEF TypeOK
      <3>3. \A j \in Inits : j # i => entries'[j] = entries[j]
        BY <2>1 DEF TypeOK
      <3>4. QED
        BY <3>1, <3>2, <3>3 DEF WinnerInv, Built
    <2>6. VerifyInv'
      BY <1>2, <2>1 DEF BeginRegistry, TypeOK, VerifyInv
    <2>7. QED
      BY <2>3, <2>4, <2>5, <2>6
  <1>3. ASSUME NEW i \in Inits, LoadEntry(i) PROVE IInv'
    <2> DEFINE e == entries[i][next[i]]
    <2>1. entries[i] \in Seq(Entry) /\ next[i] \in 1..Len(entries[i]) /\ Len(entries[i]) \in Nat
      BY <1>3, EntryListsAreSeqs, LenProperties DEF LoadEntry, TypeOK
    <2>2. e \in Entry
      BY <2>1, ElementOfSeq
    <2>3. CASE e.key = Garbage
      <3>1. TypeOK'
        BY <1>3, <2>3 DEF LoadEntry, TypeOK, Results
      <3>2. LoadInv'
        BY <1>3, <2>3 DEF LoadEntry, TypeOK, LoadInv, Built
      <3>3. /\ UNCHANGED <<registry, entries, request, pvk>>
            /\ \A c \in Calls : c # i => pc'[c] = pc[c] /\ result'[c] = result[c]
            /\ result[i] = "none" /\ result'[i] = "InvalidFormat"
        BY <1>3, <2>3 DEF LoadEntry, TypeOK, LoadInv
      <3>4. \A j \in Inits : result'[j] = "ok" <=> result[j] = "ok"
        BY <3>3
      <3>5. WinnerInv'
        BY <3>3, <3>4 DEF WinnerInv, Built
      <3>6. VerifyInv'
        BY <3>3 DEF VerifyInv
      <3>7. QED
        BY <3>1, <3>2, <3>5, <3>6
    <2>4. CASE e.key # Garbage
      <3>1. /\ map' = [map EXCEPT ![i][e.id] = e.key]
            /\ next' = [next EXCEPT ![i] = @ + 1]
            /\ UNCHANGED <<pc, result, registry, entries, request, pvk>>
        BY <1>3, <2>4 DEF LoadEntry
      <3>2. e.id \in Ids /\ e.key \in Keys /\ map[i] \in [Ids -> Keys \cup {Nothing}]
        BY <2>2, <2>4 DEF Entry, TypeOK, Maps
      <3>3. map'[i] = [map[i] EXCEPT ![e.id] = e.key] /\ map'[i] \in Maps
        BY <3>1, <3>2 DEF TypeOK, Maps
      <3>4. TypeOK'
        BY <3>1, <3>3, <2>1 DEF TypeOK
      <3>5. map'[i] = Built(i, next[i])
        <4>1. map[i] = Built(i, next[i] - 1)
          BY <1>3 DEF LoadEntry, LoadInv
        <4>2. \A id \in Ids : LastKey(entries[i], next[i], id) =
                IF e.id = id THEN e.key ELSE LastKey(entries[i], next[i] - 1, id)
          <5>1. next[i] - 1 \in Nat /\ (next[i] - 1) + 1 = next[i]
            BY <2>1
          <5>2. QED
            BY <5>1, LastKeyStep
        <4>3. QED
          BY <3>2, <3>3, <4>1, <4>2 DEF Built
      <3>6. LoadInv'
        <4>1. next'[i] = next[i] + 1 /\ next'[i] - 1 = next[i] /\ next'[i] <= Len(entries[i]) + 1
          BY <3>1, <2>1 DEF TypeOK
        <4>2. pc[i] = "load"
          BY <1>3 DEF LoadEntry
        <4>3. \A j \in Inits : j # i => map'[j] = map[j] /\ next'[j] = next[j]
          BY <3>1 DEF TypeOK
        <4> DEFINE LoadOK(j) ==
              /\ result[j] = "none" <=> pc[j] # "returned"
              /\ pc[j] # "check"
              /\ pc[j] = "begin" => map[j] = EmptyMap /\ next[j] = 1
              /\ pc[j] = "load" => /\ next[j] <= Len(entries[j]) + 1
                                   /\ map[j] = Built(j, next[j] - 1)
        <4>4. \A j \in Inits : LoadOK(j)
          BY DEF LoadInv
        <4>5. LoadOK(i)'
          BY <3>1, <3>5, <4>1, <4>2, <4>4 DEF Built
        <4>6. \A j \in Inits : j # i => LoadOK(j)'
          BY <3>1, <4>3, <4>4 DEF Built
        <4>7. QED
          BY <4>5, <4>6 DEF LoadInv
      <3>7. WinnerInv' /\ VerifyInv'
        BY <3>1 DEF WinnerInv, VerifyInv, Built
      <3>8. QED
        BY <3>4, <3>6, <3>7
    <2>5. QED
      BY <2>3, <2>4
  <1>4. ASSUME NEW i \in Inits, SetRegistry(i) PROVE IInv'
    <2>1. entries[i] \in Seq(Entry) /\ Len(entries[i]) \in Nat
      BY EntryListsAreSeqs, LenProperties DEF TypeOK
    <2>2. map[i] = Built(i, Len(entries[i])) /\ result[i] = "none"
      <3>1. next[i] = Len(entries[i]) + 1
        BY <1>4, <2>1 DEF SetRegistry, TypeOK, LoadInv
      <3>2. QED
        BY <1>4, <2>1, <3>1 DEF SetRegistry, LoadInv
    <2>3. map[i] \in Maps /\ map[i] # Nothing
      BY DEF TypeOK
    <2>4. TypeOK'
      BY <1>4, <2>3 DEF SetRegistry, TypeOK, Results
    <2>5. LoadInv'
      BY <1>4 DEF SetRegistry, TypeOK, LoadInv, Built
    <2>6. WinnerInv'
      <3>1. UNCHANGED entries /\ \A j \in Inits : j # i => result'[j] = result[j]
        BY <1>4 DEF SetRegistry, TypeOK
      <3>2. CASE registry = Nothing
        <4>1. registry' = map[i] /\ result'[i] = "ok"
          BY <1>4, <3>2 DEF SetRegistry, TypeOK
        <4>2. \A j \in Inits : result'[j] = "ok" <=> j = i
          BY <3>1, <3>2, <4>1 DEF WinnerInv
        <4>3. QED
          BY <2>2, <2>3, <3>1, <4>1, <4>2 DEF WinnerInv, Built
      <3>3. CASE registry # Nothing
        <4>1. registry' = registry /\ result'[i] = "AlreadyInitialized"
          BY <1>4, <3>3 DEF SetRegistry, TypeOK
        <4>2. \A j \in Inits : result'[j] = "ok" <=> result[j] = "ok"
          BY <2>2, <3>1, <4>1
        <4>3. QED
          BY <3>1, <4>1, <4>2 DEF WinnerInv, Built
      <3>4. QED
        BY <3>2, <3>3
    <2>7. VerifyInv'
      BY <1>4, <2>2 DEF SetRegistry, TypeOK, VerifyInv
    <2>8. QED
      BY <2>4, <2>5, <2>6, <2>7
  <1>5. ASSUME NEW v \in Verifiers, Lookup(v) PROVE IInv'
    <2>1. PICK r \in Requests :
            /\ request' = [request EXCEPT ![v] = r]
            /\ \/ /\ registry # Nothing
                  /\ registry[r.id] # Nothing
                  /\ pvk' = [pvk EXCEPT ![v] = registry[r.id]]
                  /\ Go(v, "check")
                  /\ UNCHANGED result
               \/ /\ registry # Nothing => registry[r.id] = Nothing
                  /\ Return(v, "VerifierNotInitialized")
                  /\ UNCHANGED pvk
      BY <1>5 DEF Lookup
    <2>2. UNCHANGED <<registry, entries, next, map>> /\ pc[v] = "begin"
      BY <1>5 DEF Lookup
    <2>3. registry # Nothing => registry[r.id] \in Keys \cup {Nothing}
      BY DEF TypeOK, Maps, Requests
    <2>4. TypeOK'
      BY <2>1, <2>2, <2>3 DEF TypeOK, Results
    <2>5. LoadInv' /\ WinnerInv'
      <3>1. /\ UNCHANGED <<registry, entries, next, map>>
            /\ \A j \in Inits : pc'[j] = pc[j] /\ result'[j] = result[j]
        BY <2>1, <2>2 DEF TypeOK
      <3>2. LoadInv'
        BY <3>1 DEF LoadInv, Built
      <3>3. WinnerInv'
        BY <3>1 DEF WinnerInv, Built
      <3>4. QED
        BY <3>2, <3>3
    <2>6. VerifyInv'
      <3>1. \A w \in Verifiers : w # v =>
              /\ pc'[w] = pc[w] /\ result'[w] = result[w]
              /\ request'[w] = request[w] /\ pvk'[w] = pvk[w]
        BY <2>1 DEF TypeOK
      <3>2. request'[v] = r /\ result[v] # "ok"
        BY <2>1, <2>2 DEF TypeOK, VerifyInv
      <3>3. CASE pc'[v] = "check"
        BY <2>1, <2>2, <3>1, <3>2, <3>3 DEF TypeOK, VerifyInv
      <3>4. CASE pc'[v] # "check"
        <4>1. result'[v] = "VerifierNotInitialized"
          BY <2>1, <3>4 DEF TypeOK
        <4>2. QED
          BY <2>2, <3>1, <3>4, <4>1 DEF VerifyInv
      <3>5. QED
        BY <3>3, <3>4
    <2>7. QED
      BY <2>4, <2>5, <2>6
  <1>6. ASSUME NEW v \in Verifiers, CheckProof(v) PROVE IInv'
    <2>1. TypeOK'
      BY <1>6 DEF CheckProof, TypeOK, Results
    <2>2. LoadInv' /\ WinnerInv'
      <3>1. /\ UNCHANGED <<registry, entries, next, map>>
            /\ \A j \in Inits : pc'[j] = pc[j] /\ result'[j] = result[j]
        BY <1>6 DEF CheckProof, TypeOK
      <3>2. LoadInv'
        BY <3>1 DEF LoadInv, Built
      <3>3. WinnerInv'
        BY <3>1 DEF WinnerInv, Built
      <3>4. QED
        BY <3>2, <3>3
    <2>3. VerifyInv'
      BY <1>6 DEF CheckProof, TypeOK, VerifyInv
    <2>4. QED
      BY <2>1, <2>2, <2>3
  <1>7. CASE UNCHANGED vars
    BY <1>7 DEF vars, TypeOK, LoadInv, WinnerInv, VerifyInv, Built
  <1>8. QED
    BY <1>1, <1>2, <1>3, <1>4, <1>5, <1>6, <1>7 DEF Next, InitStep, VerifyStep, Finished

\* IInv is an invariant of the verifier.
THEOREM Inductive == Spec => []IInv
  <1>1. IInv /\ [Next]_vars => IInv'
    BY StepInv
  <1>2. QED
    BY InitInv, <1>1, PTL DEF Spec

\* At most one init call succeeds, and the registry is its whole list.
THEOREM OneWinnerTheorem == Spec => []OneWinner
  <1>1. IInv => OneWinner
    BY DEF IInv, WinnerInv, Built, OneWinner
  <1>2. QED
    BY Inductive, <1>1, PTL

\* An accepted proof was made for the registered key and the caller's inputs.
THEOREM AcceptedTheorem == Spec => []AcceptedUnderRegisteredKey
  <1>1. IInv => AcceptedUnderRegisteredKey
    BY DEF IInv, VerifyInv, AcceptedUnderRegisteredKey
  <1>2. QED
    BY Inductive, <1>1, PTL

------------------------------------------------------------------------------
(* Refinement. *)

\* The verifier starts as an empty write-once cell.
LEMMA RefineInit == Init => Cell!Init
  BY CallsAssumption DEF Init, Cell!Init, Outcome, Calls

\* Every step is a step of the cell, or leaves it and all outcomes alone.
LEMMA RefineStep ==
  ASSUME IInv, [Next]_vars
  PROVE  [Cell!Next]_(Cell!vars)
  <1> DEFINE out == [i \in Inits |-> Outcome(i)]
  <1> USE CallsAssumption DEF Calls, Go, Return, initVars, verifyVars
  <1>1. ASSUME NEW i \in Inits, BeginBytes(i) PROVE UNCHANGED Cell!vars
    BY <1>1 DEF BeginBytes, Cell!vars, Outcome
  <1>2. ASSUME NEW i \in Inits, BeginRegistry(i) PROVE Cell!Reject(i) \/ UNCHANGED Cell!vars
    <2>1. CASE UNCHANGED result
      BY <1>2, <2>1 DEF BeginRegistry, Cell!vars, Outcome
    <2>2. CASE result' = [result EXCEPT ![i] = "InvalidInput"]
      BY <1>2, <2>2 DEF BeginRegistry, Cell!Reject, Outcome, IInv, TypeOK, LoadInv
    <2>3. QED
      BY <1>2, <2>1, <2>2 DEF BeginRegistry
  <1>3. ASSUME NEW i \in Inits, LoadEntry(i) PROVE Cell!Reject(i) \/ UNCHANGED Cell!vars
    <2>1. CASE UNCHANGED result
      BY <1>3, <2>1 DEF LoadEntry, Cell!vars, Outcome
    <2>2. CASE result' = [result EXCEPT ![i] = "InvalidFormat"]
      BY <1>3, <2>2 DEF LoadEntry, Cell!Reject, Outcome, IInv, TypeOK, LoadInv
    <2>3. QED
      BY <1>3, <2>1, <2>2 DEF LoadEntry
  <1>4. ASSUME NEW i \in Inits, SetRegistry(i) PROVE Cell!Win(i) \/ Cell!Lose(i)
    <2>1. result[i] = "none" /\ map[i] \in Maps
      BY <1>4 DEF SetRegistry, IInv, TypeOK, LoadInv
    <2>2. CASE registry = Nothing
      <3>1. registry' = map[i] /\ result' = [result EXCEPT ![i] = "ok"]
        BY <1>4, <2>2 DEF SetRegistry
      <3>2. out' = [out EXCEPT ![i] = "won"]
        BY <3>1 DEF Outcome, IInv, TypeOK
      <3>3. out[i] = "pending"
        BY <2>1 DEF Outcome
      <3>4. QED
        BY <2>1, <2>2, <3>1, <3>2, <3>3 DEF Cell!Win
    <2>3. CASE registry # Nothing
      BY <1>4, <2>3 DEF SetRegistry, Cell!Lose, Outcome, IInv, TypeOK, LoadInv
    <2>4. QED
      BY <2>2, <2>3
  <1>5. ASSUME NEW v \in Verifiers, VerifyStep(v) PROVE UNCHANGED Cell!vars
    <2>1. UNCHANGED registry /\ \A i \in Inits : result'[i] = result[i]
      BY <1>5 DEF VerifyStep, Lookup, CheckProof, IInv, TypeOK
    <2>2. QED
      BY <2>1 DEF Cell!vars, Outcome
  <1>6. CASE UNCHANGED vars
    BY <1>6 DEF vars, Cell!vars, Outcome
  <1>7. QED
    BY <1>1, <1>2, <1>3, <1>4, <1>5, <1>6 DEF Next, InitStep, Finished, Cell!Next

\* The verifier's registry implements the write-once cell.
THEOREM Refinement == Spec => ImplementsWriteOnce
  <1>1. IInv /\ [Next]_vars => [Cell!Next]_(Cell!vars)
    BY RefineStep
  <1>2. QED
    BY Inductive, RefineInit, <1>1, PTL DEF Spec, ImplementsWriteOnce, Cell!Spec
=============================================================================
