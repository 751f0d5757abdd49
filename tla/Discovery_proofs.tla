--------------------------- MODULE Discovery_proofs ---------------------------
(***************************************************************************)
(* Theorems about Discovery and CommandLine, for any names, any faults and *)
(* any number of registrations.                                            *)
(***************************************************************************)
EXTENDS CommandLine, SequenceTheorems, TLAPS

\* The first entries of both sequences are the same.
SameUpTo(n, s, t) == \A i \in 1 .. n : s[i] = t[i]

\* While the loop of single queries runs and nothing has left, the list starts
\* with what was counted, and the entries collected are the first of those.
Snapshot ==
    left = {} =>
        /\ pc = "query" =>
              /\ count = Len(before)
              /\ Len(before) <= Len(registered)
              /\ SameUpTo(Len(before), before, registered)
              /\ SameUpTo(Len(infos), infos, before)
        /\ Listing => infos = before

\* What an operation knows of was there while it ran.
Seen ==
    /\ ToSet(infos) \subseteq ever
    /\ pc # "idle" => ToSet(registered) \subseteq ever

\* The inductive invariant.
DiscoveryInv ==
    /\ TypeOK
    /\ Len(registered) <= made
    /\ ~up => registered = <<>>
    /\ pc = "create" => op # "list" /\ infos = <<>>
    /\ pc = "count" => infos = <<>>
    /\ Seen
    /\ Snapshot

-----------------------------------------------------------------------------

\* Classifying a code gives one of the kinds of Error.hpp.
LEMMA ClassifyType == \A code : Classify(code) \in ErrorKinds
BY DEF Classify, KindTable, ErrorKinds

\* Taking an entry out of a sequence.
LEMMA RemoveAtFacts ==
    ASSUME NEW S, NEW s \in Seq(S), NEW i \in DOMAIN s
    PROVE  /\ RemoveAt(s, i) \in Seq(S)
           /\ Len(RemoveAt(s, i)) = Len(s) - 1
           /\ ToSet(RemoveAt(s, i)) \subseteq ToSet(s)
<1> DEFINE a == SubSeq(s, 1, i - 1)
           b == SubSeq(s, i + 1, Len(s))
<1>1. i \in 1 .. Len(s) /\ i \in Nat /\ Len(s) \in Nat
  OBVIOUS
<1>2. a \in Seq(S) /\ Len(a) = i - 1 /\ \A j \in 1 .. Len(a) : a[j] = s[j]
  BY <1>1
<1>3. b \in Seq(S) /\ Len(b) = Len(s) - i /\ \A j \in 1 .. Len(b) : b[j] = s[i + j]
  BY <1>1
<1> HIDE DEF a, b
<1>4. /\ a \o b \in Seq(S) /\ Len(a \o b) = Len(a) + Len(b)
      /\ \A j \in 1 .. Len(a) + Len(b) :
            (a \o b)[j] = IF j <= Len(a) THEN a[j] ELSE b[j - Len(a)]
  <2>1. a \in Seq(S) /\ b \in Seq(S)
    BY <1>2, <1>3
  <2> QED BY <2>1, ConcatProperties, Zenon
<1>5. Len(a \o b) = Len(s) - 1
  BY <1>1, <1>2, <1>3, <1>4
<1>6. ASSUME NEW j \in 1 .. Len(a \o b)
      PROVE  \E k \in 1 .. Len(s) : (a \o b)[j] = s[k]
  <2>1. CASE j <= Len(a)
    <3>1. j \in 1 .. Len(a) /\ j \in 1 .. Len(s)
      BY <1>1, <1>2, <2>1
    <3> QED BY <1>2, <1>4, <2>1, <3>1
  <2>2. CASE ~(j <= Len(a))
    <3>1. j - Len(a) \in 1 .. Len(b) /\ i + (j - Len(a)) \in 1 .. Len(s)
      BY <1>1, <1>2, <1>3, <1>5, <2>2
    <3>2. (a \o b)[j] = b[j - Len(a)]
      BY <1>4, <2>2
    <3> QED BY <1>3, <3>1, <3>2
  <2> QED BY <2>1, <2>2
<1>7. RemoveAt(s, i) = a \o b
  BY DEF RemoveAt, a, b
<1>8. ToSet(a \o b) \subseteq ToSet(s)
  BY <1>4, <1>6 DEF ToSet
<1> QED BY <1>4, <1>5, <1>7, <1>8

\* Appending an entry.
LEMMA AppendFacts ==
    ASSUME NEW S, NEW s \in Seq(S), NEW e \in S
    PROVE  /\ Append(s, e) \in Seq(S)
           /\ Len(Append(s, e)) = Len(s) + 1
           /\ \A i \in 1 .. Len(s) : Append(s, e)[i] = s[i]
           /\ Append(s, e)[Len(s) + 1] = e
           /\ ToSet(Append(s, e)) \subseteq ToSet(s) \cup {e}
<1>1. /\ Append(s, e) \in Seq(S)
      /\ Len(Append(s, e)) = Len(s) + 1
      /\ \A i \in 1 .. Len(s) : Append(s, e)[i] = s[i]
      /\ Append(s, e)[Len(s) + 1] = e
  OBVIOUS
<1>2. ToSet(Append(s, e)) \subseteq ToSet(s) \cup {e}
  BY <1>1 DEF ToSet
<1> QED BY <1>1, <1>2

\* The empty list has no entries.
LEMMA NoEntries == ToSet(<<>>) = {}
BY DEF ToSet

\* How an operation may end.
LEMMA Endings ==
    ASSUME NEW kind \in ErrorKinds, Throw(kind)
    PROVE  /\ pc' = "idle" /\ result' \in {"nothing", kind}
           /\ result' = kind => kind = "InstanceNotFound" \/ op # "tryAttach" \/ ~IsRetryable(kind)
BY DEF Throw, End, ErrorKinds

-----------------------------------------------------------------------------

LEMMA InitDiscovery == Init => DiscoveryInv
<1> SUFFICES ASSUME Init PROVE DiscoveryInv
  OBVIOUS
<1>1. TypeOK
  BY DiscoveryAssumption DEF Init, TypeOK, Ops
<1>2. Seen
  BY NoEntries DEF Init, Seen
<1>3. Snapshot
  BY DEF Init, Snapshot, Listing
<1> QED BY <1>1, <1>2, <1>3 DEF Init, DiscoveryInv

LEMMA BeginKeeps ==
    ASSUME DiscoveryInv, NEW o \in Ops, NEW name \in Names, Begin(o, name)
    PROVE  DiscoveryInv'
<1>1. ToSet(registered) \subseteq Names /\ <<>> \in Seq(Names) /\ Len(<<>>) = 0
  BY DEF DiscoveryInv, TypeOK, ToSet
<1>2. TypeOK'
  <2>1. /\ count' \in 0 .. MaxRegister /\ infos' \in Seq(Names) /\ Len(infos') <= count'
        /\ pc' \in {"create", "count"} /\ result' = "none" /\ before' \in Seq(Names)
        /\ ever' \in SUBSET Names /\ left' \in SUBSET Names
    BY <1>1, DiscoveryAssumption DEF Begin
  <2> QED BY <2>1 DEF DiscoveryInv, TypeOK, Begin, manager
<1>3. Seen'
  BY NoEntries DEF Begin, Seen, manager
<1>4. Snapshot'
  BY DEF Begin, Snapshot, Listing
<1> QED BY <1>2, <1>3, <1>4 DEF DiscoveryInv, Begin, manager

\* CreateInterface() ends the operation or goes on to the listing.
LEMMA CreateKeeps ==
    ASSUME DiscoveryInv, CreateInterface
    PROVE  DiscoveryInv'
<1>1. \/ pc' = "idle" /\ result' \in {"ok", "nothing"} \cup ErrorKinds
      \/ pc' = "count" /\ result' = result
  BY ClassifyType, Endings DEF CreateInterface, End
<1>2. pc = "create" /\ UNCHANGED <<manager, op, target, count, infos, history>>
  BY DEF CreateInterface
<1> QED
  BY <1>1, <1>2
  DEF DiscoveryInv, TypeOK, Seen, Snapshot, Listing, SameUpTo, manager, history

LEMMA CountKeeps ==
    ASSUME DiscoveryInv, GetCount
    PROVE  DiscoveryInv'
<1>1. count' = Len(registered) /\ Len(registered) \in 0 .. MaxRegister
  <2>1. Len(registered) \in Nat /\ Len(registered) <= made /\ made \in 0 .. MaxRegister
    BY DEF DiscoveryInv, TypeOK
  <2>2. ~up => Len(registered) = 0
    BY DEF DiscoveryInv
  <2>3. count' = (IF up THEN Len(registered) ELSE 0)
    BY DEF GetCount
  <2>4. count' = Len(registered)
    <3>1. CASE up
      BY <2>3, <3>1
    <3>2. CASE ~up
      BY <2>2, <2>3, <3>2
    <3> QED BY <3>1, <3>2, Zenon
  <2> QED BY <2>1, <2>4, DiscoveryAssumption
<1>2. TypeOK'
  BY <1>1 DEF DiscoveryInv, TypeOK, GetCount, manager
<1>3. Snapshot'
  BY <1>1 DEF DiscoveryInv, TypeOK, GetCount, manager, Snapshot, Listing, SameUpTo
<1> QED BY <1>2, <1>3 DEF DiscoveryInv, GetCount, manager, Seen

\* The list is returned: with nothing gone it is the one that was counted.
LEMMA ListedKeeps ==
    ASSUME DiscoveryInv, pc = "query", Listed, left = {} => Len(infos) = count,
           UNCHANGED <<manager, op, target, count, infos, history>>
    PROVE  DiscoveryInv'
<1>1. pc' = "idle" /\ result' \in {"ok", "nothing"} \cup ErrorKinds
  BY Endings DEF Listed, End, ErrorKinds
<1>2. left = {} => infos = before
  BY DEF DiscoveryInv, TypeOK, Snapshot, SameUpTo
<1> QED
  BY <1>1, <1>2 DEF DiscoveryInv, TypeOK, Seen, Snapshot, Listing, manager, history

LEMMA EndLoopKeeps ==
    ASSUME DiscoveryInv, EndLoop
    PROVE  DiscoveryInv'
<1>1. Len(infos) = count
  BY DEF DiscoveryInv, TypeOK, EndLoop, More
<1> QED BY <1>1, ListedKeeps DEF EndLoop

LEMMA QueryKeeps ==
    ASSUME DiscoveryInv, Query
    PROVE  DiscoveryInv'
<1>1. /\ pc = "query" /\ Len(infos) < count
      /\ UNCHANGED <<manager, op, target, count, history>>
      /\ infos \in Seq(Names) /\ registered \in Seq(Names) /\ count \in Nat
  BY DEF DiscoveryInv, TypeOK, Query, More
<1>2. CASE /\ ~StaleIndex /\ infos' = Append(infos, InfoAt(Len(infos)))
           /\ UNCHANGED <<pc, result>>
  <2> DEFINE e == registered[Len(infos) + 1]
  <2>1. Len(infos) + 1 \in 1 .. Len(registered)
    BY <1>1, <1>2 DEF StaleIndex
  <2>2. infos' = Append(infos, e) /\ e \in Names /\ e \in ToSet(registered)
    <3>1. Len(infos) < Len(registered)
      BY <1>1, <2>1
    <3>2. InfoAt(Len(infos)) = e
      BY <3>1, Zenon DEF InfoAt
    <3>3. e \in Names /\ e \in ToSet(registered)
      BY <1>1, <2>1 DEF ToSet
    <3> QED BY <1>2, <3>2, <3>3
  <2>3. /\ infos' \in Seq(Names) /\ Len(infos') = Len(infos) + 1
        /\ \A i \in 1 .. Len(infos) : infos'[i] = infos[i]
        /\ infos'[Len(infos) + 1] = e /\ ToSet(infos') \subseteq ToSet(infos) \cup {e}
    BY <1>1, <2>2, AppendFacts
  <2>4. TypeOK'
    BY <1>1, <1>2, <2>3 DEF DiscoveryInv, TypeOK, manager, history
  <2>5. Seen'
    BY <1>1, <1>2, <2>2, <2>3 DEF DiscoveryInv, Seen, manager, history
  <2>6. Snapshot'
    <3> SUFFICES ASSUME left = {}
                 PROVE  SameUpTo(Len(infos'), infos', before)
      BY <1>1, <1>2 DEF DiscoveryInv, Snapshot, Listing, SameUpTo, manager, history
    <3>1. e = before[Len(infos) + 1]
      BY <1>1, <2>1 DEF DiscoveryInv, Snapshot, SameUpTo
    <3> QED BY <1>1, <2>3, <3>1 DEF DiscoveryInv, Snapshot, SameUpTo
  <2> QED BY <1>1, <1>2, <2>4, <2>5, <2>6 DEF DiscoveryInv, manager
<1>3. CASE StaleIndex /\ AtStaleIndex /\ UNCHANGED infos
  <2>1. left = {} => FALSE
    BY <1>1, <1>3 DEF StaleIndex, DiscoveryInv, Snapshot
  <2> QED BY <1>1, <1>3, <2>1, ListedKeeps DEF AtStaleIndex
<1>4. ASSUME NEW code, Throw(Classify(code)), UNCHANGED infos
      PROVE  DiscoveryInv'
  <2>1. pc' = "idle" /\ result' \in {"nothing"} \cup ErrorKinds
    BY <1>4, ClassifyType, Endings
  <2>2. ~Listing'
    BY <2>1 DEF Listing, ErrorKinds
  <2> QED
    BY <1>1, <1>4, <2>1, <2>2 DEF DiscoveryInv, TypeOK, Seen, Snapshot, manager, history
<1> QED BY <1>2, <1>3, <1>4 DEF Query

-----------------------------------------------------------------------------

LEMMA RegisterKeeps ==
    ASSUME DiscoveryInv, NEW name \in Names, Register(name)
    PROVE  DiscoveryInv'
<1>1. registered \in Seq(Names) /\ registered' = Append(registered, name)
  BY DEF DiscoveryInv, TypeOK, Register
<1>2. /\ registered' \in Seq(Names) /\ Len(registered') = Len(registered) + 1
      /\ \A i \in 1 .. Len(registered) : registered'[i] = registered[i]
      /\ ToSet(registered') \subseteq ToSet(registered) \cup {name}
  BY <1>1, AppendFacts
<1>3. TypeOK'
  <2>1. made' \in 0 .. MaxRegister /\ ever' \in SUBSET Names
    BY DiscoveryAssumption DEF DiscoveryInv, TypeOK, Register, During
  <2> QED BY <1>2, <2>1 DEF DiscoveryInv, TypeOK, Register, call
<1>4. Seen'
  BY <1>2 DEF DiscoveryInv, Seen, Register, During, call
<1>5. Snapshot'
  BY <1>2 DEF DiscoveryInv, TypeOK, Snapshot, SameUpTo, Listing, Register, call
<1>6. Len(registered') <= made' /\ up'
  BY <1>1, <1>2 DEF DiscoveryInv, TypeOK, Register
<1> QED BY <1>3, <1>4, <1>5, <1>6 DEF DiscoveryInv, Register, call

\* What leaves during an operation is remembered, so Snapshot promises nothing.
LEMMA UnregisterKeeps ==
    ASSUME DiscoveryInv, NEW i \in DOMAIN registered, Unregister(i)
    PROVE  DiscoveryInv'
<1>1. registered \in Seq(Names) /\ registered' = RemoveAt(registered, i)
  BY DEF DiscoveryInv, TypeOK, Unregister
<1>2. /\ registered' \in Seq(Names) /\ Len(registered') = Len(registered) - 1
      /\ ToSet(registered') \subseteq ToSet(registered)
  BY <1>1, RemoveAtFacts
<1>3. registered[i] \in Names /\ up
  BY <1>1 DEF DiscoveryInv
<1>4. TypeOK'
  BY <1>2, <1>3 DEF DiscoveryInv, TypeOK, Unregister, During, call
<1>5. Seen'
  BY <1>2 DEF DiscoveryInv, Seen, Unregister, call
<1>6. Snapshot'
  BY DEF DiscoveryInv, Snapshot, Listing, Unregister, During, call
<1>7. Len(registered') <= made' /\ UNCHANGED <<up, pc, op, infos>>
  BY <1>1, <1>2 DEF DiscoveryInv, TypeOK, Unregister, call
<1> QED BY <1>3, <1>4, <1>5, <1>6, <1>7 DEF DiscoveryInv

LEMMA StopKeeps ==
    ASSUME DiscoveryInv, Stop
    PROVE  DiscoveryInv'
<1>1. registered' = <<>> /\ ToSet(registered) \subseteq Names /\ registered \in Seq(Names)
  BY DEF DiscoveryInv, TypeOK, Stop, ToSet
<1>2. TypeOK'
  <2>1. registered' \in Seq(Names) /\ up' \in BOOLEAN /\ left' \in SUBSET Names
    <3>1. up' \in BOOLEAN
      BY Zenon DEF Stop
    <3> QED BY <1>1, <3>1 DEF DiscoveryInv, TypeOK, Stop, During
  <2> QED BY <2>1 DEF DiscoveryInv, TypeOK, Stop, call
<1>3. Seen'
  BY <1>1, NoEntries DEF DiscoveryInv, Seen, Stop, call
<1>4. Snapshot'
  <2>1. CASE registered = <<>>
    BY <1>1, <2>1 DEF DiscoveryInv, Snapshot, SameUpTo, Listing, Stop, During, call
  <2>2. CASE registered # <<>>
    <3>1. ToSet(registered) # {}
      BY <1>1, <2>2 DEF ToSet
    <3> QED BY <3>1 DEF DiscoveryInv, Snapshot, Listing, Stop, During, call
  <2> QED BY <2>1, <2>2
<1> QED BY <1>1, <1>2, <1>3, <1>4 DEF DiscoveryInv, TypeOK, Stop, call

LEMMA StepKeeps == DiscoveryInv /\ [Next]_vars => DiscoveryInv'
<1> SUFFICES ASSUME DiscoveryInv, [Next]_vars PROVE DiscoveryInv'
  OBVIOUS
<1>1. CASE \E o \in Ops, name \in Names : Begin(o, name)
  BY <1>1, BeginKeeps
<1>2. CASE CreateInterface \/ GetCount \/ Query \/ EndLoop
  BY <1>2, CreateKeeps, CountKeeps, QueryKeeps, EndLoopKeeps
<1>3. CASE ControlPanel
  BY <1>3, RegisterKeeps, UnregisterKeeps, StopKeeps DEF ControlPanel
<1>4. CASE UNCHANGED vars
  BY <1>4
  DEF vars, manager, call, history, DiscoveryInv, TypeOK, Seen, Snapshot, SameUpTo, Listing
<1> QED BY <1>1, <1>2, <1>3, <1>4 DEF Next

\* Every reachable state satisfies the inductive invariant.
THEOREM DiscoveryInvariant == Spec => []DiscoveryInv
BY InitDiscovery, StepKeeps, PTL DEF Spec

\* The types, with the bound on the loop.
THEOREM DiscoveryTypeCorrect == Spec => []TypeOK
<1>1. DiscoveryInv => TypeOK
  BY DEF DiscoveryInv
<1> QED BY <1>1, DiscoveryInvariant, PTL

\* registeredInstances() returns no entry that was not registered while it ran,
\* however the list changes between its SDK calls.
THEOREM ListsNoGhosts == Spec => []NoGhosts
<1>1. DiscoveryInv => NoGhosts
  BY DEF DiscoveryInv, Seen, NoGhosts
<1> QED BY <1>1, DiscoveryInvariant, PTL

\* With nothing unregistered meanwhile, its loop of single queries returns what
\* one query at the moment of the count would have returned.
THEOREM ListsTheSnapshot == Spec => []SnapshotWhileNothingLeaves
<1>1. DiscoveryInv => SnapshotWhileNothingLeaves
  BY DEF DiscoveryInv, Snapshot, SnapshotWhileNothingLeaves
<1> QED BY <1>1, DiscoveryInvariant, PTL

-----------------------------------------------------------------------------

\* The codes and kinds of the queries that a caller may wait out.
LEMMA Waitable ==
    /\ IsRetryable(Classify("SREC_CONNECTION_ERROR"))
    /\ IsRetryable("InstanceNotFound")
    /\ Classify("SREC_CONNECTION_ERROR") \in ErrorKinds
    /\ "InstanceNotFound" \in ErrorKinds
<1>1. Classify("SREC_CONNECTION_ERROR") = "RuntimeManagerUnavailable"
  BY DEF Classify, KindTable
<1> QED BY <1>1 DEF IsRetryable, ErrorKinds

\* With an SDK whose own failures are retryable, the only error a caller has to
\* take as its own is a name that CreateInterface() refuses.
THEOREM OnlyBadNamesFail ==
    ASSUME \A code \in SdkFaults : IsRetryable(Classify(code))
    PROVE  Spec => []OnlyBadNamesAreFatal
<1>1. Init => OnlyBadNamesAreFatal
  BY DEF Init, OnlyBadNamesAreFatal, ErrorKinds
<1>2. ASSUME NEW kind, IsRetryable(kind), Throw(kind) PROVE OnlyBadNamesAreFatal'
  BY <1>2 DEF Throw, End, OnlyBadNamesAreFatal, ErrorKinds
<1>3. ASSUME NEW code \in Failures, Throw(Classify(code)) PROVE OnlyBadNamesAreFatal'
  <2>1. IsRetryable(Classify(code))
    BY <1>3, Waitable DEF Failures
  <2> QED BY <1>2, <1>3, <2>1
<1>4. ASSUME Listed PROVE OnlyBadNamesAreFatal'
  <2>1. CASE End("ok")
    BY <2>1 DEF End, OnlyBadNamesAreFatal, ErrorKinds
  <2>2. CASE Throw("InstanceNotFound")
    BY <2>2, <1>2, Waitable
  <2> QED BY <1>4, <2>1, <2>2 DEF Listed
<1>5. DiscoveryInv /\ OnlyBadNamesAreFatal /\ [Next]_vars => OnlyBadNamesAreFatal'
  <2> SUFFICES ASSUME DiscoveryInv, OnlyBadNamesAreFatal, [Next]_vars
               PROVE  OnlyBadNamesAreFatal'
    OBVIOUS
  <2>1. CASE \E o \in Ops, name \in Names : Begin(o, name)
    BY <2>1 DEF Begin, OnlyBadNamesAreFatal, ErrorKinds
  <2>2. CASE CreateInterface
    <3>1. CASE End("ok")
      BY <3>1 DEF End, OnlyBadNamesAreFatal, ErrorKinds
    <3>2. CASE UNCHANGED result /\ UNCHANGED <<op, target>>
      BY <3>2 DEF OnlyBadNamesAreFatal
    <3>3. CASE target \in BadNames
      BY <2>2, <3>3 DEF CreateInterface, DiscoveryInv, OnlyBadNamesAreFatal
    <3> QED BY <1>3, <2>2, <3>1, <3>2, <3>3 DEF CreateInterface
  <2>3. CASE GetCount
    BY <2>3 DEF GetCount, OnlyBadNamesAreFatal
  <2>4. CASE Query
    <3>1. CASE UNCHANGED <<result, op, target>>
      BY <3>1 DEF OnlyBadNamesAreFatal
    <3> QED BY <1>3, <1>4, <2>4, <3>1 DEF Query, AtStaleIndex
  <2>5. CASE EndLoop
    BY <1>4, <2>5 DEF EndLoop
  <2>6. CASE ControlPanel
    BY <2>6 DEF ControlPanel, Stop, Register, Unregister, call, OnlyBadNamesAreFatal
  <2>7. CASE UNCHANGED vars
    BY <2>7 DEF vars, call, OnlyBadNamesAreFatal
  <2> QED BY <2>1, <2>2, <2>3, <2>4, <2>5, <2>6, <2>7 DEF Next
<1> QED BY <1>1, <1>5, DiscoveryInvariant, PTL DEF Spec

-----------------------------------------------------------------------------

\* main() is one program among those Discovery allows.
MainPlace ==
    /\ place \in {"off", "list"} => rows = <<>> /\ lines = <<>>
    /\ place \in {"attach", "details"} => Len(lines) < Len(rows)
    /\ place = "exit" => rows = <<>> \/ (status = "success" /\ Len(lines) = Len(rows))
    /\ place \in {"off", "list", "attach", "details", "exit"}
    /\ lines \in Seq({"sizes", "inactive", "unavailable"})
    /\ rows \in Seq(Names)

LEMMA MainStepIsStep == DiscoveryInv /\ MainPlace /\ MainNext => [Next]_vars
<1> SUFFICES ASSUME DiscoveryInv, MainPlace, MainNext PROVE [Next]_vars
  OBVIOUS
<1>1. "list" \in Ops /\ "attach" \in Ops /\ target \in Names
  BY DEF Ops, DiscoveryInv, TypeOK
<1>2. ASSUME NEW line, PrintLine(line), place \in {"attach", "details"}
      PROVE  [Next]_vars
  <2>1. CASE /\ Len(lines') < Len(rows)
             /\ Begin("attach", rows[Len(lines') + 1])
    <3>1. rows[Len(lines') + 1] \in Names
      BY <1>2, <2>1 DEF MainPlace, PrintLine
    <3> QED BY <1>1, <2>1, <3>1 DEF Next
  <2>2. CASE UNCHANGED <<manager, call, history>>
    BY <2>2 DEF vars
  <2> QED BY <1>2, <2>1, <2>2 DEF PrintLine
<1>3. CASE Start
  BY <1>1, <1>3 DEF Start, Next, vars
<1>4. CASE ListReturns
  <2>1. CASE infos # <<>> /\ Begin("attach", Head(infos))
    <3>1. Head(infos) \in Names
      BY <2>1 DEF DiscoveryInv, TypeOK
    <3> QED BY <1>1, <2>1, <3>1 DEF Next
  <2> QED BY <1>4, <2>1 DEF ListReturns, vars
<1>5. CASE AttachReturns
  BY <1>2, <1>5 DEF AttachReturns, Except, vars
<1>6. CASE Details
  BY <1>2, <1>6 DEF Details, Except
<1> QED BY <1>3, <1>4, <1>5, <1>6 DEF MainNext, Next

LEMMA MainPlaceKeeps == DiscoveryInv /\ MainPlace /\ [MainNext]_<<vars, main>> => MainPlace'
<1> SUFFICES ASSUME DiscoveryInv, MainPlace, [MainNext]_<<vars, main>> PROVE MainPlace'
  OBVIOUS
<1> DEFINE Lines == {"sizes", "inactive", "unavailable"}
<1>1. ASSUME NEW line \in Lines, PrintLine(line), place \in {"attach", "details"},
             UNCHANGED rows
      PROVE  MainPlace'
  <2>1. lines' \in Seq(Lines) /\ Len(lines') = Len(lines) + 1
    BY <1>1 DEF PrintLine, MainPlace
  <2> QED BY <1>1, <2>1 DEF PrintLine, Exit, MainPlace
<1>2. CASE Start
  BY <1>2 DEF Start, Exit, MainPlace
<1>3. CASE ListReturns
  <2>1. infos \in Seq(Names)
    BY DEF DiscoveryInv, TypeOK
  <2>2. rows = <<>> /\ lines = <<>> /\ Len(lines) = 0 /\ (infos # <<>> => Len(infos) > 0)
    BY <1>3, <2>1 DEF ListReturns, MainPlace
  <2> QED BY <1>3, <2>1, <2>2 DEF ListReturns, Exit, MainPlace
<1>4. CASE AttachReturns
  <2>1. CASE Except(result)
    BY <1>1, <1>4, <2>1 DEF AttachReturns, Except
  <2> QED BY <1>4, <2>1 DEF AttachReturns, MainPlace
<1>5. CASE Details
  BY <1>1, <1>5 DEF Details, Except
<1>6. CASE UNCHANGED main
  BY <1>6 DEF main, MainPlace
<1> QED BY <1>2, <1>3, <1>4, <1>5, <1>6 DEF MainNext, main

\* Every behaviour of the program is one of Discovery, so what is proved above
\* holds of it too; it prints a line for every instance it has listed, whatever
\* becomes of the instances and the Runtime Manager.
THEOREM EveryInstanceHasItsLine == MainSpec => Spec /\ []VanishingCostsALine
<1>1. MainInit => Init /\ DiscoveryInv /\ MainPlace
  BY InitDiscovery DEF MainInit, MainPlace
<1>2. DiscoveryInv /\ MainPlace /\ [MainNext]_<<vars, main>>
        => [Next]_vars /\ DiscoveryInv' /\ MainPlace'
  <2>1. UNCHANGED <<vars, main>> => UNCHANGED vars
    OBVIOUS
  <2> QED BY <2>1, MainStepIsStep, MainPlaceKeeps, StepKeeps
<1>3. MainPlace => VanishingCostsALine
  BY DEF MainPlace, VanishingCostsALine
<1> QED BY <1>1, <1>2, <1>3, PTL DEF MainSpec, Spec

-----------------------------------------------------------------------------
(* That an operation, and the program, end. *)

\* SDK calls to the end of the operation, at most.
CallsLeft ==
    IF pc = "create" THEN MaxRegister + 3
    ELSE IF pc = "count" THEN MaxRegister + 2
    ELSE IF pc = "query" THEN count - Len(infos) + 1
    ELSE 0

\* Whatever the operation does brings it nearer to its end.
CallsRunDown == [][(pc # "idle" => CallsLeft' < CallsLeft \/ UNCHANGED call)]_vars

LEMMA CallsLeftBounds == DiscoveryInv => CallsLeft \in 0 .. MaxRegister + 3
BY DiscoveryAssumption DEF DiscoveryInv, TypeOK, CallsLeft

LEMMA CallLeadsOn ==
    ASSUME DiscoveryInv, [Next]_vars, pc # "idle"
    PROVE  CallsLeft' < CallsLeft \/ UNCHANGED call
<1> USE DiscoveryAssumption
<1>1. /\ count \in 0 .. MaxRegister /\ infos \in Seq(Names) /\ Len(infos) <= count
      /\ Len(infos) \in Nat
  BY DEF DiscoveryInv, TypeOK
<1>2. CASE CreateInterface
  BY <1>1, <1>2 DEF CreateInterface, End, Throw, CallsLeft
<1>3. CASE GetCount
  <2>1. count' \in 0 .. MaxRegister /\ infos' = infos /\ infos = <<>>
    BY <1>3, CountKeeps DEF GetCount, DiscoveryInv, TypeOK
  <2> QED BY <1>3, <2>1 DEF GetCount, CallsLeft
<1>4. CASE Query
  <2>1. CASE infos' = Append(infos, InfoAt(Len(infos))) /\ UNCHANGED <<pc, count>>
    <3>1. Len(infos') = Len(infos) + 1
      BY <1>1, <2>1
    <3> QED BY <1>1, <1>4, <2>1, <3>1 DEF Query, CallsLeft
  <2>2. CASE pc' = "idle"
    BY <1>1, <1>4, <2>2 DEF Query, CallsLeft
  <2> QED BY <1>4, <2>1, <2>2 DEF Query, AtStaleIndex, Listed, End, Throw
<1>5. CASE EndLoop
  BY <1>1, <1>5 DEF EndLoop, Listed, End, Throw, CallsLeft
<1>6. CASE ControlPanel \/ UNCHANGED vars
  BY <1>6 DEF ControlPanel, Stop, Register, Unregister, vars
<1> QED BY <1>2, <1>3, <1>4, <1>5, <1>6 DEF Next, Begin

\* registeredInstances(), attach() and tryAttach() make at most as many SDK calls as
\* the list was long when it was counted, and three more: registering and unregistering
\* in the middle of the loop never makes it longer.
THEOREM QueriesAreFinite == Spec => [](CallsLeft \in 0 .. MaxRegister + 3) /\ CallsRunDown
<1>1. DiscoveryInv /\ [Next]_vars
        => [(pc # "idle" => CallsLeft' < CallsLeft \/ UNCHANGED call)]_vars
  BY CallLeadsOn
<1> QED BY <1>1, CallsLeftBounds, DiscoveryInvariant, PTL DEF Spec, CallsRunDown

\* Lines the program has to print, at most, and what is left of the present one.
RowsLeft == IF place = "list" THEN MaxRegister + 1 ELSE Len(rows) - Len(lines)

LineLeft == CallsLeft + (IF place = "attach" THEN 1 ELSE 0)

Working == place \in {"list", "attach", "details"}

Advances ==
    \/ place' = "exit"
    \/ RowsLeft' < RowsLeft
    \/ RowsLeft' = RowsLeft /\ LineLeft' < LineLeft

\* Whatever main() does brings it nearer to its exit: a line the fewer, or the same
\* line and a call the fewer.
MainRunsDown == [][(Working => Advances \/ UNCHANGED <<call, main>>)]_<<vars, main>>

MainBounds ==
    Working => RowsLeft \in 1 .. MaxRegister + 1 /\ LineLeft \in 0 .. MaxRegister + 4

RowsBounded == Len(rows) <= MaxRegister

LEMMA RowsStayBounded ==
    DiscoveryInv /\ RowsBounded /\ [MainNext]_<<vars, main>> => RowsBounded'
<1> SUFFICES ASSUME DiscoveryInv, RowsBounded, [MainNext]_<<vars, main>> PROVE RowsBounded'
  OBVIOUS
<1>1. Len(infos) \in Nat /\ Len(infos) <= MaxRegister
  BY DiscoveryAssumption DEF DiscoveryInv, TypeOK
<1>2. rows' = rows \/ rows' = infos
  BY DEF MainNext, Start, ListReturns, AttachReturns, Details, main
<1> QED BY <1>1, <1>2 DEF RowsBounded

LEMMA MainWithinBounds == DiscoveryInv /\ MainPlace /\ RowsBounded => MainBounds
<1> SUFFICES ASSUME DiscoveryInv, MainPlace, RowsBounded, Working PROVE MainBounds
  BY DEF MainBounds
<1>1. Len(rows) \in Nat /\ Len(lines) \in Nat /\ MaxRegister \in Nat
  BY DiscoveryAssumption DEF MainPlace
<1>2. RowsLeft \in 1 .. MaxRegister + 1
  BY <1>1 DEF Working, MainPlace, RowsBounded, RowsLeft
<1> QED BY <1>1, <1>2, CallsLeftBounds DEF MainBounds, LineLeft

LEMMA MainLeadsOn ==
    ASSUME DiscoveryInv, MainPlace, RowsBounded, [MainNext]_<<vars, main>>, Working
    PROVE  Advances \/ UNCHANGED <<call, main>>
<1>1. Len(rows) \in Nat /\ Len(lines) \in Nat /\ MaxRegister \in Nat
  BY DiscoveryAssumption DEF MainPlace
<1>2. ASSUME NEW line, PrintLine(line), place \in {"attach", "details"}, UNCHANGED rows
      PROVE  Advances
  <2>1. Len(lines') = Len(lines) + 1
    BY <1>2 DEF PrintLine, MainPlace
  <2>2. CASE place' = "attach"
    BY <1>1, <1>2, <2>1, <2>2 DEF Advances, RowsLeft
  <2>3. CASE Exit("success")
    BY <2>3 DEF Advances, Exit
  <2> QED BY <1>2, <2>2, <2>3 DEF PrintLine
<1>3. CASE ListReturns
  <2>1. CASE rows' = infos /\ place' = "attach" /\ lines' = lines
    <3>1. lines = <<>> /\ Len(infos) \in Nat /\ Len(infos) <= MaxRegister
      BY <1>3, DiscoveryAssumption DEF ListReturns, MainPlace, DiscoveryInv, TypeOK
    <3> QED BY <1>1, <1>3, <2>1, <3>1 DEF ListReturns, Advances, RowsLeft
  <2>2. CASE place' = "exit"
    BY <2>2 DEF Advances
  <2> QED BY <1>3, <2>1, <2>2 DEF ListReturns, Exit
<1>4. CASE AttachReturns
  <2>1. CASE place' = "details" /\ UNCHANGED <<call, rows, lines>>
    <3>1. RowsLeft' = RowsLeft
      BY <1>4, <2>1 DEF AttachReturns, RowsLeft
    <3>2. CallsLeft = 0 /\ CallsLeft' = 0
      BY <1>4, <2>1 DEF AttachReturns, CallsLeft, call
    <3> QED BY <1>4, <2>1, <3>1, <3>2 DEF AttachReturns, Advances, LineLeft
  <2>2. CASE Except(result)
    BY <1>2, <1>4, <2>2 DEF AttachReturns, Except
  <2> QED BY <1>4, <2>1, <2>2 DEF AttachReturns
<1>5. CASE Details
  BY <1>2, <1>5 DEF Details, Except
<1>6. CASE /\ CreateInterface \/ GetCount \/ Query \/ EndLoop \/ ControlPanel \/ UNCHANGED vars
           /\ UNCHANGED main
  <2>1. [Next]_vars
    BY <1>6 DEF Next
  <2>2. CASE pc = "idle"
    <3>1. UNCHANGED call
      BY <1>6, <2>2
      DEF CreateInterface, GetCount, Query, EndLoop, ControlPanel, Stop, Register, Unregister,
          vars
    <3> QED BY <1>6, <3>1 DEF main
  <2>3. CASE pc # "idle" /\ CallsLeft' < CallsLeft
    <3>1. DiscoveryInv'
      BY <2>1, StepKeeps
    <3>2. PICK a \in Nat : CallsLeft = a
      BY <1>1, CallsLeftBounds
    <3>3. PICK b \in Nat : CallsLeft' = b
      <4>1. CallsLeft' \in Nat
        BY <1>1, <3>1 DEF CallsLeft, DiscoveryInv, TypeOK
      <4> QED BY <4>1, Zenon
    <3>4. RowsLeft' = RowsLeft /\ place' = place
      BY <1>6 DEF RowsLeft, main
    <3>5. LineLeft' < LineLeft
      BY <2>3, <3>2, <3>3, <3>4 DEF LineLeft
    <3> QED BY <3>4, <3>5 DEF Advances
  <2>4. CASE UNCHANGED call
    BY <1>6, <2>4 DEF main
  <2> QED BY <2>1, <2>2, <2>3, <2>4, CallLeadsOn
<1> QED
  BY <1>3, <1>4, <1>5, <1>6 DEF MainNext, Start, Working

\* Once it has started, main() reaches its exit after a bounded number of calls and
\* lines, however the instances come and go meanwhile.
THEOREM TheListingIsFinite == MainSpec => []MainBounds /\ MainRunsDown
<1>1. MainInit => DiscoveryInv /\ MainPlace /\ RowsBounded
  BY InitDiscovery, DiscoveryAssumption DEF MainInit, MainPlace, RowsBounded
<1>2. DiscoveryInv /\ MainPlace /\ RowsBounded /\ [MainNext]_<<vars, main>>
        => DiscoveryInv' /\ MainPlace' /\ RowsBounded'
  <2>1. UNCHANGED <<vars, main>> => UNCHANGED vars
    OBVIOUS
  <2> QED BY <2>1, MainStepIsStep, MainPlaceKeeps, RowsStayBounded, StepKeeps
<1>3. DiscoveryInv /\ MainPlace /\ RowsBounded /\ [MainNext]_<<vars, main>>
        => [(Working => Advances \/ UNCHANGED <<call, main>>)]_<<vars, main>>
  BY MainLeadsOn
<1> QED BY <1>1, <1>2, <1>3, MainWithinBounds, PTL DEF MainSpec, MainRunsDown

=============================================================================
