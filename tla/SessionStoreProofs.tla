------------------------- MODULE SessionStoreProofs -------------------------
(***************************************************************************)
(* Proofs about the session store, for every set of sessions, models and   *)
(* hashes and every time to live.                                          *)
(*                                                                         *)
(* The code decides escalation by counting one hash in the list it has     *)
(* just extended.  The first part relates such counts to three equal       *)
(* entries of the list, which is what the rule means; the second part      *)
(* carries the flag, the list and the lease through every operation.       *)
(***************************************************************************)
EXTENDS SessionStoreSpec, SequenceTheorems, FiniteSetTheorems, TLAPS

(* The positions of h in s. *)
Positions(s, h) == {i \in DOMAIN s : s[i] = h}

LEMMA PositionsFinite ==
    ASSUME NEW S, NEW s \in Seq(S), NEW h
    PROVE  /\ IsFiniteSet(Positions(s, h))
           /\ Occurrences(s, h) = Cardinality(Positions(s, h))
           /\ Occurrences(s, h) \in Nat
<1>1. IsFiniteSet(1 .. Len(s))
  BY FS_Interval
<1>2. Positions(s, h) \in SUBSET (1 .. Len(s))
  BY DEF Positions
<1>3. IsFiniteSet(Positions(s, h))
  BY <1>1, <1>2, FS_Subset
<1> QED
  BY <1>3, FS_CardinalityType DEF Occurrences, Positions

(* Three or more positions are three positions in a row of order. *)
LEMMA ThreePositions ==
    ASSUME NEW P \in SUBSET Int, IsFiniteSet(P)
    PROVE  Cardinality(P) >= 3 <=> \E i, j, k \in P : i < j /\ j < k
<1>1. ASSUME NEW i \in P, NEW j \in P, NEW k \in P, i < j, j < k
      PROVE  Cardinality(P) >= 3
  <2>1. IsFiniteSet({i}) /\ Cardinality({i}) = 1
    BY FS_Singleton
  <2>2. IsFiniteSet({i} \cup {j}) /\ Cardinality({i} \cup {j}) = 2
    <3>1. j \notin {i} /\ i \in Int /\ j \in Int
      BY <1>1
    <3>2. /\ IsFiniteSet({i} \cup {j})
          /\ Cardinality({i} \cup {j}) = Cardinality({i}) + 1
      BY <2>1, <3>1, FS_AddElement
    <3> QED
      BY <2>1, <3>2
  <2>3. Cardinality(({i} \cup {j}) \cup {k}) = 3
    <3>1. k \notin {i} \cup {j}
      BY <1>1
    <3> QED
      BY <2>2, <3>1, FS_AddElement
  <2>4. ({i} \cup {j}) \cup {k} \in SUBSET P
    OBVIOUS
  <2>5. Cardinality(P) \in Nat /\ Cardinality(({i} \cup {j}) \cup {k}) <= Cardinality(P)
    BY <2>4, FS_Subset, FS_CardinalityType
  <2> QED
    BY <2>3, <2>5
<1>2. ASSUME Cardinality(P) >= 3
      PROVE  \E i, j, k \in P : i < j /\ j < k
  <2>0. Cardinality(P) \in Nat
    BY FS_CardinalityType
  <2>1. PICK a : a \in P
    BY <1>2, FS_EmptySet
  <2>2. IsFiniteSet(P \ {a}) /\ Cardinality(P \ {a}) = Cardinality(P) - 1
    BY <2>1, FS_RemoveElement
  <2>3. PICK b : b \in P \ {a}
    BY <1>2, <2>0, <2>2, FS_EmptySet
  <2>4. /\ IsFiniteSet((P \ {a}) \ {b})
        /\ Cardinality((P \ {a}) \ {b}) = Cardinality(P \ {a}) - 1
    BY <2>2, <2>3, FS_RemoveElement
  <2>5. PICK c : c \in (P \ {a}) \ {b}
    BY <1>2, <2>0, <2>2, <2>4, FS_EmptySet
  <2>6. /\ a \in Int /\ b \in Int /\ c \in Int
        /\ a # b /\ a # c /\ b # c
        /\ a \in P /\ b \in P /\ c \in P
    BY <2>1, <2>3, <2>5
  <2> QED
    BY <2>6
<1> QED
  BY <1>1, <1>2

LEMMA ThreeOccurrences ==
    ASSUME NEW S, NEW s \in Seq(S), NEW h
    PROVE  Occurrences(s, h) >= 3 <=> \E i, j, k \in Positions(s, h) : i < j /\ j < k
<1>1. IsFiniteSet(Positions(s, h)) /\ Occurrences(s, h) = Cardinality(Positions(s, h))
  BY PositionsFinite
<1>2. Positions(s, h) \in SUBSET Int
  BY DEF Positions
<1> QED
  BY <1>1, <1>2, ThreePositions

(* Three equal entries are three occurrences of some element. *)
LEMMA ThreeAlikeCounts ==
    ASSUME NEW S, NEW s \in Seq(S)
    PROVE  ThreeAlike(s) <=> \E h \in S : Occurrences(s, h) >= 3
<1>1. ASSUME ThreeAlike(s)
      PROVE  \E h \in S : Occurrences(s, h) >= 3
  <2>1. PICK i \in DOMAIN s, j \in DOMAIN s, k \in DOMAIN s :
           i < j /\ j < k /\ s[i] = s[j] /\ s[j] = s[k]
    BY <1>1 DEF ThreeAlike
  <2>2. s[i] \in S /\ {i, j, k} \in SUBSET Positions(s, s[i])
    BY <2>1 DEF Positions
  <2> QED
    BY <2>1, <2>2, ThreeOccurrences
<1>2. ASSUME NEW h \in S, Occurrences(s, h) >= 3
      PROVE  ThreeAlike(s)
  <2>1. PICK i \in Positions(s, h), j \in Positions(s, h), k \in Positions(s, h) :
           i < j /\ j < k
    BY <1>2, ThreeOccurrences
  <2> QED
    BY <2>1 DEF Positions, ThreeAlike
<1> QED
  BY <1>1, <1>2

(* Appending adds one occurrence of what is appended and of nothing else. *)
LEMMA AppendCounts ==
    ASSUME NEW S, NEW s \in Seq(S), NEW h \in S, NEW x
    PROVE  /\ Append(s, h) \in Seq(S)
           /\ Occurrences(Append(s, h), x) =
                IF x = h THEN Occurrences(s, x) + 1 ELSE Occurrences(s, x)
<1>1. PICK t : t = Append(s, h)
  OBVIOUS
<1>2. /\ t \in Seq(S)
      /\ Len(t) = Len(s) + 1
      /\ \A i \in 1 .. Len(s) : t[i] = s[i]
      /\ t[Len(s) + 1] = h
  BY <1>1, AppendProperties
<1>3. IsFiniteSet(Positions(s, x)) /\ Occurrences(s, x) = Cardinality(Positions(s, x))
  BY PositionsFinite
<1>4. Occurrences(t, x) = Cardinality(Positions(t, x))
  BY <1>2, PositionsFinite
<1>5. CASE x = h
  <2>1. Positions(t, x) = Positions(s, x) \cup {Len(s) + 1}
    BY <1>2, <1>5 DEF Positions
  <2>2. Len(s) + 1 \notin Positions(s, x)
    BY DEF Positions
  <2> QED
    BY <1>1, <1>2, <1>3, <1>4, <1>5, <2>1, <2>2, FS_AddElement
<1>6. CASE x # h
  <2>1. Positions(t, x) = Positions(s, x)
    BY <1>2, <1>6 DEF Positions
  <2> QED
    BY <1>1, <1>2, <1>3, <1>4, <1>6, <2>1
<1> QED
  BY <1>5, <1>6

(* The flag RecordRequest computes is the three-strike rule. *)
LEMMA AppendStrikes ==
    ASSUME NEW S, NEW s \in Seq(S), NEW h \in S
    PROVE  ThreeAlike(Append(s, h)) <=>
             ThreeAlike(s) \/ Occurrences(Append(s, h), h) >= 3
<1>1. Append(s, h) \in Seq(S)
  BY AppendCounts
<1>2. \A x \in S : Occurrences(s, x) \in Nat
  BY PositionsFinite
<1>3. \A x \in S :
         Occurrences(Append(s, h), x) =
            IF x = h THEN Occurrences(s, x) + 1 ELSE Occurrences(s, x)
  BY AppendCounts
<1>4. ThreeAlike(s) <=> \E x \in S : Occurrences(s, x) >= 3
  BY ThreeAlikeCounts
<1>5. ThreeAlike(Append(s, h)) <=> \E x \in S : Occurrences(Append(s, h), x) >= 3
  BY <1>1, ThreeAlikeCounts
<1> QED
  BY <1>2, <1>3, <1>4, <1>5

-----------------------------------------------------------------------------

IInv == TypeOK /\ EscalatedByThreeStrikes

LEMMA FreshIsSession ==
    ASSUME NEW m \in Models
    PROVE  /\ FreshSession(m) \in Session
           /\ FreshSession(m) # NoSession
           /\ ~ ThreeAlike(FreshSession(m).recentHashes)
<1>1. <<>> \in Seq(Hashes)
  BY EmptySeq
<1>2. FreshSession(m) \in Session
  BY <1>1, SessionAssumption DEF FreshSession, Session
<1>3. ~ ThreeAlike(FreshSession(m).recentHashes)
  BY DEF FreshSession, ThreeAlike
<1> QED
  BY <1>2, <1>3, SessionAssumption

(* What RecordRequest makes of a stored session. *)
Recorded(e, h) ==
    [e EXCEPT !.recentHashes = Append(@, h),
              !.escalated = @ \/ Occurrences(Append(e.recentHashes, h), h) >= 3]

LEMMA RecordedIsSession ==
    ASSUME NEW e \in Session, NEW h \in Hashes,
           e.escalated <=> ThreeAlike(e.recentHashes)
    PROVE  /\ Recorded(e, h) \in Session
           /\ Recorded(e, h) # NoSession
           /\ Recorded(e, h).model = e.model
           /\ Recorded(e, h).age = e.age
           /\ Recorded(e, h).recentHashes = Append(e.recentHashes, h)
           /\ e.escalated => Recorded(e, h).escalated
           /\ Recorded(e, h).escalated <=> ThreeAlike(Recorded(e, h).recentHashes)
<1>1. e.recentHashes \in Seq(Hashes) /\ e.escalated \in BOOLEAN
  BY DEF Session
<1>2. Append(e.recentHashes, h) \in Seq(Hashes)
  BY <1>1, AppendProperties
<1>3. PICK b \in BOOLEAN :
         b = (e.escalated \/ Occurrences(Append(e.recentHashes, h), h) >= 3)
  OBVIOUS
<1>4. Recorded(e, h) =
         [e EXCEPT !.recentHashes = Append(e.recentHashes, h), !.escalated = b]
  BY <1>3 DEF Recorded
<1>5. /\ Recorded(e, h) \in Session
      /\ Recorded(e, h).model = e.model
      /\ Recorded(e, h).age = e.age
      /\ Recorded(e, h).recentHashes = Append(e.recentHashes, h)
      /\ Recorded(e, h).escalated = b
  BY <1>1, <1>2, <1>4 DEF Session
<1>6. b <=> ThreeAlike(Append(e.recentHashes, h))
  BY <1>1, <1>3, AppendStrikes
<1> QED
  BY <1>3, <1>5, <1>6, SessionAssumption

LEMMA RecordEffect ==
    ASSUME IInv, NEW id \in SessionIDs, NEW h \in Hashes, Stored(id),
           RecordRequest(id, h)
    PROVE  /\ sessions[id] \in Session
           /\ sessions' = [sessions EXCEPT ![id] = Recorded(sessions[id], h)]
<1>1. sessions[id] \in Session
  BY DEF IInv, TypeOK, Stored
<1> QED
  BY <1>1 DEF RecordRequest, Recorded, IInv, TypeOK, Session, Stored

(* A tick ages sessions and changes nothing else. *)
LEMMA TickEffect ==
    ASSUME IInv, SessionTick, NEW id \in SessionIDs
    PROVE  /\ ~ Stored(id) => sessions'[id] = NoSession
           /\ Stored(id) =>
                /\ sessions'[id] \in Session
                /\ sessions'[id] # NoSession
                /\ sessions'[id].model = sessions[id].model
                /\ sessions'[id].recentHashes = sessions[id].recentHashes
                /\ sessions'[id].escalated = sessions[id].escalated
                /\ sessions'[id].age = OlderSession(sessions[id].age)
                /\ sessions'[id].age >= sessions[id].age
<1>1. ~ Stored(id) => sessions'[id] = NoSession
  BY DEF SessionTick
<1>2. ASSUME Stored(id)
      PROVE  sessions'[id] = [sessions[id] EXCEPT !.age = OlderSession(sessions[id].age)]
  BY <1>2 DEF SessionTick
<1>3. \A a \in 0 .. SessionAgeBound :
         OlderSession(a) \in 0 .. SessionAgeBound /\ OlderSession(a) >= a
  BY SessionAssumption DEF OlderSession
<1>4. Stored(id) => sessions[id] \in Session
  BY DEF IInv, TypeOK, Stored
<1> QED
  BY <1>1, <1>2, <1>3, <1>4, SessionAssumption DEF Session

(* One operation, or none, whoever calls it. *)
Operation ==
    \/ \E id \in SessionIDs, m \in Models, info \in Info : GetOrCreate(id, m, info)
    \/ \E id \in SessionIDs, h \in Hashes : RecordRequest(id, h)
    \/ CleanupExpired
    \/ SessionTick
    \/ UNCHANGED sessions

(* Arbitrary callers do nothing but operations. *)
LEMMA NextIsOperation == [Next]_vars => Operation
  BY DEF Next, Lookup, Record, Cleanup, Tick, vars, Operation

LEMMA OperationKeeps ==
    ASSUME IInv, Operation
    PROVE  IInv'
<1> DEFINE Good(e) == e = NoSession \/
                      (e \in Session /\ (e.escalated <=> ThreeAlike(e.recentHashes)))
<1>1. \A id \in SessionIDs : Good(sessions[id])
  BY DEF IInv, TypeOK, EscalatedByThreeStrikes, Stored
<1>2. ASSUME sessions' = [id \in SessionIDs |-> sessions'[id]],
             \A id \in SessionIDs : Good(sessions'[id])
      PROVE  IInv'
  BY <1>2 DEF IInv, TypeOK, EscalatedByThreeStrikes, Stored
<1>3. sessions = [id \in SessionIDs |-> sessions[id]]
  BY DEF IInv, TypeOK
<1>4. ASSUME NEW id \in SessionIDs, NEW m \in Models, NEW info \in Info,
             GetOrCreate(id, m, info)
      PROVE  IInv'
  <2>1. Good(FreshSession(m))
    BY FreshIsSession DEF FreshSession
  <2> QED
    BY <1>1, <1>2, <1>3, <1>4, <2>1 DEF GetOrCreate
<1>5. ASSUME NEW id \in SessionIDs, NEW h \in Hashes, RecordRequest(id, h)
      PROVE  IInv'
  <2>1. CASE Stored(id)
    <3>1. Good(Recorded(sessions[id], h))
      BY <1>1, <2>1, RecordedIsSession DEF Stored
    <3>2. sessions' = [sessions EXCEPT ![id] = Recorded(sessions[id], h)]
      BY <1>5, <2>1, RecordEffect
    <3> QED
      BY <1>1, <1>2, <1>3, <3>1, <3>2
  <2>2. CASE ~ Stored(id)
    BY <1>1, <1>2, <1>3, <1>5, <2>2 DEF RecordRequest
  <2> QED
    BY <2>1, <2>2
<1>6. CASE CleanupExpired
  BY <1>1, <1>2, <1>6 DEF CleanupExpired
<1>7. CASE SessionTick
  <2>1. \A id \in SessionIDs : Good(sessions'[id])
    BY <1>1, <1>7, TickEffect DEF Stored
  <2> QED
    BY <1>2, <1>7, <2>1 DEF SessionTick
<1>8. CASE UNCHANGED sessions
  BY <1>1, <1>2, <1>3, <1>8
<1> QED
  BY <1>4, <1>5, <1>6, <1>7, <1>8 DEF Operation

LEMMA InvStep == IInv /\ [Next]_vars => IInv'
  BY NextIsOperation, OperationKeeps

LEMMA InvInit == Init => IInv
  BY DEF Init, SessionInit, IInv, TypeOK, EscalatedByThreeStrikes, Stored

(* The inductive invariant: the flag is judged from the list, so both have *)
(* to be carried together.                                                 *)
THEOREM InductiveInvariant == Spec => []IInv
  BY InvInit, InvStep, PTL DEF Spec

(* The map holds well formed sessions. *)
THEOREM SessionsTyped == Spec => []TypeOK
  BY InductiveInvariant, PTL DEF IInv

(* A session is escalated exactly when three of its requests were equal. *)
THEOREM SessionEscalation == Spec => []EscalatedByThreeStrikes
  BY InductiveInvariant, PTL DEF IInv

-----------------------------------------------------------------------------

LEMMA OperationKeepsLive ==
    ASSUME IInv, Operation
    PROVE  KeepsLive
<1> SUFFICES ASSUME NEW id \in SessionIDs, Stored(id), ~ Expired(id)
             PROVE  /\ sessions'[id] # NoSession
                    /\ sessions'[id].model = sessions[id].model
                    /\ sessions'[id].age >= sessions[id].age
                    /\ sessions[id].escalated => sessions'[id].escalated
                    /\ Extends(sessions'[id].recentHashes, sessions[id].recentHashes)
  BY DEF KeepsLive
<1> DEFINE Kept ==
      /\ sessions'[id] # NoSession
      /\ sessions'[id].model = sessions[id].model
      /\ sessions'[id].age >= sessions[id].age
      /\ sessions[id].escalated => sessions'[id].escalated
      /\ Extends(sessions'[id].recentHashes, sessions[id].recentHashes)
<1>1. /\ sessions[id] \in Session
      /\ sessions[id].recentHashes \in Seq(Hashes)
      /\ sessions[id].age \in Int
  BY SessionAssumption DEF IInv, TypeOK, Stored, Session
<1>2. ASSUME sessions'[id] = sessions[id]
      PROVE  Kept
  BY <1>1, <1>2 DEF Stored, Extends
<1>3. ASSUME NEW x \in SessionIDs, NEW m \in Models, NEW info \in Info,
             GetOrCreate(x, m, info)
      PROVE  Kept
  <2>1. sessions'[id] = sessions[id]
    BY <1>3 DEF GetOrCreate, IInv, TypeOK
  <2> QED
    BY <1>2, <2>1
<1>4. ASSUME NEW x \in SessionIDs, NEW h \in Hashes, RecordRequest(x, h)
      PROVE  Kept
  <2>1. CASE x = id
    <3>1. sessions'[id] = Recorded(sessions[id], h)
      BY <1>4, <2>1, RecordEffect DEF IInv, TypeOK
    <3>2. sessions[id].escalated <=> ThreeAlike(sessions[id].recentHashes)
      BY DEF IInv, EscalatedByThreeStrikes
    <3>3. Extends(Append(sessions[id].recentHashes, h), sessions[id].recentHashes)
      BY <1>1, AppendProperties DEF Extends
    <3>4. /\ Recorded(sessions[id], h) # NoSession
          /\ Recorded(sessions[id], h).model = sessions[id].model
          /\ Recorded(sessions[id], h).age = sessions[id].age
          /\ Recorded(sessions[id], h).recentHashes = Append(sessions[id].recentHashes, h)
          /\ sessions[id].escalated => Recorded(sessions[id], h).escalated
      BY <1>1, <3>2, RecordedIsSession
    <3> QED
      BY <1>1, <3>1, <3>3, <3>4
  <2>2. CASE x # id
    <3>1. sessions'[id] = sessions[id]
      BY <1>4, <2>2 DEF RecordRequest, IInv, TypeOK
    <3> QED
      BY <1>2, <3>1
  <2> QED
    BY <2>1, <2>2
<1>5. CASE CleanupExpired
  <2>1. sessions'[id] = sessions[id]
    BY <1>5 DEF CleanupExpired
  <2> QED
    BY <1>2, <2>1
<1>6. CASE SessionTick
  <2>1. /\ sessions'[id] # NoSession
        /\ sessions'[id].model = sessions[id].model
        /\ sessions'[id].recentHashes = sessions[id].recentHashes
        /\ sessions'[id].escalated = sessions[id].escalated
        /\ sessions'[id].age >= sessions[id].age
    BY <1>6, TickEffect
  <2> QED
    BY <1>1, <2>1 DEF Extends
<1>7. CASE UNCHANGED sessions
  BY <1>2, <1>7
<1> QED
  BY <1>3, <1>4, <1>5, <1>6, <1>7 DEF Operation

LEMMA KeepsLiveStep == IInv /\ [Next]_vars => [KeepsLive]_vars
  BY NextIsOperation, OperationKeepsLive

(* While a session is live nothing takes away its model, its strikes, its  *)
(* escalation or its age.                                                  *)
THEOREM SessionsKept == Spec => LiveSessionsKept
  BY InductiveInvariant, KeepsLiveStep, PTL DEF Spec, LiveSessionsKept

-----------------------------------------------------------------------------

LEMMA ContractInit == Init => Contract!Init
<1> SUFFICES ASSUME Init
             PROVE  Contract!Init
  OBVIOUS
<1> QED
  BY DEF Init, SessionInit, NoReply, Lease, Strikes, Stored,
         Contract!Init, Contract!NoStrikes

(* The flag an answer carries is the one the counters give. *)
LEMMA AnswerIsStrikes ==
    ASSUME IInv, NEW id \in SessionIDs, Stored(id)
    PROVE  sessions[id].escalated <=> \E h \in Hashes : Strikes(id)[h] >= 3
<1>1. sessions[id].recentHashes \in Seq(Hashes)
  BY DEF IInv, TypeOK, Stored, Session
<1>2. sessions[id].escalated <=> ThreeAlike(sessions[id].recentHashes)
  BY DEF IInv, EscalatedByThreeStrikes
<1> QED
  BY <1>1, <1>2, ThreeAlikeCounts DEF Strikes

LEMMA NoOccurrence == ASSUME NEW h PROVE Occurrences(<<>>, h) = 0
<1>1. {i \in DOMAIN <<>> : <<>>[i] = h} = {}
  OBVIOUS
<1> QED
  BY <1>1, FS_EmptySet DEF Occurrences

LEMMA ContractStep == IInv /\ [Next]_vars => [Contract!Next]_(Contract!contractVars)
<1> SUFFICES ASSUME IInv, [Next]_vars
             PROVE  [Contract!Next]_(Contract!contractVars)
  OBVIOUS
<1> DEFINE L == [x \in SessionIDs |-> Lease(x)]
           S == [x \in SessionIDs |-> Strikes(x)]
<1>1. \A x \in SessionIDs :
         Stored(x) => sessions[x] \in Session /\ sessions[x].age \in 0 .. SessionAgeBound
  BY DEF IInv, TypeOK, Stored, Session
<1>2. \A x \in SessionIDs : Stored(x) <=> L[x] # NoSession
  BY <1>1, LeaseAssumption DEF Lease, Session
<1>3. \A x \in SessionIDs : Contract!Running(x) <=> Stored(x) /\ ~ Expired(x)
  BY <1>1, <1>2, SessionAssumption DEF Contract!Running, Lease, Expired
<1>4. UNCHANGED sessions => UNCHANGED <<L, S>>
  BY DEF Lease, Strikes, Stored
<1>5. ASSUME NEW id \in SessionIDs, NEW m \in Models, Lookup(id, m)
      PROVE  Contract!Next
  <2>1. PICK info \in Info : GetOrCreate(id, m, info) /\ reply' = Told(id, info)
    BY <1>5 DEF Lookup
  <2>2. CASE Stored(id) /\ ~ Expired(id)
    <3>1. /\ info.Model = L[id].model
          /\ info.Escalated = sessions[id].escalated
          /\ UNCHANGED sessions
      BY <2>1, <2>2 DEF GetOrCreate, Lease
    <3>2. info.Escalated \in BOOLEAN /\ sessions[id].escalated \in BOOLEAN
      BY <3>1 DEF Info
    <3>3. info.Escalated = (\E h \in Hashes : S[id][h] >= 3)
      BY <2>2, <3>1, <3>2, AnswerIsStrikes
    <3>4. reply' = [op |-> "session", id |-> id, Model |-> L[id].model,
                    Escalated |-> \E h \in Hashes : S[id][h] >= 3]
      <4> HIDE DEF L, S
      <4> QED
        BY <2>1, <3>1, <3>3, Zenon DEF Told
    <3>5. Contract!Report(id)
      <4> UNCHANGED <<L, S>> /\ Contract!Running(id)
        BY <1>3, <1>4, <2>2, <3>1
      <4> QED
        BY <3>4, Zenon DEF Contract!Report, Contract!Answer
    <3> QED
      BY <3>5 DEF Contract!Next
  <2>3. CASE ~ (Stored(id) /\ ~ Expired(id))
    <3>1. /\ info = [Model |-> m, Escalated |-> FALSE]
          /\ sessions' = [sessions EXCEPT ![id] = FreshSession(m)]
      BY <2>1, <2>3 DEF GetOrCreate
    <3>2. sessions'[id] = FreshSession(m) /\ FreshSession(m) # NoSession
      BY <3>1, FreshIsSession DEF IInv, TypeOK
    <3>3. \A x \in SessionIDs \ {id} : sessions'[x] = sessions[x]
      BY <3>1 DEF IInv, TypeOK
    <3>0. /\ FreshSession(m).model = m
          /\ FreshSession(m).age = 0
          /\ FreshSession(m).recentHashes = <<>>
      BY DEF FreshSession
    <3>4. L' = [L EXCEPT ![id] = [model |-> m, age |-> 0]]
      <4>1. Lease(id)' = [model |-> m, age |-> 0]
        BY <3>2, <3>0 DEF Lease, Stored
      <4>2. \A x \in SessionIDs \ {id} : Lease(x)' = Lease(x)
        BY <3>3 DEF Lease, Stored
      <4> HIDE DEF Lease
      <4> QED
        BY <4>1, <4>2
    <3>5. S' = [S EXCEPT ![id] = [h \in Hashes |-> 0]]
      <4>1. Strikes(id)' = [h \in Hashes |-> 0]
        BY <3>2, <3>0, NoOccurrence DEF Strikes, Stored
      <4>2. \A x \in SessionIDs \ {id} : Strikes(x)' = Strikes(x)
        BY <3>3 DEF Strikes, Stored
      <4> HIDE DEF Strikes
      <4> QED
        BY <4>1, <4>2
    <3>6. reply' = [op |-> "session", id |-> id, Model |-> m, Escalated |-> FALSE]
      BY <2>1, <3>1 DEF Told
    <3>7. Contract!Open(id, m)
      BY <1>3, <2>3, <3>4, <3>5, <3>6
      DEF Contract!Open, Contract!Answer, Contract!NoStrikes
    <3> QED
      BY <3>7 DEF Contract!Next
  <2> QED
    BY <2>2, <2>3
<1>6. ASSUME NEW id \in SessionIDs, NEW h \in Hashes, Record(id, h)
      PROVE  Contract!Next
  <2>1. CASE Stored(id)
    <3>1. /\ sessions[id] \in Session
          /\ sessions' = [sessions EXCEPT ![id] = Recorded(sessions[id], h)]
      BY <1>6, <2>1, RecordEffect DEF Record
    <3>2. sessions[id].escalated <=> ThreeAlike(sessions[id].recentHashes)
      BY <2>1 DEF IInv, EscalatedByThreeStrikes
    <3>3. /\ Recorded(sessions[id], h) # NoSession
          /\ Recorded(sessions[id], h).model = sessions[id].model
          /\ Recorded(sessions[id], h).age = sessions[id].age
          /\ Recorded(sessions[id], h).recentHashes = Append(sessions[id].recentHashes, h)
      BY <3>1, <3>2, RecordedIsSession
    <3>4. sessions'[id] = Recorded(sessions[id], h)
      BY <3>1 DEF IInv, TypeOK
    <3>5. \A x \in SessionIDs \ {id} : sessions'[x] = sessions[x]
      BY <3>1 DEF IInv, TypeOK
    <3>6. L' = L
      BY <2>1, <3>3, <3>4, <3>5 DEF Lease, Stored
    <3>7. \A g \in Hashes :
             Occurrences(Append(sessions[id].recentHashes, h), g) =
               IF g = h THEN Occurrences(sessions[id].recentHashes, g) + 1
               ELSE Occurrences(sessions[id].recentHashes, g)
      BY <3>1, AppendCounts DEF Session
    <3>8. S' = [S EXCEPT ![id] = [S[id] EXCEPT ![h] = S[id][h] + 1]]
      <4>1. Strikes(id)' = [Strikes(id) EXCEPT ![h] = Strikes(id)[h] + 1]
        BY <2>1, <3>3, <3>4, <3>7 DEF Strikes, Stored
      <4>2. \A x \in SessionIDs \ {id} : Strikes(x)' = Strikes(x)
        BY <3>5 DEF Strikes, Stored
      <4> HIDE DEF Strikes
      <4> QED
        BY <4>1, <4>2
    <3>9. Contract!Strike(id, h)
      BY <1>2, <1>6, <2>1, <3>6, <3>8 DEF Contract!Strike, Record, NoReply
    <3> QED
      BY <3>9 DEF Contract!Next
  <2>2. CASE ~ Stored(id)
    <3>1. UNCHANGED <<L, S>>
      BY <1>4, <1>6, <2>2 DEF Record, RecordRequest
    <3>2. Contract!StrikeNothing(id)
      BY <1>2, <1>6, <2>2, <3>1 DEF Contract!StrikeNothing, Record, NoReply
    <3> QED
      BY <3>2 DEF Contract!Next
  <2> QED
    BY <2>1, <2>2
<1>7. CASE Cleanup
  <2> DEFINE F == {x \in SessionIDs : Stored(x) /\ Expired(x)}
  <2>1. F \in SUBSET {x \in SessionIDs : ~ Contract!Running(x)}
    BY <1>3
  <2>2. /\ \A x \in F : sessions'[x] = NoSession
        /\ \A x \in SessionIDs \ F : sessions'[x] = sessions[x]
    BY <1>7 DEF Cleanup, CleanupExpired
  <2>3. L' = [x \in SessionIDs |-> IF x \in F THEN NoSession ELSE L[x]]
    BY <2>2 DEF Lease, Stored
  <2>4. S' = [x \in SessionIDs |-> IF x \in F THEN [h \in Hashes |-> 0] ELSE S[x]]
    BY <2>2 DEF Strikes, Stored
  <2>5. Contract!Free
    <3> HIDE DEF F, L, S
    <3> QED
      BY <1>7, <2>1, <2>3, <2>4 DEF Contract!Free, Contract!NoStrikes, Cleanup, NoReply, L, S
  <2> QED
    BY <2>5 DEF Contract!Next
<1>8. CASE Tick
  <2>1. SessionTick /\ UNCHANGED reply
    BY <1>8 DEF Tick
  <2>2. S' = S
    BY <2>1, TickEffect DEF Strikes, Stored
  <2>3. L' = [x \in SessionIDs |->
                IF L[x] = NoSession THEN NoSession
                ELSE [L[x] EXCEPT !.age =
                        IF L[x].age < SessionAgeBound THEN L[x].age + 1
                        ELSE SessionAgeBound]]
    BY <1>2, <2>1, TickEffect DEF Lease, Stored, OlderSession
  <2>4. Contract!Tick
    BY <2>1, <2>2, <2>3 DEF Contract!Tick
  <2> QED
    BY <2>4 DEF Contract!Next
<1>9. CASE UNCHANGED vars
  BY <1>4, <1>9 DEF vars, Contract!contractVars
<1> QED
  BY <1>5, <1>6, <1>7, <1>8, <1>9 DEF Next

(* The list of hashes, the flag and the sweep implement a table of leases  *)
(* with strike counters.                                                   *)
THEOREM SessionsImplementContract == Spec => ImplementsContract
  BY InductiveInvariant, ContractInit, ContractStep, PTL
  DEF Spec, ImplementsContract, Contract!Spec
=============================================================================
