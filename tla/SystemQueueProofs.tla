--------------------------- MODULE SystemQueueProofs ---------------------------
(***************************************************************************)
(* Theorems about SystemQueue: one producer and one consumer may interleave *)
(* at will, for every size of ring and of index.                            *)
(***************************************************************************)
EXTENDS SystemQueue, SystemQueueOpsProofs

\* What the two sides know is enough to be kept: it is inductive.
IInv == TypeOK /\ Handshake

\* The indices and what lies between them.
LEMMA Indices ==
  ASSUME TypeOK
  PROVE  /\ SIZE \in Nat \ {0} /\ 2 * SIZE <= IndexMod /\ IndexMod \in Nat \ {0}
         /\ Count \in Nat /\ GetIndex \in Int /\ PutIndex \in Int
         /\ Count = 0 <=> PutIndex = GetIndex
         /\ PutIndex % SIZE = (GetIndex + Count) % SIZE
         /\ \A i \in Int : (GetIndex + i) % SIZE \in 0..(SIZE - 1)
         /\ (PutIndex + 1) % IndexMod \in 0..(IndexMod - 1)
         /\ (GetIndex + 1) % IndexMod \in 0..(IndexMod - 1)
         /\ Count < SIZE => (((PutIndex + 1) % IndexMod) - GetIndex) % IndexMod = Count + 1
         /\ Count > 0 => (PutIndex - ((GetIndex + 1) % IndexMod)) % IndexMod = Count - 1
<1>1. SIZE \in Nat \ {0} /\ 2 * SIZE <= IndexMod /\ IndexMod \in Nat \ {0}
  BY SizeAssumption, IndexModAssumption DEF ValidSize
<1>2. /\ PutIndex \in 0..(IndexMod - 1) /\ GetIndex \in 0..(IndexMod - 1)
      /\ GetIndex \in Int /\ PutIndex \in Int
  BY <1>1 DEF TypeOK
<1>3. /\ Count \in 0..(IndexMod - 1)
      /\ Count = 0 <=> PutIndex = GetIndex
      /\ PutIndex = (GetIndex + Count) % IndexMod
      /\ (PutIndex + 1) % IndexMod \in 0..(IndexMod - 1)
      /\ (GetIndex + 1) % IndexMod \in 0..(IndexMod - 1)
      /\ Count + 1 < IndexMod =>
           (((PutIndex + 1) % IndexMod) - GetIndex) % IndexMod = Count + 1
      /\ Count > 0 => (PutIndex - ((GetIndex + 1) % IndexMod)) % IndexMod = Count - 1
  BY <1>2, UsedSteps DEF Count
<1>4. PutIndex % SIZE = (GetIndex + Count) % SIZE
  <2>1. GetIndex + Count \in Int
    BY <1>2, <1>3
  <2> QED BY <1>3, <2>1, CellOf, SizeAssumption
<1>5. ASSUME NEW i \in Int PROVE (GetIndex + i) % SIZE \in 0..(SIZE - 1)
  <2>1. GetIndex + i \in Int
    BY <1>2
  <2> QED BY <2>1, CellOf, SizeAssumption
<1>6. Count < SIZE => Count + 1 < IndexMod
  BY <1>1, <1>3
<1> QED BY <1>1, <1>2, <1>3, <1>4, <1>5, <1>6

\* The cell the producer writes into, if there is room, is not between the
\* indices.
LEMMA OwnCell ==
  ASSUME TypeOK, Count < SIZE, NEW i \in 0..(Count - 1)
  PROVE  (GetIndex + i) % SIZE # PutIndex % SIZE
<1>1. PICK b \in Int : b = GetIndex + i
  BY Indices
<1>2. PICK d \in 1..(SIZE - 1) : d = Count - i
  BY Indices
<1>3. (b + d) % SIZE # b % SIZE
  BY Indices, ModApart
<1>4. b + d = GetIndex + Count
  BY <1>1, <1>2, Indices
<1> QED BY <1>1, <1>3, <1>4, Indices

\* At first there is nothing to know.
LEMMA InitInv == Init => IInv
<1> SUFFICES ASSUME Init PROVE IInv
  OBVIOUS
<1>1. SIZE \in Nat \ {0} /\ IndexMod \in Nat \ {0}
  BY SizeAssumption, IndexModAssumption DEF ValidSize
<1>2. TypeOK
  BY <1>1 DEF Init, TypeOK
<1>3. Count = 0
  BY <1>2, Indices DEF Init
<1> QED BY <1>1, <1>2, <1>3 DEF Init, IInv, Handshake

\* Each access of either side keeps what both sides know.
LEMMA NextInv == IInv /\ [Next]_vars => IInv'
<1> SUFFICES ASSUME IInv, [Next]_vars PROVE IInv'
  OBVIOUS
<1>0. TypeOK /\ Handshake
  BY DEF IInv
<1>1. ASSUME NEW x \in Data, PutBegin(x) PROVE IInv'
  <2>1. Count' = Count
    BY <1>1 DEF PutBegin, Count
  <2> QED BY <1>0, <1>1, <2>1 DEF PutBegin, IInv, TypeOK, Handshake
<1>2. CASE PutWrite
  <2>1. Count' = Count
    BY <1>2 DEF PutWrite, Count
  <2>2. Count < SIZE /\ putArg \in Data
    BY <1>0, <1>2 DEF PutWrite, Handshake
  <2>3. PutIndex % SIZE \in 0..(SIZE - 1)
    BY <1>0, Indices
  <2>4. TypeOK'
    BY <1>0, <1>2, <2>2, <2>3 DEF PutWrite, TypeOK
  <2>5. data_array'[PutIndex' % SIZE] = putArg'
    BY <1>0, <1>2, <2>3 DEF PutWrite, TypeOK
  <2>6. pcGet' = "Release" => rData' = data_array'[GetIndex' % SIZE]
    <3>1. Count > 0 => GetIndex % SIZE # PutIndex % SIZE
      <4>1. ASSUME Count > 0 PROVE (GetIndex + 0) % SIZE # PutIndex % SIZE
        BY <1>0, <2>2, <4>1, OwnCell, Indices
      <4> QED BY <1>0, <4>1, Indices
    <3>2. GetIndex % SIZE \in 0..(SIZE - 1)
      <4>1. (GetIndex + 0) % SIZE \in 0..(SIZE - 1)
        BY <1>0, Indices
      <4> QED BY <1>0, <4>1, Indices
    <3> QED BY <1>0, <1>2, <3>1, <3>2 DEF PutWrite, TypeOK, Handshake
  <2>7. Handshake'
    BY <1>0, <1>2, <2>1, <2>2, <2>5, <2>6 DEF PutWrite, Handshake
  <2> QED BY <2>4, <2>7 DEF IInv
<1>3. CASE PutPublish
  <2>1. Count < SIZE /\ Count' = Count + 1
    BY <1>0, <1>3, Indices DEF PutPublish, Handshake, Count
  <2>2. TypeOK'
    BY <1>0, <1>3, Indices DEF PutPublish, TypeOK
  <2>3. Handshake'
    BY <1>0, <1>3, <2>1, Indices DEF PutPublish, Handshake
  <2> QED BY <2>2, <2>3 DEF IInv
<1>4. CASE GetBegin
  <2>1. Count' = Count /\ Count > 0
    BY <1>0, <1>4, Indices DEF GetBegin, Count
  <2> QED BY <1>0, <1>4, <2>1 DEF GetBegin, IInv, TypeOK, Handshake
<1>5. CASE GetRead
  <2>1. Count' = Count
    BY <1>5 DEF GetRead, Count
  <2>2. GetIndex % SIZE \in 0..(SIZE - 1)
    <3>1. (GetIndex + 0) % SIZE \in 0..(SIZE - 1)
      BY <1>0, Indices
    <3> QED BY <1>0, <3>1, Indices
  <2> QED BY <1>0, <1>5, <2>1, <2>2 DEF GetRead, IInv, TypeOK, Handshake
<1>6. CASE GetRelease
  <2>1. Count > 0 /\ Count' = Count - 1
    BY <1>0, <1>6, Indices DEF GetRelease, Handshake, Count
  <2>2. TypeOK'
    BY <1>0, <1>6, Indices DEF GetRelease, TypeOK
  <2>3. Handshake'
    BY <1>0, <1>6, <2>1, Indices DEF GetRelease, Handshake
  <2> QED BY <2>2, <2>3 DEF IInv
<1>7. CASE UNCHANGED vars
  BY <1>0, <1>7 DEF vars, IInv, TypeOK, Handshake, Count
<1> QED BY <1>1, <1>2, <1>3, <1>4, <1>5, <1>6, <1>7 DEF Next

\* The invariant holds in every reachable state.
THEOREM Invariance == Spec => []IInv
  BY InitInv, NextInv, PTL DEF Spec

\* The indices stay bytes, and only elements and empty cells are ever copied.
THEOREM TypeCorrect == Spec => []TypeOK
  BY Invariance, PTL DEF IInv

\* The room a producer saw and the element a consumer saw stay theirs, for rings
\* and indices of every size and in every interleaving.
THEOREM SidesAgree == Spec => []Handshake
  BY Invariance, PTL DEF IInv
--------------------------------------------------------------------------------
(* The FIFO that SystemQueue implements *)

\* Two sequences of the same elements are the same.
LEMMA SameElements ==
  ASSUME NEW n \in Nat, NEW S, NEW f \in [1..n -> S], NEW g \in Seq(S), Len(g) = n,
         \A i \in 1..n : f[i] = g[i]
  PROVE  f = g
  OBVIOUS

\* The elements of the FIFO, and where they are.
LEMMA ContentsType ==
  ASSUME TypeOK
  PROVE  /\ Contents \in [1..Count -> Data \cup {Null}]
         /\ Contents \in Seq(Data \cup {Null}) /\ Len(Contents) = Count
         /\ \A i \in 0..(Count - 1) :
              Contents[i + 1] = data_array[(GetIndex + i) % SIZE]
<1>1. Count \in Nat /\ GetIndex \in Int
  BY Indices
<1>2. ASSUME NEW i \in 1..Count
      PROVE  data_array[(GetIndex + i - 1) % SIZE] \in Data \cup {Null}
  <2>1. i - 1 \in Int /\ GetIndex + i - 1 = GetIndex + (i - 1)
    BY <1>1
  <2>2. (GetIndex + i - 1) % SIZE \in 0..(SIZE - 1)
    BY <2>1, Indices
  <2> QED BY <2>2 DEF TypeOK
<1>3. ASSUME NEW i \in 0..(Count - 1)
      PROVE  Contents[i + 1] = data_array[(GetIndex + i) % SIZE]
  <2>1. i + 1 \in 1..Count /\ GetIndex + (i + 1) - 1 = GetIndex + i
    BY <1>1
  <2> QED BY <2>1 DEF Contents
<1>4. Contents \in [1..Count -> Data \cup {Null}]
  BY <1>2 DEF Contents
<1> QED BY <1>1, <1>3, <1>4

\* Writing into a cell that is not published changes nothing in the FIFO.
LEMMA WriteIsSilent ==
  ASSUME IInv, PutWrite
  PROVE  UNCHANGED <<Contents, got>>
<1>1. TypeOK /\ Count < SIZE /\ Count \in Nat /\ GetIndex \in Int
  BY Indices DEF IInv, Handshake, PutWrite
<1>2. ASSUME NEW i \in 1..Count
      PROVE  data_array'[(GetIndex + i - 1) % SIZE] = data_array[(GetIndex + i - 1) % SIZE]
  <2>1. PICK k \in 0..(Count - 1) : k = i - 1 /\ GetIndex + i - 1 = GetIndex + k
    BY <1>1
  <2>2. (GetIndex + k) % SIZE # PutIndex % SIZE
    BY <1>1, OwnCell
  <2>3. (GetIndex + k) % SIZE \in 0..(SIZE - 1)
    BY <1>1, <2>1, Indices
  <2> QED BY <1>1, <2>1, <2>2, <2>3 DEF PutWrite, TypeOK
<1>3. Contents' = [i \in 1..Count |-> data_array'[(GetIndex + i - 1) % SIZE]]
  BY DEF PutWrite, Contents, Count
<1> QED BY <1>2, <1>3 DEF Contents, PutWrite

\* Moving the put index appends the element that was written.
LEMMA PublishPuts ==
  ASSUME IInv, PutPublish
  PROVE  Fifo!Put(putArg) /\ putArg \in Data
<1>1. /\ TypeOK /\ Count < SIZE /\ putArg \in Data
      /\ data_array[PutIndex % SIZE] = putArg
      /\ UNCHANGED <<data_array, GetIndex, got>>
  BY DEF IInv, Handshake, PutPublish
<1>2. PICK n \in Nat : n = Count /\ Count' = n + 1
  BY <1>1, Indices DEF PutPublish, Count
<1>3. GetIndex \in Int /\ data_array[(GetIndex + n) % SIZE] = putArg
  BY <1>1, <1>2, Indices
<1>4. /\ Contents \in Seq(Data \cup {Null}) /\ Len(Contents) = n
      /\ \A i \in 0..(n - 1) : Contents[i + 1] = data_array[(GetIndex + i) % SIZE]
  BY <1>1, <1>2, ContentsType
<1>5. Contents' = [i \in 1..(n + 1) |-> data_array[(GetIndex + i - 1) % SIZE]]
  BY <1>1, <1>2 DEF Contents
<1>6. ASSUME NEW i \in 1..(n + 1) PROVE Contents'[i] = Append(Contents, putArg)[i]
  <2>1. PICK k \in 0..n : k = i - 1 /\ i = k + 1 /\ GetIndex + i - 1 = GetIndex + k
    BY <1>3
  <2>2. Contents'[i] = data_array[(GetIndex + k) % SIZE]
    BY <1>5, <2>1
  <2>3. CASE k = n
    BY <1>3, <1>4, <2>1, <2>2, <2>3
  <2>4. CASE k # n
    <3>1. k \in 0..(n - 1) /\ i \in 1..n
      BY <2>1, <2>4
    <3>2. Contents'[i] = Contents[i]
      BY <1>4, <2>1, <2>2, <3>1
    <3> QED BY <1>4, <3>1, <3>2
  <2> QED BY <2>3, <2>4
<1>7. /\ Append(Contents, putArg) \in Seq(Data \cup {Null})
      /\ Len(Append(Contents, putArg)) = n + 1
  BY <1>1, <1>4
<1>8. Contents' \in [1..(n + 1) -> Data \cup {Null}]
  <2>1. \A i \in 1..(n + 1) : Append(Contents, putArg)[i] \in Data \cup {Null}
    BY <1>7
  <2>2. \A i \in 1..(n + 1) : Contents'[i] \in Data \cup {Null}
    BY <1>6, <2>1
  <2> QED BY <1>5, <2>2
<1>9. Contents' = Append(Contents, putArg)
  BY <1>6, <1>7, <1>8, SameElements
<1> QED BY <1>1, <1>2, <1>4, <1>9 DEF Fifo!Put

\* Moving the get index takes out the element that was copied.
LEMMA ReleaseGets ==
  ASSUME IInv, GetRelease
  PROVE  Fifo!Get
<1>1. /\ TypeOK /\ Count > 0
      /\ rData = data_array[GetIndex % SIZE]
      /\ data_array' = data_array /\ got' = <<rData>>
      /\ GetIndex' = (GetIndex + 1) % IndexMod
  BY DEF IInv, Handshake, GetRelease
<1>2. PICK n \in Nat : n = Count /\ Count' = n - 1 /\ n > 0
  BY <1>1, Indices DEF GetRelease, Count
<1>3. /\ GetIndex \in 0..(IndexMod - 1) /\ GetIndex' \in 0..(IndexMod - 1)
      /\ GetIndex \in Int /\ GetIndex' \in Int
  BY <1>1, Indices DEF TypeOK
<1>4. /\ Contents \in Seq(Data \cup {Null}) /\ Len(Contents) = n
      /\ \A i \in 0..(n - 1) : Contents[i + 1] = data_array[(GetIndex + i) % SIZE]
  BY <1>1, <1>2, ContentsType
<1>5. Contents' = [i \in 1..(n - 1) |-> data_array[(GetIndex' + i - 1) % SIZE]]
  BY <1>1, <1>2 DEF Contents
<1>6. ASSUME NEW i \in 1..(n - 1) PROVE Contents'[i] = Tail(Contents)[i]
  <2>1. PICK k \in 0..(n - 2) : k = i - 1 /\ i = k + 1
    BY <1>2
  <2>2. GetIndex' + i - 1 = GetIndex' + k /\ i \in 0..(n - 1) /\ k \in Int
    BY <1>2, <1>3, <2>1
  <2>3. (GetIndex' + k) % SIZE = (GetIndex + (k + 1)) % SIZE
    BY <1>1, <1>3, <2>2, NextCell, SizeAssumption
  <2>4. Contents'[i] = data_array[(GetIndex + i) % SIZE]
    BY <1>5, <2>1, <2>2, <2>3
  <2>5. Contents[i + 1] = data_array[(GetIndex + i) % SIZE]
    BY <1>4, <2>2
  <2>6. Tail(Contents)[i] = Contents[i + 1]
    BY <1>2, <1>4
  <2> QED BY <2>4, <2>5, <2>6
<1>7. /\ Contents # <<>>
      /\ Tail(Contents) \in Seq(Data \cup {Null})
      /\ Len(Tail(Contents)) = n - 1
  BY <1>2, <1>4
<1>8. Contents' \in [1..(n - 1) -> Data \cup {Null}]
  BY <1>5, <1>6, <1>7
<1>9. Contents' = Tail(Contents)
  BY <1>2, <1>6, <1>7, <1>8, SameElements
<1>10. Head(Contents) = rData
  <2>1. GetIndex + 0 = GetIndex /\ 0 \in 0..(n - 1)
    BY <1>2, <1>3
  <2>2. Contents[0 + 1] = rData
    BY <1>1, <1>4, <2>1
  <2> QED BY <1>4, <1>7, <2>2
<1> QED BY <1>1, <1>7, <1>9, <1>10 DEF Fifo!Get

\* The ring is a bounded FIFO whose operations happen when an index moves: no
\* element is lost, repeated, reordered or torn, for rings and indices of every
\* size.
THEOREM RingIsFifo == Spec => ImplementsFifo
<1>1. Init => Fifo!Init
  <2> SUFFICES ASSUME Init PROVE Fifo!Init
    OBVIOUS
  <2>1. TypeOK
    BY InitInv DEF IInv
  <2>2. Count = 0
    BY <2>1, Indices DEF Init
  <2>3. Contents = <<>>
    BY <2>1, <2>2, ContentsType
  <2> QED BY <2>3 DEF Init, Fifo!Init
<1>2. IInv /\ [Next]_vars => [Fifo!Next]_(Fifo!vars)
  <2> SUFFICES ASSUME IInv, [Next]_vars PROVE Fifo!Next \/ UNCHANGED <<Contents, got>>
    BY DEF Fifo!vars
  <2>1. CASE PutWrite
    BY <2>1, WriteIsSilent
  <2>2. CASE PutPublish
    BY <2>2, PublishPuts DEF Fifo!Next
  <2>3. CASE GetRelease
    BY <2>3, ReleaseGets DEF Fifo!Next
  <2>4. ASSUME (\E x \in Data : PutBegin(x)) \/ GetBegin \/ GetRead \/ UNCHANGED vars
        PROVE  UNCHANGED <<Contents, got>>
    BY <2>4 DEF PutBegin, GetBegin, GetRead, vars, Contents, Count
  <2> QED BY <2>1, <2>2, <2>3, <2>4 DEF Next
<1> QED BY <1>1, <1>2, Invariance, PTL DEF Spec, ImplementsFifo, Fifo!Spec
================================================================================
