------------------------ MODULE SystemQueueOpsProofs ------------------------
(***************************************************************************)
(* What the operators of SystemQueueOps do to a ring, for every valid size  *)
(* and every number of index values it divides.                             *)
(***************************************************************************)
EXTENDS SystemQueueOps, TLAPS

--------------------------------------------------------------------------------
(* Unsigned integers that wrap, for every number of values: the indices of    *)
(* queues, and the tick counters of timers too.                               *)

\* Quotient and remainder, as the provers know them.
LEMMA DivMod ==
  ASSUME NEW x \in Int, NEW n \in Nat \ {0}
  PROVE  /\ x % n \in 0..(n-1)
         /\ x \div n \in Int
         /\ x = n * (x \div n) + (x % n)
  OBVIOUS

\* A number in range is the remainder of anything that exceeds it by a multiple.
LEMMA ModUnique ==
  ASSUME NEW n \in Nat \ {0}, NEW k \in Int, NEW r \in 0..(n-1)
  PROVE  (n * k + r) % n = r
  OBVIOUS

\* The one step of algebra ModMod needs.
LEMMA Distribute ==
  ASSUME NEW n \in Int, NEW k \in Int, NEW a \in Int, NEW b \in Int, NEW s \in Int
  PROVE  (k * n) * a + (n * b + s) = n * (k * a + b) + s
  OBVIOUS

\* Reducing modulo a multiple of n first does not change the remainder by n.
LEMMA ModMod ==
  ASSUME NEW n \in Nat \ {0}, NEW k \in Nat \ {0}, NEW x \in Int
  PROVE  (x % (k * n)) % n = x % n
<1>1. PICK m \in Nat \ {0} : m = k * n
  OBVIOUS
<1>2. PICK r \in Int, a \in Int : r = x % m /\ x = m * a + r
  <2>1. x % m \in 0..(m - 1) /\ x \div m \in Int /\ x = m * (x \div m) + (x % m)
    BY DivMod
  <2>2. x % m \in Int
    BY <2>1
  <2> QED BY <2>1, <2>2, Zenon
<1>3. PICK s \in 0..(n - 1), b \in Int : s = r % n /\ r = n * b + s
  <2>1. r % n \in 0..(n - 1) /\ r \div n \in Int /\ r = n * (r \div n) + (r % n)
    BY DivMod
  <2> QED BY <2>1
<1>4. PICK c \in Int : c = k * a + b
  OBVIOUS
<1>5. x = n * c + s
  <2>1. x = (k * n) * a + (n * b + s)
    BY <1>1, <1>2, <1>3
  <2>2. (k * n) * a + (n * b + s) = n * (k * a + b) + s
    BY Distribute
  <2> QED BY <2>1, <2>2, <1>4
<1>6. (n * c + s) % n = s
  BY ModUnique
<1> QED BY <1>1, <1>2, <1>3, <1>5, <1>6

\* Two numbers less than n apart have different remainders.
LEMMA ModApart ==
  ASSUME NEW n \in Nat \ {0}, NEW x \in Int, NEW d \in 1..(n - 1)
  PROVE  (x + d) % n # x % n
<1> DEFINE a == x \div n
           b == (x + d) \div n
<1>1. a \in Int /\ x = n * a + (x % n) /\ x % n \in 0..(n - 1)
  BY DivMod
<1>2. b \in Int /\ x + d = n * b + ((x + d) % n)
  BY DivMod
<1> SUFFICES ASSUME (x + d) % n = x % n PROVE FALSE
  OBVIOUS
<1> HIDE DEF a, b
<1>3. d = n * (b - a)
  BY <1>1, <1>2
<1>4. CASE b - a <= 0
  BY <1>1, <1>2, <1>3, <1>4
<1>5. CASE b - a >= 1
  <2>1. n * (b - a) >= n
    BY <1>1, <1>2, <1>5
  <2> QED BY <2>1, <1>3
<1> QED BY <1>1, <1>2, <1>4, <1>5

\* Remainders of numbers at most one modulus away.
LEMMA ModNear ==
  ASSUME NEW n \in Nat \ {0}, NEW x \in Int
  PROVE  /\ x \in 0..(n - 1) => x % n = x
         /\ x \in n..(2 * n - 1) => x % n = x - n
         /\ x \in (-n)..(-1) => x % n = x + n
<1>1. ASSUME x \in 0..(n - 1) PROVE x % n = x
  <2>1. (n * 0 + x) % n = x
    BY <1>1, ModUnique
  <2> QED BY <2>1
<1>2. ASSUME x \in n..(2 * n - 1) PROVE x % n = x - n
  <2>1. (n * 1 + (x - n)) % n = x - n
    BY <1>2, ModUnique
  <2>2. n * 1 + (x - n) = x
    OBVIOUS
  <2> QED BY <2>1, <2>2
<1>3. ASSUME x \in (-n)..(-1) PROVE x % n = x + n
  <2>1. (n * (-1) + (x + n)) % n = x + n
    BY <1>3, ModUnique
  <2>2. n * (-1) + (x + n) = x
    OBVIOUS
  <2> QED BY <2>1, <2>2
<1> QED BY <1>1, <1>2, <1>3

\* The difference of two index values, as uint8_t subtraction computes it.
LEMMA ModDiff ==
  ASSUME NEW n \in Nat \ {0}, NEW a \in 0..(n - 1), NEW b \in 0..(n - 1)
  PROVE  (a - b) % n = IF a >= b THEN a - b ELSE a - b + n
<1>1. PICK x \in Int : x = a - b
  OBVIOUS
<1>2. x \in 0..(n - 1) \/ x \in (-n)..(-1)
  BY <1>1
<1>3. x % n = IF x >= 0 THEN x ELSE x + n
  <2>1. /\ x \in 0..(n - 1) => x % n = x
        /\ x \in n..(2 * n - 1) => x % n = x - n
        /\ x \in (-n)..(-1) => x % n = x + n
    BY ModNear, Zenon
  <2> QED BY <1>2, <2>1
<1> QED BY <1>1, <1>3

\* An index value advanced by at most one turn, as uint8_t addition computes it.
LEMMA ModSum ==
  ASSUME NEW n \in Nat \ {0}, NEW a \in 0..(n - 1), NEW b \in 0..n
  PROVE  (a + b) % n = IF a + b < n THEN a + b ELSE a + b - n
<1>1. PICK x \in Int : x = a + b
  OBVIOUS
<1>2. x \in 0..(n - 1) \/ x \in n..(2 * n - 1)
  BY <1>1
<1>3. x % n = IF x < n THEN x ELSE x - n
  <2>1. /\ x \in 0..(n - 1) => x % n = x
        /\ x \in n..(2 * n - 1) => x % n = x - n
        /\ x \in (-n)..(-1) => x % n = x + n
    BY ModNear, Zenon
  <2> QED BY <1>2, <2>1
<1> QED BY <1>1, <1>3
--------------------------------------------------------------------------------
(* Rings                                                                      *)

\* The index difference stays in range, and a step of either index changes it
\* by one, across the wrap of the index type too.
LEMMA UsedSteps ==
  ASSUME NEW put \in 0..(IndexMod - 1), NEW get \in 0..(IndexMod - 1)
  PROVE  LET u == (put - get) % IndexMod IN
         /\ u \in 0..(IndexMod - 1)
         /\ u = 0 <=> put = get
         /\ put = (get + u) % IndexMod
         /\ (put + 1) % IndexMod \in 0..(IndexMod - 1)
         /\ (get + 1) % IndexMod \in 0..(IndexMod - 1)
         /\ u + 1 < IndexMod => (((put + 1) % IndexMod) - get) % IndexMod = u + 1
         /\ u > 0 => (put - ((get + 1) % IndexMod)) % IndexMod = u - 1
<1> DEFINE M == IndexMod
<1>1. M \in Nat \ {0}
  BY IndexModAssumption
<1> HIDE DEF M
<1>2. put \in 0..(M - 1) /\ get \in 0..(M - 1)
  BY DEF M
<1>3. (put - get) % M = IF put >= get THEN put - get ELSE put - get + M
  BY <1>1, <1>2, ModDiff
<1>4. (put + 1) % M = IF put + 1 < M THEN put + 1 ELSE 0
  <2>1. 1 \in 0..M
    BY <1>1
  <2>2. (put + 1) % M = IF put + 1 < M THEN put + 1 ELSE put + 1 - M
    BY <1>1, <1>2, <2>1, ModSum
  <2> QED BY <1>1, <1>2, <2>2
<1>5. (get + 1) % M = IF get + 1 < M THEN get + 1 ELSE 0
  <2>1. 1 \in 0..M
    BY <1>1
  <2>2. (get + 1) % M = IF get + 1 < M THEN get + 1 ELSE get + 1 - M
    BY <1>1, <1>2, <2>1, ModSum
  <2> QED BY <1>1, <1>2, <2>2
<1>6. PICK u \in Int : u = (put - get) % M
  BY <1>1, <1>2, <1>3
<1>7. u \in 0..(M - 1) /\ (u = 0 <=> put = get)
  BY <1>1, <1>2, <1>3, <1>6
<1>8. put = (get + u) % M
  <2>1. get + u \in Int
    BY <1>2
  <2>2. get + u = put \/ get + u = put + M
    BY <1>1, <1>2, <1>3, <1>6
  <2> QED BY <1>1, <1>2, <2>1, <2>2, ModNear
<1>9. ASSUME u + 1 < M PROVE (((put + 1) % M) - get) % M = u + 1
  <2>1. PICK w \in 0..(M - 1) : w = (put + 1) % M
    BY <1>1, <1>2, <1>4
  <2>2. (w - get) % M = IF w >= get THEN w - get ELSE w - get + M
    BY <1>1, <1>2, ModDiff
  <2> QED BY <1>1, <1>2, <1>3, <1>4, <1>6, <1>9, <2>1, <2>2
<1>10. ASSUME u > 0 PROVE (put - ((get + 1) % M)) % M = u - 1
  <2>1. PICK w \in 0..(M - 1) : w = (get + 1) % M
    BY <1>1, <1>2, <1>5
  <2>2. (put - w) % M = IF put >= w THEN put - w ELSE put - w + M
    BY <1>1, <1>2, ModDiff
  <2> QED BY <1>1, <1>2, <1>3, <1>5, <1>6, <1>10, <2>1, <2>2
<1>11. (put + 1) % M \in 0..(M - 1) /\ (get + 1) % M \in 0..(M - 1)
  BY <1>1, <1>2, <1>4, <1>5
<1> QED BY <1>6, <1>7, <1>8, <1>9, <1>10, <1>11 DEF M

\* UsedSteps for the indices of a queue.
LEMMA QueueIndices ==
  ASSUME NEW size, NEW Ent, NEW q \in Queues(size, Ent)
  PROVE  /\ q.put \in 0..(IndexMod - 1) /\ q.get \in 0..(IndexMod - 1)
         /\ q.cell \in [0..(size - 1) -> Ent]
         /\ Used(q) \in 0..(IndexMod - 1)
         /\ Used(q) = 0 <=> q.put = q.get
         /\ q.put = (q.get + Used(q)) % IndexMod
         /\ (q.put + 1) % IndexMod \in 0..(IndexMod - 1)
         /\ (q.get + 1) % IndexMod \in 0..(IndexMod - 1)
         /\ Used(q) + 1 < IndexMod
              => (((q.put + 1) % IndexMod) - q.get) % IndexMod = Used(q) + 1
         /\ Used(q) > 0
              => (q.put - ((q.get + 1) % IndexMod)) % IndexMod = Used(q) - 1
<1>1. /\ q.put \in 0..(IndexMod - 1)
      /\ q.get \in 0..(IndexMod - 1)
      /\ q.cell \in [0..(size - 1) -> Ent]
  BY DEF Queues
<1> QED BY <1>1, UsedSteps, Zenon DEF Used

\* A cell number is a cell of the array, and the cell of a reduced index is the
\* cell of the index: SIZE divides the number of index values.
LEMMA CellOf ==
  ASSUME NEW size, ValidSize(size), NEW i \in Int
  PROVE  /\ size \in Nat \ {0}
         /\ i % size \in 0..(size - 1)
         /\ (i % IndexMod) % size = i % size
<1>1. size \in Nat \ {0}
  BY DEF ValidSize
<1>2. PICK k \in Nat \ {0} : IndexMod = k * size
  BY IndexModAssumption DEF ValidSize
<1>3. (i % (k * size)) % size = i % size
  BY <1>1, ModMod
<1>4. i % size \in 0..(size - 1)
  BY <1>1, DivMod
<1> QED BY <1>1, <1>2, <1>3, <1>4

\* A live cell is a cell of the array and holds an entry.
LEMMA LiveInRange ==
  ASSUME NEW size, ValidSize(size), NEW Ent, NEW q \in Queues(size, Ent),
         NEW c \in LiveCells(q, size)
  PROVE  c \in 0..(size - 1) /\ q.cell[c] \in Ent
<1>1. q.get \in Int /\ q.cell \in [0..(size - 1) -> Ent]
  BY IndexModAssumption DEF Queues
<1>2. PICK i \in Int : c = (q.get + i) % size
  BY DEF LiveCells
<1>3. q.get + i \in Int
  BY <1>1
<1>4. c \in 0..(size - 1)
  BY <1>2, <1>3, CellOf
<1> QED BY <1>1, <1>4

\* The cell i places behind the next front cell is i + 1 places behind this one.
LEMMA NextCell ==
  ASSUME NEW size, ValidSize(size), NEW get \in 0..(IndexMod - 1), NEW i \in Int
  PROVE  (((get + 1) % IndexMod) + i) % size = (get + (i + 1)) % size
<1>a. get \in Int /\ get < IndexMod
  BY IndexModAssumption
<1>b. size \in Nat \ {0} /\ IndexMod \in Nat \ {0}
  BY IndexModAssumption DEF ValidSize
<1>1. PICK g \in Int : g = get + 1
  BY <1>a
<1>2. PICK h \in Int : h = g % IndexMod
  BY <1>a, <1>1, UsedSteps
<1>3. h = IF g < IndexMod THEN g ELSE 0
  <2>1. 1 \in 0..IndexMod
    BY <1>b
  <2>2. (get + 1) % IndexMod = IF get + 1 < IndexMod THEN get + 1
                                 ELSE get + 1 - IndexMod
    BY <1>a, <2>1, IndexModAssumption, ModSum
  <2> QED BY <1>a, <1>b, <1>1, <1>2, <2>2
<1>4. CASE g < IndexMod
  <2>1. h + i = get + (i + 1)
    BY <1>a, <1>1, <1>3, <1>4
  <2> QED BY <2>1, <1>1, <1>2
<1>5. CASE ~(g < IndexMod)
  <2>1. g = IndexMod /\ h = 0
    BY <1>a, <1>b, <1>1, <1>3, <1>5
  <2>2. (IndexMod + i) % size = i % size
    <3>1. PICK k \in Int : IndexMod = k * size
      BY IndexModAssumption DEF ValidSize
    <3>2. PICK s \in 0..(size - 1), b \in Int : s = i % size /\ i = size * b + s
      <4>1. i % size \in 0..(size - 1) /\ i \div size \in Int
            /\ i = size * (i \div size) + (i % size)
        BY <1>b, DivMod
      <4> QED BY <4>1, Zenon
    <3>3. PICK c \in Int : c = k + b
      OBVIOUS
    <3>4. IndexMod + i = size * c + s
      BY <1>b, <3>1, <3>2, <3>3
    <3>5. (size * c + s) % size = s
      BY <1>b, ModUnique
    <3> QED BY <3>2, <3>4, <3>5
  <2>3. h + i = i /\ get + (i + 1) = IndexMod + i
    BY <1>a, <1>b, <1>1, <2>1
  <2> QED BY <2>2, <2>3, <1>1, <1>2
<1> QED BY <1>4, <1>5

\* PutE appends one live cell and touches no other.
LEMMA PutFacts ==
  ASSUME NEW size, ValidSize(size), NEW Ent, NEW x \in Ent,
         NEW q \in Queues(size, Ent), IsNotFull(q, size)
  PROVE  /\ Put(q, size, x) \in Queues(size, Ent)
         /\ PutCell(q, size) \in 0..(size - 1)
         /\ PutCell(q, size) \notin LiveCells(q, size)
         /\ LiveCells(Put(q, size, x), size)
              = LiveCells(q, size) \cup {PutCell(q, size)}
         /\ Put(q, size, x).cell[PutCell(q, size)] = x
         /\ \A d \in LiveCells(q, size) :
              d # PutCell(q, size) => Put(q, size, x).cell[d] = q.cell[d]
         /\ Used(Put(q, size, x)) = Used(q) + 1
<1> DEFINE r == Put(q, size, x)
<1>1. /\ q.put \in 0..(IndexMod - 1)
      /\ q.get \in 0..(IndexMod - 1)
      /\ q.cell \in [0..(size - 1) -> Ent]
  BY DEF Queues
<1>2. size \in Nat \ {0} /\ 2 * size <= IndexMod /\ IndexMod \in Nat
  BY IndexModAssumption DEF ValidSize
<1>3. PutCell(q, size) \in 0..(size - 1)
  <2>1. q.put \in Int
    BY <1>1, <1>2
  <2> QED BY <2>1, CellOf DEF PutCell
<1>4. /\ r.cell = [q.cell EXCEPT ![PutCell(q, size)] = x]
      /\ r.put = (q.put + 1) % IndexMod
      /\ r.get = q.get
  BY <1>1 DEF Put, Queues
<1>5. PICK u \in 0..(size - 1) : u = Used(q) /\ q.put = (q.get + u) % IndexMod
  BY <1>2, QueueIndices DEF IsNotFull
<1>6. Used(r) = u + 1
  <2>1. Used(q) + 1 < IndexMod
    BY <1>2, <1>5
  <2>2. (((q.put + 1) % IndexMod) - q.get) % IndexMod = Used(q) + 1
    BY <2>1, QueueIndices
  <2> QED BY <1>4, <1>5, <2>2 DEF Used
<1>7. r \in Queues(size, Ent)
  <2>1. (q.put + 1) % IndexMod \in 0..(IndexMod - 1)
    BY <1>1, UsedSteps
  <2> QED BY <1>1, <1>3, <2>1 DEF Put, Queues
<1>8. PutCell(q, size) = (q.get + u) % size
  <2>1. q.get + u \in Int
    BY <1>1, <1>5
  <2> QED BY <2>1, <1>5, CellOf DEF PutCell
<1>9. \A i \in 0..(u - 1) : (q.get + i) % size # (q.get + u) % size
  <2> TAKE i \in 0..(u - 1)
  <2>1. PICK b \in Int : b = q.get + i
    BY <1>1
  <2>2. PICK d \in 1..(size - 1) : d = u - i
    BY <1>2, <1>5
  <2>3. (b + d) % size # b % size
    BY <1>2, ModApart
  <2>4. b + d = q.get + u
    <3>1. q.get \in Int /\ u \in Int /\ i \in Int
      BY <1>1, <1>2
    <3> QED BY <3>1, <2>1, <2>2
  <2> QED BY <2>1, <2>3, <2>4
<1>10. PutCell(q, size) \notin LiveCells(q, size)
  BY <1>5, <1>8, <1>9 DEF LiveCells
<1>11. LiveCells(r, size) = LiveCells(q, size) \cup {PutCell(q, size)}
  <2>1. LiveCells(r, size) = {(q.get + i) % size : i \in 0..u}
    BY <1>4, <1>5, <1>6 DEF LiveCells
  <2>2. LiveCells(q, size) = {(q.get + i) % size : i \in 0..(u - 1)}
    BY <1>5 DEF LiveCells
  <2>3. 0..u = (0..(u - 1)) \cup {u}
    BY <1>5
  <2> QED BY <1>8, <2>1, <2>2, <2>3
<1>12. /\ r.cell[PutCell(q, size)] = x
       /\ \A d \in LiveCells(q, size) :
            d # PutCell(q, size) => r.cell[d] = q.cell[d]
  <2>1. LiveCells(q, size) \subseteq 0..(size - 1)
    BY LiveInRange
  <2>2. r.cell = [q.cell EXCEPT ![PutCell(q, size)] = x]
    BY <1>4
  <2>3. q.cell \in [0..(size - 1) -> Ent]
    BY <1>1
  <2> HIDE DEF r
  <2> QED BY <1>3, <2>1, <2>2, <2>3
<1> QED BY <1>3, <1>5, <1>6, <1>7, <1>10, <1>11, <1>12

\* Get takes the front cell out of the live ones and touches no other.
LEMMA GetFacts ==
  ASSUME NEW size, ValidSize(size), NEW Ent, Null \in Ent,
         NEW q \in Queues(size, Ent), IsNotEmpty(q), Used(q) <= size
  PROVE  /\ Get(q, size) \in Queues(size, Ent)
         /\ GetCell(q, size) \in LiveCells(q, size)
         /\ Front(q, size) \in Ent
         /\ LiveCells(Get(q, size), size)
              = LiveCells(q, size) \ {GetCell(q, size)}
         /\ \A d \in LiveCells(q, size) :
              d # GetCell(q, size) => Get(q, size).cell[d] = q.cell[d]
         /\ Used(Get(q, size)) = Used(q) - 1
<1> DEFINE r == Get(q, size)
<1>1. /\ q.put \in 0..(IndexMod - 1)
      /\ q.get \in 0..(IndexMod - 1)
      /\ q.cell \in [0..(size - 1) -> Ent]
  BY DEF Queues
<1>2. size \in Nat \ {0} /\ 2 * size <= IndexMod /\ IndexMod \in Nat
  BY IndexModAssumption DEF ValidSize
<1>3. GetCell(q, size) \in 0..(size - 1)
  <2>1. q.get \in Int
    BY <1>1, <1>2
  <2> QED BY <2>1, CellOf DEF GetCell
<1>4. /\ r.cell = [q.cell EXCEPT ![GetCell(q, size)] = Null]
      /\ r.get = (q.get + 1) % IndexMod
      /\ r.put = q.put
  BY <1>1 DEF Get, Queues
<1>5. PICK u \in 1..size : u = Used(q)
  BY <1>2, QueueIndices DEF IsNotEmpty
<1>6. Used(r) = u - 1
  <2>1. Used(q) > 0
    BY <1>2, <1>5
  <2>2. (q.put - ((q.get + 1) % IndexMod)) % IndexMod = Used(q) - 1
    BY <2>1, QueueIndices
  <2> QED BY <1>4, <1>5, <2>2 DEF Used
<1>7. r \in Queues(size, Ent)
  <2>1. (q.get + 1) % IndexMod \in 0..(IndexMod - 1)
    BY <1>1, UsedSteps
  <2> QED BY <1>1, <1>3, <2>1 DEF Get, Queues
<1>8. LiveCells(q, size) = {(q.get + i) % size : i \in 0..(u - 1)}
  BY <1>5 DEF LiveCells
<1>9. LiveCells(r, size) = {(q.get + i) % size : i \in 1..(u - 1)}
  <2>1. \A i \in Int : (((q.get + 1) % IndexMod) + i) % size = (q.get + (i + 1)) % size
    BY <1>1, NextCell
  <2>2. LiveCells(r, size) = {(q.get + (i + 1)) % size : i \in 0..(u - 2)}
    BY <1>4, <1>6, <2>1 DEF LiveCells
  <2>3. \A i \in 0..(u - 2) : i + 1 \in 1..(u - 1)
    BY <1>5
  <2>4. \A i \in 1..(u - 1) : i - 1 \in 0..(u - 2) /\ (i - 1) + 1 = i
    BY <1>5
  <2> QED BY <2>2, <2>3, <2>4
<1>10. GetCell(q, size) = (q.get + 0) % size
  BY <1>1 DEF GetCell
<1>11. \A i \in 1..(u - 1) : (q.get + i) % size # q.get % size
  <2> TAKE i \in 1..(u - 1)
  <2>1. i \in 1..(size - 1)
    BY <1>2, <1>5
  <2> QED BY <1>1, <1>2, <2>1, ModApart
<1>12. GetCell(q, size) \in LiveCells(q, size)
  BY <1>5, <1>8, <1>10
<1>13. LiveCells(r, size) = LiveCells(q, size) \ {GetCell(q, size)}
  <2>1. 0..(u - 1) = {0} \cup (1..(u - 1))
    BY <1>5
  <2> QED BY <1>8, <1>9, <1>10, <1>11, <2>1 DEF GetCell
<1>14. Front(q, size) \in Ent
  BY <1>1, <1>3 DEF Front
<1>15. \A d \in LiveCells(q, size) :
         d # GetCell(q, size) => r.cell[d] = q.cell[d]
  <2>1. LiveCells(q, size) \subseteq 0..(size - 1)
    BY LiveInRange
  <2>2. r.cell = [q.cell EXCEPT ![GetCell(q, size)] = Null]
    BY <1>4
  <2>3. q.cell \in [0..(size - 1) -> Ent]
    BY <1>1
  <2> HIDE DEF r
  <2> QED BY <1>3, <2>1, <2>2, <2>3
<1> QED BY <1>5, <1>6, <1>7, <1>12, <1>13, <1>14, <1>15

\* What Put appends comes last in the order from front to back.
LEMMA PutOrder ==
  ASSUME NEW size, ValidSize(size), NEW Ent, NEW x \in Ent,
         NEW q \in Queues(size, Ent), IsNotFull(q, size)
  PROVE  /\ Put(q, size, x).get = q.get
         /\ Put(q, size, x).cell[(q.get + Used(q)) % size] = x
         /\ \A i \in 0..(Used(q) - 1) :
              /\ (q.get + i) % size \in LiveCells(q, size)
              /\ Put(q, size, x).cell[(q.get + i) % size] = q.cell[(q.get + i) % size]
<1>1. Put(q, size, x).get = q.get
  BY DEF Put, Queues
<1>2. /\ PutCell(q, size) \notin LiveCells(q, size)
      /\ Put(q, size, x).cell[PutCell(q, size)] = x
      /\ \A d \in LiveCells(q, size) :
           d # PutCell(q, size) => Put(q, size, x).cell[d] = q.cell[d]
  BY PutFacts
<1>3. PutCell(q, size) = (q.get + Used(q)) % size
  <2>1. q.put = (q.get + Used(q)) % IndexMod /\ q.get + Used(q) \in Int
    BY QueueIndices, IndexModAssumption
  <2> QED BY <2>1, CellOf DEF PutCell
<1>4. \A i \in 0..(Used(q) - 1) : (q.get + i) % size \in LiveCells(q, size)
  BY DEF LiveCells
<1> QED BY <1>1, <1>2, <1>3, <1>4

\* Get takes out what comes first, and leaves the others in their order.
LEMMA GetOrder ==
  ASSUME NEW size, ValidSize(size), NEW Ent, Null \in Ent,
         NEW q \in Queues(size, Ent), IsNotEmpty(q), Used(q) <= size
  PROVE  /\ Front(q, size) = q.cell[(q.get + 0) % size]
         /\ \A i \in 0..(Used(q) - 2) :
              Get(q, size).cell[(Get(q, size).get + i) % size]
                = q.cell[(q.get + (i + 1)) % size]
<1>1. q.get \in 0..(IndexMod - 1) /\ q.get \in Int /\ Used(q) \in Int
  BY QueueIndices, IndexModAssumption
<1>2. Front(q, size) = q.cell[(q.get + 0) % size]
  BY <1>1 DEF Front, GetCell
<1>3. Get(q, size).get = (q.get + 1) % IndexMod
  BY DEF Get, Queues
<1>4. ASSUME NEW i \in 0..(Used(q) - 2)
      PROVE  Get(q, size).cell[(Get(q, size).get + i) % size]
               = q.cell[(q.get + (i + 1)) % size]
  <2>1. PICK d \in Int : d = i + 1
    BY <1>1
  <2>2. d \in 1..(size - 1) /\ d \in 0..(Used(q) - 1) /\ size \in Nat \ {0}
    BY <1>1, <2>1 DEF ValidSize
  <2>3. (q.get + d) % size # q.get % size
    BY <1>1, <2>2, ModApart
  <2>4. (q.get + d) % size \in LiveCells(q, size)
    BY <2>2 DEF LiveCells
  <2>5. Get(q, size).cell[(q.get + d) % size] = q.cell[(q.get + d) % size]
    BY <2>3, <2>4, GetFacts DEF GetCell
  <2>6. (Get(q, size).get + i) % size = (q.get + d) % size
    BY <1>1, <1>3, <2>1, NextCell
  <2> QED BY <2>1, <2>5, <2>6
<1> QED BY <1>2, <1>4
================================================================================
