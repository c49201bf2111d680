------------------------- MODULE MacAccelerator_proofs -------------------------
(***************************************************************************)
(* Safety of the accelerator for all shapes its addresses are right for,   *)
(* every width of a word, every content of the RAM and every place of the  *)
(* matrices: theorems of MacAccelerator!Spec.                              *)
(***************************************************************************)
EXTENDS MacAccelerator, TLAPS

\* The shapes and bases the product is right for: B is read with stride k
\* instead of n, so the two are the same or B is a row; the matrices are in the
\* memory, and C overlaps neither A nor B.
Area(base, size) == base .. base + size - 1

Sound(mm, kk, nn) ==
    /\ mm # 0 /\ kk # 0 /\ nn # 0
    /\ kk = nn \/ kk = 1
    /\ Area(BaseA, mm * kk) \cup Area(BaseB, kk * nn) \cup Area(BaseC, mm * nn) \subseteq Address
    /\ Area(BaseC, mm * nn) \cap (Area(BaseA, mm * kk) \cup Area(BaseB, kk * nn)) = {}

SoundPrograms == \A d \in Dims : Sound(d.m % 8, d.k % 8, d.n % 8)

-----------------------------------------------------------------------------
(* The inductive invariant.                                                *)

\* The program has done its first s writes, and the start bit is up from its
\* last write until the run is done.
Configured ==
    /\ cfg.a = (IF step > 0 THEN BaseA ELSE 0)
    /\ cfg.b = (IF step > 1 THEN BaseB ELSE 0)
    /\ cfg.c = (IF step > 2 THEN BaseC ELSE 0)
    /\ step > 3 => cfg.m = program.m /\ cfg.k = program.k /\ cfg.n = program.n
    /\ cfg.start => step = 5
    /\ cstate # "idle" => step = 5
    /\ cstate \notin {"idle", "done"} => cfg.start

A(i, t) == mem[BaseA + i * k + t]
B(t, j) == mem[BaseB + t * n + j]
Sum(i, j, x) == SumOf(Terms(i, j), x)

Done(i, j) == mem[Cell(i, j)] = Element(i, j)

\* The accumulator holds an element and writes it.
Ready(i, j) ==
    acc.wr_c /\ acc.c_address = Cell(i, j) /\ acc.result = Element(i, j)

\* The accumulator holds the sum of the first x terms of an element.
Partial(i, j, x) == ~acc.wr_c /\ acc.result = Sum(i, j, x) % WordRange

\* The element before the one the indices are at; before the first it is the last.
LastRow == IF n_index > 0 THEN m_index ELSE IF m_index > 0 THEN m_index - 1 ELSE m - 1
LastCol == IF n_index > 0 THEN n_index - 1 ELSE n - 1

Enables(a, b, c) == wr_en_a = a /\ wr_en_b = b /\ wr_en_c = c
Clears(temp1, temp2, clear) ==
    pipe.clear_temp = temp1 /\ pipe.clear_temp2 = temp2 /\ pipe.clear = clear

\* The last element waits in the pipeline for its last term.
Waiting ==
    /\ pipe.wr_c /\ pipe.c_address = Cell(LastRow, LastCol)
    /\ data_a = A(LastRow, k - 1) /\ data_b = B(k - 1, LastCol)
    /\ Partial(LastRow, LastCol, k - 1)

AtStart == m_index = 0 /\ n_index = 0
Fresh ==
    /\ AtStart /\ data_a = 0 /\ data_b = 0
    /\ ~pipe.wr_c /\ acc.result = 0 /\ ~acc.wr_c
    /\ Clears(FALSE, FALSE, FALSE)

\* What goes on in the pipeline while the first pair of an element is read.
Behind(temp1, temp2) == Fresh \/ (~AtStart /\ Waiting /\ Clears(temp1, temp2, FALSE))

\* The sum of the element at hand, unless its clearing is due.
Summed(i, j, x) == IF pipe.clear THEN x = 0 ELSE Partial(i, j, x)

FirstLoadA ==
    /\ k_index_a = 0 /\ Enables(FALSE, FALSE, FALSE)
    /\ Behind(TRUE, FALSE)

FirstLoadB ==
    /\ k_index_a = (IF k = 1 THEN 0 ELSE 1) /\ Enables(TRUE, FALSE, k = 1)
    /\ a_read_data = A(m_index, 0)
    /\ Behind(FALSE, TRUE)

NextLoadA ==
    LET t == k_index_b IN
    /\ k_index_a = t /\ Enables(FALSE, TRUE, FALSE)
    /\ data_a = A(m_index, t - 1) /\ a_read_data = B(t - 1, n_index)
    /\ ~pipe.wr_c /\ ~pipe.clear_temp /\ ~pipe.clear_temp2
    /\ Summed(m_index, n_index, t - 1)

NextLoadB ==
    LET t == k_index_b IN
    /\ k_index_a = (IF t = k - 1 THEN 0 ELSE t + 1) /\ Enables(TRUE, FALSE, t = k - 1)
    /\ data_a = A(m_index, t - 1) /\ data_b = B(t - 1, n_index) /\ a_read_data = A(m_index, t)
    /\ ~pipe.wr_c /\ Clears(FALSE, FALSE, FALSE)
    /\ Partial(m_index, n_index, t - 1)

InClear ==
    /\ k_index_a = 0 /\ k_index_b = 0 /\ Enables(FALSE, TRUE, FALSE)
    /\ data_a = A(LastRow, k - 1) /\ a_read_data = B(k - 1, LastCol)
    /\ pipe.wr_c /\ pipe.c_address = Cell(LastRow, LastCol)
    /\ ~pipe.clear_temp /\ ~pipe.clear_temp2
    /\ Summed(LastRow, LastCol, k - 1)

InPadding ==
    /\ AtStart /\ k_index_a = 0 /\ k_index_b = 0 /\ Enables(FALSE, FALSE, FALSE)
    /\ pipe.wr_c => /\ Waiting
                    /\ \/ padding_counter = 0 /\ Clears(TRUE, FALSE, FALSE)
                       \/ padding_counter = 1 /\ Clears(FALSE, TRUE, FALSE)

Stage ==
    /\ cstate \in {"idle", "load_a", "load_b", "clear"} => padding_counter = 0
    /\ cstate = "idle" => Fresh /\ k_index_a = 0 /\ k_index_b = 0 /\ Enables(FALSE, FALSE, FALSE)
    /\ cstate = "load_a" => k_index_b < k /\ (IF k_index_b = 0 THEN FirstLoadA ELSE NextLoadA)
    /\ cstate = "load_b" => k_index_b < k /\ (IF k_index_b = 0 THEN FirstLoadB ELSE NextLoadB)
    /\ cstate = "clear" => InClear
    /\ cstate = "padding" => InPadding
    /\ cstate = "done" => AtStart

\* Elements whose terms have all been read.
Finished(i, j) ==
    \/ cstate \in {"load_a", "load_b"} /\ (i < m_index \/ (i = m_index /\ j < n_index))
    \/ cstate = "clear" /\ (AtStart \/ i < m_index \/ (i = m_index /\ j < n_index))
    \/ cstate \in {"padding", "done"}

\* Each of them is in its cell, or in the pipeline.
Stored ==
    \A i \in Rows, j \in Cols : Finished(i, j) =>
        \/ Done(i, j) \/ (Ready(i, j) /\ cfg.start)
        \/ (pipe.wr_c /\ cstate # "done" /\ i = LastRow /\ j = LastCol)

\* Nothing else is written.
OnlyElements == acc.wr_c => \E i \in Rows, j \in Cols : Ready(i, j)

IndexInv == cstate # "idle" => m_index < m /\ n_index < n

PipelineInv == Configured /\ IndexInv /\ Stage /\ Stored /\ OnlyElements

-----------------------------------------------------------------------------
(* Overflow.                                                               *)

\* The terms of an element as the accumulator takes them, a word each.
Words(i, j) == [t \in 0 .. k - 1 |-> Term(i, j, t) % WordRange]

\* The first x terms of an element fit a word.
Fit(i, j, x) == \A t \in 0 .. x - 1 : Fits(Term(i, j, t))
WordSum(i, j, x) == SumOf(Words(i, j), x)

\* The accumulator holds the sum of the first x words, or shows that it does not.
Exact(i, j, x) == acc.overflow \/ acc.result = WordSum(i, j, x)

NoOverflow(i, j) == Fit(i, j, k) /\ WordSum(i, j, k) < WordRange

\* The element in the pipeline while the first pair of the next one is read.
LastPending ==
    IF pipe.wr_c THEN /\ Fit(LastRow, LastCol, IF cstate = "load_a" THEN k - 1 ELSE k)
                      /\ Exact(LastRow, LastCol, k - 1)
                 ELSE AtStart

\* The same when the second pair is read, and the element at hand.
LastLeft ==
    AtStart \/ IF pipe.clear THEN Fit(LastRow, LastCol, k) /\ Exact(LastRow, LastCol, k)
                             ELSE NoOverflow(LastRow, LastCol)
SoFar(i, j, x) == Fit(i, j, x) /\ (pipe.clear \/ Exact(i, j, x))

OverflowStage ==
    /\ cstate \in {"load_a", "load_b"} =>
         IF k_index_b = 0 THEN LastPending
         ELSE LastLeft /\ SoFar(m_index, n_index, k_index_b - 1)
    /\ cstate = "clear" => SoFar(LastRow, LastCol, k - 1)

\* An element that is finished had none, except that the last may still have one.
FinishedFits ==
    \A i \in Rows, j \in Cols :
        Finished(i, j) => NoOverflow(i, j) \/ (i = LastRow /\ j = LastCol)

OverflowInv == OverflowStage /\ FinishedFits

-----------------------------------------------------------------------------
(* Sums and remainders.                                                    *)

LEMMA RemainderOf ==
    ASSUME NEW W \in Nat \ {0}, NEW q \in Int, NEW r \in 0 .. W - 1
    PROVE  (W * q + r) % W = r
  OBVIOUS

\* A remainder may be taken before adding or after.
LEMMA SumOfRemainders ==
    ASSUME NEW W \in Nat \ {0}, NEW a \in Int, NEW b \in Int
    PROVE  ((a % W) + (b % W)) % W = (a + b) % W
PROOF
<1> DEFINE s == (a % W) + (b % W)
<1>1. a % W \in Int /\ b % W \in Int /\ s \in Int
  OBVIOUS
<1>2. a = W * (a \div W) + (a % W) /\ b = W * (b \div W) + (b % W)
      /\ a \div W \in Int /\ b \div W \in Int
  OBVIOUS
<1>3. s = W * (s \div W) + (s % W) /\ s \div W \in Int /\ s % W \in 0..W-1
  BY <1>1
<1> DEFINE q == (a \div W) + (b \div W) + (s \div W)
<1>4. q \in Int
  BY <1>2, <1>3
<1>5. a + b = W * (a \div W) + W * (b \div W) + W * (s \div W) + (s % W)
  BY <1>2, <1>3
<1>6. W * q = W * (a \div W) + W * (b \div W) + W * (s \div W)
  BY <1>2, <1>3
<1>7. a + b = W * q + (s % W)
  BY <1>1, <1>2, <1>3, <1>4, <1>5, <1>6
<1>8. (W * q + (s % W)) % W = s % W
  BY <1>3, <1>4, RemainderOf
<1> QED
  BY <1>7, <1>8

LEMMA SumOfNothing == \A f : SumOf(f, 0) = 0
  BY DEF SumOf

LEMMA SumNext ==
    ASSUME NEW d \in 0..7, NEW f, \A t \in 0 .. d - 1 : f[t] \in Int, NEW x \in 0 .. d - 1
    PROVE  /\ SumOf(f, x) \in Int
           /\ SumOf(f, x + 1) = SumOf(f, x) + f[x]
PROOF
<1> DEFINE P == [t \in 0..6 |-> IF t < x THEN f[t] ELSE 0]
           Q == [t \in 0..6 |-> IF t < x + 1 THEN f[t] ELSE 0]
<1>1. P \in [0..6 -> Int] /\ Q \in [0..6 -> Int]
  OBVIOUS
<1>2. \A t \in 0..6 : Q[t] = IF t = x THEN f[x] ELSE P[t]
  OBVIOUS
<1>3. P[x] = 0 /\ x \in 0..6 /\ f[x] \in Int
  OBVIOUS
<1>4. /\ SumOf(f, x) = P[0] + P[1] + P[2] + P[3] + P[4] + P[5] + P[6]
      /\ SumOf(f, x + 1) = Q[0] + Q[1] + Q[2] + Q[3] + Q[4] + Q[5] + Q[6]
  BY DEF SumOf
<1> HIDE DEF P, Q
<1>5. \A t \in 0..6 : P[t] \in Int /\ Q[t] \in Int
  BY <1>1
<1>6. /\ P[0] \in Int /\ P[1] \in Int /\ P[2] \in Int /\ P[3] \in Int
      /\ P[4] \in Int /\ P[5] \in Int /\ P[6] \in Int
  BY <1>5
<1>7. \A t \in 0..6 : t # x => Q[t] = P[t]
  BY <1>2
<1>8. Q[x] = P[x] + f[x]
  BY <1>2, <1>3
<1>9. SumOf(f, x) \in Int
  BY <1>4, <1>6
<1>10. SumOf(f, x + 1) = SumOf(f, x) + f[x]
  <2>1. CASE x = 0
    <3>1. Q[1] = P[1] /\ Q[2] = P[2] /\ Q[3] = P[3] /\ Q[4] = P[4] /\ Q[5] = P[5] /\ Q[6] = P[6]
      BY <2>1, <1>7
    <3> QED
      BY <3>1, <2>1, <1>3, <1>4, <1>6, <1>8
  <2>2. CASE x = 1
    <3>1. Q[0] = P[0] /\ Q[2] = P[2] /\ Q[3] = P[3] /\ Q[4] = P[4] /\ Q[5] = P[5] /\ Q[6] = P[6]
      BY <2>2, <1>7
    <3> QED
      BY <3>1, <2>2, <1>3, <1>4, <1>6, <1>8
  <2>3. CASE x = 2
    <3>1. Q[0] = P[0] /\ Q[1] = P[1] /\ Q[3] = P[3] /\ Q[4] = P[4] /\ Q[5] = P[5] /\ Q[6] = P[6]
      BY <2>3, <1>7
    <3> QED
      BY <3>1, <2>3, <1>3, <1>4, <1>6, <1>8
  <2>4. CASE x = 3
    <3>1. Q[0] = P[0] /\ Q[1] = P[1] /\ Q[2] = P[2] /\ Q[4] = P[4] /\ Q[5] = P[5] /\ Q[6] = P[6]
      BY <2>4, <1>7
    <3> QED
      BY <3>1, <2>4, <1>3, <1>4, <1>6, <1>8
  <2>5. CASE x = 4
    <3>1. Q[0] = P[0] /\ Q[1] = P[1] /\ Q[2] = P[2] /\ Q[3] = P[3] /\ Q[5] = P[5] /\ Q[6] = P[6]
      BY <2>5, <1>7
    <3> QED
      BY <3>1, <2>5, <1>3, <1>4, <1>6, <1>8
  <2>6. CASE x = 5
    <3>1. Q[0] = P[0] /\ Q[1] = P[1] /\ Q[2] = P[2] /\ Q[3] = P[3] /\ Q[4] = P[4] /\ Q[6] = P[6]
      BY <2>6, <1>7
    <3> QED
      BY <3>1, <2>6, <1>3, <1>4, <1>6, <1>8
  <2>7. CASE x = 6
    <3>1. Q[0] = P[0] /\ Q[1] = P[1] /\ Q[2] = P[2] /\ Q[3] = P[3] /\ Q[4] = P[4] /\ Q[5] = P[5]
      BY <2>7, <1>7
    <3> QED
      BY <3>1, <2>7, <1>3, <1>4, <1>6, <1>8
  <2> QED
    BY <1>3, <2>1, <2>2, <2>3, <2>4, <2>5, <2>6, <2>7
<1> QED
  BY <1>9, <1>10

\* Signed numbers f and the same as words g.  The words of two negative numbers
\* add up to 2 * S at least: if the sum of the words stays below that, at most
\* one of the numbers is negative, and their sum is neither too small nor too
\* large.
LEMMA NoCarry ==
    ASSUME NEW S \in Nat \ {0}, NEW d \in 0..7, NEW f, NEW g,
           \A t \in 0 .. d - 1 : /\ f[t] \in Int /\ -S <= f[t] /\ f[t] < S
                                /\ g[t] = IF f[t] < 0 THEN f[t] + 2 * S ELSE f[t],
           SumOf(g, d) < 2 * S
    PROVE  -S <= SumOf(f, d) /\ SumOf(f, d) < 2 * S
PROOF
<1> DEFINE C(t) == IF t < d THEN f[t] ELSE 0
           W(t) == IF t < d THEN g[t] ELSE 0
<1>1. /\ SumOf(f, d) = C(0) + C(1) + C(2) + C(3) + C(4) + C(5) + C(6)
      /\ SumOf(g, d) = W(0) + W(1) + W(2) + W(3) + W(4) + W(5) + W(6)
  BY DEF SumOf
<1>2. \A t \in 0..6 : C(t) \in -S .. S - 1 /\ W(t) = IF C(t) < 0 THEN C(t) + 2 * S ELSE C(t)
  <2>1. TAKE t \in 0..6
  <2>2. CASE t < d
    <3>1. t \in 0 .. d - 1
      BY <2>2
    <3> QED
      BY <2>2, <3>1
  <2>3. CASE ~(t < d)
    BY <2>3
  <2> QED
    BY <2>2, <2>3
<1> HIDE DEF C, W
<1>3. /\ C(0) \in -S .. S - 1 /\ W(0) = IF C(0) < 0 THEN C(0) + 2 * S ELSE C(0)
      /\ C(1) \in -S .. S - 1 /\ W(1) = IF C(1) < 0 THEN C(1) + 2 * S ELSE C(1)
      /\ C(2) \in -S .. S - 1 /\ W(2) = IF C(2) < 0 THEN C(2) + 2 * S ELSE C(2)
      /\ C(3) \in -S .. S - 1 /\ W(3) = IF C(3) < 0 THEN C(3) + 2 * S ELSE C(3)
      /\ C(4) \in -S .. S - 1 /\ W(4) = IF C(4) < 0 THEN C(4) + 2 * S ELSE C(4)
      /\ C(5) \in -S .. S - 1 /\ W(5) = IF C(5) < 0 THEN C(5) + 2 * S ELSE C(5)
      /\ C(6) \in -S .. S - 1 /\ W(6) = IF C(6) < 0 THEN C(6) + 2 * S ELSE C(6)
  BY <1>2
<1>4. W(0) + W(1) + W(2) + W(3) + W(4) + W(5) + W(6) < 2 * S
  BY <1>1
<1>5. /\ -S <= C(0) + C(1) + C(2) + C(3) + C(4) + C(5) + C(6)
      /\ C(0) + C(1) + C(2) + C(3) + C(4) + C(5) + C(6) < 2 * S
  BY <1>3, <1>4
<1> QED
  BY <1>1, <1>5

-----------------------------------------------------------------------------
(* Types.                                                                  *)

LEMMA Widths ==
    /\ SignBit \in Nat \ {0} /\ WordRange \in Nat \ {0} /\ WordRange = 2 * SignBit
    /\ 0 \in Word /\ MemWords \in Nat \ {0} /\ 0 \in Address
    /\ {BaseA, BaseB, BaseC} \subseteq Address
  BY MacAssumption DEF WordRange, Word, Address

LEMMA SignedIsInt == \A w \in Word : Signed(w) \in Int
  BY Widths DEF Word, Signed

LEMMA ConfigFields ==
    ASSUME MacTypeOK
    PROVE  /\ cfg.a \in {0, BaseA} /\ cfg.b \in {0, BaseB} /\ cfg.c \in {0, BaseC}
           /\ cfg.m \in 0..15 /\ cfg.k \in 0..15 /\ cfg.n \in 0..15
           /\ cfg.start \in BOOLEAN /\ cfg.status \in BOOLEAN
           /\ m \in 0..7 /\ k \in 0..7 /\ n \in 0..7
PROOF
<1>1. /\ cfg.a \in {0, BaseA} /\ cfg.b \in {0, BaseB} /\ cfg.c \in {0, BaseC}
      /\ cfg.m \in 0..15 /\ cfg.k \in 0..15 /\ cfg.n \in 0..15
      /\ cfg.start \in BOOLEAN /\ cfg.status \in BOOLEAN
  BY DEF MacTypeOK
<1> QED
  BY <1>1 DEF m, k, n

LEMMA IndexTypes ==
    ASSUME MacTypeOK
    PROVE  /\ m_index \in 0..15 /\ n_index \in 0..15 /\ k_index_a \in 0..15 /\ k_index_b \in 0..15
           /\ wr_en_a \in BOOLEAN /\ wr_en_b \in BOOLEAN /\ wr_en_c \in BOOLEAN
           /\ padding_counter \in 0..3
           /\ cstate \in {"idle", "load_a", "load_b", "clear", "padding", "done", "overflow"}
  BY DEF MacTypeOK, Controller!ControllerTypeOK, Controller!Index

LEMMA AddressIsInt ==
    ASSUME MacTypeOK, NEW race \in BOOLEAN
    PROVE  address(race) \in Address
PROOF
<1> DEFINE ka == IF race /\ ~Controller!Last(k_index_a, k) THEN k_index_a + 1 ELSE k_index_a
           ab == Controller!a_b_address(ka, k, n, cfg.a, cfg.b)
<1>1. /\ cfg.a \in Int /\ cfg.b \in Int /\ k \in Int /\ n \in Int
  BY ConfigFields, Widths DEF Address
<1>2. k_index_a \in Int /\ k_index_b \in Int /\ m_index \in Int /\ n_index \in Int
  BY IndexTypes
<1>3. ka \in Int
  BY <1>2
<1>4. ab \in Int
  <2> HIDE DEF ka
  <2>1. m_index * k \in Int /\ k_index_b * k \in Int
    BY <1>1, <1>2
  <2> QED
    BY <1>1, <1>2, <1>3, <2>1 DEF Controller!a_b_address
<1>5. ab % MemWords \in Address
  <2> HIDE DEF ab
  <2> QED
    BY <1>4, Widths DEF Address
<1> QED
  BY <1>5 DEF address

LEMMA InitTypes == Init => MacTypeOK
PROOF
<1> SUFFICES ASSUME Init PROVE MacTypeOK
  OBVIOUS
<1> USE DEF Init
<1>1. cfg \in [a : {0, BaseA}, b : {0, BaseB}, c : {0, BaseC},
               m : 0..15, k : 0..15, n : 0..15, start : BOOLEAN, status : BOOLEAN]
  BY DEF CfgReset
<1>2. Controller!ControllerTypeOK
  <2>1. {wr_en_a, wr_en_b, wr_en_c} \subseteq BOOLEAN
    BY Zenon DEF Controller!Init
  <2>2. {k_index_a, k_index_b, m_index, n_index} \subseteq Controller!Index
    BY DEF Controller!Init, Controller!Index
  <2> QED
    BY <2>1, <2>2 DEF Controller!Init, Controller!ControllerTypeOK
<1>3. mem \in [Address -> Word] /\ a_read_data \in Word
  BY MacAssumption, Widths
<1>4. pipe \in [wr_c : BOOLEAN, c_address : Address,
                clear_temp : BOOLEAN, clear_temp2 : BOOLEAN, clear : BOOLEAN]
  BY Widths DEF PipeReset
<1>5. acc \in [result : Word, overflow : BOOLEAN, c_address : Address, wr_c : BOOLEAN]
  BY Widths DEF AccReset
<1> QED
  BY <1>1, <1>2, <1>3, <1>4, <1>5, Widths DEF MacTypeOK

LEMMA ClearedTypes ==
    ASSUME Controller!Cleared,
           cstate' \in {"idle", "load_a", "load_b", "clear", "padding", "done", "overflow"}
    PROVE  Controller!ControllerTypeOK'
PROOF
<1>1. {wr_en_a', wr_en_b', wr_en_c'} \subseteq BOOLEAN
  BY Zenon DEF Controller!Cleared
<1>2. {k_index_a', k_index_b', m_index', n_index'} \subseteq Controller!Index
  BY DEF Controller!Cleared, Controller!Index
<1> QED
  BY <1>1, <1>2 DEF Controller!Cleared, Controller!ControllerTypeOK, Controller!Index

LEMMA ControllerTypes ==
    ASSUME MacTypeOK, NEW start \in BOOLEAN, NEW clear_interrupt \in BOOLEAN,
           Controller!Tick(start, overflow_in, clear_interrupt, m, k, n)
    PROVE  Controller!ControllerTypeOK'
PROOF
<1> USE DEF Controller!ControllerTypeOK, Controller!Index
<1>1. Controller!ControllerTypeOK
  BY DEF MacTypeOK
<1>2. \A i \in Controller!Index : \A d : Controller!Step(i, d) \in Controller!Index
  BY DEF Controller!Step
<1>3. CASE Controller!Idle(start)
  BY <1>3, ClearedTypes DEF Controller!Idle
<1>4. CASE Controller!Stopped(start, clear_interrupt)
  BY <1>1, <1>4, ClearedTypes DEF Controller!Stopped
<1>5. CASE Controller!LoadA(overflow_in, k)
  <2>1. /\ cstate' \in {"overflow", "load_b"} /\ k_index_a' = Controller!Step(k_index_a, k)
        /\ padding_counter' = padding_counter /\ k_index_b' = k_index_b
        /\ m_index' = m_index /\ n_index' = n_index
    BY <1>5 DEF Controller!LoadA
  <2>2. wr_en_a' \in BOOLEAN /\ wr_en_b' \in BOOLEAN /\ wr_en_c' \in BOOLEAN
    BY <1>5 DEF Controller!LoadA, Controller!Last
  <2>3. k_index_a' \in Controller!Index
    BY <1>1, <1>2, <2>1
  <2> QED
    BY <1>1, <2>1, <2>2, <2>3
<1>6. CASE Controller!LoadB(overflow_in, m, k, n)
  <2>1. /\ cstate' \in {"overflow", "clear", "load_a"}
        /\ k_index_b' = Controller!Step(k_index_b, k)
        /\ n_index' = n_index \/ n_index' = Controller!Step(n_index, n)
        /\ m_index' = m_index \/ m_index' = Controller!Step(m_index, m)
        /\ padding_counter' = padding_counter /\ k_index_a' = k_index_a
    BY <1>6 DEF Controller!LoadB
  <2>2. wr_en_a' \in BOOLEAN /\ wr_en_b' \in BOOLEAN /\ wr_en_c' \in BOOLEAN
    BY <1>6 DEF Controller!LoadB
  <2>3. k_index_b' \in Controller!Index /\ n_index' \in Controller!Index
        /\ m_index' \in Controller!Index
    BY <1>1, <1>2, <2>1
  <2> QED
    BY <1>1, <2>1, <2>2, <2>3
<1>7. CASE Controller!Clear
  BY <1>1, <1>7 DEF Controller!Clear
<1>8. CASE Controller!Padding(k)
  <2>1. (padding_counter + 1) % 4 \in 0..3
    BY <1>1
  <2> QED
    BY <1>1, <1>8, <2>1 DEF Controller!Padding
<1> QED
  BY <1>3, <1>4, <1>5, <1>6, <1>7, <1>8 DEF Controller!Tick

Config == [a : {0, BaseA}, b : {0, BaseB}, c : {0, BaseC},
           m : 0..15, k : 0..15, n : 0..15, start : BOOLEAN, status : BOOLEAN]

\* The registers after a write, before done clears the start bit.
Written(w) == IF w = -1 THEN [cfg EXCEPT !.status = Controller!busy] ELSE Write(w)

LEMMA WrittenFields ==
    ASSUME MacTypeOK, NEW w \in Strobes
    PROVE  /\ w \in -1..4 /\ w <= step /\ Written(w) \in Config
           /\ Written(w).a = IF w = 0 THEN BaseA ELSE cfg.a
           /\ Written(w).b = IF w = 1 THEN BaseB ELSE cfg.b
           /\ Written(w).c = IF w = 2 THEN BaseC ELSE cfg.c
           /\ Written(w).m = IF w = 3 THEN program.m ELSE cfg.m
           /\ Written(w).k = IF w = 3 THEN program.k ELSE cfg.k
           /\ Written(w).n = IF w = 3 THEN program.n ELSE cfg.n
           /\ Written(w).start <=> w = 4 \/ cfg.start
PROOF
<1>1. cfg \in Config /\ w \in -1..4 /\ w <= step
  BY DEF MacTypeOK, Strobes, Config
<1>2. program.m \in 0..15 /\ program.k \in 0..15 /\ program.n \in 0..15
  BY MacAssumption DEF MacTypeOK
<1>3. Controller!busy \in BOOLEAN
  BY DEF Controller!busy
<1>4. CASE w = -1
  BY <1>1, <1>3, <1>4 DEF Written, Config
<1>5. CASE w = 0
  BY <1>1, <1>5 DEF Written, Write, Config
<1>6. CASE w = 1
  BY <1>1, <1>6 DEF Written, Write, Config
<1>7. CASE w = 2
  BY <1>1, <1>7 DEF Written, Write, Config
<1>8. CASE w = 3
  <2>1. Written(w) = [cfg EXCEPT !.m = program.m, !.k = program.k, !.n = program.n]
    BY <1>8 DEF Written, Write
  <2>2. Written(w) \in Config
    BY <1>1, <1>2, <2>1 DEF Config
  <2>3. /\ Written(w).a = cfg.a /\ Written(w).b = cfg.b /\ Written(w).c = cfg.c
        /\ Written(w).m = program.m /\ Written(w).k = program.k /\ Written(w).n = program.n
        /\ Written(w).start = cfg.start
    BY <1>1, <2>1 DEF Config
  <2> QED
    BY <1>1, <1>8, <2>2, <2>3
<1>9. CASE w = 4
  <2>1. Written(w) = [cfg EXCEPT !.start = TRUE]
    BY <1>9 DEF Written, Write
  <2>2. [cfg EXCEPT !.start = TRUE] \in Config
    BY <1>1, Zenon DEF Config
  <2>3. /\ Written(w).a = cfg.a /\ Written(w).b = cfg.b /\ Written(w).c = cfg.c
        /\ Written(w).m = cfg.m /\ Written(w).k = cfg.k /\ Written(w).n = cfg.n
    BY <1>1, <2>1 DEF Config
  <2>4. Written(w).start
    BY <1>1, <2>1 DEF Config
  <2>5. Written(w) \in Config
    BY <2>1, <2>2
  <2> QED
    BY <1>1, <1>9, <2>3, <2>4, <2>5
<1> QED
  BY <1>1, <1>4, <1>5, <1>6, <1>7, <1>8, <1>9

LEMMA CfgFields ==
    ASSUME MacTypeOK, NEW w \in Strobes, CfgTick(w)
    PROVE  /\ cfg' \in Config
           /\ cfg'.a = IF w = 0 THEN BaseA ELSE cfg.a
           /\ cfg'.b = IF w = 1 THEN BaseB ELSE cfg.b
           /\ cfg'.c = IF w = 2 THEN BaseC ELSE cfg.c
           /\ cfg'.m = IF w = 3 THEN program.m ELSE cfg.m
           /\ cfg'.k = IF w = 3 THEN program.k ELSE cfg.k
           /\ cfg'.n = IF w = 3 THEN program.n ELSE cfg.n
           /\ cfg'.start <=> (w = 4 \/ cfg.start) /\ cstate # "done"
PROOF
<1>1. cfg' = IF cstate = "done" THEN [Written(w) EXCEPT !.start = FALSE] ELSE Written(w)
  BY DEF CfgTick, Controller!done_interrupt, Written
<1>2. Written(w) \in Config /\ cfg.start \in BOOLEAN
  BY WrittenFields DEF MacTypeOK
<1>3. CASE cstate = "done"
  <2>1. [Written(w) EXCEPT !.start = FALSE] \in Config
    BY <1>2, Zenon DEF Config
  <2>2. cfg'.start = FALSE
    BY <1>1, <1>2, <1>3 DEF Config
  <2> QED
    BY <1>1, <1>2, <1>3, <2>1, <2>2, WrittenFields DEF Config
<1>4. CASE cstate # "done"
  BY <1>1, <1>2, <1>4, WrittenFields
<1> QED
  BY <1>3, <1>4

LEMMA NextTypes ==
    ASSUME MacTypeOK, [Next]_vars
    PROVE  MacTypeOK'
PROOF
<1>1. CASE Clock
  <2>1. PICK w \in Strobes, race \in Race, clear_interrupt \in ClearInterrupt :
            /\ CfgTick(w)
            /\ Controller!Tick(cfg.start, overflow_in, clear_interrupt, m, k, n)
            /\ RegfileTick /\ PipeTick /\ AccumulatorTick /\ PortATick(race)
            /\ step' = (IF w = step THEN step + 1 ELSE step) /\ program' = program
    BY <1>1 DEF Clock
  <2>2. race \in BOOLEAN /\ clear_interrupt \in BOOLEAN /\ cfg.start \in BOOLEAN
    BY MacAssumption, ConfigFields
  <2>3. Controller!ControllerTypeOK'
    BY <2>1, <2>2, ControllerTypes
  <2>4. mem \in [Address -> Word] /\ a_read_data \in Word /\ data_a \in Word /\ data_b \in Word
        /\ acc \in [result : Word, overflow : BOOLEAN, c_address : Address, wr_c : BOOLEAN]
        /\ pipe \in [wr_c : BOOLEAN, c_address : Address,
                     clear_temp : BOOLEAN, clear_temp2 : BOOLEAN, clear : BOOLEAN]
        /\ wr_en_c \in BOOLEAN
    BY DEF MacTypeOK, Controller!ControllerTypeOK
  <2>5. a_read_data' \in Word
    BY <2>1, <2>2, <2>4, AddressIsInt DEF PortATick
  <2>6. data_a' \in Word /\ data_b' \in Word
    BY <2>1, <2>4 DEF RegfileTick
  <2>7. mem' \in [Address -> Word]
    <3>1. acc.c_address \in Address /\ acc.result \in Word
      BY <2>4
    <3>2. mem' = IF acc.wr_c THEN [mem EXCEPT ![acc.c_address] = acc.result] ELSE mem
      BY <2>1 DEF PortATick
    <3>3. mem \in [Address -> Word]
      BY <2>4
    <3> QED
      BY <3>1, <3>2, <3>3
  <2>8. pipe' \in [wr_c : BOOLEAN, c_address : Address,
                   clear_temp : BOOLEAN, clear_temp2 : BOOLEAN, clear : BOOLEAN]
    <3>1. Controller!c_address(n, cfg.c) % MemWords \in Address
      <4>1. cfg.c \in Int
        BY ConfigFields, Widths DEF Address
      <4>2. n \in Int /\ m_index \in Int /\ n_index \in Int
        BY ConfigFields, IndexTypes
      <4>3. m_index * n + n_index + cfg.c \in Int
        BY <4>1, <4>2
      <4> QED
        BY <4>3, Widths DEF Controller!c_address, Address
    <3>2. Controller!clear_in \in BOOLEAN
      BY DEF Controller!clear_in
    <3> QED
      BY <2>1, <2>4, <3>1, <3>2 DEF PipeTick
  <2>9. acc' \in [result : Word, overflow : BOOLEAN, c_address : Address, wr_c : BOOLEAN]
    <3>1. product \in Int
      BY <2>4, SignedIsInt DEF product
    <3>2. temp \in Int
      BY <2>4, <3>1, Widths DEF temp, Word
    <3>3. temp % WordRange \in Word
      BY <3>2, Widths DEF Word
    <3> QED
      BY <2>1, <2>4, <3>3, Widths DEF AccumulatorTick, AccReset
  <2>10. program' \in Dims /\ step' \in 0..5
    BY <2>1 DEF MacTypeOK, Strobes
  <2> QED
    BY <2>1, <2>3, <2>5, <2>6, <2>7, <2>8, <2>9, <2>10, CfgFields DEF MacTypeOK, Config
<1>2. CASE Reset
  <2>1. cfg' \in [a : {0, BaseA}, b : {0, BaseB}, c : {0, BaseC},
                  m : 0..15, k : 0..15, n : 0..15, start : BOOLEAN, status : BOOLEAN]
    BY <1>2 DEF Reset, CfgReset
  <2>2. Controller!ControllerTypeOK'
    BY <1>2, ClearedTypes DEF Reset, Controller!Reset
  <2>3. pipe' \in [wr_c : BOOLEAN, c_address : Address,
                   clear_temp : BOOLEAN, clear_temp2 : BOOLEAN, clear : BOOLEAN]
    BY <1>2, Widths DEF Reset, PipeReset
  <2>4. acc' \in [result : Word, overflow : BOOLEAN, c_address : Address, wr_c : BOOLEAN]
    BY <1>2, Widths DEF Reset, AccReset
  <2> QED
    BY <1>2, <2>1, <2>2, <2>3, <2>4, Widths DEF MacTypeOK, Reset
<1>3. CASE UNCHANGED vars
  BY <1>3 DEF vars, ctl, datapath, MacTypeOK, Controller!ControllerTypeOK
<1> QED
  BY <1>1, <1>2, <1>3 DEF Next

\* Every register of the accelerator keeps its type and width, for all shapes,
\* also those whose product is wrong, with either outcome of the race.
THEOREM AcceleratorTypes == Spec => []MacTypeOK
PROOF
<1>1. MacTypeOK /\ [Next]_vars => MacTypeOK'
  BY NextTypes
<1> QED
  BY InitTypes, <1>1, PTL DEF Spec

-----------------------------------------------------------------------------
(* The program and the matrices.                                           *)

\* All registers are written, and the shape is one the product is right for.
Ordered ==
    /\ m \in 1..7 /\ k \in 1..7 /\ n \in 1..7 /\ Sound(m, k, n)
    /\ cfg.a = BaseA /\ cfg.b = BaseB /\ cfg.c = BaseC

LEMMA ShapeOrdered ==
    ASSUME SoundPrograms, MacTypeOK, Configured, step = 5
    PROVE  Ordered
PROOF
<1>1. program \in Dims /\ cfg.m = program.m /\ cfg.k = program.k /\ cfg.n = program.n
      /\ cfg.a = BaseA /\ cfg.b = BaseB /\ cfg.c = BaseC
  BY DEF MacTypeOK, Configured
<1>2. Sound(m, k, n)
  BY <1>1 DEF SoundPrograms, m, k, n
<1> QED
  BY <1>1, <1>2, ConfigFields DEF Ordered, Sound

LEMMA InRange ==
    ASSUME NEW p \in 1..7, NEW q \in 1..7, NEW i \in 0 .. p - 1, NEW t \in 0 .. q - 1
    PROVE  i * q \in Nat /\ p * q \in Nat /\ i * q + t \in 0 .. p * q - 1
PROOF
<1>1. CASE q = 1  BY <1>1
<1>2. CASE q = 2  BY <1>2
<1>3. CASE q = 3  BY <1>3
<1>4. CASE q = 4  BY <1>4
<1>5. CASE q = 5  BY <1>5
<1>6. CASE q = 6  BY <1>6
<1>7. CASE q = 7  BY <1>7
<1> QED
  BY <1>1, <1>2, <1>3, <1>4, <1>5, <1>6, <1>7

LEMMA OneCell ==
    ASSUME NEW q \in 1..7, NEW i \in 0..6, NEW j \in 0 .. q - 1,
           NEW r \in 0..6, NEW s \in 0 .. q - 1, i * q + j = r * q + s
    PROVE  i = r /\ j = s
PROOF
<1>1. CASE q = 1  BY <1>1
<1>2. CASE q = 2  BY <1>2
<1>3. CASE q = 3  BY <1>3
<1>4. CASE q = 4  BY <1>4
<1>5. CASE q = 5  BY <1>5
<1>6. CASE q = 6  BY <1>6
<1>7. CASE q = 7  BY <1>7
<1> QED
  BY <1>1, <1>2, <1>3, <1>4, <1>5, <1>6, <1>7

LEMMA PlaceInArea ==
    ASSUME NEW base \in Nat, NEW p \in 1..7, NEW q \in 1..7,
           NEW i \in 0 .. p - 1, NEW t \in 0 .. q - 1
    PROVE  base + i * q + t \in Area(base, p * q)
PROOF
<1>1. i * q \in Nat /\ p * q \in Nat /\ i * q + t \in 0 .. p * q - 1
  BY InRange
<1> QED
  BY <1>1 DEF Area

\* The elements of A and B lie in the memory and in no cell of C, and no two
\* elements of the product have the same cell.
LEMMA Places ==
    ASSUME Ordered
    PROVE  /\ \A i \in Rows, t \in 0 .. k - 1 :
                /\ BaseA + i * k + t \in Address
                /\ \A r \in Rows, s \in Cols : BaseA + i * k + t # Cell(r, s)
           /\ \A t \in 0 .. k - 1, j \in Cols :
                /\ BaseB + t * n + j \in Address
                /\ \A r \in Rows, s \in Cols : BaseB + t * n + j # Cell(r, s)
           /\ \A i \in Rows, j \in Cols :
                /\ Cell(i, j) \in Address
                /\ \A r \in Rows, s \in Cols : Cell(i, j) = Cell(r, s) => i = r /\ j = s
PROOF
<1>1. BaseA \in Nat /\ BaseB \in Nat /\ BaseC \in Nat
  BY Widths DEF Address
<1>2. m \in 1..7 /\ k \in 1..7 /\ n \in 1..7 /\ Sound(m, k, n)
  BY DEF Ordered
<1>3. \A i \in Rows, j \in Cols : Cell(i, j) \in Area(BaseC, m * n)
  BY <1>1, <1>2, PlaceInArea DEF Rows, Cols, Cell
<1>4. \A i \in Rows, t \in 0 .. k - 1 : BaseA + i * k + t \in Area(BaseA, m * k)
  BY <1>1, <1>2, PlaceInArea DEF Rows
<1>5. \A t \in 0 .. k - 1, j \in Cols : BaseB + t * n + j \in Area(BaseB, k * n)
  BY <1>1, <1>2, PlaceInArea DEF Cols
<1>6. /\ Area(BaseA, m * k) \subseteq Address /\ Area(BaseB, k * n) \subseteq Address
      /\ Area(BaseC, m * n) \subseteq Address
      /\ \A x \in Area(BaseC, m * n) : x \notin Area(BaseA, m * k) /\ x \notin Area(BaseB, k * n)
  BY <1>2 DEF Sound
<1>7. ASSUME NEW i \in Rows, NEW j \in Cols, NEW r \in Rows, NEW s \in Cols,
             Cell(i, j) = Cell(r, s)
      PROVE  i = r /\ j = s
  <2>1. i \in 0..6 /\ r \in 0..6 /\ j \in 0 .. n - 1 /\ s \in 0 .. n - 1
    BY <1>2 DEF Rows, Cols
  <2>2. i * n \in Int /\ r * n \in Int
    BY <1>2, <2>1
  <2>3. i * n + j = r * n + s
    BY <1>1, <1>2, <1>7, <2>1, <2>2 DEF Cell
  <2> QED
    BY <1>2, <2>1, <2>3, OneCell
<1> QED
  BY <1>3, <1>4, <1>5, <1>6, <1>7

\* Port A reads the element the indices are at; of B it does because a column
\* is as long as a row, or there is but one row.
LEMMA Reads ==
    ASSUME MacTypeOK, Ordered, m_index < m, n_index < n
    PROVE  /\ cstate = "load_a" /\ k_index_a < k =>
                mem[address(FALSE)] = A(m_index, k_index_a)
           /\ cstate = "load_b" /\ k_index_b < k =>
                mem[address(FALSE)] = B(k_index_b, n_index)
           /\ Controller!c_address(n, cfg.c) % MemWords = Cell(m_index, n_index)
PROOF
<1>1. /\ m_index \in Rows /\ n_index \in Cols
      /\ k_index_a \in Nat /\ k_index_b \in Nat /\ m_index \in Nat /\ n_index \in Nat
      /\ m \in 1..7 /\ k \in 1..7 /\ n \in 1..7
      /\ BaseA \in Nat /\ BaseB \in Nat /\ BaseC \in Nat
  BY IndexTypes, Widths DEF Ordered, Rows, Cols, Address
<1>2. m_index * k \in Int /\ m_index * n \in Int /\ k_index_b * n \in Int
  BY <1>1
<1>3. \A x \in Address : x % MemWords = x
  BY Widths DEF Address
<1>4. ASSUME cstate = "load_a", k_index_a < k
      PROVE  mem[address(FALSE)] = A(m_index, k_index_a)
  <2>1. address(FALSE) = (m_index * k + k_index_a + cfg.a) % MemWords
    BY <1>4 DEF address, Controller!a_b_address
  <2>2. m_index * k + k_index_a + cfg.a = BaseA + m_index * k + k_index_a
    BY <1>1, <1>2 DEF Ordered
  <2>3. BaseA + m_index * k + k_index_a \in Address
    <3>1. k_index_a \in 0 .. k - 1
      BY <1>1, <1>4
    <3> QED
      BY <1>1, <3>1, Places
  <2> QED
    BY <1>3, <2>1, <2>2, <2>3 DEF A
<1>5. ASSUME cstate = "load_b", k_index_b < k
      PROVE  mem[address(FALSE)] = B(k_index_b, n_index)
  <2>1. address(FALSE) = (k_index_b * k + n_index + cfg.b) % MemWords
    BY <1>5 DEF address, Controller!a_b_address
  <2>2. k_index_b * k = k_index_b * n
    <3>1. CASE k = n
      BY <3>1
    <3>2. CASE k = 1
      BY <1>1, <1>5, <3>2
    <3> QED
      BY <3>1, <3>2 DEF Ordered, Sound
  <2>3. k_index_b * k + n_index + cfg.b = BaseB + k_index_b * n + n_index
    BY <1>1, <1>2, <2>2 DEF Ordered
  <2>4. BaseB + k_index_b * n + n_index \in Address
    BY <1>1, <1>5, Places
  <2> QED
    BY <1>3, <2>1, <2>3, <2>4 DEF B
<1>6. Controller!c_address(n, cfg.c) % MemWords = Cell(m_index, n_index)
  <2>1. m_index * n + n_index + cfg.c = Cell(m_index, n_index)
    BY <1>1, <1>2 DEF Ordered, Cell
  <2>2. Cell(m_index, n_index) \in Address
    BY <1>1, Places
  <2> QED
    BY <1>3, <2>1, <2>2 DEF Controller!c_address
<1> QED
  BY <1>4, <1>5, <1>6

LEMMA Elements ==
    ASSUME MacTypeOK, Ordered, NEW i \in Rows, NEW j \in Cols, NEW t \in 0 .. k - 1
    PROVE  /\ A(i, t) \in Word /\ B(t, j) \in Word
           /\ Term(i, j, t) = Signed(A(i, t)) * Signed(B(t, j)) /\ Term(i, j, t) \in Int
PROOF
<1>1. A(i, t) \in Word /\ B(t, j) \in Word
  BY Places DEF MacTypeOK, A, B
<1>2. Term(i, j, t) = Signed(A(i, t)) * Signed(B(t, j))
  BY DEF Term, A, B
<1> QED
  BY <1>1, <1>2, SignedIsInt

\* One more term.
LEMMA Sums ==
    ASSUME MacTypeOK, Ordered, NEW i \in Rows, NEW j \in Cols
    PROVE  /\ Sum(i, j, 0) = 0 /\ WordSum(i, j, 0) = 0
           /\ Element(i, j) = Sum(i, j, k) % WordRange
           /\ \A t \in 0 .. k - 1 :
                /\ Sum(i, j, t) \in Int /\ Sum(i, j, t + 1) = Sum(i, j, t) + Term(i, j, t)
                /\ WordSum(i, j, t) \in Int
                /\ WordSum(i, j, t + 1) = WordSum(i, j, t) + (Term(i, j, t) % WordRange)
PROOF
<1>1. k \in 0..7
  BY DEF Ordered
<1>2. \A t \in 0 .. k - 1 : Terms(i, j)[t] = Term(i, j, t) /\ Term(i, j, t) \in Int
  BY Elements DEF Terms
<1>3. \A t \in 0 .. k - 1 :
         Words(i, j)[t] = Term(i, j, t) % WordRange /\ Term(i, j, t) % WordRange \in Int
  BY <1>2, Widths DEF Words
<1>4. ASSUME NEW t \in 0 .. k - 1
      PROVE  /\ SumOf(Terms(i, j), t) \in Int
             /\ SumOf(Terms(i, j), t + 1) = SumOf(Terms(i, j), t) + Terms(i, j)[t]
             /\ SumOf(Words(i, j), t) \in Int
             /\ SumOf(Words(i, j), t + 1) = SumOf(Words(i, j), t) + Words(i, j)[t]
  BY <1>1, <1>2, <1>3, SumNext
<1> QED
  BY <1>2, <1>3, <1>4, SumOfNothing DEF Sum, WordSum, Element

\* What the accumulator makes of a sum and a pair.
LEMMA Accumulates ==
    ASSUME MacTypeOK, Ordered, NEW i \in Rows, NEW j \in Cols, NEW t \in 0 .. k - 1,
           data_a = A(i, t), data_b = B(t, j),
           acc.result = Sum(i, j, t) % WordRange
    PROVE  /\ product = Term(i, j, t)
           /\ temp % WordRange = Sum(i, j, t + 1) % WordRange
           /\ t = k - 1 => temp % WordRange = Element(i, j)
PROOF
<1>1. product = Term(i, j, t) /\ Term(i, j, t) \in Int
  BY Elements DEF product
<1>2. Sum(i, j, t) \in Int /\ Sum(i, j, t + 1) = Sum(i, j, t) + Term(i, j, t)
      /\ Element(i, j) = Sum(i, j, k) % WordRange
  BY Sums
<1>3. temp = (Sum(i, j, t) % WordRange) + (Term(i, j, t) % WordRange)
  BY <1>1 DEF temp
<1>4. temp % WordRange = Sum(i, j, t + 1) % WordRange
  BY <1>1, <1>2, <1>3, Widths, SumOfRemainders
<1>5. t = k - 1 => t + 1 = k
  BY DEF Ordered
<1> QED
  BY <1>1, <1>2, <1>4, <1>5

\* Port A writes elements only, so that A and B stay what they are, and an
\* element that is in its cell or about to be written is there ever after.
Writes == mem' = IF acc.wr_c THEN [mem EXCEPT ![acc.c_address] = acc.result] ELSE mem

LEMMA OperandsKept ==
    ASSUME MacTypeOK, Ordered, OnlyElements, Writes, m' = m, k' = k, n' = n
    PROVE  /\ \A i \in Rows, t \in 0 .. k - 1 : A(i, t)' = A(i, t)
           /\ \A t \in 0 .. k - 1, j \in Cols : B(t, j)' = B(t, j)
           /\ \A i \in Rows, j \in Cols, t \in 0 .. k - 1 : Term(i, j, t)' = Term(i, j, t)
PROOF
<1>1. ASSUME NEW x \in Address, \A r \in Rows, s \in Cols : x # Cell(r, s)
      PROVE  mem'[x] = mem[x]
  <2>1. mem \in [Address -> Word]
    BY DEF MacTypeOK
  <2>2. acc.wr_c => acc.c_address # x
    BY <1>1 DEF OnlyElements, Ready
  <2> QED
    BY <2>1, <2>2 DEF Writes
<1>2. \A i \in Rows, t \in 0 .. k - 1 : mem'[BaseA + i * k + t] = mem[BaseA + i * k + t]
  BY <1>1, Places
<1>3. \A t \in 0 .. k - 1, j \in Cols : mem'[BaseB + t * n + j] = mem[BaseB + t * n + j]
  BY <1>1, Places
<1>4. \A i \in Rows, t \in 0 .. k - 1 : A(i, t)' = A(i, t)
  BY <1>2 DEF A
<1>5. \A t \in 0 .. k - 1, j \in Cols : B(t, j)' = B(t, j)
  BY <1>3 DEF B
<1>6. \A i \in Rows, j \in Cols, t \in 0 .. k - 1 : Term(i, j, t)' = Term(i, j, t)
  BY <1>2, <1>3 DEF Term
<1> QED
  BY <1>4, <1>5, <1>6

LEMMA SumsKept ==
    ASSUME MacTypeOK, Ordered, OnlyElements, Writes, m' = m, k' = k, n' = n
    PROVE  \A i \in Rows, j \in Cols :
              /\ \A x : Sum(i, j, x)' = Sum(i, j, x) /\ WordSum(i, j, x)' = WordSum(i, j, x)
              /\ Element(i, j)' = Element(i, j) /\ Cell(i, j)' = Cell(i, j)
PROOF
<1> SUFFICES ASSUME NEW i \in Rows, NEW j \in Cols
             PROVE  /\ \A x : /\ Sum(i, j, x)' = Sum(i, j, x)
                              /\ WordSum(i, j, x)' = WordSum(i, j, x)
                    /\ Element(i, j)' = Element(i, j) /\ Cell(i, j)' = Cell(i, j)
  OBVIOUS
<1>1. \A t \in 0 .. k - 1 : Term(i, j, t)' = Term(i, j, t)
  BY OperandsKept
<1>2. Terms(i, j)' = Terms(i, j)
  BY <1>1 DEF Terms
<1>3. Words(i, j)' = Words(i, j)
  BY <1>1 DEF Words
<1>4. \A x : SumOf(Terms(i, j), x)' = SumOf(Terms(i, j), x)
             /\ SumOf(Words(i, j), x)' = SumOf(Words(i, j), x)
  BY <1>2, <1>3 DEF SumOf
<1>5. Element(i, j)' = Element(i, j)
  BY <1>4 DEF Element, SumOf
<1> QED
  BY <1>4, <1>5 DEF Sum, WordSum, Cell

LEMMA DoneKept ==
    ASSUME MacTypeOK, Ordered, OnlyElements, Writes, m' = m, k' = k, n' = n,
           NEW i \in Rows, NEW j \in Cols, Done(i, j) \/ Ready(i, j)
    PROVE  Done(i, j)'
PROOF
<1>1. Cell(i, j) \in Address /\ mem \in [Address -> Word]
  BY Places DEF MacTypeOK
<1>2. Cell(i, j)' = Cell(i, j) /\ Element(i, j)' = Element(i, j)
  BY SumsKept
<1>3. mem'[Cell(i, j)] = Element(i, j)
  <2>1. CASE acc.wr_c /\ acc.c_address = Cell(i, j)
    <3>1. acc.result = Element(i, j)
      BY <2>1, Places DEF OnlyElements, Ready
    <3> QED
      BY <1>1, <2>1, <3>1 DEF Writes
  <2>2. CASE ~(acc.wr_c /\ acc.c_address = Cell(i, j))
    <3>1. mem'[Cell(i, j)] = mem[Cell(i, j)]
      BY <1>1, <2>2 DEF Writes
    <3> QED
      BY <2>2, <3>1 DEF Done, Ready
  <2> QED
    BY <2>1, <2>2
<1> QED
  BY <1>2, <1>3 DEF Done

-----------------------------------------------------------------------------
(* A clock edge.  With the outcome of the race a synthesis tool builds and *)
(* no clear_interrupt, as in the SoC.                                      *)

TiedOff == Race \subseteq {FALSE} /\ ClearInterrupt \subseteq {FALSE}

\* What the parts do at an edge of a run, apart from the controller.
Ticks ==
    /\ RegfileTick /\ PipeTick /\ AccumulatorTick /\ Writes
    /\ a_read_data' = mem[address(FALSE)]
    /\ m' = m /\ k' = k /\ n' = n

Walks == Controller!Tick(cfg.start, overflow_in, FALSE, m, k, n)

\* Any edge, whatever the outcome of the race and clear_interrupt.
LEMMA AnyEdge ==
    ASSUME MacTypeOK, Clock
    PROVE  /\ PipeTick /\ AccumulatorTick /\ Writes /\ program' = program
           /\ \E clear_interrupt \in BOOLEAN :
                Controller!Tick(cfg.start, overflow_in, clear_interrupt, m, k, n)
           /\ \E w \in Strobes : CfgTick(w) /\ step' = IF w = step THEN step + 1 ELSE step
PROOF
<1>1. PICK w \in Strobes, race \in Race, clear_interrupt \in ClearInterrupt :
          /\ CfgTick(w)
          /\ Controller!Tick(cfg.start, overflow_in, clear_interrupt, m, k, n)
          /\ PipeTick /\ AccumulatorTick /\ PortATick(race)
          /\ step' = (IF w = step THEN step + 1 ELSE step) /\ program' = program
  BY DEF Clock
<1>2. clear_interrupt \in BOOLEAN
  BY MacAssumption
<1> QED
  BY <1>1, <1>2 DEF PortATick, Writes

LEMMA ClockParts ==
    ASSUME TiedOff, MacTypeOK, Clock
    PROVE  Walks /\ RegfileTick /\ PipeTick /\ AccumulatorTick /\ Writes
           /\ a_read_data' = mem[address(FALSE)]
PROOF
<1>1. PICK w \in Strobes, race \in Race, clear_interrupt \in ClearInterrupt :
          /\ Controller!Tick(cfg.start, overflow_in, clear_interrupt, m, k, n)
          /\ RegfileTick /\ PortATick(race)
  BY DEF Clock
<1>2. race = FALSE /\ clear_interrupt = FALSE
  BY DEF TiedOff
<1> QED
  BY <1>1, <1>2, AnyEdge DEF Walks, PortATick

\* A run begins in idle with the start bit up and goes on until it is done or
\* has overflown.
LEMMA Goes ==
    ASSUME MacTypeOK, Clock
    PROVE  /\ cstate' # "idle" => cstate # "idle" \/ cfg.start
           /\ cstate' \notin {"idle", "done"} => cstate # "done"
PROOF
<1>1. PICK clear_interrupt \in BOOLEAN :
          Controller!Tick(cfg.start, overflow_in, clear_interrupt, m, k, n)
  BY AnyEdge
<1> QED
  BY <1>1 DEF Controller!Tick, Controller!Idle, Controller!Stopped, Controller!LoadA,
     Controller!LoadB, Controller!Clear, Controller!Padding

LEMMA ConfiguredKept ==
    ASSUME MacTypeOK, Configured, Clock
    PROVE  /\ Configured'
           /\ step = 5 => /\ cfg'.a = cfg.a /\ cfg'.b = cfg.b /\ cfg'.c = cfg.c
                          /\ m' = m /\ k' = k /\ n' = n
           /\ cstate \notin {"idle", "done"} => cfg'.start
PROOF
<1>1. PICK w \in Strobes : CfgTick(w) /\ step' = IF w = step THEN step + 1 ELSE step
  BY AnyEdge
<1>2. /\ w \in -1..4 /\ w <= step /\ step \in 0..5 /\ program' = program
  BY <1>1, WrittenFields, AnyEdge DEF MacTypeOK
<1>3. step - 1 <= w \/ w = -1
  BY <1>2 DEF Strobes
<1>4. /\ cfg'.a = IF w = 0 THEN BaseA ELSE cfg.a
      /\ cfg'.b = IF w = 1 THEN BaseB ELSE cfg.b
      /\ cfg'.c = IF w = 2 THEN BaseC ELSE cfg.c
      /\ cfg'.m = IF w = 3 THEN program.m ELSE cfg.m
      /\ cfg'.k = IF w = 3 THEN program.k ELSE cfg.k
      /\ cfg'.n = IF w = 3 THEN program.n ELSE cfg.n
      /\ cfg'.start <=> (w = 4 \/ cfg.start) /\ cstate # "done"
  BY <1>1, CfgFields
<1>5. step' \in 0..5 /\ step <= step' /\ w < step' /\ step' <= step + 1
      /\ (step' = step + 1 => w = step)
  BY <1>1, <1>2
<1>6. /\ cfg'.a = (IF step' > 0 THEN BaseA ELSE 0)
      /\ cfg'.b = (IF step' > 1 THEN BaseB ELSE 0)
      /\ cfg'.c = (IF step' > 2 THEN BaseC ELSE 0)
      /\ step' > 3 => cfg'.m = program.m /\ cfg'.k = program.k /\ cfg'.n = program.n
  <2>1. /\ cfg.a = (IF step > 0 THEN BaseA ELSE 0)
        /\ cfg.b = (IF step > 1 THEN BaseB ELSE 0)
        /\ cfg.c = (IF step > 2 THEN BaseC ELSE 0)
        /\ step > 3 => cfg.m = program.m /\ cfg.k = program.k /\ cfg.n = program.n
    BY DEF Configured
  <2>2. CASE step' = step
    BY <1>2, <1>4, <1>5, <2>1, <2>2
  <2>3. CASE step' = step + 1
    BY <1>2, <1>4, <1>5, <2>1, <2>3
  <2> QED
    BY <1>2, <1>5, <2>2, <2>3
<1>7. cfg'.start => step' = 5
  BY <1>2, <1>4, <1>5 DEF Configured
<1>8. cstate' # "idle" => step' = 5
  BY <1>2, <1>5, Goes DEF Configured
<1>9. cstate \notin {"idle", "done"} => cfg'.start
  BY <1>4 DEF Configured
<1>10. cstate' \notin {"idle", "done"} => cfg'.start
  BY <1>2, <1>4, <1>9, Goes DEF Configured
<1>11. Configured'
  BY <1>2, <1>6, <1>7, <1>8, <1>10 DEF Configured
<1>12. ASSUME step = 5
       PROVE  /\ cfg'.a = cfg.a /\ cfg'.b = cfg.b /\ cfg'.c = cfg.c
              /\ m' = m /\ k' = k /\ n' = n
  <2>1. cfg'.m = cfg.m /\ cfg'.k = cfg.k /\ cfg'.n = cfg.n
        /\ cfg'.a = cfg.a /\ cfg'.b = cfg.b /\ cfg'.c = cfg.c
    BY <1>2, <1>4, <1>5, <1>6, <1>12 DEF Configured
  <2> QED
    BY <2>1 DEF m, k, n
<1> QED
  BY <1>9, <1>11, <1>12

LEMMA ConfiguredStep ==
    ASSUME TiedOff, SoundPrograms, MacTypeOK, Configured, Clock
    PROVE  /\ Configured'
           /\ step = 5 => Ordered /\ Ticks /\ Ordered'
           /\ cstate \notin {"idle", "done"} => cfg'.start
PROOF
<1>1. ASSUME step = 5 PROVE Ordered /\ Ticks /\ Ordered'
  <2>1. Ordered
    BY <1>1, ShapeOrdered
  <2>2. /\ m' = m /\ k' = k /\ n' = n
        /\ cfg'.a = cfg.a /\ cfg'.b = cfg.b /\ cfg'.c = cfg.c
    BY <1>1, ConfiguredKept
  <2> QED
    BY <2>1, <2>2, ClockParts DEF Ordered, Ticks, Sound, Area
<1> QED
  BY <1>1, ConfiguredKept

LEMMA LastPlace ==
    ASSUME MacTypeOK, Ordered, m_index < m, n_index < n
    PROVE  /\ LastRow \in Rows /\ LastCol \in Cols
           /\ m_index \in Rows /\ n_index \in Cols
  BY IndexTypes DEF Ordered, LastRow, LastCol, Rows, Cols

\* An edge of a run, with what is always true of it.
Edge ==
    /\ MacTypeOK /\ Ordered /\ Ticks /\ OnlyElements
    /\ m_index < m /\ n_index < n

LEMMA EdgeTypes ==
    ASSUME Edge
    PROVE  /\ m \in 1..7 /\ k \in 1..7 /\ n \in 1..7 /\ k - 1 \in 0 .. k - 1
           /\ m_index \in Rows /\ n_index \in Cols /\ LastRow \in Rows /\ LastCol \in Cols
           /\ m_index \in 0..6 /\ n_index \in 0..6
           /\ k_index_a \in 0..15 /\ k_index_b \in 0..15
           /\ m' = m /\ k' = k /\ n' = n
           /\ data_a \in Word /\ data_b \in Word /\ a_read_data \in Word /\ acc.result \in Word
PROOF
<1>1. m \in 1..7 /\ k \in 1..7 /\ n \in 1..7 /\ m' = m /\ k' = k /\ n' = n
  BY DEF Edge, Ordered, Ticks
<1>2. LastRow \in Rows /\ LastCol \in Cols /\ m_index \in Rows /\ n_index \in Cols
  BY LastPlace DEF Edge
<1>3. data_a \in Word /\ data_b \in Word /\ a_read_data \in Word /\ acc.result \in Word
  BY DEF Edge, MacTypeOK
<1> QED
  BY <1>1, <1>2, <1>3, IndexTypes DEF Edge, Rows, Cols

\* What the edge leaves as it was.
LEMMA EdgeKeeps ==
    ASSUME Edge
    PROVE  /\ \A i \in Rows, t \in 0 .. k - 1 : A(i, t)' = A(i, t)
           /\ \A t \in 0 .. k - 1, j \in Cols : B(t, j)' = B(t, j)
           /\ \A i \in Rows, j \in Cols :
                /\ \A x : Sum(i, j, x)' = Sum(i, j, x)
                /\ Element(i, j)' = Element(i, j) /\ Cell(i, j)' = Cell(i, j)
           /\ \A i \in Rows, j \in Cols : Done(i, j) \/ Ready(i, j) => Done(i, j)'
  BY OperandsKept, SumsKept, DoneKept DEF Edge, Ticks

\* The pipeline moves at every edge, the accumulator when it is enabled.
LEMMA PipeMoves ==
    ASSUME Edge
    PROVE  /\ pipe'.clear = pipe.clear_temp2 /\ pipe'.clear_temp2 = pipe.clear_temp
           /\ pipe'.clear_temp = (cstate = "clear")
           /\ Controller!en => /\ pipe'.wr_c = wr_en_c
                               /\ pipe'.c_address = Cell(m_index, n_index)
           /\ ~Controller!en => pipe'.wr_c = pipe.wr_c /\ pipe'.c_address = pipe.c_address
           /\ pipe.clear => acc'.result = 0 /\ ~acc'.wr_c /\ ~acc'.overflow
           /\ ~pipe.clear /\ Controller!en =>
                /\ acc'.result = temp % WordRange /\ (acc'.overflow <=> temp >= WordRange)
                /\ acc'.c_address = pipe.c_address /\ acc'.wr_c = pipe.wr_c
           /\ ~pipe.clear /\ ~Controller!en => acc' = acc
PROOF
<1>1. PipeTick /\ AccumulatorTick
  BY DEF Edge, Ticks
<1>2. Controller!c_address(n, cfg.c) % MemWords = Cell(m_index, n_index)
  BY Reads DEF Edge
<1> QED
  BY <1>1, <1>2 DEF PipeTick, AccumulatorTick, AccReset, Controller!clear_in

LEMMA Loads ==
    ASSUME Edge
    PROVE  /\ wr_en_a => data_a' = a_read_data /\ data_b' = data_b
           /\ ~wr_en_a /\ wr_en_b => data_a' = data_a /\ data_b' = a_read_data
           /\ ~wr_en_a /\ ~wr_en_b => data_a' = data_a /\ data_b' = data_b
           /\ cstate = "load_a" /\ k_index_a < k => a_read_data' = A(m_index, k_index_a)
           /\ cstate = "load_b" /\ k_index_b < k => a_read_data' = B(k_index_b, n_index)
  BY Reads DEF Edge, Ticks, RegfileTick

\* The element that waits is summed up and written after the next enabled edge.
LEMMA WaitingSummed ==
    ASSUME Edge, Waiting, ~pipe.clear, Controller!en
    PROVE  /\ acc'.wr_c /\ acc'.c_address = Cell(LastRow, LastCol)
           /\ acc'.result = Element(LastRow, LastCol)
PROOF
<1>1. temp % WordRange = Element(LastRow, LastCol)
  BY EdgeTypes, Accumulates DEF Edge, Waiting, Partial
<1> QED
  BY <1>1, PipeMoves DEF Waiting

LEMMA ProductOfZeros == ASSUME data_a = 0, data_b = 0 PROVE product = 0
  BY Widths DEF product, Signed

\* What is enabled in load_b: the pair before is added to its sum, and the pair
\* at hand is on its way to the multiplier.
LEMMA LoadBData ==
    ASSUME Edge, Stage, cstate = "load_b"
    PROVE  /\ k_index_b \in 0 .. k - 1
           /\ k_index_a = (IF k_index_b = k - 1 THEN 0 ELSE k_index_b + 1)
           /\ data_a' = A(m_index, k_index_b) /\ a_read_data' = B(k_index_b, n_index)
           /\ pipe'.wr_c = (k_index_b = k - 1) /\ pipe'.c_address = Cell(m_index, n_index)
           /\ ~pipe'.clear_temp /\ ~pipe'.clear_temp2
           /\ IF pipe'.clear THEN k_index_b = 0
              ELSE ~acc'.wr_c /\ acc'.result = Sum(m_index, n_index, k_index_b) % WordRange
PROOF
<1>1. k_index_b \in 0 .. k - 1
  BY EdgeTypes DEF Stage
<1>2. Controller!en /\ cstate # "clear"
  BY DEF Controller!en
<1>3. CASE k_index_b = 0
  <2>1. FirstLoadB
    BY <1>3 DEF Stage
  <2>2. /\ k_index_a = (IF k = 1 THEN 0 ELSE 1) /\ wr_en_a /\ wr_en_c = (k = 1)
        /\ a_read_data = A(m_index, 0)
    BY <2>1 DEF FirstLoadB, Enables
  <2>3. ~pipe.clear_temp /\ ~pipe.clear
    BY <2>1 DEF FirstLoadB, Behind, Fresh, Clears
  <2>4. ~pipe'.clear => ~acc'.wr_c /\ acc'.result = Sum(m_index, n_index, 0) % WordRange
    <3>1. SUFFICES ASSUME ~pipe'.clear
                   PROVE  ~acc'.wr_c /\ acc'.result = Sum(m_index, n_index, 0) % WordRange
      OBVIOUS
    <3>2. Fresh
      BY <2>1, <3>1, PipeMoves DEF FirstLoadB, Behind, Clears
    <3>3. temp = 0
      BY <3>2, ProductOfZeros, Widths DEF Fresh, temp
    <3>4. Sum(m_index, n_index, 0) = 0
      BY EdgeTypes, Sums DEF Edge
    <3> QED
      BY <1>2, <2>3, <3>2, <3>3, <3>4, PipeMoves DEF Fresh
  <2>5. data_a' = A(m_index, 0) /\ a_read_data' = B(0, n_index)
    BY <1>1, <1>3, <2>2, EdgeTypes, Loads
  <2>6. k = 1 <=> k_index_b = k - 1
    BY <1>3, EdgeTypes
  <2>7. k_index_a = (IF k_index_b = k - 1 THEN 0 ELSE k_index_b + 1)
    BY <1>3, <2>2, <2>6
  <2>8. /\ pipe'.wr_c = (k_index_b = k - 1) /\ pipe'.c_address = Cell(m_index, n_index)
        /\ ~pipe'.clear_temp /\ ~pipe'.clear_temp2
    BY <1>2, <2>2, <2>3, <2>6, PipeMoves
  <2> QED
    BY <1>1, <1>3, <2>4, <2>5, <2>7, <2>8
<1>4. CASE k_index_b # 0
  <2>1. NextLoadB
    BY <1>4 DEF Stage
  <2>2. /\ k_index_a = (IF k_index_b = k - 1 THEN 0 ELSE k_index_b + 1)
        /\ wr_en_a /\ wr_en_c = (k_index_b = k - 1)
        /\ data_a = A(m_index, k_index_b - 1) /\ data_b = B(k_index_b - 1, n_index)
        /\ a_read_data = A(m_index, k_index_b)
        /\ ~pipe.wr_c /\ ~pipe.clear_temp /\ ~pipe.clear_temp2 /\ ~pipe.clear
        /\ acc.result = Sum(m_index, n_index, k_index_b - 1) % WordRange
    BY <2>1 DEF NextLoadB, Enables, Clears, Partial
  <2>3. k_index_b - 1 \in 0 .. k - 1 /\ (k_index_b - 1) + 1 = k_index_b
    BY <1>1, <1>4, EdgeTypes
  <2>4. temp % WordRange = Sum(m_index, n_index, k_index_b) % WordRange
    BY <2>2, <2>3, EdgeTypes, Accumulates DEF Edge
  <2>5. data_a' = A(m_index, k_index_b) /\ a_read_data' = B(k_index_b, n_index)
    BY <1>1, <2>2, EdgeTypes, Loads
  <2> QED
    BY <1>1, <1>2, <2>2, <2>4, <2>5, PipeMoves
<1> QED
  BY <1>3, <1>4

-----------------------------------------------------------------------------
(* The stages, one lemma for each state of the controller.                 *)

\* Only the index, the sum and the flags of the element that waits matter.
LEMMA WaitingStays ==
    ASSUME Edge, Waiting, ~Controller!en, ~pipe.clear, ~wr_en_a, ~wr_en_b,
           m_index' = m_index, n_index' = n_index
    PROVE  Waiting'
PROOF
<1>1. PICK i \in Rows, j \in Cols, t \in 0 .. k - 1 : i = LastRow /\ j = LastCol /\ t = k - 1
  BY EdgeTypes
<1>2. LastRow' = i /\ LastCol' = j /\ k' - 1 = t /\ k' = k
  BY <1>1, EdgeTypes DEF LastRow, LastCol
<1>3. /\ A(i, t)' = A(i, t) /\ B(t, j)' = B(t, j)
      /\ Cell(i, j)' = Cell(i, j) /\ Sum(i, j, t)' = Sum(i, j, t)
  BY EdgeKeeps
<1>4. /\ pipe'.wr_c = pipe.wr_c /\ pipe'.c_address = pipe.c_address /\ acc' = acc
      /\ data_a' = data_a /\ data_b' = data_b
  BY PipeMoves, Loads
<1> QED
  BY <1>1, <1>2, <1>3, <1>4 DEF Waiting, Partial

LEMMA LoadAStep ==
    ASSUME Edge, Stage, Controller!LoadA(overflow_in, k)
    PROVE  Stage' /\ m_index' < m' /\ n_index' < n'
PROOF
<1>1. /\ cstate = "load_a" /\ cstate' = (IF overflow_in THEN "overflow" ELSE "load_b")
      /\ wr_en_a' = TRUE /\ wr_en_b' = FALSE /\ wr_en_c' = (k_index_a = k - 1)
      /\ k_index_a' = (IF k_index_a = k - 1 THEN 0 ELSE (k_index_a + 1) % 16)
      /\ padding_counter' = padding_counter /\ k_index_b' = k_index_b
      /\ m_index' = m_index /\ n_index' = n_index
  BY DEF Controller!LoadA, Controller!Last, Controller!Step
<1>2. m_index' < m' /\ n_index' < n'
  BY <1>1 DEF Edge, Ticks
<1>3. ~Controller!en /\ cstate # "clear"
  BY <1>1 DEF Controller!en
<1>4. padding_counter = 0 /\ k_index_b < k /\ k_index_b \in 0 .. k - 1
  BY <1>1, EdgeTypes DEF Stage
<1>5. CASE k_index_b = 0
  <2>1. k_index_a = 0 /\ ~wr_en_a /\ ~wr_en_b /\ Behind(TRUE, FALSE)
    BY <1>1, <1>5 DEF Stage, FirstLoadA, Enables
  <2>2. k_index_a' = (IF k' = 1 THEN 0 ELSE 1) /\ wr_en_c' = (k' = 1)
    BY <1>1, <2>1, EdgeTypes
  <2>3. a_read_data' = A(m_index, 0)'
    BY <1>1, <2>1, EdgeTypes, EdgeKeeps, Loads
  <2>4. Behind(FALSE, TRUE)'
    <3>1. CASE Fresh
      <4>1. /\ data_a' = 0 /\ data_b' = 0 /\ ~pipe'.wr_c /\ acc'.result = 0 /\ ~acc'.wr_c
            /\ ~pipe'.clear_temp /\ ~pipe'.clear_temp2 /\ ~pipe'.clear
        BY <1>3, <2>1, <3>1, PipeMoves, Loads DEF Fresh, Clears
      <4> QED
        BY <1>1, <3>1, <4>1 DEF Behind, Fresh, AtStart, Clears
    <3>2. CASE ~AtStart /\ Waiting /\ Clears(TRUE, FALSE, FALSE)
      <4>1. Waiting'
        BY <1>1, <1>3, <2>1, <3>2, WaitingStays DEF Clears
      <4>2. ~pipe'.clear_temp /\ pipe'.clear_temp2 /\ ~pipe'.clear
        BY <1>3, <3>2, PipeMoves DEF Clears
      <4> QED
        BY <1>1, <3>2, <4>1, <4>2 DEF Behind, AtStart, Clears
    <3> QED
      BY <2>1, <3>1, <3>2 DEF Behind
  <2>5. FirstLoadB'
    BY <1>1, <2>2, <2>3, <2>4 DEF FirstLoadB, Enables
  <2> QED
    BY <1>1, <1>2, <1>4, <1>5, <2>5, EdgeTypes DEF Stage
<1>6. CASE k_index_b # 0
  <2> DEFINE t == k_index_b
  <2>1. NextLoadA
    BY <1>1, <1>6 DEF Stage
  <2>2. /\ k_index_a = t /\ ~wr_en_a /\ wr_en_b
        /\ data_a = A(m_index, t - 1) /\ a_read_data = B(t - 1, n_index)
        /\ ~pipe.wr_c /\ ~pipe.clear_temp /\ ~pipe.clear_temp2
        /\ IF pipe.clear THEN t - 1 = 0
           ELSE ~acc.wr_c /\ acc.result = Sum(m_index, n_index, t - 1) % WordRange
    BY <2>1 DEF NextLoadA, Enables, Summed, Partial
  <2>3. t - 1 \in 0 .. k - 1 /\ t \in 0 .. k - 1 /\ (t + 1) % 16 = t + 1
    BY <1>4, <1>6, EdgeTypes
  <2>4. /\ A(m_index, t - 1)' = A(m_index, t - 1) /\ A(m_index, t)' = A(m_index, t)
        /\ B(t - 1, n_index)' = B(t - 1, n_index)
        /\ Sum(m_index, n_index, t - 1)' = Sum(m_index, n_index, t - 1)
    BY <1>1, <2>3, EdgeTypes, EdgeKeeps
  <2>5. k_index_a' = (IF t' = k' - 1 THEN 0 ELSE t' + 1) /\ wr_en_c' = (t' = k' - 1)
    BY <1>1, <2>2, <2>3, EdgeTypes
  <2>6. data_a' = A(m_index, t - 1)' /\ data_b' = B(t - 1, n_index)' /\ a_read_data' = A(m_index, t)'
    BY <1>1, <1>4, <2>2, <2>4, Loads
  <2>7. ~pipe'.wr_c /\ ~pipe'.clear_temp /\ ~pipe'.clear_temp2 /\ ~pipe'.clear
    BY <1>3, <2>2, PipeMoves
  <2>8. ~acc'.wr_c /\ acc'.result = Sum(m_index, n_index, t - 1) % WordRange
    <3>1. CASE pipe.clear
      <4>1. Sum(m_index, n_index, 0) = 0
        BY EdgeTypes, Sums DEF Edge
      <4>2. 0 % WordRange = 0
        BY Widths
      <4>3. t - 1 = 0
        BY <2>2, <3>1
      <4> QED
        BY <3>1, <4>1, <4>2, <4>3, PipeMoves
    <3>2. CASE ~pipe.clear
      BY <1>3, <2>2, <3>2, PipeMoves
    <3> QED
      BY <3>1, <3>2
  <2>9. NextLoadB'
    BY <1>1, <2>4, <2>5, <2>6, <2>7, <2>8 DEF NextLoadB, Enables, Clears, Partial
  <2> QED
    BY <1>1, <1>2, <1>4, <1>6, <2>9, EdgeTypes DEF Stage
<1> QED
  BY <1>5, <1>6

\* The indices after the last pair of an element: the element just read is the
\* last one.
LEMMA IndicesAdvance ==
    ASSUME Edge, Controller!LoadB(overflow_in, m, k, n)
    PROVE  /\ m_index' < m' /\ n_index' < n'
           /\ k_index_b # k - 1 => m_index' = m_index /\ n_index' = n_index
           /\ k_index_b = k - 1 =>
                /\ LastRow' = m_index /\ LastCol' = n_index
                /\ \/ n_index' = n_index + 1 /\ m_index' = m_index
                   \/ n_index = n - 1 /\ n_index' = 0 /\ m_index' = m_index + 1
                   \/ n_index = n - 1 /\ m_index = m - 1 /\ AtStart'
PROOF
<1>1. /\ m \in 1..7 /\ n \in 1..7 /\ m_index \in 0..6 /\ n_index \in 0..6
      /\ m' = m /\ n' = n /\ m_index < m /\ n_index < n
  BY EdgeTypes DEF Edge
<1>2. (m_index + 1) % 16 = m_index + 1 /\ (n_index + 1) % 16 = n_index + 1
  BY <1>1
<1>3. /\ n_index' = IF k_index_b = k - 1
                    THEN IF n_index = n - 1 THEN 0 ELSE n_index + 1 ELSE n_index
      /\ m_index' = IF k_index_b = k - 1 /\ n_index = n - 1
                    THEN IF m_index = m - 1 THEN 0 ELSE m_index + 1 ELSE m_index
  BY <1>2 DEF Controller!LoadB, Controller!Last, Controller!Step
<1>4. CASE k_index_b # k - 1
  BY <1>1, <1>3, <1>4
<1>5. CASE k_index_b = k - 1 /\ n_index # n - 1
  BY <1>1, <1>3, <1>5 DEF LastRow, LastCol
<1>6. CASE k_index_b = k - 1 /\ n_index = n - 1 /\ m_index # m - 1
  BY <1>1, <1>3, <1>6 DEF LastRow, LastCol
<1>7. CASE k_index_b = k - 1 /\ n_index = n - 1 /\ m_index = m - 1
  BY <1>1, <1>3, <1>7 DEF LastRow, LastCol, AtStart
<1> QED
  BY <1>4, <1>5, <1>6, <1>7

LEMMA LoadBStep ==
    ASSUME Edge, Stage, Controller!LoadB(overflow_in, m, k, n)
    PROVE  Stage' /\ m_index' < m' /\ n_index' < n'
PROOF
<1>1. /\ cstate = "load_b"
      /\ cstate' = (IF overflow_in THEN "overflow"
                    ELSE IF k_index_b = k - 1 THEN "clear" ELSE "load_a")
      /\ wr_en_a' = FALSE /\ wr_en_b' = TRUE /\ wr_en_c' = FALSE
      /\ k_index_b' = (IF k_index_b = k - 1 THEN 0 ELSE (k_index_b + 1) % 16)
      /\ padding_counter' = padding_counter /\ k_index_a' = k_index_a
  BY DEF Controller!LoadB, Controller!Last, Controller!Step
<1>2. padding_counter = 0
  BY <1>1 DEF Stage
<1>3. PICK i \in Rows, j \in Cols, t \in 0 .. k - 1 : i = m_index /\ j = n_index /\ t = k_index_b
  BY <1>1, EdgeTypes, LoadBData
<1>4. /\ k_index_a' = (IF t = k - 1 THEN 0 ELSE t + 1)
      /\ data_a' = A(i, t) /\ a_read_data' = B(t, j)
      /\ pipe'.wr_c = (t = k - 1) /\ pipe'.c_address = Cell(i, j)
      /\ ~pipe'.clear_temp /\ ~pipe'.clear_temp2
      /\ IF pipe'.clear THEN t = 0 ELSE ~acc'.wr_c /\ acc'.result = Sum(i, j, t) % WordRange
  BY <1>1, <1>3, LoadBData
<1>5. /\ A(i, t)' = A(i, t) /\ B(t, j)' = B(t, j)
      /\ Cell(i, j)' = Cell(i, j) /\ Sum(i, j, t)' = Sum(i, j, t)
  BY EdgeKeeps
<1>6. k' = k /\ k \in 1..7 /\ m' = m /\ n' = n
  BY EdgeTypes
<1>7. m_index' < m' /\ n_index' < n'
  BY IndicesAdvance
<1>8. CASE overflow_in
  BY <1>1, <1>7, <1>8 DEF Stage
<1>9. CASE ~overflow_in /\ t # k - 1
  <2>1. m_index' = i /\ n_index' = j
    BY <1>3, <1>9, IndicesAdvance
  <2>2. cstate' = "load_a" /\ k_index_b' = t + 1 /\ k_index_b' # 0 /\ k_index_b' < k'
        /\ k_index_b' - 1 = t
    BY <1>1, <1>3, <1>6, <1>9
  <2>3. k_index_a' = k_index_b' /\ ~pipe'.wr_c
    BY <1>4, <1>9, <2>2
  <2>4. Summed(m_index, n_index, k_index_b - 1)'
    BY <1>4, <1>5, <2>1, <2>2 DEF Summed, Partial
  <2>5. NextLoadA'
    BY <1>1, <1>4, <1>5, <2>1, <2>2, <2>3, <2>4 DEF NextLoadA, Enables
  <2> QED
    BY <1>1, <1>2, <1>7, <2>2, <2>5 DEF Stage
<1>10. CASE ~overflow_in /\ t = k - 1
  <2>1. LastRow' = i /\ LastCol' = j /\ k' - 1 = t
    BY <1>3, <1>6, <1>10, IndicesAdvance
  <2>2. cstate' = "clear" /\ k_index_b' = 0 /\ k_index_a' = 0 /\ pipe'.wr_c
    BY <1>1, <1>3, <1>4, <1>10
  <2>3. Summed(LastRow, LastCol, k - 1)'
    BY <1>4, <1>5, <2>1 DEF Summed, Partial
  <2>4. InClear'
    BY <1>1, <1>4, <1>5, <2>1, <2>2, <2>3 DEF InClear, Enables
  <2> QED
    BY <1>1, <1>2, <1>7, <2>2, <2>4 DEF Stage
<1> QED
  BY <1>8, <1>9, <1>10

LEMMA FlagTypes ==
    ASSUME Edge
    PROVE  /\ pipe'.clear_temp \in BOOLEAN /\ pipe'.clear_temp2 \in BOOLEAN /\ pipe'.clear \in BOOLEAN
           /\ wr_en_a \in BOOLEAN /\ wr_en_b \in BOOLEAN /\ wr_en_c \in BOOLEAN
  BY IndexTypes, PipeMoves DEF Edge, MacTypeOK

LEMMA ClearStep ==
    ASSUME Edge, Stage, Controller!Clear
    PROVE  Stage' /\ m_index' < m' /\ n_index' < n'
PROOF
<1>1. /\ cstate = "clear" /\ InClear
      /\ cstate' = (IF n_index = 0 /\ m_index = 0 /\ k_index_b = 0 THEN "padding" ELSE "load_a")
      /\ wr_en_b' = FALSE /\ wr_en_a' = wr_en_a /\ wr_en_c' = wr_en_c
      /\ padding_counter' = padding_counter /\ k_index_a' = k_index_a /\ k_index_b' = k_index_b
      /\ m_index' = m_index /\ n_index' = n_index
  BY DEF Controller!Clear, Stage
<1>2. padding_counter = 0 /\ ~Controller!en
  BY <1>1 DEF Stage, Controller!en
<1>3. PICK i \in Rows, j \in Cols, t \in 0 .. k - 1 : i = LastRow /\ j = LastCol /\ t = k - 1
  BY EdgeTypes
<1>4. LastRow' = i /\ LastCol' = j /\ k' - 1 = t /\ k' = k /\ m_index' < m' /\ n_index' < n'
      /\ k \in 1..7
  BY <1>1, <1>3, EdgeTypes DEF LastRow, LastCol, Edge
<1>5. /\ A(i, t)' = A(i, t) /\ B(t, j)' = B(t, j)
      /\ Cell(i, j)' = Cell(i, j) /\ Sum(i, j, t)' = Sum(i, j, t)
  BY EdgeKeeps
<1>6. /\ k_index_a = 0 /\ k_index_b = 0 /\ ~wr_en_a /\ wr_en_b /\ ~wr_en_c
      /\ data_a = A(i, t) /\ a_read_data = B(t, j)
      /\ pipe.wr_c /\ pipe.c_address = Cell(i, j) /\ ~pipe.clear_temp /\ ~pipe.clear_temp2
      /\ IF pipe.clear THEN t = 0 ELSE ~acc.wr_c /\ acc.result = Sum(i, j, t) % WordRange
  BY <1>1, <1>3 DEF InClear, Enables, Summed, Partial
<1>7. data_a' = A(i, t) /\ data_b' = B(t, j)
  BY <1>6, Loads
<1>8. /\ pipe'.wr_c /\ pipe'.c_address = Cell(i, j)
      /\ pipe'.clear_temp /\ ~pipe'.clear_temp2 /\ ~pipe'.clear
  BY <1>1, <1>2, <1>6, PipeMoves
<1>9. ~acc'.wr_c /\ acc'.result = Sum(i, j, t) % WordRange
  <2>1. CASE pipe.clear
    <3>1. Sum(i, j, 0) = 0 /\ 0 % WordRange = 0
      BY Sums, Widths DEF Edge
    <3> QED
      BY <1>6, <2>1, <3>1, PipeMoves
  <2>2. CASE ~pipe.clear
    BY <1>2, <1>6, <2>2, PipeMoves
  <2> QED
    BY <2>1, <2>2
<1>10. Waiting'
  BY <1>4, <1>5, <1>7, <1>8, <1>9 DEF Waiting, Partial
<1>11. Clears(TRUE, FALSE, FALSE)' /\ Enables(FALSE, FALSE, FALSE)'
  BY <1>1, <1>6, <1>8, FlagTypes DEF Clears, Enables
<1>12. CASE AtStart
  <2>1. cstate' = "padding" /\ AtStart'
    BY <1>1, <1>6, <1>12 DEF AtStart
  <2>2. InPadding'
    BY <1>1, <1>2, <1>6, <1>8, <1>10, <1>11, <2>1 DEF InPadding
  <2> QED
    BY <1>4, <2>1, <2>2 DEF Stage
<1>13. CASE ~AtStart
  <2>1. cstate' = "load_a" /\ ~AtStart'
    BY <1>1, <1>13 DEF AtStart
  <2>2. FirstLoadA'
    BY <1>1, <1>6, <1>10, <1>11, <2>1 DEF FirstLoadA, Behind
  <2> QED
    BY <1>1, <1>2, <1>4, <1>6, <2>1, <2>2 DEF Stage
<1> QED
  BY <1>12, <1>13

\* While it is drained an element is in the pipeline for two cycles.
LEMMA Drains ==
    ASSUME Edge, Stage, cstate = "padding", pipe.wr_c
    PROVE  /\ Waiting /\ ~pipe.clear
           /\ \/ /\ padding_counter = 0 /\ ~Controller!en
                 /\ pipe.clear_temp /\ ~pipe.clear_temp2
              \/ padding_counter = 1 /\ Controller!en
PROOF
<1>1. InPadding
  BY DEF Stage
<1>2. /\ Waiting
      /\ \/ padding_counter = 0 /\ Clears(TRUE, FALSE, FALSE)
         \/ padding_counter = 1 /\ Clears(FALSE, TRUE, FALSE)
  BY <1>1, Zenon DEF InPadding
<1>3. padding_counter = 0 => ~Controller!en
  BY DEF Controller!en
<1>4. padding_counter = 1 => Controller!en
  BY DEF Controller!en
<1> QED
  BY <1>2, <1>3, <1>4 DEF Clears

LEMMA PaddingStep ==
    ASSUME Edge, Stage, Controller!Padding(k)
    PROVE  Stage' /\ m_index' < m' /\ n_index' < n'
PROOF
<1>1. /\ cstate = "padding" /\ InPadding
      /\ cstate' = (IF padding_counter = k THEN "done" ELSE "padding")
      /\ padding_counter' = (padding_counter + 1) % 4
      /\ wr_en_b' = wr_en_b /\ wr_en_a' = wr_en_a /\ wr_en_c' = wr_en_c
      /\ k_index_a' = k_index_a /\ k_index_b' = k_index_b
      /\ m_index' = m_index /\ n_index' = n_index
  BY DEF Controller!Padding, Stage
<1>2. m_index' < m' /\ n_index' < n' /\ k \in 1..7
  BY <1>1, EdgeTypes DEF Edge
<1>3. /\ AtStart /\ k_index_a = 0 /\ k_index_b = 0 /\ ~wr_en_a /\ ~wr_en_b /\ ~wr_en_c
      /\ Enables(FALSE, FALSE, FALSE)
  BY <1>1 DEF InPadding, Enables
<1>4. AtStart' /\ k_index_a' = 0 /\ k_index_b' = 0 /\ Enables(FALSE, FALSE, FALSE)'
  BY <1>1, <1>3 DEF AtStart, Enables
<1>5. CASE pipe.wr_c /\ padding_counter = 0
  <2>1. Waiting /\ ~pipe.clear /\ pipe.clear_temp /\ ~pipe.clear_temp2
    BY <1>1, <1>5, Drains
  <2>2. ~Controller!en /\ cstate' = "padding" /\ padding_counter' = 1
    BY <1>1, <1>2, <1>5 DEF Controller!en
  <2>3. Waiting'
    BY <1>1, <1>3, <2>1, <2>2, WaitingStays
  <2>4. Clears(FALSE, TRUE, FALSE)'
    BY <1>1, <2>1, FlagTypes, PipeMoves DEF Clears
  <2>5. InPadding'
    BY <1>4, <2>2, <2>3, <2>4 DEF InPadding, Waiting
  <2> QED
    BY <1>2, <2>2, <2>5 DEF Stage
<1>6. CASE ~(pipe.wr_c /\ padding_counter = 0)
  <2>1. pipe.wr_c => Controller!en
    BY <1>1, <1>6, Drains
  <2>2. ~pipe'.wr_c
    BY <1>3, <2>1, PipeMoves
  <2>3. InPadding'
    BY <1>4, <2>2 DEF InPadding
  <2> QED
    BY <1>1, <1>2, <1>4, <2>3 DEF Stage
<1> QED
  BY <1>5, <1>6

LEMMA StoppedStep ==
    ASSUME Edge, Stage, Controller!Stopped(cfg.start, FALSE)
    PROVE  Stage' /\ m_index' < m' /\ n_index' < n'
PROOF
<1>1. /\ cstate \in {"done", "overflow"} /\ cstate' = cstate
      /\ m_index' = 0 /\ n_index' = 0
  BY DEF Controller!Stopped, Controller!Cleared
<1>2. m_index' < m' /\ n_index' < n'
  BY <1>1, EdgeTypes
<1> QED
  BY <1>1, <1>2 DEF Stage, AtStart

LEMMA StageStep ==
    ASSUME Edge, Stage, Walks, cstate # "idle"
    PROVE  Stage' /\ m_index' < m' /\ n_index' < n'
PROOF
<1>1. \/ Controller!Stopped(cfg.start, FALSE)
      \/ Controller!LoadA(overflow_in, k)
      \/ Controller!LoadB(overflow_in, m, k, n)
      \/ Controller!Clear
      \/ Controller!Padding(k)
  BY DEF Walks, Controller!Tick, Controller!Idle
<1> QED
  BY <1>1, StoppedStep, LoadAStep, LoadBStep, ClearStep, PaddingStep

\* Before the edges that are enabled, an element in the pipeline has all but
\* its last term.
LEMMA InPipeline ==
    ASSUME Edge, Stage, Walks, cstate # "idle", pipe.wr_c, Controller!en
    PROVE  ~pipe.clear /\ Waiting
PROOF
<1>1. cstate \in {"load_b", "padding"}
  BY DEF Controller!en
<1>2. CASE cstate = "load_b"
  <2>1. k_index_b = 0 /\ FirstLoadB
    BY <1>2 DEF Stage, NextLoadB
  <2> QED
    BY <2>1 DEF FirstLoadB, Behind, Fresh, Clears
<1>3. CASE cstate = "padding"
  BY <1>3, Drains
<1> QED
  BY <1>1, <1>2, <1>3

LEMMA OnlyElementsStep ==
    ASSUME Edge, Stage, Walks, cstate # "idle"
    PROVE  OnlyElements'
PROOF
<1> SUFFICES ASSUME acc'.wr_c
             PROVE  \E i \in Rows, j \in Cols : Ready(i, j)'
  BY EdgeTypes DEF OnlyElements, Rows, Cols
<1>1. ~pipe.clear
  BY PipeMoves
<1>2. CASE Controller!en
  <2>1. pipe.wr_c
    BY <1>1, <1>2, PipeMoves
  <2>2. acc'.c_address = Cell(LastRow, LastCol) /\ acc'.result = Element(LastRow, LastCol)
    BY <1>2, <2>1, InPipeline, WaitingSummed
  <2>3. PICK i \in Rows, j \in Cols : i = LastRow /\ j = LastCol
    BY EdgeTypes
  <2>4. Ready(i, j)'
    BY <2>2, <2>3, EdgeKeeps DEF Ready
  <2> QED
    BY <2>4
<1>3. CASE ~Controller!en
  <2>1. acc' = acc
    BY <1>1, <1>3, PipeMoves
  <2>2. PICK i \in Rows, j \in Cols : Ready(i, j)
    BY <2>1 DEF Edge, OnlyElements
  <2>3. Ready(i, j)'
    BY <2>1, <2>2, EdgeKeeps DEF Ready
  <2> QED
    BY <2>3
<1> QED
  BY <1>2, <1>3

\* After an edge an element that was finished is in its cell, about to be written,
\* or still waiting.
LEMMA FinishedKept ==
    ASSUME Edge, Stage, Stored, Walks, cstate # "idle", cfg'.start \/ cstate = "done",
           NEW i \in Rows, NEW j \in Cols, Finished(i, j)
    PROVE  \/ Done(i, j)'
           \/ Ready(i, j)' /\ cfg'.start
           \/ /\ ~Controller!en /\ pipe'.wr_c /\ cstate # "done"
              /\ i = LastRow /\ j = LastCol
PROOF
<1>1. CASE Done(i, j) \/ Ready(i, j)
  BY <1>1, EdgeKeeps
<1>2. CASE pipe.wr_c /\ cstate # "done" /\ i = LastRow /\ j = LastCol
  <2>1. CASE Controller!en
    <3>1. acc'.wr_c /\ acc'.c_address = Cell(i, j) /\ acc'.result = Element(i, j)
      BY <1>2, <2>1, InPipeline, WaitingSummed
    <3> QED
      BY <1>2, <3>1, EdgeKeeps DEF Ready
  <2>2. CASE ~Controller!en
    BY <1>2, <2>2, PipeMoves
  <2> QED
    BY <2>1, <2>2
<1> QED
  BY <1>1, <1>2 DEF Stored

\* An element that is finished after an edge was so before, unless its last pair
\* has just been read.
LEMMA FinishedBefore ==
    ASSUME Edge, Stage, Walks, cstate # "idle",
           NEW i \in Rows, NEW j \in Cols, Finished(i, j)'
    PROVE  /\ cstate # "load_b" => Finished(i, j) /\ LastRow' = LastRow /\ LastCol' = LastCol
           /\ cstate = "load_b" /\ ~Finished(i, j) =>
                k_index_b = k - 1 /\ i = LastRow' /\ j = LastCol'
           /\ cstate' = "done" => cstate = "done" \/ (cstate = "padding" /\ padding_counter = k)
PROOF
<1>1. CASE Controller!Stopped(cfg.start, FALSE)
  <2>1. cstate = "done" /\ m_index' = 0 /\ n_index' = 0
    BY <1>1 DEF Controller!Stopped, Controller!Cleared, Finished
  <2>2. m_index = 0 /\ n_index = 0
    BY <2>1 DEF Stage, AtStart
  <2>3. LastRow' = LastRow /\ LastCol' = LastCol
    BY <2>1, <2>2, EdgeTypes DEF LastRow, LastCol
  <2> QED
    BY <2>1, <2>3 DEF Finished
<1>2. CASE Controller!LoadA(overflow_in, k)
  <2>1. m_index' = m_index /\ n_index' = n_index /\ cstate = "load_a" /\ cstate' = "load_b"
    BY <1>2 DEF Controller!LoadA, Finished
  <2>2. LastRow' = LastRow /\ LastCol' = LastCol
    BY <2>1, EdgeTypes DEF LastRow, LastCol
  <2> QED
    BY <2>1, <2>2 DEF Finished
<1>3. CASE Controller!LoadB(overflow_in, m, k, n)
  <2>1. cstate = "load_b" /\ cstate' = IF k_index_b = k - 1 THEN "clear" ELSE "load_a"
    BY <1>3 DEF Controller!LoadB, Controller!Last, Finished
  <2>2. ASSUME ~Finished(i, j)
        PROVE  k_index_b = k - 1 /\ i = LastRow' /\ j = LastCol'
    <3>1. ~(i < m_index \/ (i = m_index /\ j < n_index))
      BY <2>1, <2>2 DEF Finished
    <3>2. /\ i \in Int /\ j \in Int /\ m_index \in Int /\ n_index \in Int /\ m \in Int /\ n \in Int
          /\ i <= m - 1 /\ j <= n - 1 /\ 0 <= j
      BY EdgeTypes DEF Rows, Cols
    <3>3. k_index_b = k - 1
      <4>1. SUFFICES ASSUME k_index_b # k - 1 PROVE FALSE
        OBVIOUS
      <4>2. m_index' = m_index /\ n_index' = n_index /\ cstate' = "load_a"
        BY <1>3, <2>1, <4>1, IndicesAdvance
      <4> QED
        BY <3>1, <4>2 DEF Finished
    <3>4. i = m_index /\ j = n_index
      <4>1. /\ AtStart' \/ i < m_index' \/ (i = m_index' /\ j < n_index')
            /\ \/ n_index' = n_index + 1 /\ m_index' = m_index
               \/ n_index = n - 1 /\ n_index' = 0 /\ m_index' = m_index + 1
               \/ n_index = n - 1 /\ m_index = m - 1 /\ AtStart'
        BY <1>3, <2>1, <3>3, IndicesAdvance DEF Finished
      <4>2. n_index \in Nat /\ m_index \in Nat
        BY EdgeTypes
      <4> QED
        <5>1. CASE n_index' = n_index + 1 /\ m_index' = m_index
          BY <3>1, <3>2, <4>1, <4>2, <5>1 DEF AtStart
        <5>2. CASE n_index = n - 1 /\ n_index' = 0 /\ m_index' = m_index + 1
          BY <3>1, <3>2, <4>1, <4>2, <5>2 DEF AtStart
        <5>3. CASE n_index = n - 1 /\ m_index = m - 1
          BY <3>1, <3>2, <4>2, <5>3
        <5> QED
          BY <4>1, <5>1, <5>2, <5>3
    <3> QED
      BY <1>3, <3>3, <3>4, IndicesAdvance
  <2> QED
    BY <2>1, <2>2
<1>4. CASE Controller!Clear
  <2>1. /\ m_index' = m_index /\ n_index' = n_index /\ cstate = "clear"
        /\ cstate' = (IF n_index = 0 /\ m_index = 0 /\ k_index_b = 0 THEN "padding" ELSE "load_a")
    BY <1>4 DEF Controller!Clear
  <2>2. LastRow' = LastRow /\ LastCol' = LastCol
    BY <2>1, EdgeTypes DEF LastRow, LastCol
  <2> QED
    BY <2>1, <2>2 DEF Finished, AtStart
<1>5. CASE Controller!Padding(k)
  <2>1. /\ m_index' = m_index /\ n_index' = n_index /\ cstate = "padding"
        /\ cstate' = (IF padding_counter = k THEN "done" ELSE "padding")
    BY <1>5 DEF Controller!Padding
  <2>2. LastRow' = LastRow /\ LastCol' = LastCol
    BY <2>1, EdgeTypes DEF LastRow, LastCol
  <2> QED
    BY <2>1, <2>2 DEF Finished
<1> QED
  BY <1>1, <1>2, <1>3, <1>4, <1>5 DEF Walks, Controller!Tick, Controller!Idle

LEMMA StoredStep ==
    ASSUME Edge, Stage, Stored, Walks, cstate # "idle", cfg'.start \/ cstate = "done"
    PROVE  Stored'
PROOF
<1> SUFFICES ASSUME NEW i \in Rows, NEW j \in Cols, Finished(i, j)'
             PROVE  \/ Done(i, j)' \/ (Ready(i, j)' /\ cfg'.start)
                    \/ (pipe'.wr_c /\ cstate' # "done" /\ i = LastRow' /\ j = LastCol')
  BY EdgeTypes DEF Stored, Rows, Cols
<1>1. CASE Finished(i, j)
  <2>1. SUFFICES ASSUME ~Controller!en, pipe'.wr_c, cstate # "done", i = LastRow, j = LastCol
                 PROVE  pipe'.wr_c /\ cstate' # "done" /\ i = LastRow' /\ j = LastCol'
    BY <1>1, FinishedKept
  <2>2. cstate # "load_b"
    BY <2>1 DEF Controller!en
  <2>3. ~(cstate = "padding" /\ padding_counter = k)
    <3>1. cstate = "padding" => padding_counter = 0
      BY <2>1, Drains, PipeMoves
    <3> QED
      BY <3>1, EdgeTypes
  <2> QED
    BY <2>1, <2>2, <2>3, FinishedBefore
<1>2. CASE ~Finished(i, j)
  <2>1. cstate = "load_b" /\ k_index_b = k - 1 /\ i = LastRow' /\ j = LastCol'
    BY <1>2, FinishedBefore
  <2>2. cstate' # "done" /\ pipe'.wr_c
    BY <2>1, FinishedBefore, LoadBData
  <2> QED
    BY <2>1, <2>2
<1> QED
  BY <1>1, <1>2

-----------------------------------------------------------------------------
(* The invariant of the pipeline.                                          *)

\* After reset: the operands and sums of the run before are gone.
AtRest ==
    /\ cfg = CfgReset /\ step = 0
    /\ cstate = "idle" /\ padding_counter = 0
    /\ k_index_a = 0 /\ k_index_b = 0 /\ m_index = 0 /\ n_index = 0
    /\ wr_en_a = FALSE /\ wr_en_b = FALSE /\ wr_en_c = FALSE
    /\ data_a = 0 /\ data_b = 0 /\ pipe = PipeReset /\ acc = AccReset

LEMMA RestInv == AtRest => PipelineInv /\ OverflowInv
PROOF
<1> SUFFICES ASSUME AtRest PROVE PipelineInv /\ OverflowInv
  OBVIOUS
<1>1. Configured
  BY DEF AtRest, CfgReset, Configured
<1>2. Fresh
  BY DEF AtRest, PipeReset, AccReset, Fresh, AtStart, Clears
<1>3. Stage
  BY <1>2 DEF AtRest, Stage, Enables
<1>4. IndexInv /\ Stored /\ OnlyElements
  BY DEF AtRest, AccReset, IndexInv, Stored, Finished, OnlyElements
<1>5. OverflowInv
  BY DEF AtRest, OverflowInv, OverflowStage, FinishedFits, Finished
<1> QED
  BY <1>1, <1>3, <1>4, <1>5 DEF PipelineInv

LEMMA InitRests == Init => AtRest
  BY DEF Init, Controller!Init, AtRest

LEMMA ResetRests == Reset => AtRest'
  BY DEF Reset, Controller!Reset, Controller!Cleared, AtRest

LEMMA IdleStep ==
    ASSUME TiedOff, SoundPrograms, MacTypeOK, PipelineInv, Clock, cstate = "idle"
    PROVE  PipelineInv' /\ (cfg.start => Ordered') /\ Fresh'
           /\ (cstate' # "idle" => cstate' = "load_a" /\ k_index_b' = 0)
PROOF
<1>1. Configured' /\ (cfg.start => Ordered')
  BY ConfiguredStep DEF PipelineInv, Configured
<1>2. /\ cstate' = (IF cfg.start THEN "load_a" ELSE "idle")
      /\ padding_counter' = 0
      /\ k_index_a' = 0 /\ k_index_b' = 0 /\ m_index' = 0 /\ n_index' = 0
      /\ wr_en_a' = FALSE /\ wr_en_b' = FALSE /\ wr_en_c' = FALSE
  BY ClockParts DEF Walks, Controller!Tick, Controller!Idle, Controller!Cleared,
     Controller!Stopped, Controller!LoadA, Controller!LoadB, Controller!Clear, Controller!Padding
<1>3. /\ Fresh /\ ~wr_en_a /\ ~wr_en_b
  BY DEF PipelineInv, Stage, Enables
<1>4. ~Controller!en /\ ~Controller!clear_in
  BY DEF Controller!en, Controller!clear_in
<1>5. data_a' = 0 /\ data_b' = 0
  BY <1>3, ClockParts DEF RegfileTick, Fresh
<1>6. ~pipe'.wr_c /\ ~pipe'.clear_temp /\ ~pipe'.clear_temp2 /\ ~pipe'.clear
  BY <1>3, <1>4, ClockParts DEF PipeTick, Fresh, Clears
<1>7. acc'.result = 0 /\ ~acc'.wr_c
  BY <1>3, <1>4, ClockParts DEF AccumulatorTick, AccReset, Fresh, Clears
<1>8. Fresh'
  <2>1. pipe'.clear_temp = FALSE /\ pipe'.clear_temp2 = FALSE /\ pipe'.clear = FALSE
    BY <1>3, <1>4, ClockParts DEF PipeTick, Fresh, Clears
  <2> QED
    BY <1>2, <1>5, <1>6, <1>7, <2>1 DEF Fresh, AtStart, Clears
<1>9. cfg.start => m' \in 1..7 /\ k' \in 1..7 /\ n' \in 1..7
  BY <1>1 DEF Ordered
<1>10. Stage'
  BY <1>2, <1>8, <1>9 DEF Stage, FirstLoadA, Behind, Enables
<1>11. IndexInv'
  BY <1>2, <1>9 DEF IndexInv
<1>12. Stored'
  <2> SUFFICES ASSUME NEW i \in Rows', NEW j \in Cols' PROVE ~Finished(i, j)'
    BY DEF Stored
  <2>1. ~(i < 0) /\ ~(j < 0)
    BY DEF Rows, Cols
  <2> QED
    BY <1>2, <2>1 DEF Finished
<1> QED
  BY <1>1, <1>2, <1>7, <1>8, <1>10, <1>11, <1>12 DEF PipelineInv, OnlyElements

LEMMA EdgeOfClock ==
    ASSUME TiedOff, SoundPrograms, MacTypeOK, PipelineInv, Clock, cstate # "idle"
    PROVE  /\ Edge /\ Stage /\ Stored /\ Walks /\ Configured'
           /\ cfg'.start \/ cstate = "done"
PROOF
<1>1. Configured /\ step = 5
  BY DEF PipelineInv, Configured
<1> QED
  BY <1>1, ClockParts, ConfiguredStep DEF PipelineInv, IndexInv, Edge

LEMMA PipelineStep ==
    ASSUME TiedOff, SoundPrograms, MacTypeOK, PipelineInv, Clock
    PROVE  PipelineInv'
PROOF
<1>1. CASE cstate = "idle"
  BY <1>1, IdleStep
<1>2. CASE cstate # "idle"
  BY <1>2, EdgeOfClock, StageStep, OnlyElementsStep, StoredStep DEF PipelineInv, IndexInv
<1> QED
  BY <1>1, <1>2

LEMMA StutterKeeps ==
    ASSUME UNCHANGED vars, PipelineInv
    PROVE  PipelineInv'
PROOF
<1> USE DEF vars, ctl, datapath
<1>1. m' = m /\ k' = k /\ n' = n /\ Rows' = Rows /\ Cols' = Cols
  BY DEF m, k, n, Rows, Cols
<1>2. \A i, j : Terms(i, j)' = Terms(i, j) /\ Cell(i, j)' = Cell(i, j)
  BY <1>1 DEF Terms, Term, Cell
<1>3. \A i, j, x : Sum(i, j, x)' = Sum(i, j, x) /\ Element(i, j)' = Element(i, j)
  BY <1>1, <1>2 DEF Sum, Element, SumOf
<1>4. \A i, j : Done(i, j)' = Done(i, j) /\ Ready(i, j)' = Ready(i, j)
                /\ A(i, j)' = A(i, j) /\ B(i, j)' = B(i, j)
  BY <1>1, <1>2, <1>3 DEF Done, Ready, A, B
<1>5. LastRow' = LastRow /\ LastCol' = LastCol /\ AtStart' = AtStart
  BY <1>1 DEF LastRow, LastCol, AtStart
<1>6. Configured' /\ IndexInv'
  BY <1>1 DEF PipelineInv, Configured, IndexInv
<1>7. Stored' /\ OnlyElements'
  BY <1>1, <1>4, <1>5 DEF PipelineInv, Stored, OnlyElements, Finished
<1>8. Stage'
  <2>1. Waiting' = Waiting /\ Fresh' = Fresh
    BY <1>1, <1>2, <1>3, <1>4, <1>5 DEF Waiting, Fresh, Partial, Clears
  <2>2. InClear' = InClear /\ InPadding' = InPadding
    BY <1>1, <1>2, <1>3, <1>4, <1>5, <2>1 DEF InClear, InPadding, Enables, Clears, Summed, Partial
  <2>3. FirstLoadA' = FirstLoadA /\ FirstLoadB' = FirstLoadB
    BY <1>1, <1>4, <1>5, <2>1 DEF FirstLoadA, FirstLoadB, Behind, Enables, Clears
  <2>4. NextLoadA' = NextLoadA /\ NextLoadB' = NextLoadB
    BY <1>1, <1>3, <1>4 DEF NextLoadA, NextLoadB, Enables, Clears, Summed, Partial
  <2>5. Stage
    BY DEF PipelineInv
  <2> QED
    BY <1>1, <1>5, <2>1, <2>2, <2>3, <2>4, <2>5 DEF Stage, Enables
<1> QED
  BY <1>6, <1>7, <1>8 DEF PipelineInv

LEMMA PipelineInvariance ==
    ASSUME TiedOff, SoundPrograms
    PROVE  Spec => [](MacTypeOK /\ PipelineInv)
PROOF
<1>1. Init => MacTypeOK /\ PipelineInv
  BY InitTypes, InitRests, RestInv
<1>2. Reset => PipelineInv'
  <2>1. (AtRest => PipelineInv)'
    BY RestInv, PTL
  <2> QED
    BY <2>1, ResetRests
<1>3. MacTypeOK /\ PipelineInv /\ [Next]_vars => (MacTypeOK /\ PipelineInv)'
  BY <1>2, NextTypes, PipelineStep, StutterKeeps DEF Next
<1> QED
  BY <1>1, <1>3, PTL DEF Spec

\* When the program reads the start bit as 0 again, every element of the product
\* is in its cell.
THEOREM CompletesProduct ==
    ASSUME TiedOff, SoundPrograms
    PROVE  Spec => []ProductComplete
PROOF
<1>1. MacTypeOK /\ PipelineInv => ProductComplete
  BY DEF PipelineInv, Stored, Finished, Done, ProductComplete
<1> QED
  BY <1>1, PipelineInvariance, PTL

\* Port A writes nothing but elements of the product to their cells, whenever the
\* run ends and whatever cuts it short.
THEOREM WritesNothingElse ==
    ASSUME TiedOff, SoundPrograms
    PROVE  Spec => WritesElements
PROOF
<1>1. ASSUME MacTypeOK, PipelineInv, [Next]_vars, mem' # mem
      PROVE  \E i \in Rows, j \in Cols : mem' = [mem EXCEPT ![Cell(i, j)] = Element(i, j)]
  <2>1. Clock
    BY <1>1 DEF Next, Reset, vars
  <2>2. Writes
    BY <1>1, <2>1, ClockParts
  <2> QED
    BY <1>1, <2>2 DEF Writes, PipelineInv, OnlyElements, Ready
<1>2. MacTypeOK /\ PipelineInv /\ [Next]_vars =>
        [mem' # mem => \E i \in Rows, j \in Cols :
                          mem' = [mem EXCEPT ![Cell(i, j)] = Element(i, j)]]_vars
  BY <1>1
<1> QED
  BY <1>2, PipelineInvariance, PTL DEF Spec, WritesElements

-----------------------------------------------------------------------------
(* No overflow goes unseen.                                                *)

LEMMA OverflowKept ==
    ASSUME Edge, NEW i \in Rows, NEW j \in Cols
    PROVE  /\ \A x : WordSum(i, j, x)' = WordSum(i, j, x)
           /\ \A x \in 0 .. k : Fit(i, j, x) => Fit(i, j, x)'
           /\ NoOverflow(i, j) => NoOverflow(i, j)'
PROOF
<1>1. \A x : WordSum(i, j, x)' = WordSum(i, j, x)
  BY SumsKept DEF Edge, Ticks
<1>2. \A t \in 0 .. k - 1 : Term(i, j, t)' = Term(i, j, t)
  BY OperandsKept DEF Edge, Ticks
<1>3. ASSUME NEW x \in 0 .. k, Fit(i, j, x) PROVE Fit(i, j, x)'
  <2>1. \A t \in 0 .. x - 1 : t \in 0 .. k - 1
    BY EdgeTypes
  <2> QED
    BY <1>2, <1>3, <2>1 DEF Fit, Fits
<1>4. k \in 0 .. k /\ k' = k
  BY EdgeTypes
<1> QED
  BY <1>1, <1>3, <1>4 DEF NoOverflow, WordRange

\* The overflow the controller sees is that of the sum in the accumulator and of
\* the product that comes next.
LEMMA PairFits ==
    ASSUME Edge, NEW i \in Rows, NEW j \in Cols, NEW t \in 0 .. k - 1,
           data_a = A(i, t), data_b = B(t, j), ~overflow_in, Fit(i, j, t)
    PROVE  ~acc.overflow /\ Fit(i, j, t + 1)
PROOF
<1>1. product = Term(i, j, t)
  BY Elements DEF Edge, product
<1>2. ~acc.overflow /\ Fits(Term(i, j, t))
  BY <1>1 DEF overflow_in, overflow_mul
<1>3. \A s \in 0 .. (t + 1) - 1 : s \in 0 .. t - 1 \/ s = t
  OBVIOUS
<1> QED
  BY <1>2, <1>3 DEF Fit

LEMMA AddsWord ==
    ASSUME Edge, NEW i \in Rows, NEW j \in Cols, NEW t \in 0 .. k - 1,
           data_a = A(i, t), data_b = B(t, j), ~acc.overflow, Exact(i, j, t),
           Controller!en, ~pipe.clear
    PROVE  Exact(i, j, t + 1)'
PROOF
<1>1. product = Term(i, j, t) /\ Term(i, j, t) \in Int
  BY Elements DEF Edge, product
<1>2. acc.result \in Word /\ Term(i, j, t) % WordRange \in Word
  BY <1>1, EdgeTypes, Widths DEF Word
<1>3. WordSum(i, j, t + 1) = WordSum(i, j, t) + (Term(i, j, t) % WordRange)
  BY Sums DEF Edge
<1>4. temp = WordSum(i, j, t + 1) /\ temp \in Nat
  BY <1>1, <1>2, <1>3, Widths DEF temp, Exact, Word
<1>5. (acc'.overflow <=> temp >= WordRange) /\ acc'.result = temp % WordRange
  BY PipeMoves
<1>6. temp < WordRange => temp % WordRange = temp
  BY <1>4, Widths
<1>7. acc'.overflow \/ acc'.result = temp
  BY <1>4, <1>5, <1>6, Widths
<1>8. WordSum(i, j, t + 1)' = WordSum(i, j, t + 1)
  BY OverflowKept
<1> QED
  BY <1>4, <1>7, <1>8 DEF Exact

\* A cleared accumulator holds the sum of no words.
LEMMA ClearedExact ==
    ASSUME Edge, NEW i \in Rows, NEW j \in Cols, ~acc'.overflow, acc'.result = 0
    PROVE  Exact(i, j, 0)'
PROOF
<1>1. WordSum(i, j, 0)' = 0
  BY SumOfNothing DEF WordSum
<1> QED
  BY <1>1 DEF Exact

LEMMA OverflowLoadA ==
    ASSUME Edge, Stage, OverflowStage, Controller!LoadA(overflow_in, k)
    PROVE  OverflowStage'
PROOF
<1>1. /\ cstate = "load_a" /\ cstate' = (IF overflow_in THEN "overflow" ELSE "load_b")
      /\ k_index_b' = k_index_b /\ m_index' = m_index /\ n_index' = n_index
  BY DEF Controller!LoadA
<1>2. CASE overflow_in
  BY <1>1, <1>2 DEF OverflowStage
<1>3. ASSUME ~overflow_in PROVE OverflowStage'
  <2>1. PICK i \in Rows, j \in Cols, t \in 0 .. k - 1 : i = LastRow /\ j = LastCol /\ t = k - 1
    BY EdgeTypes
  <2>2. LastRow' = i /\ LastCol' = j /\ k' - 1 = t /\ k' = k /\ t + 1 = k
    BY <1>1, <2>1, EdgeTypes DEF LastRow, LastCol
  <2>3. ~Controller!en /\ cstate' = "load_b" /\ ~acc.overflow
    BY <1>1, <1>3 DEF Controller!en, overflow_in
  <2>4. CASE k_index_b = 0
    <3>1. FirstLoadA /\ LastPending
      BY <1>1, <2>4 DEF Stage, OverflowStage
    <3>2. CASE pipe.wr_c
      <4>1. Waiting /\ ~pipe.clear
        BY <3>1, <3>2 DEF FirstLoadA, Behind, Fresh, Clears
      <4>2. acc' = acc /\ pipe'.wr_c
        BY <2>3, <3>2, <4>1, PipeMoves
      <4>3. Fit(i, j, t) /\ Exact(i, j, t) /\ data_a = A(i, t) /\ data_b = B(t, j)
        BY <1>1, <2>1, <3>1, <3>2, <4>1 DEF LastPending, Waiting
      <4>4. Fit(i, j, k)' /\ k \in 0 .. k
        BY <1>3, <2>2, <4>3, EdgeTypes, PairFits, OverflowKept
      <4>5. Exact(i, j, t)'
        BY <4>2, <4>3, OverflowKept DEF Exact
      <4>6. LastPending'
        BY <2>2, <2>3, <4>2, <4>4, <4>5 DEF LastPending
      <4> QED
        BY <1>1, <2>3, <2>4, <4>6 DEF OverflowStage
    <3>3. CASE ~pipe.wr_c
      <4>1. AtStart' /\ ~pipe'.wr_c
        BY <1>1, <2>3, <3>1, <3>3, PipeMoves DEF LastPending, AtStart
      <4> QED
        BY <1>1, <2>3, <2>4, <4>1 DEF OverflowStage, LastPending
    <3> QED
      BY <3>2, <3>3
  <2>5. CASE k_index_b # 0
    <3>1. NextLoadA /\ LastLeft /\ SoFar(m_index, n_index, k_index_b - 1)
      BY <1>1, <2>5 DEF Stage, OverflowStage
    <3>2. PICK r \in Rows, c \in Cols, x \in 0 .. k :
            r = m_index /\ c = n_index /\ x = k_index_b - 1
      <4>1. k_index_b - 1 \in 0 .. k
        BY <1>1, <2>5, EdgeTypes DEF Stage
      <4> QED
        BY <4>1, EdgeTypes
    <3>3. ~pipe.clear_temp2 /\ (pipe.clear => x = 0)
      BY <3>1, <3>2 DEF NextLoadA, Summed
    <3>4. ~pipe'.clear /\ (pipe.clear => acc'.result = 0 /\ ~acc'.overflow) /\ (~pipe.clear => acc' = acc)
      BY <2>3, <3>3, PipeMoves
    <3>5. SoFar(r, c, x)'
      <4>1. Fit(r, c, x)'
        BY <3>1, <3>2, OverflowKept DEF SoFar
      <4>2. CASE pipe.clear
        BY <3>3, <3>4, <4>1, <4>2, ClearedExact DEF SoFar
      <4>3. CASE ~pipe.clear
        <5>1. Exact(r, c, x)
          BY <3>1, <3>2, <4>3 DEF SoFar
        <5>2. Exact(r, c, x)'
          BY <3>4, <4>3, <5>1, OverflowKept DEF Exact
        <5> QED
          BY <4>1, <5>2 DEF SoFar
      <4> QED
        BY <4>2, <4>3
    <3>6. LastLeft'
      <4>1. AtStart \/ NoOverflow(i, j)
        <5>1. CASE pipe.clear /\ ~AtStart
          <6>1. Fit(i, j, k) /\ acc.result = WordSum(i, j, k)
            BY <2>1, <2>3, <3>1, <5>1 DEF LastLeft, Exact
          <6>2. acc.result < WordRange
            BY EdgeTypes, Widths DEF Word
          <6> QED
            BY <6>1, <6>2 DEF NoOverflow
        <5>2. CASE ~pipe.clear \/ AtStart
          BY <2>1, <3>1, <5>2 DEF LastLeft
        <5> QED
          BY <5>1, <5>2
      <4>2. AtStart' \/ NoOverflow(i, j)'
        BY <1>1, <4>1, OverflowKept DEF AtStart
      <4> QED
        BY <2>2, <3>4, <4>2 DEF LastLeft
    <3>7. m_index' = r /\ n_index' = c /\ k_index_b' - 1 = x /\ k_index_b' # 0
      BY <1>1, <2>5, <3>2
    <3>8. SoFar(m_index, n_index, k_index_b - 1)'
      BY <3>5, <3>7
    <3> QED
      BY <2>3, <3>6, <3>7, <3>8 DEF OverflowStage
  <2> QED
    BY <2>4, <2>5
<1> QED
  BY <1>2, <1>3

\* With its last word the element before the one at hand is complete.
LEMMA OverflowLast ==
    ASSUME Edge, Stage, OverflowStage, cstate = "load_b", k_index_b = 0, ~AtStart, ~overflow_in,
           NEW i \in Rows, NEW j \in Cols, i = LastRow, j = LastCol
    PROVE  Fit(i, j, k)' /\ Exact(i, j, k)' /\ pipe'.clear
PROOF
<1>1. Waiting /\ ~pipe.clear /\ pipe.clear_temp2 /\ LastPending
  BY DEF Stage, OverflowStage, FirstLoadB, Behind, Fresh, Clears
<1>2. PICK t \in 0 .. k - 1 : t = k - 1 /\ t + 1 = k
  BY EdgeTypes
<1>3. Fit(i, j, k) /\ Exact(i, j, t) /\ data_a = A(i, t) /\ data_b = B(t, j)
  BY <1>1, <1>2 DEF LastPending, Waiting
<1>4. Controller!en /\ ~acc.overflow /\ pipe'.clear
  BY <1>1, PipeMoves DEF Controller!en, overflow_in
<1>5. Exact(i, j, t + 1)'
  BY <1>1, <1>3, <1>4, AddsWord
<1>6. Fit(i, j, k)' /\ k' = k
  BY <1>3, EdgeTypes, OverflowKept
<1> QED
  BY <1>2, <1>4, <1>5, <1>6

LEMMA OverflowLoadB ==
    ASSUME Edge, Stage, OverflowStage, Controller!LoadB(overflow_in, m, k, n)
    PROVE  OverflowStage'
PROOF
<1>1. /\ cstate = "load_b"
      /\ cstate' = (IF overflow_in THEN "overflow"
                    ELSE IF k_index_b = k - 1 THEN "clear" ELSE "load_a")
      /\ k_index_b' = (IF k_index_b = k - 1 THEN 0 ELSE (k_index_b + 1) % 16)
  BY DEF Controller!LoadB, Controller!Last, Controller!Step
<1>2. CASE overflow_in
  BY <1>1, <1>2 DEF OverflowStage
<1>3. ASSUME ~overflow_in PROVE OverflowStage'
  <2>1. PICK i \in Rows, j \in Cols, t \in 0 .. k - 1 : i = m_index /\ j = n_index /\ t = k_index_b
    BY <1>1, EdgeTypes, LoadBData
  <2>2. Controller!en /\ ~acc.overflow /\ t \in 0 .. k /\ t \in Nat /\ k' = k /\ k \in 1..7
    BY <1>1, <1>3, EdgeTypes DEF Controller!en, overflow_in
  \* The element at hand.
  <2>3. SoFar(i, j, t)'
    <3>1. CASE t = 0
      <4>1. Fit(i, j, 0)'
        BY DEF Fit
      <4>2. FirstLoadB
        BY <1>1, <2>1, <3>1 DEF Stage
      <4>3. CASE Fresh
        <5>1. temp = 0 /\ ~pipe.clear
          BY <4>3, ProductOfZeros, Widths DEF Fresh, temp, Clears
        <5>2. acc'.result = 0 /\ ~acc'.overflow
          BY <2>2, <5>1, PipeMoves, Widths
        <5> QED
          BY <3>1, <4>1, <5>2, ClearedExact DEF SoFar
      <4>4. CASE ~Fresh
        <5>1. pipe'.clear
          BY <4>2, <4>4, PipeMoves DEF FirstLoadB, Behind, Clears
        <5> QED
          BY <3>1, <4>1, <5>1 DEF SoFar
      <4> QED
        BY <4>3, <4>4
    <3>2. CASE t # 0
      <4>1. NextLoadB /\ SoFar(i, j, t - 1)
        BY <1>1, <2>1, <3>2 DEF Stage, OverflowStage
      <4>2. t - 1 \in 0 .. k - 1 /\ (t - 1) + 1 = t
        BY <2>2, <3>2
      <4>3. data_a = A(i, t - 1) /\ data_b = B(t - 1, j) /\ ~pipe.clear
        BY <2>1, <4>1 DEF NextLoadB, Clears
      <4>4. Fit(i, j, t - 1) /\ Exact(i, j, t - 1)
        BY <4>1, <4>3 DEF SoFar
      <4>5. Fit(i, j, t)
        BY <1>3, <4>2, <4>3, <4>4, PairFits
      <4>6. Exact(i, j, t)'
        BY <2>2, <4>2, <4>3, <4>4, AddsWord
      <4>7. Fit(i, j, t)'
        BY <2>2, <4>5, OverflowKept
      <4> QED
        BY <4>6, <4>7 DEF SoFar
    <3> QED
      BY <3>1, <3>2
  <2>4. CASE t # k - 1
    <3>1. m_index' = i /\ n_index' = j
      BY <2>1, <2>4, IndicesAdvance
    <3>2. cstate' = "load_a" /\ k_index_b' = t + 1 /\ k_index_b' # 0 /\ k_index_b' - 1 = t
      BY <1>1, <1>3, <2>1, <2>2, <2>4
    <3>3. SoFar(m_index, n_index, k_index_b - 1)'
      BY <2>3, <3>1, <3>2
    <3>4. LastLeft'
      <4>1. PICK r \in Rows, c \in Cols : r = LastRow /\ c = LastCol
        BY EdgeTypes
      <4>2. LastRow' = r /\ LastCol' = c
        BY <2>1, <3>1, <4>1, EdgeTypes DEF LastRow, LastCol
      <4>3. AtStart => AtStart'
        BY <2>1, <3>1 DEF AtStart
      <4>4. CASE t = 0 /\ ~AtStart
        <5>1. Fit(r, c, k)' /\ Exact(r, c, k)' /\ pipe'.clear
          BY <1>1, <1>3, <2>1, <2>2, <4>1, <4>4, OverflowLast
        <5> QED
          BY <2>2, <4>2, <5>1 DEF LastLeft
      <4>5. CASE t # 0 /\ ~AtStart
        <5>1. NextLoadB /\ LastLeft
          BY <1>1, <2>1, <4>5 DEF Stage, OverflowStage
        <5>2. ~pipe.clear /\ ~pipe'.clear
          BY <5>1, PipeMoves DEF NextLoadB, Clears
        <5>3. NoOverflow(r, c)
          BY <4>1, <4>5, <5>1, <5>2 DEF LastLeft
        <5> QED
          BY <4>2, <5>2, <5>3, OverflowKept DEF LastLeft
      <4> QED
        BY <4>3, <4>4, <4>5 DEF LastLeft
    <3> QED
      BY <3>2, <3>3, <3>4 DEF OverflowStage
  <2>5. CASE t = k - 1
    <3>1. LastRow' = i /\ LastCol' = j /\ k' - 1 = t
      BY <2>1, <2>2, <2>5, IndicesAdvance
    <3>2. cstate' = "clear"
      BY <1>1, <1>3, <2>1, <2>5
    <3>3. SoFar(LastRow, LastCol, k - 1)'
      BY <2>3, <3>1
    <3> QED
      BY <3>2, <3>3 DEF OverflowStage
  <2> QED
    BY <2>4, <2>5
<1> QED
  BY <1>2, <1>3

LEMMA OverflowClear ==
    ASSUME Edge, Stage, OverflowStage, Controller!Clear
    PROVE  OverflowStage'
PROOF
<1>1. /\ cstate = "clear" /\ InClear /\ SoFar(LastRow, LastCol, k - 1)
      /\ cstate' = (IF n_index = 0 /\ m_index = 0 /\ k_index_b = 0 THEN "padding" ELSE "load_a")
      /\ k_index_b' = k_index_b /\ m_index' = m_index /\ n_index' = n_index
  BY DEF Controller!Clear, Stage, OverflowStage
<1>2. ~Controller!en /\ k_index_b' = 0
  BY <1>1 DEF InClear, Controller!en
<1>3. PICK i \in Rows, j \in Cols, t \in 0 .. k - 1 : i = LastRow /\ j = LastCol /\ t = k - 1
  BY EdgeTypes
<1>4. LastRow' = i /\ LastCol' = j /\ k' - 1 = t /\ t \in 0 .. k
  BY <1>1, <1>3, EdgeTypes DEF LastRow, LastCol
<1>5. Fit(i, j, t)'
  BY <1>1, <1>3, <1>4, OverflowKept DEF SoFar
<1>6. Exact(i, j, t)'
  <2>1. CASE pipe.clear
    <3>1. t = 0 /\ acc'.result = 0 /\ ~acc'.overflow
      BY <1>1, <1>3, <2>1, PipeMoves DEF InClear, Summed
    <3> QED
      BY <3>1, ClearedExact
  <2>2. CASE ~pipe.clear
    <3>1. acc' = acc /\ Exact(i, j, t)
      BY <1>1, <1>2, <1>3, <2>2, PipeMoves DEF SoFar
    <3> QED
      BY <3>1, OverflowKept DEF Exact
  <2> QED
    BY <2>1, <2>2
<1>7. pipe'.wr_c
  BY <1>1, <1>2, PipeMoves DEF InClear
<1>8. cstate' = "load_a" => LastPending'
  BY <1>4, <1>5, <1>6, <1>7 DEF LastPending
<1> QED
  BY <1>1, <1>2, <1>8 DEF OverflowStage

LEMMA OverflowStageStep ==
    ASSUME Edge, Stage, OverflowStage, Walks, cstate # "idle"
    PROVE  OverflowStage'
PROOF
<1>1. CASE Controller!Stopped(cfg.start, FALSE) \/ Controller!Padding(k)
  BY <1>1 DEF Controller!Stopped, Controller!Padding, OverflowStage
<1> QED
  BY <1>1, OverflowLoadA, OverflowLoadB, OverflowClear
  DEF Walks, Controller!Tick, Controller!Idle

LEMMA FinishedFitsStep ==
    ASSUME Edge, Stage, OverflowStage, FinishedFits, Walks, cstate # "idle"
    PROVE  FinishedFits'
PROOF
<1> SUFFICES ASSUME NEW i \in Rows, NEW j \in Cols, Finished(i, j)', ~(i = LastRow' /\ j = LastCol')
             PROVE  NoOverflow(i, j)'
  BY EdgeTypes DEF FinishedFits, Rows, Cols
<1>1. Finished(i, j)
  BY FinishedBefore
<1>2. CASE ~(i = LastRow /\ j = LastCol)
  BY <1>1, <1>2, OverflowKept DEF FinishedFits
<1>3. CASE i = LastRow /\ j = LastCol
  <2>1. Controller!LoadB(overflow_in, m, k, n) /\ cstate = "load_b"
    <3>1. cstate = "load_b"
      BY <1>3, FinishedBefore
    <3> QED
      BY <3>1 DEF Walks, Controller!Tick, Controller!Idle, Controller!Stopped,
         Controller!LoadA, Controller!Clear, Controller!Padding
  <2>2. ~AtStart
    BY <1>1, <2>1 DEF Finished, AtStart, Rows, Cols
  <2>3. ~overflow_in
    BY <2>1 DEF Controller!LoadB, Finished
  <2>4. k_index_b = k - 1
    <3>1. SUFFICES ASSUME k_index_b # k - 1 PROVE FALSE
      OBVIOUS
    <3>2. m_index' = m_index /\ n_index' = n_index
      BY <2>1, <3>1, IndicesAdvance
    <3>3. LastRow' = LastRow /\ LastCol' = LastCol
      BY <3>2, EdgeTypes DEF LastRow, LastCol
    <3> QED
      BY <1>3, <3>3
  <2>5. CASE k_index_b = 0
    <3>1. k = 1
      BY <2>4, <2>5, EdgeTypes
    <3>2. Fit(i, j, 1)' /\ k' = 1
      BY <1>3, <2>1, <2>2, <2>3, <2>5, <3>1, EdgeTypes, OverflowLast
    <3>3. 0 \in 0 .. k - 1
      BY <3>1
    <3>4. WordSum(i, j, 1) = Term(i, j, 0) % WordRange /\ Term(i, j, 0) \in Int
      <4>1. WordSum(i, j, 0 + 1) = WordSum(i, j, 0) + (Term(i, j, 0) % WordRange)
            /\ WordSum(i, j, 0) = 0 /\ Term(i, j, 0) \in Int
        BY <3>3, Sums, Elements DEF Edge
      <4> QED
        BY <4>1, Widths
    <3>5. WordSum(i, j, 1) < WordRange
      BY <3>4, Widths
    <3>6. WordSum(i, j, 1)' < WordRange'
      BY <3>5, OverflowKept DEF WordRange
    <3> QED
      BY <3>2, <3>6 DEF NoOverflow
  <2>6. CASE k_index_b # 0
    <3>1. NextLoadB /\ LastLeft
      BY <2>1, <2>6 DEF Stage, OverflowStage
    <3>2. NoOverflow(i, j)
      BY <1>3, <2>2, <3>1 DEF NextLoadB, Clears, LastLeft
    <3> QED
      BY <3>2, OverflowKept
  <2> QED
    BY <2>5, <2>6
<1> QED
  BY <1>2, <1>3

LEMMA OverflowStep ==
    ASSUME TiedOff, SoundPrograms, MacTypeOK, PipelineInv, OverflowInv, Clock
    PROVE  OverflowInv'
PROOF
<1>1. CASE cstate = "idle"
  <2>1. Fresh' /\ (cstate' # "idle" => cstate' = "load_a" /\ k_index_b' = 0)
    BY <1>1, IdleStep
  <2>2. OverflowStage'
    BY <2>1 DEF OverflowStage, LastPending, Fresh
  <2>3. FinishedFits'
    <3>1. SUFFICES ASSUME NEW i \in Rows', NEW j \in Cols' PROVE ~Finished(i, j)'
      BY DEF FinishedFits
    <3>2. ~(i < 0) /\ ~(j < 0)
      BY DEF Rows, Cols
    <3> QED
      BY <2>1, <3>2 DEF Finished, Fresh, AtStart
  <2> QED
    BY <2>2, <2>3 DEF OverflowInv
<1>2. CASE cstate # "idle"
  BY <1>2, EdgeOfClock, OverflowStageStep, FinishedFitsStep DEF OverflowInv
<1> QED
  BY <1>1, <1>2

LEMMA OverflowStutters ==
    ASSUME UNCHANGED vars, OverflowInv
    PROVE  OverflowInv'
PROOF
<1> USE DEF vars, ctl, datapath
<1>1. m' = m /\ k' = k /\ n' = n /\ Rows' = Rows /\ Cols' = Cols
  BY DEF m, k, n, Rows, Cols
<1>2. LastRow' = LastRow /\ LastCol' = LastCol /\ AtStart' = AtStart
  BY <1>1 DEF LastRow, LastCol, AtStart
<1>3. \A i, j, t : Term(i, j, t)' = Term(i, j, t) /\ Words(i, j)' = Words(i, j)
  BY <1>1 DEF Words, Term
<1>4. \A i, j, x : WordSum(i, j, x)' = WordSum(i, j, x) /\ (Fit(i, j, x) => Fit(i, j, x)')
  BY <1>3 DEF WordSum, SumOf, Fit, Fits
<1>5. \A i, j, x : Exact(i, j, x)' = Exact(i, j, x) /\ (NoOverflow(i, j) => NoOverflow(i, j)')
  BY <1>1, <1>4 DEF Exact, NoOverflow, WordRange
<1>6. OverflowStage'
  BY <1>1, <1>2, <1>4, <1>5 DEF OverflowInv, OverflowStage, LastPending, LastLeft, SoFar
<1>7. FinishedFits'
  BY <1>1, <1>2, <1>5 DEF OverflowInv, FinishedFits, Finished
<1> QED
  BY <1>6, <1>7 DEF OverflowInv

\* Words that are added up without a carry.
LEMMA ExactSum ==
    ASSUME MacTypeOK, Ordered, NEW i \in Rows, NEW j \in Cols, NoOverflow(i, j)
    PROVE  -SignBit <= TrueSum(i, j) /\ TrueSum(i, j) < WordRange
PROOF
<1>1. k \in 0..7 /\ SignBit \in Nat \ {0} /\ WordRange = 2 * SignBit /\ WordRange \in Nat \ {0}
  BY Widths DEF Ordered
<1>2. ASSUME NEW t \in 0 .. k - 1
      PROVE  /\ Terms(i, j)[t] \in Int /\ -SignBit <= Terms(i, j)[t] /\ Terms(i, j)[t] < SignBit
             /\ Words(i, j)[t] = IF Terms(i, j)[t] < 0 THEN Terms(i, j)[t] + 2 * SignBit
                                                       ELSE Terms(i, j)[t]
  <2> DEFINE x == Term(i, j, t)
  <2>1. Terms(i, j)[t] = x /\ Words(i, j)[t] = x % WordRange
    BY DEF Terms, Words
  <2>2. x \in Int /\ -SignBit <= x /\ x < SignBit
    BY Elements DEF NoOverflow, Fit, Fits
  <2> HIDE DEF x
  <2>3. CASE x < 0
    <3>1. x + WordRange \in 0 .. WordRange - 1 /\ x = WordRange * (-1) + (x + WordRange)
      BY <1>1, <2>2, <2>3
    <3>2. (WordRange * (-1) + (x + WordRange)) % WordRange = x + WordRange
      BY <1>1, <3>1, RemainderOf
    <3> QED
      BY <1>1, <2>1, <2>2, <2>3, <3>1, <3>2
  <2>4. CASE ~(x < 0)
    <3>1. x \in 0 .. WordRange - 1 /\ x = WordRange * 0 + x
      BY <1>1, <2>2, <2>4
    <3>2. (WordRange * 0 + x) % WordRange = x
      BY <1>1, <3>1, RemainderOf
    <3> QED
      BY <1>1, <2>1, <2>2, <2>4, <3>1, <3>2
  <2> QED
    BY <2>3, <2>4
<1>3. SumOf(Words(i, j), k) < 2 * SignBit
  BY <1>1 DEF NoOverflow, WordSum
<1>4. -SignBit <= SumOf(Terms(i, j), k) /\ SumOf(Terms(i, j), k) < 2 * SignBit
  BY <1>1, <1>2, <1>3, NoCarry
<1> QED
  BY <1>1, <1>4 DEF TrueSum

\* When a run ends with done, every product of two operands fits a signed word,
\* and the sum of every element but the last lies between the least signed and
\* the greatest unsigned word.
THEOREM SumsFitWords ==
    ASSUME TiedOff, SoundPrograms
    PROVE  Spec => []SumsInWord
PROOF
<1>1. Init => OverflowInv
  BY InitRests, RestInv
<1>2. Reset => OverflowInv'
  <2>1. (AtRest => OverflowInv)'
    BY RestInv, PTL
  <2> QED
    BY <2>1, ResetRests
<1>3. MacTypeOK /\ PipelineInv /\ OverflowInv /\ [Next]_vars => OverflowInv'
  BY <1>2, OverflowStep, OverflowStutters DEF Next
<1>4. MacTypeOK /\ PipelineInv /\ OverflowInv => SumsInWord
  <2> SUFFICES ASSUME MacTypeOK, PipelineInv, OverflowInv, cstate = "done",
                      NEW i \in Rows, NEW j \in Cols, <<i, j>> # <<m - 1, n - 1>>
               PROVE  /\ \A t \in 0 .. k - 1 : Fits(Term(i, j, t))
                      /\ -SignBit <= TrueSum(i, j) /\ TrueSum(i, j) < WordRange
    BY DEF SumsInWord
  <2>1. AtStart
    BY DEF PipelineInv, Stage
  <2>2. LastRow = m - 1 /\ LastCol = n - 1
    BY <2>1 DEF AtStart, LastRow, LastCol
  <2>3. NoOverflow(i, j)
    BY <2>2 DEF OverflowInv, FinishedFits, Finished
  <2>4. Ordered
    BY ShapeOrdered DEF PipelineInv, Configured
  <2> QED
    BY <2>3, <2>4, ExactSum DEF NoOverflow, Fit
<1> QED
  BY <1>1, <1>3, <1>4, PipelineInvariance, PTL DEF Spec

-----------------------------------------------------------------------------
(* All shapes, also those B is read wrongly for, any outcome of the race   *)
(* and any clear_interrupt.                                                *)

\* No number of rows or columns is cut to 0, and C is in the memory.  It may
\* overlap A and B.
CInMemory ==
    \A d \in Dims :
        /\ d.m % 8 # 0 /\ d.n % 8 # 0
        /\ Area(BaseC, (d.m % 8) * (d.n % 8)) \subseteq Address

\* Port A changes no word outside the matrix C the program asked for.
StaysInC ==
    [][\A x \in Address : mem'[x] # mem[x] =>
         \E i \in Rows, j \in Cols : x = Cell(i, j)]_vars

InC(x) == \E i \in Rows, j \in Cols : x = Cell(i, j)

\* An address on its way to port A is that of a cell of C.
AddressesInC ==
    /\ cstate # "idle" => m_index < m /\ n_index < n
    /\ pipe.wr_c => step = 5 /\ InC(pipe.c_address)
    /\ acc.wr_c => step = 5 /\ InC(acc.c_address)

LEMMA CellInC ==
    ASSUME CInMemory, MacTypeOK, Configured, step = 5
    PROVE  /\ m \in 1..7 /\ n \in 1..7
           /\ m_index < m /\ n_index < n =>
                /\ m_index \in Rows /\ n_index \in Cols
                /\ Controller!c_address(n, cfg.c) % MemWords = Cell(m_index, n_index)
PROOF
<1>1. program \in Dims /\ cfg.m = program.m /\ cfg.n = program.n /\ cfg.c = BaseC
  BY DEF MacTypeOK, Configured
<1>2. m \in 1..7 /\ n \in 1..7 /\ Area(BaseC, m * n) \subseteq Address
  BY <1>1, ConfigFields DEF CInMemory, m, n
<1>3. ASSUME m_index < m, n_index < n
      PROVE  /\ m_index \in Rows /\ n_index \in Cols
             /\ Controller!c_address(n, cfg.c) % MemWords = Cell(m_index, n_index)
  <2>1. m_index \in 0 .. m - 1 /\ n_index \in 0 .. n - 1 /\ BaseC \in Nat
    BY <1>2, <1>3, IndexTypes, Widths DEF Address
  <2>2. Cell(m_index, n_index) \in Area(BaseC, m * n)
    BY <1>2, <2>1, PlaceInArea DEF Cell
  <2>3. m_index * n \in Int
    BY <1>2, <2>1
  <2>4. m_index * n + n_index + cfg.c = Cell(m_index, n_index)
    BY <1>1, <1>2, <2>1, <2>3 DEF Cell
  <2>5. Cell(m_index, n_index) \in Address
    BY <1>2, <2>2
  <2>6. Cell(m_index, n_index) % MemWords = Cell(m_index, n_index)
    BY <2>5, Widths DEF Address
  <2> QED
    BY <2>1, <2>4, <2>6 DEF Controller!c_address, Rows, Cols
<1> QED
  BY <1>2, <1>3

\* The indices stay below the dimensions.
LEMMA IndicesInRange ==
    ASSUME CInMemory, MacTypeOK, Configured, AddressesInC, Clock, cstate' # "idle"
    PROVE  m_index' < m' /\ n_index' < n'
PROOF
<1>1. step = 5 /\ (cstate # "idle" => m_index < m /\ n_index < n)
  BY Goes DEF Configured, AddressesInC
<1>2. m' = m /\ n' = n /\ m \in 1..7 /\ n \in 1..7
  BY <1>1, CellInC, ConfiguredKept
<1>3. m_index \in 0..15 /\ n_index \in 0..15
  BY IndexTypes
<1>4. PICK clear_interrupt \in BOOLEAN :
          Controller!Tick(cfg.start, overflow_in, clear_interrupt, m, k, n)
  BY AnyEdge
<1>5. CASE Controller!Idle(cfg.start) \/ Controller!Stopped(cfg.start, clear_interrupt)
  BY <1>2, <1>5 DEF Controller!Idle, Controller!Stopped, Controller!Cleared
<1>6. CASE Controller!LoadB(overflow_in, m, k, n)
  <2>1. m_index < m /\ n_index < n
    BY <1>1, <1>6 DEF Controller!LoadB
  <2>2. m_index' = m_index \/ m_index' = (IF m_index = m - 1 THEN 0 ELSE (m_index + 1) % 16)
    BY <1>6 DEF Controller!LoadB, Controller!Step, Controller!Last
  <2>3. n_index' = n_index \/ n_index' = (IF n_index = n - 1 THEN 0 ELSE (n_index + 1) % 16)
    BY <1>6 DEF Controller!LoadB, Controller!Step, Controller!Last
  <2> QED
    BY <1>2, <1>3, <2>1, <2>2, <2>3
<1>7. CASE Controller!LoadA(overflow_in, k) \/ Controller!Clear \/ Controller!Padding(k)
  BY <1>1, <1>2, <1>7 DEF Controller!LoadA, Controller!Clear, Controller!Padding
<1> QED
  BY <1>4, <1>5, <1>6, <1>7 DEF Controller!Tick

LEMMA AddressesStep ==
    ASSUME CInMemory, MacTypeOK, Configured, AddressesInC, Clock
    PROVE  AddressesInC'
PROOF
<1>1. PipeTick /\ AccumulatorTick
  BY AnyEdge
<1>2. Controller!en => /\ step = 5
                       /\ Controller!c_address(n, cfg.c) % MemWords = Cell(m_index, n_index)
                       /\ m_index \in Rows /\ n_index \in Cols
  BY CellInC DEF Controller!en, Configured, AddressesInC
<1>3. step = 5 => step' = 5 /\ \A x : InC(x)' = InC(x)
  <2>1. ASSUME step = 5 PROVE m' = m /\ n' = n
    BY <2>1, ConfiguredKept
  <2>2. ASSUME step = 5 PROVE step' = 5
    BY <2>2, AnyEdge DEF Strobes
  <2>3. ASSUME step = 5 PROVE \A x : InC(x)' = InC(x)
    BY <2>1, <2>3 DEF InC, Rows, Cols, Cell
  <2> QED
    BY <2>2, <2>3
<1>4. pipe'.wr_c => step = 5 /\ InC(pipe'.c_address)
  BY <1>1, <1>2 DEF PipeTick, AddressesInC, InC
<1>5. acc'.wr_c => step = 5 /\ InC(acc'.c_address)
  BY <1>1 DEF AccumulatorTick, AccReset, AddressesInC
<1> QED
  BY <1>3, <1>4, <1>5, IndicesInRange DEF AddressesInC

LEMMA AddressesInvariance ==
    ASSUME CInMemory
    PROVE  Spec => [](MacTypeOK /\ Configured /\ AddressesInC)
PROOF
<1>1. AtRest => Configured /\ AddressesInC
  BY DEF AtRest, CfgReset, PipeReset, AccReset, Configured, AddressesInC
<1>2. Init => MacTypeOK /\ Configured /\ AddressesInC
  BY <1>1, InitTypes, InitRests
<1>3. Reset => Configured' /\ AddressesInC'
  <2>1. (AtRest => Configured /\ AddressesInC)'
    BY <1>1, PTL
  <2> QED
    BY <2>1, ResetRests
<1>4. ASSUME UNCHANGED vars, Configured, AddressesInC
      PROVE  Configured' /\ AddressesInC'
  BY <1>4 DEF vars, ctl, datapath, Configured, AddressesInC, InC, Rows, Cols, Cell, m, n
<1>5. MacTypeOK /\ Configured /\ AddressesInC /\ [Next]_vars =>
        (MacTypeOK /\ Configured /\ AddressesInC)'
  BY <1>3, <1>4, NextTypes, ConfiguredKept, AddressesStep DEF Next
<1> QED
  BY <1>2, <1>5, PTL DEF Spec

\* For every shape whose C is in the memory, even one whose product is wrong, a
\* run changes nothing outside C, nor does the next one if there is a next one.
THEOREM ChangesOnlyC ==
    ASSUME CInMemory
    PROVE  Spec => StaysInC
PROOF
<1>1. ASSUME MacTypeOK, Configured, AddressesInC, [Next]_vars,
             NEW x \in Address, mem'[x] # mem[x]
      PROVE  \E i \in Rows, j \in Cols : x = Cell(i, j)
  <2>1. Clock
    BY <1>1 DEF Next, Reset, vars
  <2>2. Writes /\ mem \in [Address -> Word]
    BY <1>1, <2>1, AnyEdge DEF MacTypeOK
  <2>3. acc.wr_c /\ x = acc.c_address
    BY <1>1, <2>2 DEF Writes
  <2> QED
    BY <1>1, <2>3 DEF AddressesInC, InC
<1>2. MacTypeOK /\ Configured /\ AddressesInC /\ [Next]_vars =>
        [\A x \in Address : mem'[x] # mem[x] => \E i \in Rows, j \in Cols : x = Cell(i, j)]_vars
  BY <1>1
<1> QED
  BY <1>2, AddressesInvariance, PTL DEF Spec, StaysInC

\* Elements are completed, and the pipeline is drained, for a depth other than 0
\* only; the drain ends when two bits reach the depth.
Depth ==
    /\ cstate \in {"clear", "padding"} => k # 0
    /\ DoneDepth

\* A run with a depth of 0 or over 3 never reports done, for every program and
\* every contents of the RAM.
THEOREM NoDoneForDeepRuns == Spec => []DoneDepth
PROOF
<1>1. AtRest => Configured /\ Depth
  BY DEF AtRest, CfgReset, Configured, Depth, DoneDepth
<1>2. Init => MacTypeOK /\ Configured /\ Depth
  BY <1>1, InitTypes, InitRests
<1>3. Reset => Configured' /\ Depth'
  <2>1. (AtRest => Configured /\ Depth)'
    BY <1>1, PTL
  <2> QED
    BY <2>1, ResetRests
<1>4. ASSUME MacTypeOK, Configured, Depth, Clock
      PROVE  Depth'
  <2>1. SUFFICES ASSUME cstate' \in {"clear", "padding", "done"}
                 PROVE  Depth'
    BY DEF Depth, DoneDepth
  <2>2. step = 5 /\ k' = k /\ k \in 0..7
    BY <1>4, <2>1, Goes, ConfiguredKept, ConfigFields DEF Configured
  <2>3. k_index_b \in 0..15 /\ padding_counter \in 0..3
    BY <1>4, IndexTypes
  <2>4. PICK clear_interrupt \in BOOLEAN :
            Controller!Tick(cfg.start, overflow_in, clear_interrupt, m, k, n)
    BY <1>4, AnyEdge
  <2>5. CASE Controller!LoadB(overflow_in, m, k, n)
    <3>1. cstate' = "clear" /\ k_index_b = k - 1
      BY <2>1, <2>5 DEF Controller!LoadB, Controller!Last
    <3> QED
      BY <2>2, <2>3, <3>1 DEF Depth, DoneDepth
  <2>6. CASE Controller!Clear \/ Controller!Padding(k)
    BY <1>4, <2>2, <2>3, <2>6 DEF Controller!Clear, Controller!Padding, Depth, DoneDepth
  <2>7. CASE Controller!Stopped(cfg.start, clear_interrupt)
    BY <1>4, <2>1, <2>2, <2>7 DEF Controller!Stopped, Depth, DoneDepth
  <2>8. ~Controller!Idle(cfg.start) /\ ~Controller!LoadA(overflow_in, k)
    BY <2>1 DEF Controller!Idle, Controller!LoadA
  <2> QED
    BY <2>4, <2>5, <2>6, <2>7, <2>8 DEF Controller!Tick
<1>5. ASSUME UNCHANGED vars, Configured, Depth
      PROVE  Configured' /\ Depth'
  BY <1>5 DEF vars, ctl, datapath, Configured, Depth, DoneDepth, k
<1>6. MacTypeOK /\ Configured /\ Depth /\ [Next]_vars => (MacTypeOK /\ Configured /\ Depth)'
  BY <1>3, <1>4, <1>5, NextTypes, ConfiguredKept DEF Next
<1>7. Depth => DoneDepth
  BY DEF Depth
<1> QED
  BY <1>2, <1>6, <1>7, PTL DEF Spec

=============================================================================
