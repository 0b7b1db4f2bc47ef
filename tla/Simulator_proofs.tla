-------------------------- MODULE Simulator_proofs --------------------------
(***************************************************************************)
(* A theorem about Simulator, for every configuration whose registers      *)
(* share no word, every data file, and words of every even number of       *)
(* values: what the client prints is a value of a row.                     *)
(***************************************************************************)
EXTENDS Simulator, TLAPS, SequenceTheorems

(* No two registers share a word. *)
Separate ==
  \A i, j \in 1..N :
    i # j /\ Config[i].table = Config[j].table =>
      \A k \in 1..Width(Config[i]), m \in 1..Width(Config[j]) :
        Config[i].addr + k # Config[j].addr + m

(* The words that the i-th register has of a row, and those it holds.      *)
RowWords(i, r) == Words(Config[i], Data[r][i])
WordOf(i, r, k) == IF r = 0 THEN 0 ELSE RowWords(i, r)[k]
Held(i, k) == mem[Config[i].table][Config[i].addr + k - 1]
Within(i) == Config[i].addr + Width(Config[i]) <= Size

(* A register shows a row it may show, in both its words, unless the setter *)
(* is between them.                                                        *)
Shows(i) ==
  \E r \in Shown(i, 1), s \in Shown(i, 2) :
    /\ Held(i, 1) = WordOf(i, r, 1)
    /\ Width(Config[i]) = 2 /\ Within(i) => Held(i, 2) = WordOf(i, s, 2)
    /\ r # s => start.i = i /\ start.k = 2

Stages == {"opening", "read", "fatal", "reopen", "retry", "panicked"}
StartType == [at : {"apply", "select", "ended"}, row : Rows, i : 1..N + 1, k : {1, 2}]
SimTyped ==
  /\ start \in StartType
  /\ mem = [t \in Tables |-> [a \in 0..Size - 1 |-> mem[t][a]]]
  /\ cl \in [at : Stages, i : Nat \ {0}]
Between ==
  /\ start.at # "apply" => start.i = 1
  /\ start.k = 2 => /\ start.at = "apply" /\ start.i \in 1..N
                    /\ Width(Config[start.i]) = 2 /\ RowWords(start.i, start.row) # <<>>
SimInv == SimTyped /\ Between /\ \A i \in 1..N : Shows(i)

----------------------------------------------------------------------------
(* Registers and words *)

LEMMA ConfigTyped ==
  /\ N \in Nat /\ Len(Data) \in Nat \ {0} /\ Rows = 1..Len(Data)
  /\ \A i \in 1..N :
       /\ Config[i].table \in Tables /\ Config[i].kind \in Kinds /\ Config[i].addr \in 0..Size - 1
       /\ Width(Config[i]) = IF Config[i].kind = "float32" THEN 2 ELSE 1
<1>1. N \in Nat
  BY SimulatorAssumption, LenProperties DEF N
<1>2. \A i \in 1..N : Config[i] \in RegisterType
  BY SimulatorAssumption, ElementOfSeq DEF N
<1>3. \A i \in 1..N : Config[i].table \in Tables /\ Config[i].kind \in Kinds /\ Config[i].addr \in 0..Size - 1
  BY <1>2 DEF RegisterType, Tables
<1>4. Len(Data) \in Nat \ {0}
  BY SimulatorAssumption
<1> QED
  BY <1>1, <1>3, <1>4 DEF Width, Rows

LEMMA OneWord ==
  ASSUME NEW x
  PROVE  <<x>> # <<>> /\ Len(<<x>>) = 1 /\ <<x>>[1] = x
OBVIOUS

LEMMA TwoWords ==
  ASSUME NEW x, NEW y
  PROVE  <<x, y>> # <<>> /\ Len(<<x, y>>) = 2 /\ <<x, y>>[1] = x /\ <<x, y>>[2] = y
OBVIOUS

(* What a number within half a unit of x is written as. *)
LEMMA Rounding ==
  ASSUME NEW x \in Int
  PROVE  Round(x) \in Int /\ 2 * Round(x) - x \in -1..1
BY DEF Round

(* A remainder, and the number it stands for. *)
LEMMA Remainders ==
  ASSUME NEW n \in Int
  PROVE  /\ n \in 0..Base - 1 => n % Base = n
         /\ n \in -Base..-1 => n % Base = n + Base
BY SimulatorAssumption

LEMMA Halves == Base \in Nat /\ Base \div 2 \in Nat /\ Base = 2 * (Base \div 2) /\ Base \div 2 > 0
<1>1. Base \in Nat /\ Base % 2 = 0 /\ Base > 0
  BY SimulatorAssumption
<1> QED
  BY <1>1


(* A value is refused, or has the words of its register, which lies within *)
(* its table.                                                              *)
LEMMA WordsAre ==
  ASSUME NEW i \in 1..N, NEW r \in Rows, RowWords(i, r) # <<>>
  PROVE  Len(RowWords(i, r)) = Width(Config[i]) /\ Within(i)
<1>1. PICK reg, x, w : reg = Config[i] /\ x = Data[r][i] /\ w = Words(reg, x)
  OBVIOUS
<1>2. /\ reg.kind \in {"uint16", "int16", "float32", "bit"} /\ reg.addr \in 0..Size - 1 /\ Size \in Nat
      /\ Width(reg) = IF reg.kind = "float32" THEN 2 ELSE 1
  BY <1>1, ConfigTyped, SimulatorAssumption DEF Kinds
<1>3. w # <<>>
  BY <1>1 DEF RowWords
<1>p. x # Missing
  BY <1>1, <1>3 DEF Words
<1>4. \A n, least : Scalar(n, least) = <<>> \/ Len(Scalar(n, least)) = 1
  BY OneWord DEF Scalar
<1>5. CASE reg.kind = "bit"
  <2>1. w = IF x = NaN THEN <<0>> ELSE <<IF x > 0 THEN 1 ELSE 0>>
    BY <1>1, <1>5, <1>p DEF Words
  <2>2. Len(w) = 1
    BY <2>1, OneWord
  <2> QED
    BY <1>1, <1>2, <1>5, <2>2 DEF RowWords, Within
<1>6. CASE reg.kind # "bit"
  <2>1. x \notin {NaN, Missing}
    BY <1>1, <1>3, <1>6, <1>p DEF Words
  <2>2. CASE reg.kind = "uint16"
    <3>1. w = Scalar(Round(x), 0)
      BY <1>1, <2>1, <2>2 DEF Words
    <3> QED
      BY <1>1, <1>2, <1>3, <1>4, <2>2, <3>1 DEF RowWords, Within
  <2>3. CASE reg.kind = "int16"
    <3>1. w = Scalar(Round(x), -(Base \div 2))
      BY <1>1, <2>1, <2>3 DEF Words
    <3> QED
      BY <1>1, <1>2, <1>3, <1>4, <2>3, <3>1 DEF RowWords, Within
  <2>4. CASE reg.kind = "float32"
    <3>1. w = IF reg.addr = Size - 1 THEN <<>> ELSE <<x \div Base, x % Base>>
      BY <1>1, <2>1, <2>4 DEF Words
    <3>2. reg.addr # Size - 1 /\ w = <<x \div Base, x % Base>>
      BY <1>3, <3>1
    <3>3. Len(w) = 2
      BY <3>2, TwoWords
    <3>4. reg.addr + 2 <= Size
      BY <1>2, <3>2
    <3> QED
      BY <1>1, <1>2, <2>4, <3>3, <3>4 DEF RowWords, Within
  <2> QED
    BY <1>2, <1>6, <2>2, <2>3, <2>4
<1> QED
  BY <1>5, <1>6

(* What the client makes of the words of a row, or of no row.              *)
LEMMA FitsScalar ==
  ASSUME NEW i \in 1..N, Config[i].kind # "float32", NEW r, r = 0 \/ r \in Usable(i),
         NEW w, w[1] = WordOf(i, r, 1)
  PROVE  IF Config[i].kind = "bit"
           THEN (Decode(Config[i], w) = 1) <=> (r # 0 /\ Data[r][i] # NaN /\ Data[r][i] > 0)
           ELSE 2 * Decode(Config[i], w) - ValueOf(i, r) \in -1..1
<1>1. PICK reg, d : reg = Config[i] /\ d = Decode(reg, w)
  OBVIOUS
<1>2. reg.kind \in {"uint16", "int16", "bit"}
  BY <1>1, ConfigTyped DEF Kinds
<1>3. CASE r = 0
  <2>1. w[1] = 0 /\ ValueOf(i, r) = 0
    BY <1>3 DEF WordOf, ValueOf
  <2>2. d = 0
    <3>1. CASE reg.kind = "int16"
      <4>1. d = IF w[1] >= Base \div 2 THEN w[1] - Base ELSE w[1]
        BY <1>1, <3>1 DEF Decode
      <4> QED
        BY <2>1, <4>1, Halves
    <3>2. CASE reg.kind \in {"uint16", "bit"}
      BY <1>1, <2>1, <3>2 DEF Decode
    <3> QED
      BY <1>2, <3>1, <3>2
  <2> QED
    BY <1>1, <1>3, <2>1, <2>2
<1>4. CASE r # 0
  <2>1. r \in Rows /\ RowWords(i, r) # <<>> /\ r # 0 /\ 0 \notin Rows
    BY <1>4, ConfigTyped DEF Usable, RowWords
  <2>2. PICK x, u : x = Data[r][i] /\ u = Words(reg, x)
    OBVIOUS
  <2>3. w[1] = u[1] /\ u # <<>> /\ ValueOf(i, r) = x
    BY <1>1, <2>1, <2>2 DEF WordOf, RowWords, ValueOf
  <2>p. x # Missing
    BY <2>2, <2>3 DEF Words
  <2>4. CASE reg.kind = "bit"
    <3>1. u = (IF x = NaN THEN <<0>> ELSE <<IF x > 0 THEN 1 ELSE 0>>) /\ d = w[1]
      BY <1>1, <2>2, <2>4, <2>p DEF Words, Decode
    <3>2. d = IF x # NaN /\ x > 0 THEN 1 ELSE 0
      <4>1. CASE x = NaN
        BY <2>3, <3>1, <4>1, OneWord
      <4>2. CASE x # NaN
        BY <2>3, <3>1, <4>2, OneWord
      <4> QED
        BY <4>1, <4>2
    <3> QED
      BY <1>1, <2>1, <2>2, <2>4, <3>2
  <2>5. CASE reg.kind # "bit"
    <3>1. x \notin {NaN, Missing}
      BY <2>2, <2>3, <2>5, <2>p DEF Words
    <3>2. x \in Int
      BY <1>1, <2>1, <2>2, <3>1, ConfigTyped, SimulatorAssumption
    <3>3. PICK n : n = Round(x)
      OBVIOUS
    <3>4. n \in Int /\ 2 * n - x \in -1..1
      BY <3>2, <3>3, Rounding
    <3>5. d = n
      <4>1. CASE reg.kind = "uint16"
        <5>1. u = Scalar(n, 0) /\ d = w[1]
          BY <1>1, <2>2, <3>1, <3>3, <4>1 DEF Words, Decode
        <5>2. u = <<n % Base>> /\ n \in 0..0 + Base - 1
          BY <2>3, <5>1 DEF Scalar
        <5>3. d = n % Base
          BY <2>3, <5>1, <5>2, OneWord
        <5>4. n \in 0..Base - 1
          BY <5>2, Halves
        <5> QED
          BY <3>4, <5>3, <5>4, Remainders
      <4>2. CASE reg.kind = "int16"
        <5>1. u = Scalar(n, -(Base \div 2)) /\ d = IF w[1] >= Base \div 2 THEN w[1] - Base ELSE w[1]
          BY <1>1, <2>2, <3>1, <3>3, <4>2 DEF Words, Decode
        <5>2. u = <<n % Base>> /\ n \in -(Base \div 2)..-(Base \div 2) + Base - 1
          BY <2>3, <5>1 DEF Scalar
        <5>3. w[1] = n % Base
          BY <2>3, <5>2, OneWord
        <5>4. PICK h : h = Base \div 2
          OBVIOUS
        <5>5. h \in Nat /\ Base = 2 * h /\ h > 0 /\ Base \in Nat
          BY <5>4, Halves
        <5>6. n \in -h..h - 1
          <6>1. -h + Base - 1 = h - 1
            BY <5>5
          <6> QED
            BY <5>2, <5>4, <6>1
        <5>7. CASE n >= 0
          <6>1. n \in 0..Base - 1 /\ ~(n >= h)
            BY <3>4, <5>5, <5>6, <5>7
          <6>2. w[1] = n
            BY <3>4, <5>3, <6>1, Remainders
          <6> QED
            BY <5>1, <5>4, <6>1, <6>2
        <5>8. CASE n < 0
          <6>1. n \in -Base..-1 /\ n + Base >= h /\ (n + Base) - Base = n
            BY <3>4, <5>5, <5>6, <5>8
          <6>2. w[1] = n + Base
            BY <3>4, <5>3, <6>1, Remainders
          <6> QED
            BY <5>1, <5>4, <6>1, <6>2
        <5> QED
          BY <3>4, <5>7, <5>8
      <4> QED
        BY <1>2, <2>5, <4>1, <4>2
    <3> QED
      BY <1>1, <2>3, <2>5, <3>4, <3>5
  <2> QED
    BY <2>4, <2>5
<1> QED
  BY <1>3, <1>4

(* The words of a float are the halves of its number. *)
LEMMA FloatWords ==
  ASSUME NEW i \in 1..N, Config[i].kind = "float32", NEW r, r = 0 \/ r \in Usable(i)
  PROVE  WordOf(i, r, 1) = ValueOf(i, r) \div Base /\ WordOf(i, r, 2) = ValueOf(i, r) % Base
<1>1. CASE r = 0
  <2>1. 0 \div Base = 0 /\ 0 % Base = 0
    BY SimulatorAssumption
  <2> QED
    BY <1>1, <2>1 DEF WordOf, ValueOf
<1>2. CASE r # 0
  <2>1. r \in Rows /\ RowWords(i, r) # <<>>
    BY <1>2 DEF Usable, RowWords
  <2>2. PICK reg, x, u : reg = Config[i] /\ x = Data[r][i] /\ u = Words(reg, x)
    OBVIOUS
  <2>3. u # <<>> /\ u = RowWords(i, r) /\ ValueOf(i, r) = x
    BY <1>2, <2>1, <2>2 DEF RowWords, ValueOf
  <2>4. x \notin {NaN, Missing}
    BY <2>2, <2>3 DEF Words
  <2>5. u = IF reg.addr = Size - 1 THEN <<>> ELSE <<x \div Base, x % Base>>
    BY <2>2, <2>4 DEF Words
  <2>6. u = <<x \div Base, x % Base>>
    BY <2>3, <2>5
  <2>7. u[1] = x \div Base /\ u[2] = x % Base
    BY <2>6, TwoWords
  <2> QED
    BY <1>2, <2>3, <2>7 DEF WordOf
<1> QED
  BY <1>1, <1>2


----------------------------------------------------------------------------
(* What the registers may show *)

(* The newest of some rows, when the row r is the last of them. *)
LEMMA NewestIs ==
  ASSUME NEW i, NEW r \in Usable(i)
  PROVE  Showing(i, r) = {r}
<1>1. r \in { q \in Usable(i) : q <= r } /\ Usable(i) \subseteq Nat
  BY ConfigTyped DEF Usable
<1>2. Newest({ q \in Usable(i) : q <= r }) = {r}
  BY <1>1 DEF Newest
<1> QED
  BY <1>1, <1>2 DEF Showing

(* A refused row changes nothing. *)
LEMMA RefusedShows ==
  ASSUME NEW i, NEW r \in Rows, r \notin Usable(i)
  PROVE  Showing(i, r) = IF r > 1 THEN Showing(i, r - 1) ELSE {0} \cup Newest(Usable(i))
<1>1. Usable(i) \subseteq 1..Len(Data) /\ r \in 1..Len(Data) /\ Len(Data) \in Nat
  BY ConfigTyped DEF Usable
<1>2. { q \in Usable(i) : q <= r } = { q \in Usable(i) : q <= r - 1 }
  BY <1>1
<1>3. r = 1 => { q \in Usable(i) : q <= r } = {}
  BY <1>1
<1>4. PICK P : P = { q \in Usable(i) : q <= r }
  OBVIOUS
<1>5. Showing(i, r) = IF P # {} THEN Newest(P) ELSE {0} \cup Newest(Usable(i))
  BY <1>4 DEF Showing
<1>6. Showing(i, r - 1) = IF P # {} THEN Newest(P) ELSE {0} \cup Newest(Usable(i))
  BY <1>2, <1>4 DEF Showing
<1>7. r > 1 \/ P = {}
  BY <1>1, <1>3, <1>4
<1>8. CASE r > 1
  BY <1>5, <1>6, <1>8
<1>9. CASE ~(r > 1)
  BY <1>5, <1>7, <1>9
<1> QED
  BY <1>8, <1>9

(* After the last row comes the first. *)
LEMMA ShowsPassBefore ==
  ASSUME NEW i
  PROVE  Showing(i, Len(Data)) \subseteq {0} \cup Newest(Usable(i))
<1>1. { q \in Usable(i) : q <= Len(Data) } = Usable(i)
  BY ConfigTyped DEF Usable
<1> QED
  BY <1>1 DEF Showing

LEMMA NextRowIs ==
  ASSUME NEW r \in Rows
  PROVE  /\ (r % Len(Data)) + 1 \in Rows
         /\ (r % Len(Data)) + 1 = IF r = Len(Data) THEN 1 ELSE r + 1
<1>1. r \in 1..Len(Data) /\ Len(Data) \in Nat /\ Len(Data) > 0 /\ Rows = 1..Len(Data)
  BY ConfigTyped
<1>2. PICK m : m = Len(Data)
  OBVIOUS
<1>3. r % m = IF r = m THEN 0 ELSE r
  BY <1>1, <1>2
<1> QED
  BY <1>1, <1>2, <1>3

(* A register that is not written shows what it showed, when it may. *)
LEMMA ShowsStill ==
  ASSUME NEW i \in 1..N, Shows(i), Held(i, 1)' = Held(i, 1),
         Width(Config[i]) = 2 /\ Within(i) => Held(i, 2)' = Held(i, 2),
         Shown(i, 1) \subseteq Shown(i, 1)', Shown(i, 2) \subseteq Shown(i, 2)',
         start.i = i /\ start.k = 2 => start'.i = i /\ start'.k = 2
  PROVE  Shows(i)'
<1>1. PICK r \in Shown(i, 1), s \in Shown(i, 2) :
        /\ Held(i, 1) = WordOf(i, r, 1)
        /\ Width(Config[i]) = 2 /\ Within(i) => Held(i, 2) = WordOf(i, s, 2)
        /\ r # s => start.i = i /\ start.k = 2
  BY DEF Shows
<1>2. r \in Shown(i, 1)' /\ s \in Shown(i, 2)'
  BY <1>1
<1>3. \A q, k : WordOf(i, q, k)' = WordOf(i, q, k)
  BY DEF WordOf
<1> QED
  BY <1>1, <1>2, <1>3 DEF Shows

(* It shows the row at hand once both its words, or the first of two, are  *)
(* written.                                                                *)
LEMMA ShowsWritten ==
  ASSUME NEW i \in 1..N, NEW r, Shown(i, 1)' = {r},
         Held(i, 1)' = WordOf(i, r, 1),
         \/ Shown(i, 2)' = {r} /\ (Width(Config[i]) = 2 => Held(i, 2)' = WordOf(i, r, 2))
         \/ /\ start'.i = i /\ start'.k = 2
            /\ \E s \in Shown(i, 2)' : Width(Config[i]) = 2 /\ Within(i) => Held(i, 2)' = WordOf(i, s, 2)
  PROVE  Shows(i)'
<1>1. \A q, k : WordOf(i, q, k)' = WordOf(i, q, k)
  BY DEF WordOf
<1>2. r \in Shown(i, 1)'
  OBVIOUS
<1>3. CASE Shown(i, 2)' = {r} /\ (Width(Config[i]) = 2 => Held(i, 2)' = WordOf(i, r, 2))
  <2>1. r \in Shown(i, 2)'
    BY <1>3
  <2> QED
    BY <1>1, <1>2, <1>3, <2>1 DEF Shows
<1>4. CASE /\ start'.i = i /\ start'.k = 2
           /\ \E s \in Shown(i, 2)' : Width(Config[i]) = 2 /\ Within(i) => Held(i, 2)' = WordOf(i, s, 2)
  <2>1. PICK s \in Shown(i, 2)' : Width(Config[i]) = 2 /\ Within(i) => Held(i, 2)' = WordOf(i, s, 2)
    BY <1>4
  <2> QED
    BY <1>1, <1>2, <1>4, <2>1 DEF Shows
<1> QED
  BY <1>3, <1>4

(* One word is set. *)
Sets(m, old, T, X, v) == m = [old EXCEPT ![T][X] = v]
IsMem(m) == m = [t \in Tables |-> [a \in 0..Size - 1 |-> m[t][a]]]

LEMMA WordSet ==
  ASSUME NEW old, IsMem(old), NEW T \in Tables, NEW X \in 0..Size - 1, NEW v, NEW m, Sets(m, old, T, X, v)
  PROVE  /\ IsMem(m) /\ m[T][X] = v
         /\ \A t \in Tables : \A a \in 0..Size - 1 : (t # T \/ a # X) => m[t][a] = old[t][a]
<1>1. DOMAIN old = Tables /\ \A t \in Tables : DOMAIN old[t] = 0..Size - 1
  BY DEF IsMem
<1>2. m = [old EXCEPT ![T] = [old[T] EXCEPT ![X] = v]]
  BY <1>1 DEF Sets
<1>3. DOMAIN m = Tables /\ \A t \in Tables : m[t] = IF t = T THEN [old[T] EXCEPT ![X] = v] ELSE old[t]
  BY <1>1, <1>2
<1>4. m[T][X] = v /\ \A t \in Tables : \A a \in 0..Size - 1 : (t # T \/ a # X) => m[t][a] = old[t][a]
  BY <1>1, <1>3
<1>5. m = [t \in Tables |-> m[t]]
  BY <1>1, <1>2
<1>6. ASSUME NEW t \in Tables
      PROVE  m[t] = [a \in 0..Size - 1 |-> m[t][a]]
  <2>1. CASE t = T
    BY <1>1, <1>3, <2>1
  <2>2. CASE t # T
    <3>1. m[t] = old[t]
      BY <1>3, <2>2
    <3>2. old[t] = [a \in 0..Size - 1 |-> old[t][a]]
      BY DEF IsMem
    <3> QED
      BY <3>1, <3>2
  <2> QED
    BY <2>1, <2>2
<1>7. IsMem(m)
  BY <1>5, <1>6, Zenon DEF IsMem
<1> QED
  BY <1>4, <1>7


----------------------------------------------------------------------------
(* The steps of the writer *)

(* The rows that a word may show, before and after the writer comes to it. *)
LEMMA ShownIs ==
  ASSUME NEW i, NEW k
  PROVE  /\ Passed(i, k) => Shown(i, k) = Showing(i, start.row)
         /\ ~Passed(i, k) => Shown(i, k) = IF start.row > 1 THEN Showing(i, start.row - 1)
                                            ELSE {0} \cup Newest(Usable(i))
BY DEF Shown

LEMMA ShownIsNext ==
  ASSUME NEW i, NEW k
  PROVE  /\ Passed(i, k)' => Shown(i, k)' = Showing(i, start'.row)
         /\ ~Passed(i, k)' => Shown(i, k)' = IF start'.row > 1 THEN Showing(i, start'.row - 1)
                                              ELSE {0} \cup Newest(Usable(i))
<1>1. /\ \A r : Showing(i, r)' = Showing(i, r)
      /\ Newest(Usable(i))' = Newest(Usable(i))
  BY DEF Showing, Newest, Usable
<1> QED
  BY <1>1 DEF Shown

(* Another register shows the same rows when the writer goes on at i. *)
LEMMA OthersShow ==
  ASSUME SimTyped, start.at = "apply", start.i \in 1..N, start'.at = "apply", start'.row = start.row,
         start'.i = start.i \/ (start'.i = start.i + 1 /\ start'.k = 1),
         NEW j \in 1..N, j # start.i, NEW k \in {1, 2}
  PROVE  Shown(j, k)' = Shown(j, k)
<1>1. N \in Nat
  BY ConfigTyped
<1>2. Passed(j, k)' <=> Passed(j, k)
  BY <1>1 DEF Passed, SimTyped, StartType
<1>3. CASE Passed(j, k)
  BY <1>2, <1>3, ShownIs, ShownIsNext
<1>4. CASE ~ Passed(j, k)
  BY <1>2, <1>4, ShownIs, ShownIsNext
<1> QED
  BY <1>3, <1>4

(* The writer goes on. *)
LEMMA GoesOn ==
  ASSUME SimTyped, start.i \in 1..N
  PROVE  /\ [start EXCEPT !.i = start.i + 1, !.k = 1] \in StartType
         /\ [start EXCEPT !.k = 2] \in StartType
<1>1. N \in Nat
  BY ConfigTyped
<1>2. start.i + 1 \in 1..N + 1
  BY <1>1
<1> QED
  BY <1>2 DEF SimTyped, StartType

(* A value is refused. *)
LEMMA RefusedKeeps ==
  ASSUME SimInv, WriteWord, RowWords(start.i, start.row) = <<>>
  PROVE  SimInv'
<1>1. PICK i, r : i = start.i /\ r = start.row
  OBVIOUS
<1>2. /\ N \in Nat /\ i \in 1..N /\ r \in Rows /\ start.at = "apply" /\ start.k = 1
  BY <1>1, ConfigTyped DEF WriteWord, SimInv, SimTyped, StartType, Between
<1>3. Words(Config[i], Data[r][i]) = <<>> /\ r \notin Usable(i)
  BY <1>1 DEF RowWords, Usable
<1>4. mem' = mem /\ start' = [start EXCEPT !.i = i + 1, !.k = 1] /\ UNCHANGED cl
  <2>1. Len(<<>>) = 0 /\ ~(1 < 0)
    OBVIOUS
  <2> QED
    BY <1>1, <1>2, <1>3, <2>1 DEF WriteWord, clientVars
<1>5. start'.at = "apply" /\ start'.row = r /\ start'.i = i + 1 /\ start'.k = 1
  BY <1>1, <1>2, <1>4 DEF SimInv, SimTyped, StartType
<1>6. SimTyped' /\ Between'
  <2>1. start' \in StartType
    BY <1>1, <1>2, <1>4, GoesOn DEF SimInv
  <2> QED
    BY <1>4, <1>5, <2>1 DEF SimInv, SimTyped, StartType, Between
<1>7. \A k \in {1, 2} : Shown(i, k)' = Shown(i, k)
  <2>1. ASSUME NEW k \in {1, 2} PROVE Passed(i, k)' /\ ~Passed(i, k)
    BY <1>1, <1>2, <1>5 DEF Passed
  <2>2. PICK S : S = IF r > 1 THEN Showing(i, r - 1) ELSE {0} \cup Newest(Usable(i))
    OBVIOUS
  <2>3. Showing(i, r) = S
    BY <1>2, <1>3, <2>2, RefusedShows
  <2>4. ASSUME NEW k \in {1, 2} PROVE Shown(i, k)' = S /\ Shown(i, k) = S
    <3>1. Shown(i, k) = S
      BY <1>1, <2>1, <2>2, ShownIs
    <3>2. Shown(i, k)' = Showing(i, start'.row)
      BY <2>1, ShownIsNext
    <3> QED
      BY <1>5, <2>3, <3>1, <3>2
  <2> QED
    BY <2>4
<1>8. \A j \in 1..N : \A k \in {1, 2} : Shown(j, k)' = Shown(j, k)
  <2>1. \A j \in 1..N : j # i => \A k \in {1, 2} : Shown(j, k)' = Shown(j, k)
    BY <1>1, <1>2, <1>5, OthersShow DEF SimInv
  <2> QED
    BY <1>7, <2>1
<1>9. ASSUME NEW j \in 1..N PROVE Shows(j)'
  <2>1. Held(j, 1)' = Held(j, 1) /\ Held(j, 2)' = Held(j, 2)
    BY <1>4 DEF Held
  <2>2. Shows(j) /\ Shown(j, 1)' = Shown(j, 1) /\ Shown(j, 2)' = Shown(j, 2)
    BY <1>8 DEF SimInv
  <2> QED
    BY <1>2, <2>1, <2>2, ShowsStill
<1> QED
  BY <1>6, <1>9 DEF SimInv

(* A word is written. *)
LEMMA WordKeeps ==
  ASSUME Separate, SimInv, WriteWord, RowWords(start.i, start.row) # <<>>
  PROVE  SimInv'
<1>1. PICK i, r, k, w : i = start.i /\ r = start.row /\ k = start.k /\ w = RowWords(i, r)
  OBVIOUS
<1>2. N \in Nat /\ i \in 1..N /\ r \in Rows /\ start.at = "apply" /\ k \in {1, 2}
  BY <1>1, ConfigTyped DEF WriteWord, SimInv, SimTyped, StartType
<1>3. w # <<>> /\ w = Words(Config[i], Data[r][i]) /\ r \in Usable(i)
  BY <1>1, <1>2 DEF RowWords, Usable
<1>4. Len(w) = Width(Config[i]) /\ Within(i)
  BY <1>1, <1>2, <1>3, WordsAre
<1>5. Width(Config[i]) \in {1, 2} /\ k \in 1..Width(Config[i])
  <2>1. Width(Config[i]) \in {1, 2}
    BY <1>2, ConfigTyped
  <2>2. k = 2 => Width(Config[i]) = 2
    BY <1>1 DEF SimInv, Between
  <2> QED
    BY <1>2, <2>1, <2>2
<1>6. PICK T, X : T = Config[i].table /\ X = Config[i].addr + k - 1
  OBVIOUS
<1>7. T \in Tables /\ X \in 0..Size - 1 /\ Config[i].addr \in 0..Size - 1
  <2>1. T \in Tables /\ Config[i].addr \in 0..Size - 1 /\ Size \in Nat
    BY <1>2, <1>6, ConfigTyped, SimulatorAssumption
  <2>2. Config[i].addr + Width(Config[i]) <= Size
    BY <1>4 DEF Within
  <2> QED
    BY <1>5, <1>6, <2>1, <2>2
<1>8. /\ mem' = [mem EXCEPT ![T][X] = w[k]] /\ UNCHANGED cl
      /\ start' = IF k < Len(w) THEN [start EXCEPT !.k = k + 1] ELSE [start EXCEPT !.i = i + 1, !.k = 1]
  BY <1>1, <1>3, <1>6 DEF WriteWord, clientVars
<1>9. /\ IsMem(mem') /\ mem'[T][X] = w[k]
      /\ \A t \in Tables : \A a \in 0..Size - 1 : (t # T \/ a # X) => mem'[t][a] = mem[t][a]
  <2>1. PICK m, old : m = mem' /\ old = mem
    OBVIOUS
  <2>2. IsMem(old) /\ Sets(m, old, T, X, w[k])
    BY <1>8, <2>1 DEF IsMem, Sets, SimInv, SimTyped, StartType
  <2> QED
    BY <1>7, <2>1, <2>2, WordSet
<1>10. Held(i, k)' = w[k]
  BY <1>6, <1>9 DEF Held
<1>11. /\ start'.at = "apply" /\ start'.row = r
       /\ IF k = 1 /\ Len(w) = 2 THEN start'.i = i /\ start'.k = 2 ELSE start'.i = i + 1 /\ start'.k = 1
  <2>1. k < Len(w) <=> k = 1 /\ Len(w) = 2
    BY <1>4, <1>5
  <2> QED
    BY <1>1, <1>2, <1>8, <2>1 DEF SimInv, SimTyped, StartType
<1>12. SimTyped' /\ Between'
  <2>1. start' \in StartType
    <3>1. k + 1 = 2 \/ ~(k < Len(w))
      BY <1>4, <1>5
    <3>2. start' = [start EXCEPT !.k = 2] \/ start' = [start EXCEPT !.i = start.i + 1, !.k = 1]
      BY <1>1, <1>8, <3>1
    <3> QED
      BY <1>1, <1>2, <3>2, GoesOn DEF SimInv
  <2>2. SimTyped'
    BY <1>8, <1>9, <2>1 DEF SimInv, SimTyped, StartType, IsMem
  <2>3. start'.k = 2 => start'.i = i /\ Len(w) = 2
    BY <1>11
  <2>4. RowWords(i, r)' = RowWords(i, r)
    BY DEF RowWords
  <2> QED
    BY <1>1, <1>2, <1>3, <1>4, <1>11, <2>2, <2>3, <2>4 DEF Between
<1>13. ASSUME NEW j \in 1..N, j # i
       PROVE  Shows(j)'
  <2>1. \A m \in {1, 2} : Shown(j, m)' = Shown(j, m)
    BY <1>1, <1>2, <1>11, <1>13, OthersShow DEF SimInv
  <2>2. ASSUME NEW m \in 1..Width(Config[j]), m = 1 \/ Within(j)
        PROVE  Held(j, m)' = Held(j, m)
    <3>1. /\ Config[j].table \in Tables /\ Config[j].addr \in 0..Size - 1 /\ Size \in Nat
          /\ Width(Config[j]) \in {1, 2}
      BY ConfigTyped, SimulatorAssumption
    <3>2. Config[j].addr + m - 1 \in 0..Size - 1
      BY <2>2, <3>1 DEF Within
    <3>3. Config[j].table # T \/ Config[j].addr + m - 1 # X
      <4>1. ASSUME Config[j].table = T, Config[j].addr + m - 1 = X
            PROVE  FALSE
        <5>1. Config[i].addr + k = Config[j].addr + m
          <6>1. PICK a, b : a = Config[i].addr /\ b = Config[j].addr
            OBVIOUS
          <6>2. a \in Int /\ b \in Int /\ k \in Int /\ m \in Int
            BY <1>2, <1>7, <2>2, <3>1, <6>1
          <6>3. a + k - 1 = b + m - 1
            BY <1>6, <4>1, <6>1
          <6>4. a + k = b + m
            BY <6>2, <6>3
          <6> QED
            BY <6>1, <6>4
        <5> QED
          BY <1>2, <1>5, <1>6, <1>13, <2>2, <4>1, <5>1 DEF Separate
      <4> QED
        BY <4>1
    <3> QED
      BY <1>9, <3>1, <3>2, <3>3 DEF Held
  <2>3. Held(j, 1)' = Held(j, 1) /\ (Width(Config[j]) = 2 /\ Within(j) => Held(j, 2)' = Held(j, 2))
    <3>1. Width(Config[j]) \in {1, 2}
      BY ConfigTyped
    <3>2. 1 \in 1..Width(Config[j]) /\ (Width(Config[j]) = 2 => 2 \in 1..Width(Config[j]))
      BY <3>1
    <3> QED
      BY <2>2, <3>2
  <2>4. Shows(j) /\ start.i # j
    BY <1>1, <1>13 DEF SimInv
  <2> QED
    BY <2>1, <2>3, <2>4, ShowsStill
<1>14. Showing(i, r) = {r}
  BY <1>3, NewestIs
<1>15. PICK q \in Shown(i, 1), s \in Shown(i, 2) :
         /\ Held(i, 1) = WordOf(i, q, 1)
         /\ Width(Config[i]) = 2 /\ Within(i) => Held(i, 2) = WordOf(i, s, 2)
  BY <1>2 DEF SimInv, Shows
<1>16. r # 0 /\ \A m : WordOf(i, r, m) = w[m]
  BY <1>1, <1>2, ConfigTyped DEF WordOf
<1>17. Shows(i)'
  <2>1. CASE k = 1 /\ Len(w) = 2
    <3>1. Passed(i, 1)' /\ ~Passed(i, 2)' /\ ~Passed(i, 2)
      BY <1>1, <1>2, <1>11, <2>1 DEF Passed
    <3>2. Shown(i, 1)' = {r}
      BY <1>11, <1>14, <3>1, ShownIsNext
    <3>3. Shown(i, 2)' = Shown(i, 2)
      BY <1>1, <1>11, <3>1, ShownIs, ShownIsNext
    <3>4. Held(i, 2)' = Held(i, 2)
      <4>1. Config[i].addr + 2 - 1 \in 0..Size - 1 /\ Config[i].addr + 2 - 1 # X /\ Width(Config[i]) = 2
        BY <1>4, <1>6, <1>7, <2>1, SimulatorAssumption DEF Within
      <4> QED
        BY <1>6, <1>7, <1>9, <4>1 DEF Held
    <3>5. Held(i, 1)' = WordOf(i, r, 1)
      BY <1>10, <1>16, <2>1
    <3>6. start'.i = i /\ start'.k = 2
      BY <1>11, <2>1
    <3>7. \E x \in Shown(i, 2)' : Width(Config[i]) = 2 /\ Within(i) => Held(i, 2)' = WordOf(i, x, 2)
      BY <1>15, <3>3, <3>4
    <3> QED
      BY <1>2, <3>2, <3>5, <3>6, <3>7, ShowsWritten
  <2>2. CASE ~(k = 1 /\ Len(w) = 2)
    <3>1. start'.i = i + 1 /\ i < i + 1
      BY <1>2, <1>11, <2>2
    <3>2. Passed(i, 1)' /\ Passed(i, 2)'
      BY <3>1 DEF Passed
    <3>3. Shown(i, 1)' = {r} /\ Shown(i, 2)' = {r}
      BY <1>11, <1>14, <3>2, ShownIsNext
    <3>4. CASE k = 1
      <4>1. Width(Config[i]) # 2
        BY <1>4, <2>2, <3>4
      <4> QED
        BY <1>2, <1>10, <1>16, <3>3, <3>4, <4>1, ShowsWritten
    <3>5. CASE k = 2
      <4>1. Passed(i, 1)
        BY <1>1, <3>5 DEF Passed
      <4>2. q = r
        BY <1>1, <1>14, <1>15, <4>1, ShownIs
      <4>3. Held(i, 1)' = Held(i, 1)
        <5>1. Config[i].addr + 1 - 1 \in 0..Size - 1 /\ Config[i].addr + 1 - 1 # X
          BY <1>6, <1>7, <3>5, SimulatorAssumption
        <5> QED
          BY <1>6, <1>7, <1>9, <5>1 DEF Held
      <4>4. Held(i, 1)' = WordOf(i, r, 1) /\ Held(i, 2)' = WordOf(i, r, 2)
        BY <1>10, <1>15, <1>16, <3>5, <4>2, <4>3
      <4> QED
        BY <1>2, <3>3, <4>4, ShowsWritten
    <3> QED
      BY <1>2, <3>4, <3>5
  <2> QED
    BY <2>1, <2>2
<1> QED
  BY <1>12, <1>13, <1>17 DEF SimInv


(* Every register shows what it showed, when the writer does not write.    *)
LEMMA AllShowStill ==
  ASSUME SimInv, UNCHANGED mem, start.k = 1,
         \A i \in 1..N, k \in {1, 2} : Shown(i, k) \subseteq Shown(i, k)'
  PROVE  \A i \in 1..N : Shows(i)'
<1> SUFFICES ASSUME NEW i \in 1..N PROVE Shows(i)'
  OBVIOUS
<1>1. Held(i, 1)' = Held(i, 1) /\ Held(i, 2)' = Held(i, 2)
  BY DEF Held
<1>2. Shows(i) /\ Shown(i, 1) \subseteq Shown(i, 1)' /\ Shown(i, 2) \subseteq Shown(i, 2)'
  BY DEF SimInv
<1> QED
  BY <1>1, <1>2, ShowsStill

(* A row is over, or the writer: it has passed every word. *)
LEMMA RowOverKeeps ==
  ASSUME SimInv, RowApplied \/ StartReturns
  PROVE  SimInv'
<1>1. PICK r : r = start.row
  OBVIOUS
<1>2. N \in Nat /\ start \in StartType /\ start.k = 1 /\ UNCHANGED <<mem, cl>>
  <2>1. start.k = 2 => start.at = "apply" /\ start.i \in 1..N
    BY DEF SimInv, Between
  <2>2. start.at = "select" \/ ~(start.i \in 1..N)
    BY ConfigTyped DEF RowApplied, StartReturns
  <2> QED
    BY <2>1, <2>2, ConfigTyped DEF RowApplied, StartReturns, SimInv, SimTyped, StartType, clientVars
<1>3. start' \in StartType /\ start'.k = 1 /\ start'.row = r /\ start'.at # "apply" /\ start'.i = 1
  <2>1. 1 \in 1..N + 1
    BY <1>2
  <2>2. start.at = "select" => start.i = 1
    BY DEF SimInv, Between
  <2> QED
    BY <1>1, <1>2, <2>1, <2>2 DEF RowApplied, StartReturns, StartType
<1>4. \A i \in 1..N, k \in {1, 2} : Passed(i, k) /\ Passed(i, k)'
  BY <1>2, <1>3 DEF RowApplied, StartReturns, Passed, StartType
<1>5. \A i \in 1..N, k \in {1, 2} : Shown(i, k) = Shown(i, k)'
  BY <1>1, <1>3, <1>4, ShownIs, ShownIsNext
<1>6. \A i \in 1..N : Shows(i)'
  BY <1>2, <1>5, AllShowStill
<1> QED
  BY <1>2, <1>3, <1>6 DEF SimInv, SimTyped, Between

(* The next row begins; after the last it is the first. *)
LEMMA NextRowKeeps ==
  ASSUME SimInv, NextRow
  PROVE  SimInv'
<1>1. PICK r, s : r = start.row /\ s = (r % Len(Data)) + 1
  OBVIOUS
<1>2. /\ N \in Nat /\ start.at = "select" /\ start \in StartType /\ r \in Rows /\ UNCHANGED <<mem, cl>>
      /\ start' = [start EXCEPT !.at = "apply", !.row = s]
  BY <1>1, ConfigTyped DEF NextRow, SimInv, SimTyped, StartType, clientVars
<1>3. start.k = 1 /\ start.i = 1
  BY <1>2 DEF SimInv, Between, StartType
<1>4. s \in Rows /\ s = IF r = Len(Data) THEN 1 ELSE r + 1
  BY <1>1, <1>2, NextRowIs
<1>5. /\ start' \in StartType /\ start'.at = "apply" /\ start'.row = s
      /\ start'.k = 1 /\ start'.i = 1
  BY <1>2, <1>3, <1>4 DEF StartType
<1>6. r \in 1..Len(Data) /\ Len(Data) \in Nat
  BY <1>2, ConfigTyped
<1>7. ASSUME NEW i \in 1..N, NEW k \in {1, 2}
      PROVE  Shown(i, k) \subseteq Shown(i, k)'
  <2>1. Shown(i, k) = Showing(i, r)
    <3>1. Passed(i, k)
      BY <1>2 DEF Passed
    <3> QED
      BY <1>1, <3>1, ShownIs
  <2>2. ~Passed(i, k)'
    BY <1>5, <1>2 DEF Passed
  <2>3. Shown(i, k)' = IF s > 1 THEN Showing(i, s - 1) ELSE {0} \cup Newest(Usable(i))
    BY <1>5, <2>2, ShownIsNext
  <2>4. CASE r = Len(Data)
    <3>1. Shown(i, k)' = {0} \cup Newest(Usable(i))
      BY <1>4, <2>3, <2>4
    <3> QED
      BY <2>1, <2>4, <3>1, ShowsPassBefore
  <2>5. CASE r # Len(Data)
    <3>1. s > 1 /\ s - 1 = r
      BY <1>4, <1>6, <2>5
    <3> QED
      BY <2>1, <2>3, <3>1
  <2> QED
    BY <2>4, <2>5
<1>8. \A i \in 1..N : Shows(i)'
  BY <1>2, <1>3, <1>7, AllShowStill
<1> QED
  BY <1>2, <1>5, <1>8 DEF SimInv, SimTyped, Between

----------------------------------------------------------------------------
(* The invariant *)

(* At first the registers are zero, which every one may show. *)
LEMMA SimInit == Init => SimInv
<1> SUFFICES ASSUME Init PROVE SimInv
  OBVIOUS
<1>1. /\ start.at = "apply" /\ start.row = 1 /\ start.i = 1 /\ start.k = 1 /\ cl = [at |-> "opening", i |-> 1]
      /\ mem = [t \in Tables |-> [a \in 0..Size - 1 |-> 0]]
      /\ start = [at |-> "apply", row |-> 1, i |-> 1, k |-> 1]
  BY DEF Init
<1>2. N \in Nat /\ 1 \in Rows /\ 1 \in 1..N + 1
  BY ConfigTyped
<1>3. \A t \in Tables : \A a \in 0..Size - 1 : mem[t][a] = 0
  BY <1>1
<1>4. mem = [t \in Tables |-> [a \in 0..Size - 1 |-> mem[t][a]]]
  <2>1. \A t \in Tables : mem[t] = [a \in 0..Size - 1 |-> mem[t][a]]
    BY <1>1
  <2>2. mem = [t \in Tables |-> mem[t]]
    BY <1>1
  <2> QED
    BY <2>1, <2>2, Zenon
<1>5. SimTyped /\ Between
  BY <1>1, <1>2, <1>4 DEF SimTyped, Between, StartType, Stages
<1>6. ASSUME NEW i \in 1..N PROVE Shows(i)
  <2>1. \A k \in {1, 2} : ~Passed(i, k)
    BY <1>1, <1>2 DEF Passed
  <2>2. \A k \in {1, 2} : 0 \in Shown(i, k)
    BY <1>1, <2>1, ShownIs
  <2>3. /\ Config[i].table \in Tables /\ Config[i].addr \in 0..Size - 1 /\ Size \in Nat
    BY ConfigTyped, SimulatorAssumption
  <2>4. Config[i].addr + 1 - 1 \in 0..Size - 1
        /\ (Width(Config[i]) = 2 /\ Within(i) => Config[i].addr + 2 - 1 \in 0..Size - 1)
    BY <2>3 DEF Within
  <2>5. Held(i, 1) = 0 /\ (Width(Config[i]) = 2 /\ Within(i) => Held(i, 2) = 0)
    BY <1>3, <2>3, <2>4 DEF Held
  <2>6. WordOf(i, 0, 1) = 0 /\ WordOf(i, 0, 2) = 0
    BY DEF WordOf
  <2> QED
    BY <2>2, <2>5, <2>6 DEF Shows
<1> QED
  BY <1>5, <1>6 DEF SimInv

(* The client, and the rest of the server, leave the registers alone. *)
LEMMA RegistersRest ==
  ASSUME SimInv, UNCHANGED <<start, mem>>, cl' \in [at : Stages, i : Nat \ {0}]
  PROVE  SimInv'
<1>1. Between' /\ SimTyped'
  BY DEF SimInv, SimTyped, Between, RowWords
<1>2. \A i, k : Passed(i, k)' <=> Passed(i, k)
  BY DEF Passed
<1>3. \A i, k : Held(i, k)' = Held(i, k) /\ Shown(i, k)' = Shown(i, k)
  BY DEF Held, Shown, Passed, Showing, Newest, Usable
<1>4. \A i \in 1..N : Shows(i)'
  BY <1>3 DEF SimInv, Shows, WordOf, RowWords
<1> QED
  BY <1>1, <1>4 DEF SimInv

LEMMA SimNext == Separate /\ SimInv /\ [Next]_simVars => SimInv'
<1> SUFFICES ASSUME Separate, SimInv, [Next]_simVars PROVE SimInv'
  OBVIOUS
<1>t. cl \in [at : Stages, i : Nat \ {0}]
  BY DEF SimInv, SimTyped
<1>1. CASE WriteWord
  BY <1>1, RefusedKeeps, WordKeeps
<1>2. CASE RowApplied \/ StartReturns
  BY <1>2, RowOverKeeps
<1>3. CASE NextRow
  BY <1>3, NextRowKeeps
<1>4. CASE OpenPort \/ StreamEnds \/ Cancel \/ BeginClose \/ Exit \/ UNCHANGED simVars
  BY <1>4, <1>t, RegistersRest
     DEF OpenPort, StreamEnds, Cancel, BeginClose, Exit, simVars, serverVars, clientVars
<1>5. CASE Client
  <2>1. UNCHANGED <<start, mem>>
    BY <1>5 DEF Client, Connect, ReadValue, ReadFails, CloseClient, Reopen, Retry, Panic, NextRound, serverVars
  <2>2. cl' \in [at : Stages, i : Nat \ {0}]
    <3>1. /\ cl.at \in Stages /\ cl.i \in Nat \ {0} /\ 1 \in Nat \ {0}
          /\ \A a \in {"fatal", "reopen", "retry", "panicked"} : [cl EXCEPT !.at = a] \in [at : Stages, i : Nat \ {0}]
      BY <1>t DEF Stages
    <3>2. [at |-> "read", i |-> 1] \in [at : Stages, i : Nat \ {0}]
      BY <3>1 DEF Stages
    <3>3. NextRegister => cl' \in [at : Stages, i : Nat \ {0}]
      <4>1. cl.i + 1 \in Nat \ {0}
        BY <3>1
      <4> QED
        BY <4>1 DEF NextRegister, Stages
    <3>4. CASE Connect
      BY <3>1, <3>2, <3>4 DEF Connect
    <3>5. CASE ReadValue
      BY <3>3, <3>5 DEF ReadValue
    <3>6. CASE ReadFails
      BY <3>1, <3>3, <3>6 DEF ReadFails
    <3>7. CASE CloseClient
      BY <3>1, <3>7, <1>t DEF CloseClient, clientVars
    <3>8. CASE Reopen
      BY <3>1, <3>3, <3>8 DEF Reopen
    <3>9. CASE Retry
      BY <3>1, <3>3, <3>9 DEF Retry
    <3>10. CASE Panic
      BY <3>1, <3>10 DEF Panic
    <3>11. CASE NextRound
      BY <3>2, <3>11 DEF NextRound
    <3> QED
      BY <1>5, <3>4, <3>5, <3>6, <3>7, <3>8, <3>9, <3>10, <3>11 DEF Client
  <2> QED
    BY <2>1, <2>2, RegistersRest
<1> QED
  BY <1>1, <1>2, <1>3, <1>4, <1>5 DEF Next, Server

----------------------------------------------------------------------------
(* What is printed *)

(* The value decoded from the words of a register is that of a row. *)
LEMMA DecodedFits ==
  ASSUME SimInv, NEW i \in 1..N, Within(i), ~(via = "tcp" /\ mode = "rtu"),
         NEW w, w[1] = Held(i, 1), Width(Config[i]) = 2 => w[2] = Held(i, 2)
  PROVE  Fits(i, Decode(Config[i], w))
<1>1. PICK r \in Shown(i, 1), s \in Shown(i, 2) :
        /\ Held(i, 1) = WordOf(i, r, 1)
        /\ Width(Config[i]) = 2 /\ Within(i) => Held(i, 2) = WordOf(i, s, 2)
        /\ r # s => start.i = i /\ start.k = 2
  BY DEF SimInv, Shows
<1>2. \A k : \A q \in Shown(i, k) : q = 0 \/ q \in Usable(i)
  BY DEF Shown, Showing, Newest
<1>3. Width(Config[i]) = IF Config[i].kind = "float32" THEN 2 ELSE 1
  BY ConfigTyped
<1>4. CASE Config[i].kind = "float32"
  <2>1. w[1] = ValueOf(i, r) \div Base /\ w[2] = ValueOf(i, s) % Base
    <3>1. w[1] = WordOf(i, r, 1) /\ w[2] = WordOf(i, s, 2)
      BY <1>1, <1>3, <1>4
    <3> QED
      BY <1>1, <1>2, <1>4, <3>1, FloatWords
  <2>2. Decode(Config[i], w) = (ValueOf(i, r) \div Base) * Base + (ValueOf(i, s) % Base)
    BY <1>4, <2>1 DEF Decode
  <2> QED
    BY <1>1, <1>4, <2>2 DEF Fits
<1>5. CASE Config[i].kind # "float32"
  <2>1. r = 0 \/ r \in Usable(i)
    BY <1>1, <1>2
  <2>2. w[1] = WordOf(i, r, 1)
    BY <1>1
  <2>3. IF Config[i].kind = "bit"
          THEN (Decode(Config[i], w) = 1) <=> (r # 0 /\ Data[r][i] # NaN /\ Data[r][i] > 0)
          ELSE 2 * Decode(Config[i], w) - ValueOf(i, r) \in -1..1
    BY <1>5, <2>1, <2>2, FitsScalar
  <2> QED
    BY <1>1, <1>5, <2>3 DEF Fits
<1> QED
  BY <1>4, <1>5

(* Behind an RTU simulator the TCP server has zeros. *)
LEMMA ZerosFit ==
  ASSUME NEW i \in 1..N, via = "tcp" /\ mode = "rtu",
         NEW w, w[1] = 0, Width(Config[i]) = 2 => w[2] = 0
  PROVE  Fits(i, Decode(Config[i], w))
<1>1. Base \in Nat /\ Base \div 2 > 0 /\ 0 * Base + 0 = 0
  BY Halves
<1>2. Config[i].kind \in {"uint16", "int16", "float32", "bit"}
      /\ Width(Config[i]) = IF Config[i].kind = "float32" THEN 2 ELSE 1
  BY ConfigTyped DEF Kinds
<1>3. Decode(Config[i], w) = 0
  <2>1. CASE Config[i].kind \in {"uint16", "bit"}
    BY <2>1 DEF Decode
  <2>2. CASE Config[i].kind = "int16"
    <3>1. Decode(Config[i], w) = IF w[1] >= Base \div 2 THEN w[1] - Base ELSE w[1]
      BY <2>2 DEF Decode
    <3> QED
      BY <1>1, <3>1, Halves
  <2>3. CASE Config[i].kind = "float32"
    <3>1. Decode(Config[i], w) = w[1] * Base + w[2]
      BY <2>3 DEF Decode
    <3> QED
      BY <1>1, <1>2, <2>3, <3>1
  <2> QED
    BY <1>2, <2>1, <2>2, <2>3
<1> QED
  BY <1>3 DEF Fits

Printed == printed' # printed /\ printed' # Nothing => Fits(printed'.i, printed'.v)

LEMMA PrintsRow == SimInv /\ [Next]_simVars => Printed
<1> SUFFICES ASSUME SimInv, [Next]_simVars, printed' # printed, printed' # Nothing
             PROVE  Fits(printed'.i, printed'.v)
  BY DEF Printed
<1>1. ReadValue
  BY DEF Next, Server, WriteWord, RowApplied, NextRow, StartReturns, OpenPort, StreamEnds, Cancel, BeginClose,
         Exit, Client, Connect, ReadFails, CloseClient, Reopen, Retry, Panic, NextRound, simVars, clientVars
<1>2. PICK i, reg : i = cl.i /\ reg = Config[i]
  OBVIOUS
<1>3. PICK w : w = [k \in 1..Width(reg) |-> Served(reg.table, reg.addr + k - 1)]
  OBVIOUS
<1>4. printed' = [i |-> i, v |-> Decode(reg, w)] /\ reg.addr + Width(reg) <= Size /\ i <= N
  BY <1>1, <1>2, <1>3 DEF ReadValue
<1>5. i \in 1..N
  BY <1>2, <1>4, ConfigTyped DEF SimInv, SimTyped
<1>6. Width(reg) \in {1, 2} /\ Within(i)
  BY <1>2, <1>4, <1>5, ConfigTyped DEF Within
<1>7. w[1] = Served(reg.table, reg.addr + 1 - 1) /\ (Width(reg) = 2 => w[2] = Served(reg.table, reg.addr + 2 - 1))
  <2>1. 1 \in 1..Width(reg) /\ (Width(reg) = 2 => 2 \in 1..Width(reg))
    BY <1>6
  <2> QED
    BY <1>3, <2>1
<1>8. Fits(i, Decode(reg, w))
  <2>1. CASE via = "tcp" /\ mode = "rtu"
    <3>1. w[1] = 0 /\ (Width(reg) = 2 => w[2] = 0)
      BY <1>7, <2>1 DEF Served
    <3> QED
      BY <1>2, <1>5, <2>1, <3>1, ZerosFit
  <2>2. CASE ~(via = "tcp" /\ mode = "rtu")
    <3>1. w[1] = Held(i, 1) /\ (Width(reg) = 2 => w[2] = Held(i, 2))
      BY <1>2, <1>7, <2>2 DEF Served, Held
    <3> QED
      BY <1>2, <1>5, <1>6, <2>2, <3>1, DecodedFits
  <2> QED
    BY <2>1, <2>2
<1> QED
  BY <1>4, <1>8

(* Whatever the client prints is the value of a row, within the half unit  *)
(* that rounding costs and with its sign, or the words of two rows of a    *)
(* float while the setter is between them: when no two registers share a   *)
(* word.                                                                   *)
THEOREM ValuesAreRows ==
  ASSUME Separate
  PROVE  Spec => PrintedIsARow
<1>1. SimInv /\ [Next]_simVars => SimInv'
  BY SimNext
<1>2. SimInv /\ [Next]_simVars => [Printed]_simVars
  BY PrintsRow
<1>3. [][Printed]_simVars <=> PrintedIsARow
  BY DEF PrintedIsARow, Printed
<1> QED
  BY <1>1, <1>2, <1>3, SimInit, PTL DEF Spec, SafeSpec
=============================================================================
