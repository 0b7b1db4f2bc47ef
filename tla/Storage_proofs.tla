--------------------------- MODULE Storage_proofs ---------------------------
(***************************************************************************)
(* Theorems about Storage, for every set of producers and readings, every  *)
(* choice of outputs and capacities, and every number of failed writes,    *)
(* crashes and restarts. The channel: its variables keep their types, the  *)
(* channel is a FIFO, and Close drains it. The outputs: Close loses        *)
(* nothing, a crash loses a bounded tail, each run tears at most one line  *)
(* of a file, the CSV file has one header, and the store implements        *)
(* AsyncLog.                                                               *)
(***************************************************************************)
EXTENDS Storage, TLAPS, FiniteSetTheorems, Subsequences_proofs

(* A step of the store, however many calls there have been. *)
AnyStep ==
  \/ \E p \in Producers, v \in Values : Handle(p, v)
  \/ \E p \in Producers : HandleStep(p) \/ Return(p)
  \/ Writer
  \/ CloseQueue \/ CloseReturns
  \/ Kill \/ Restart

(* Beside what TLC checks: a call in progress carries a reading, which a   *)
(* receive may have to move into the channel.                              *)
CallsCarryReadings == \A p \in Producers : call[p].at # "idle" => call[p].v \in Values

(* The line of waiting senders: who is in it, once, and when. *)
ParkedOnlyWhenFull ==
  /\ \A p \in Producers :
       call[p].at = "parked" <=> \E i \in 1..Len(parked) : parked[i] = p
  /\ \A i, j \in 1..Len(parked) : i # j => parked[i] # parked[j]
  /\ parked # <<>> => Len(q) = MaxQueue /\ ~qclosed
  /\ qclosed <=> closer # "open"

ChannelInv == ChannelTypeOK /\ CallsCarryReadings /\ ParkedOnlyWhenFull /\ Fifo

(* The writer serves outputs only with a reading in its hands. *)
ReadingInHand == phase = "loop" /\ todo # <<>> => taken # <<>>

(* The writer leaves its loop only once the channel is closed and empty,    *)
(* and Close waits for its end.                                            *)
LoopDrained ==
  /\ phase # "loop" => qclosed /\ q = <<>>
  /\ closer = "closed" => phase = "stopped"

(* What Close promises of the channel. *)
Drained == closer = "closed" => taken = accepted /\ parked = <<>>

StorageInv == TypeOK /\ ChannelInv /\ ReadingInHand /\ LoopDrained

----------------------------------------------------------------------------
(* Sequences and outputs *)

(* Taking the i-th element out of a sequence. *)
Without(s, i) == SubSeq(s, 1, i - 1) \o SubSeq(s, i + 1, Len(s))

(* Its length, its elements, and their order. *)
LEMMA RemoveElement ==
  ASSUME NEW S, NEW s \in Seq(S), NEW i \in 1..Len(s)
  PROVE  /\ Without(s, i) \in Seq(S)
         /\ Len(Without(s, i)) = Len(s) - 1
         /\ \A j \in 1..Len(s) - 1 :
              Without(s, i)[j] = IF j < i THEN s[j] ELSE s[j + 1]
<1> DEFINE a == SubSeq(s, 1, i - 1)
           b == SubSeq(s, i + 1, Len(s))
           n == Len(s)
<1>1. n \in Nat /\ i \in Int /\ 1 <= i /\ i <= n
  BY LenProperties
<1>2. /\ a \in Seq(S) /\ Len(a) = i - 1
      /\ \A j \in 1..i - 1 : a[j] = s[j]
  BY <1>1, SubSeqProperties, ElementOfSeq
<1>3. /\ b \in Seq(S) /\ Len(b) = n - i
      /\ \A j \in 1..n - i : b[j] = s[j + i]
  BY <1>1, SubSeqProperties, ElementOfSeq
<1>4. /\ a \o b \in Seq(S) /\ Len(a \o b) = Len(a) + Len(b)
      /\ \A j \in 1..Len(a) + Len(b) :
           (a \o b)[j] = IF j <= Len(a) THEN a[j] ELSE b[j - Len(a)]
  BY <1>2, <1>3, ConcatProperties
<1>5. Without(s, i) = a \o b
  BY DEF Without
<1> HIDE DEF a, b, n
<1>6. Len(a) + Len(b) = n - 1
  BY <1>1, <1>2, <1>3
<1>7. ASSUME NEW j \in 1..n - 1
      PROVE  (a \o b)[j] = IF j < i THEN s[j] ELSE s[j + 1]
  <2>1. CASE j < i
    <3>1. j \in 1..i - 1 /\ j <= Len(a)
      BY <1>1, <1>2, <2>1
    <3> QED
      BY <1>2, <1>4, <1>6, <2>1, <3>1
  <2>2. CASE ~(j < i)
    <3>1. j - (i - 1) \in 1..n - i /\ ~(j <= i - 1) /\ j - (i - 1) + i = j + 1
      BY <1>1, <2>2
    <3>2. (a \o b)[j] = b[j - (i - 1)]
      BY <1>2, <1>4, <1>6, <3>1
    <3>3. b[j - (i - 1)] = s[j - (i - 1) + i]
      BY <1>3, <3>1
    <3> QED
      BY <2>2, <3>1, <3>2, <3>3
  <2> QED
    BY <2>1, <2>2
<1> QED
  BY <1>4, <1>5, <1>6, <1>7 DEF n

(* So does a receive from a channel that nobody waits for. *)
LEMMA TakeHead ==
  ASSUME NEW S, NEW t \in Seq(S), NEW s \in Seq(S), s # <<>>
  PROVE  t \o s = Append(t, Head(s)) \o Tail(s)
<1> DEFINE h == <<Head(s)>>
           w == Tail(s)
<1>1. h \in Seq(S) /\ w \in Seq(S) /\ Head(s) \in S
  BY HeadTailProperties
<1>2. s = h \o w
  OBVIOUS
<1>3. t \o (h \o w) = (t \o h) \o w
  BY <1>1, ConcatAssociative
<1>4. Append(t, Head(s)) = t \o h
  BY <1>1, AppendIsConcat
<1> QED
  BY <1>2, <1>3, <1>4

(* The outputs, and the files among them, are sequences of outputs. *)
LEMMA SinkFacts ==
  /\ SinkOrder \in Seq(Sinks) /\ SinkOrder # <<>>
  /\ FileOrder \in Seq(Sinks)
  /\ Sinks \subseteq {"json", "csv", "db"}
BY SinkAssumption DEF Sinks, FileOrder, SinkAssumption

(* Headers and lines are made of cells. *)
LEMMA CellFacts ==
  /\ Header \in Cells
  /\ \A v \in Values : Row(v) \in Cells /\ Line(v) \in Seq(Cells)
BY DEF Header, Row, Line, Cells

----------------------------------------------------------------------------
(* The channel *)

(* Changing how far one call is changes nothing else of the calls. *)
LEMMA CallMoves ==
  ASSUME call \in [Producers -> CallStates], NEW p \in Producers,
         NEW a \in {"idle", "full", "parked", "woken", "ok", "dropped"},
         call' = [call EXCEPT ![p].at = a]
  PROVE  /\ call' \in [Producers -> CallStates]
         /\ \A r \in Producers : /\ call'[r].at = IF r = p THEN a ELSE call[r].at
                                /\ call'[r].v = call[r].v
<1>1. ASSUME NEW r \in Producers
      PROVE  /\ call'[r] \in CallStates
             /\ call'[r].at = IF r = p THEN a ELSE call[r].at
             /\ call'[r].v = call[r].v
  BY DEF CallStates
<1> QED
  BY <1>1

(* Moving a call leaves its reading. *)
LEMMA CallUpdate ==
  ASSUME NEW c \in [Producers -> CallStates], NEW p \in Producers,
         NEW a \in {"idle", "full", "parked", "woken", "ok", "dropped"}
  PROVE  [c EXCEPT ![p].at = a] = [c EXCEPT ![p] = [at |-> a, v |-> c[p].v]]
<1>1. c[p] \in CallStates
  OBVIOUS
<1>2. [c[p] EXCEPT !.at = a] = [at |-> a, v |-> c[p].v]
  BY <1>1 DEF CallStates
<1> QED
  BY <1>2

(* At first the channel is empty and nobody calls. *)
LEMMA ChannelInit == Init => ChannelInv
<1> SUFFICES ASSUME Init PROVE ChannelInv
  OBVIOUS
<1>1. /\ q = <<>> /\ parked = <<>> /\ accepted = <<>> /\ taken = <<>>
      /\ qclosed = FALSE /\ closer = "open" /\ call = [p \in Producers |-> Idle]
  BY DEF Init
<1>2. ChannelTypeOK
  <2>1. <<>> \in Seq(Values) /\ <<>> \in Seq(Producers) /\ Len(<<>>) <= MaxQueue
    BY EmptySeq, StorageAssumption DEF StorageAssumption
  <2>2. call \in [Producers -> CallStates]
    BY <1>1 DEF CallStates, Idle
  <2> QED
    BY <1>1, <2>1, <2>2 DEF ChannelTypeOK
<1>3. CallsCarryReadings /\ ParkedOnlyWhenFull
  BY <1>1 DEF CallsCarryReadings, ParkedOnlyWhenFull, Idle
<1>4. Fifo
  BY <1>1 DEF Fifo
<1> QED
  BY <1>2, <1>3, <1>4 DEF ChannelInv

(* A reading goes into a channel that has room. *)
LEMMA SendStep ==
  ASSUME ChannelInv, NEW p \in Producers, NEW v \in Values,
         ~qclosed, Len(q) < MaxQueue, call[p].at # "parked",
         q' = Append(q, v), accepted' = Append(accepted, v),
         call' = [call EXCEPT ![p] = [at |-> "ok", v |-> v]],
         UNCHANGED <<qclosed, parked, closer, taken>>
  PROVE  ChannelInv'
<1> USE DEF ChannelInv
<1>1. ChannelTypeOK'
  BY StorageAssumption, AppendProperties, LenProperties
     DEF ChannelTypeOK, CallStates, StorageAssumption
<1>2. CallsCarryReadings'
  BY DEF CallsCarryReadings, ChannelTypeOK
<1>3. ParkedOnlyWhenFull'
  BY DEF ParkedOnlyWhenFull, ChannelTypeOK, CallStates
<1>4. Fifo'
  <2>1. q \in Seq(Values) /\ taken \in Seq(Values) /\ accepted = taken \o q
    BY DEF ChannelTypeOK, Fifo
  <2>2. Append(taken \o q, v) = taken \o Append(q, v)
    <3>1. Append(taken \o q, v) = (taken \o q) \o <<v>> /\ Append(q, v) = q \o <<v>>
      BY <2>1, AppendIsConcat, ConcatProperties
    <3> QED
      BY <2>1, <3>1, ConcatAssociative
  <2> QED
    BY <2>1, <2>2 DEF Fifo
<1> QED
  BY <1>1, <1>2, <1>3, <1>4

(* A producer waits at a channel that has none. *)
LEMMA ParkStep ==
  ASSUME ChannelInv, NEW p \in Producers, Park(p)
  PROVE  ChannelInv'
<1> USE DEF ChannelInv
<1>0. /\ call' \in [Producers -> CallStates]
      /\ \A r \in Producers : /\ call'[r].at = IF r = p THEN "parked" ELSE call[r].at
                             /\ call'[r].v = call[r].v
  BY CallMoves DEF Park, ChannelTypeOK
<1>1. ChannelTypeOK'
  BY <1>0, AppendProperties DEF Park, ChannelTypeOK, runVars, writerVars
<1>2. CallsCarryReadings'
  BY <1>0 DEF Park, CallsCarryReadings
<1>3. ParkedOnlyWhenFull'
  <2>1. /\ parked \in Seq(Producers) /\ Len(parked) \in Nat /\ Len(parked') = Len(parked) + 1
        /\ \A i \in 1..Len(parked) : parked'[i] = parked[i]
        /\ parked'[Len(parked) + 1] = p
    BY AppendProperties, LenProperties DEF ChannelTypeOK, Park
  <2>2. \A i \in 1..Len(parked) : parked[i] # p
    BY DEF Park, ParkedOnlyWhenFull
  <2>3. ASSUME NEW r \in Producers
        PROVE  call'[r].at = "parked" <=> \E i \in 1..Len(parked') : parked'[i] = r
    <3>1. CASE r = p
      BY <1>0, <2>1, <3>1
    <3>2. CASE r # p
      <4>1. call[r].at = "parked" <=> \E i \in 1..Len(parked) : parked[i] = r
        BY DEF ParkedOnlyWhenFull
      <4>2. (\E i \in 1..Len(parked) : parked[i] = r)
              <=> \E i \in 1..Len(parked') : parked'[i] = r
        BY <2>1, <3>2
      <4> QED
        BY <1>0, <3>2, <4>1, <4>2
    <3> QED
      BY <3>1, <3>2
  <2>4. \A i, j \in 1..Len(parked') : i # j => parked'[i] # parked'[j]
    BY <2>1, <2>2 DEF ParkedOnlyWhenFull
  <2> QED
    BY <2>3, <2>4 DEF Park, ParkedOnlyWhenFull, runVars
<1>4. Fifo'
  BY DEF Park, Fifo, writerVars
<1> QED
  BY <1>1, <1>2, <1>3, <1>4

(* A call that is not parked, and does not become so, moves on. *)
LEMMA CallStep ==
  ASSUME ChannelInv, NEW p \in Producers, call[p].at # "parked",
         NEW c \in CallStates, c.at # "parked", c.at # "idle" => c.v \in Values,
         call' = [call EXCEPT ![p] = c],
         UNCHANGED <<q, qclosed, parked, accepted, taken, closer>>
  PROVE  ChannelInv'
<1> USE DEF ChannelInv
<1>1. ChannelTypeOK'
  BY DEF ChannelTypeOK
<1>2. CallsCarryReadings'
  BY DEF CallsCarryReadings, ChannelTypeOK
<1>3. ParkedOnlyWhenFull'
  <2>1. ASSUME NEW r \in Producers
        PROVE  call'[r].at = "parked" <=> \E i \in 1..Len(parked') : parked'[i] = r
    BY DEF ParkedOnlyWhenFull, ChannelTypeOK
  <2> QED
    BY <2>1 DEF ParkedOnlyWhenFull
<1>4. Fifo'
  BY DEF Fifo
<1> QED
  BY <1>1, <1>2, <1>3, <1>4

(* A parked producer leaves the line. *)
LEMMA TimeoutStep ==
  ASSUME ChannelInv, NEW p \in Producers, NEW i \in 1..Len(parked), parked[i] = p,
         parked' = Without(parked, i), call' = [call EXCEPT ![p].at = "dropped"],
         UNCHANGED <<q, qclosed, accepted, taken, closer>>
  PROVE  ChannelInv'
<1> USE DEF ChannelInv
<1>0. /\ call' \in [Producers -> CallStates]
      /\ \A r \in Producers : /\ call'[r].at = IF r = p THEN "dropped" ELSE call[r].at
                             /\ call'[r].v = call[r].v
  BY CallMoves DEF ChannelTypeOK
<1>1. /\ parked \in Seq(Producers) /\ Len(parked) \in Nat /\ i \in Int /\ 1 <= i /\ i <= Len(parked)
      /\ parked' \in Seq(Producers) /\ Len(parked') = Len(parked) - 1
      /\ \A j \in 1..Len(parked) - 1 : parked'[j] = IF j < i THEN parked[j] ELSE parked[j + 1]
  BY RemoveElement, LenProperties DEF ChannelTypeOK
<1>2. ChannelTypeOK'
  BY <1>0, <1>1 DEF ChannelTypeOK
<1>3. CallsCarryReadings'
  <2>1. call[p].at = "parked"
    BY DEF ParkedOnlyWhenFull
  <2> QED
    BY <1>0, <2>1 DEF CallsCarryReadings
<1>4. ParkedOnlyWhenFull'
  <2>1. \A j, k \in 1..Len(parked) : j # k => parked[j] # parked[k]
    BY DEF ParkedOnlyWhenFull
  <2> DEFINE old(j) == IF j < i THEN j ELSE j + 1
  <2>2. ASSUME NEW j \in 1..Len(parked')
        PROVE  /\ old(j) \in 1..Len(parked) /\ old(j) # i
               /\ parked'[j] = parked[old(j)]
    <3>1. j \in 1..Len(parked) - 1
      BY <1>1
    <3>2. parked'[j] = IF j < i THEN parked[j] ELSE parked[j + 1]
      BY <1>1, <3>1
    <3>3. old(j) \in 1..Len(parked) /\ old(j) # i
      BY <1>1, <3>1
    <3> QED
      BY <3>2, <3>3
  <2>3. ASSUME NEW k \in 1..Len(parked), k # i
        PROVE  \E j \in 1..Len(parked') : parked'[j] = parked[k]
    <3>1. CASE k < i
      <4>1. k \in 1..Len(parked) - 1
        BY <1>1, <3>1
      <4> QED
        BY <1>1, <3>1, <4>1
    <3>2. CASE k > i
      <4>1. k - 1 \in 1..Len(parked) - 1 /\ ~(k - 1 < i) /\ (k - 1) + 1 = k
        BY <1>1, <3>2
      <4> QED
        BY <1>1, <4>1
    <3> QED
      BY <1>1, <2>3, <3>1, <3>2
  <2>4. ASSUME NEW r \in Producers
        PROVE  call'[r].at = "parked" <=> \E j \in 1..Len(parked') : parked'[j] = r
    <3>1. CASE r = p
      <4>1. ASSUME NEW j \in 1..Len(parked') PROVE parked'[j] # p
        BY <2>1, <2>2
      <4> QED
        BY <1>0, <3>1, <4>1
    <3>2. CASE r # p
      <4>1. call[r].at = "parked" <=> \E k \in 1..Len(parked) : parked[k] = r
        BY DEF ParkedOnlyWhenFull
      <4>2. ASSUME NEW j \in 1..Len(parked'), parked'[j] = r
            PROVE  \E k \in 1..Len(parked) : parked[k] = r
        BY <2>2, <4>2
      <4>3. ASSUME NEW k \in 1..Len(parked), parked[k] = r
            PROVE  \E j \in 1..Len(parked') : parked'[j] = r
        BY <2>3, <3>2, <4>3
      <4> QED
        BY <1>0, <3>2, <4>1, <4>2, <4>3
    <3> QED
      BY <3>1, <3>2
  <2>5. ASSUME NEW j \in 1..Len(parked'), NEW k \in 1..Len(parked'), j # k
        PROVE  parked'[j] # parked'[k]
    <3>1. old(j) # old(k)
      BY <1>1, <2>5
    <3> QED
      BY <2>1, <2>2, <3>1
  <2>6. parked' # <<>> => parked # <<>>
    BY <1>1, EmptySeq
  <2> QED
    BY <2>4, <2>5, <2>6 DEF ParkedOnlyWhenFull
<1>5. Fifo'
  BY DEF Fifo
<1> QED
  BY <1>2, <1>3, <1>4, <1>5

(* The writer takes the oldest reading; the first parked send completes. *)
LEMMA TakeStep ==
  ASSUME ChannelInv, Take
  PROVE  ChannelInv'
<1> USE DEF ChannelInv
<1>1. /\ q \in Seq(Values) /\ q # <<>> /\ taken \in Seq(Values) /\ accepted = taken \o q
      /\ Head(q) \in Values /\ Tail(q) \in Seq(Values) /\ Len(Tail(q)) = Len(q) - 1
      /\ Len(q) \in Nat /\ taken' = Append(taken, Head(q)) /\ taken' \in Seq(Values)
      /\ UNCHANGED <<qclosed, closer>>
  BY HeadTailProperties, AppendProperties, LenProperties
     DEF Take, ChannelTypeOK, Fifo, runVars
<1>2. CASE parked = <<>>
  <2>1. q' = Tail(q) /\ UNCHANGED <<call, parked, accepted>>
    BY <1>2 DEF Take, Receive
  <2>2. ChannelTypeOK'
    BY <1>1, <2>1, StorageAssumption DEF ChannelTypeOK, StorageAssumption
  <2>3. CallsCarryReadings' /\ ParkedOnlyWhenFull'
    BY <1>1, <1>2, <2>1 DEF CallsCarryReadings, ParkedOnlyWhenFull
  <2>4. taken \o q = Append(taken, Head(q)) \o Tail(q)
    BY <1>1, TakeHead
  <2> QED
    BY <1>1, <2>1, <2>2, <2>3, <2>4 DEF Fifo
<1>3. CASE parked # <<>>
  <2> DEFINE p == Head(parked)
             v == call[p].v
  <2>1. /\ q' = Append(Tail(q), v) /\ accepted' = Append(accepted, v)
        /\ call' = [call EXCEPT ![p].at = "ok"] /\ parked' = Tail(parked)
    BY <1>3 DEF Take, Receive
  <2>2. /\ parked \in Seq(Producers) /\ p \in Producers /\ p = parked[1]
        /\ Len(parked) \in Nat \ {0} /\ 1 \in 1..Len(parked)
        /\ parked' \in Seq(Producers) /\ Len(parked') = Len(parked) - 1
        /\ \A i \in 1..Len(parked') : parked'[i] = parked[i + 1]
    BY <1>3, <2>1, HeadTailProperties, EmptySeq DEF ChannelTypeOK
  <2>3. call[p].at = "parked" /\ v \in Values /\ Len(q) = MaxQueue /\ ~qclosed
    BY <1>3, <2>2 DEF ParkedOnlyWhenFull, CallsCarryReadings
  <2>4. /\ call' \in [Producers -> CallStates]
        /\ \A r \in Producers : /\ call'[r].at = IF r = p THEN "ok" ELSE call[r].at
                               /\ call'[r].v = call[r].v
    BY <2>1, <2>2, CallMoves DEF ChannelTypeOK
  <2> HIDE DEF p, v
  <2>5. q' \in Seq(Values) /\ Len(q') = Len(q) /\ accepted' \in Seq(Values)
    BY <1>1, <2>1, <2>3, AppendProperties DEF ChannelTypeOK
  <2>6. ChannelTypeOK'
    BY <1>1, <2>2, <2>4, <2>5 DEF ChannelTypeOK
  <2>7. CallsCarryReadings'
    BY <2>3, <2>4 DEF CallsCarryReadings, v
  <2>8. ParkedOnlyWhenFull'
    <3>1. \A i, j \in 1..Len(parked) : i # j => parked[i] # parked[j]
      BY DEF ParkedOnlyWhenFull
    <3>2. ASSUME NEW i \in 1..Len(parked')
          PROVE  i + 1 \in 1..Len(parked) /\ i + 1 # 1 /\ parked'[i] = parked[i + 1] /\ parked'[i] # p
      BY <2>2, <3>1
    <3>3. ASSUME NEW r \in Producers
          PROVE  call'[r].at = "parked" <=> \E i \in 1..Len(parked') : parked'[i] = r
      <4>1. CASE r = p
        BY <2>4, <3>2, <4>1
      <4>2. CASE r # p
        <5>1. call[r].at = "parked" <=> \E k \in 1..Len(parked) : parked[k] = r
          BY DEF ParkedOnlyWhenFull
        <5>2. ASSUME NEW k \in 1..Len(parked), parked[k] = r
              PROVE  \E i \in 1..Len(parked') : parked'[i] = r
          <6>1. k - 1 \in 1..Len(parked') /\ (k - 1) + 1 = k
            BY <2>2, <4>2, <5>2
          <6> QED
            BY <2>2, <5>2, <6>1
        <5> QED
          BY <2>4, <3>2, <4>2, <5>1, <5>2
      <4> QED
        BY <4>1, <4>2
    <3>4. ASSUME NEW i \in 1..Len(parked'), NEW j \in 1..Len(parked'), i # j
          PROVE  parked'[i] # parked'[j]
      <4>1. i + 1 # j + 1
        BY <3>4
      <4> QED
        BY <3>1, <3>2, <4>1
    <3> QED
      BY <1>1, <2>3, <2>5, <3>3, <3>4 DEF ParkedOnlyWhenFull
  <2>9. Append(taken \o q, v) = Append(taken, Head(q)) \o Append(Tail(q), v)
    <3>1. q \in Seq(Values) /\ q # <<>> /\ taken \in Seq(Values) /\ v \in Values
      BY <1>1, <2>3
    <3>2. taken \o q = taken' \o Tail(q)
      BY <1>1, TakeHead
    <3> DEFINE w == Tail(q)
               t == taken'
    <3>3. /\ w \in Seq(Values) /\ t \in Seq(Values) /\ t = Append(taken, Head(q))
          /\ taken \o q = t \o w
      BY <1>1, <3>2
    <3> HIDE DEF w, t
    <3>4. Append(t \o w, v) = (t \o w) \o <<v>> /\ Append(w, v) = w \o <<v>>
      BY <3>1, <3>3, AppendIsConcat, ConcatProperties
    <3>5. w \in Seq(Values) /\ t \in Seq(Values) /\ <<v>> \in Seq(Values)
      BY <3>1, <3>3
    <3>6. (t \o w) \o <<v>> = t \o (w \o <<v>>)
      BY <3>5, ConcatAssociative
    <3> QED
      BY <3>3, <3>4, <3>6 DEF w
  <2> QED
    BY <1>1, <2>1, <2>6, <2>7, <2>8, <2>9 DEF Fifo
<1> QED
  BY <1>2, <1>3

(* Closing the channel wakes every parked producer. *)
LEMMA CloseStep ==
  ASSUME ChannelInv, CloseQueue
  PROVE  ChannelInv'
<1> USE DEF ChannelInv
<1>1. /\ qclosed' = TRUE /\ closer' = "draining" /\ parked' = <<>>
      /\ UNCHANGED <<q, accepted, taken>>
      /\ call \in [Producers -> CallStates]
  BY DEF CloseQueue, writerVars, ChannelTypeOK
<1>2. ASSUME NEW r \in Producers
      PROVE  /\ call'[r] \in CallStates /\ call'[r].v = call[r].v
             /\ call'[r].at = IF call[r].at = "parked" THEN "woken" ELSE call[r].at
  <2>1. call'[r] = IF call[r].at = "parked" THEN [call[r] EXCEPT !.at = "woken"] ELSE call[r]
    BY DEF CloseQueue
  <2>2. call[r] \in CallStates
    BY <1>1
  <2> QED
    BY <2>1, <2>2 DEF CallStates
<1>3. call' \in [Producers -> CallStates]
  BY <1>2 DEF CloseQueue
<1>4. ChannelTypeOK'
  BY <1>1, <1>3, EmptySeq DEF ChannelTypeOK
<1>5. CallsCarryReadings'
  BY <1>2 DEF CallsCarryReadings
<1>6. ParkedOnlyWhenFull'
  BY <1>1, <1>2 DEF ParkedOnlyWhenFull
<1> QED
  BY <1>1, <1>4, <1>5, <1>6 DEF Fifo

(* What the channel consists of is left alone by everything else. *)
LEMMA ChannelFrame ==
  ASSUME ChannelInv, UNCHANGED <<chanVars, taken, closer>>
  PROVE  ChannelInv'
BY DEF ChannelInv, ChannelTypeOK, CallsCarryReadings, ParkedOnlyWhenFull, Fifo, chanVars

(* The return of Close leaves the channel alone. *)
LEMMA CloseReturnsStep ==
  ASSUME ChannelInv, CloseReturns
  PROVE  ChannelInv'
BY DEF ChannelInv, ChannelTypeOK, CallsCarryReadings, ParkedOnlyWhenFull, Fifo,
       CloseReturns, chanVars, writerVars

(* A new run begins with an empty channel. *)
LEMMA RestartStep ==
  ASSUME Restart
  PROVE  ChannelInv'
<1>1. /\ q' = <<>> /\ parked' = <<>> /\ accepted' = <<>> /\ taken' = <<>>
      /\ qclosed' = FALSE /\ closer' = "open" /\ call' = [p \in Producers |-> Idle]
  BY DEF Restart
<1>2. ChannelTypeOK'
  <2>1. <<>> \in Seq(Values) /\ <<>> \in Seq(Producers) /\ Len(<<>>) <= MaxQueue
    BY EmptySeq, StorageAssumption DEF StorageAssumption
  <2>2. call' \in [Producers -> CallStates]
    BY <1>1 DEF CallStates, Idle
  <2> QED
    BY <1>1, <2>1, <2>2 DEF ChannelTypeOK
<1>3. CallsCarryReadings' /\ ParkedOnlyWhenFull'
  BY <1>1 DEF CallsCarryReadings, ParkedOnlyWhenFull, Idle
<1>4. Fifo'
  BY <1>1 DEF Fifo
<1> QED
  BY <1>2, <1>3, <1>4 DEF ChannelInv

(* Every step keeps what holds of the channel and its callers. *)
LEMMA ChannelNext ==
  ASSUME ChannelInv, [AnyStep]_storageVars
  PROVE  ChannelInv'
<1> USE DEF chanVars, writerVars, runVars
<1>t. call \in [Producers -> CallStates]
  BY DEF ChannelInv, ChannelTypeOK
<1>v. ASSUME NEW r \in Producers, call[r].at # "idle"
      PROVE  call[r].v \in Values
  BY <1>v DEF ChannelInv, CallsCarryReadings
<1>1. ASSUME NEW p \in Producers, NEW v \in Values, HandleSend(p, v)
      PROVE  ChannelInv'
  BY <1>1, SendStep DEF HandleSend
<1>2. ASSUME NEW p \in Producers, NEW v \in Values, HandleFull(p, v)
      PROVE  ChannelInv'
  <2>1. [at |-> "full", v |-> v] \in CallStates
    BY DEF CallStates
  <2> QED
    BY <1>2, <2>1, CallStep DEF HandleFull
<1>3. ASSUME NEW p \in Producers, SendOnClosed(p)
      PROVE  ChannelInv'
  BY <1>3, ChannelFrame DEF SendOnClosed
<1>4. ASSUME NEW p \in Producers, RetrySend(p)
      PROVE  ChannelInv'
  <2>1. call[p].v \in Values /\ call[p].at = "full"
    BY <1>4, <1>v DEF RetrySend
  <2>2. call' = [call EXCEPT ![p] = [at |-> "ok", v |-> call[p].v]]
    BY <1>4, <1>t, CallUpdate DEF RetrySend
  <2> QED
    BY <1>4, <2>1, <2>2, SendStep DEF RetrySend
<1>5. ASSUME NEW p \in Producers, Park(p)
      PROVE  ChannelInv'
  BY <1>5, ParkStep
<1>6. ASSUME NEW p \in Producers, Timeout(p)
      PROVE  ChannelInv'
  <2>1. CASE call[p].at = "full" /\ UNCHANGED parked
    <3>1. call[p].v \in Values
      BY <1>v, <2>1
    <3>2. call' = [call EXCEPT ![p] = [at |-> "dropped", v |-> call[p].v]]
      BY <1>6, <1>t, CallUpdate DEF Timeout
    <3>3. [at |-> "dropped", v |-> call[p].v] \in CallStates
      BY <3>1 DEF CallStates
    <3> QED
      BY <1>6, <2>1, <3>1, <3>2, <3>3, CallStep DEF Timeout
  <2>2. CASE \E i \in 1..Len(parked) : parked[i] = p /\ parked' = Without(parked, i)
    BY <1>6, <2>2, TimeoutStep DEF Timeout
  <2> QED
    BY <1>6, <2>1, <2>2 DEF Timeout, Without
<1>7. ASSUME NEW p \in Producers, Return(p)
      PROVE  ChannelInv'
  <2>1. Idle \in CallStates /\ Idle.at = "idle"
    BY DEF Idle, CallStates
  <2> QED
    BY <1>7, <2>1, CallStep DEF Return
<1>8. ASSUME Writer
      PROVE  ChannelInv'
  <2>1. CASE Take
    BY <2>1, TakeStep
  <2>2. CASE writeJSONL \/ writeCSV \/ writeDB
    BY <2>2, ChannelFrame DEF writeJSONL, writeCSV, WriteFile, writeDB
  <2>3. CASE LoopEnds \/ Flush("json") \/ Flush("csv") \/ Stop
    BY <2>3, ChannelFrame DEF LoopEnds, Flush, Stop
  <2> QED
    BY <1>8, <2>1, <2>2, <2>3 DEF Writer
<1>9. CASE CloseQueue \/ CloseReturns \/ Restart
  BY <1>9, CloseStep, CloseReturnsStep, RestartStep
<1>10. CASE Kill \/ UNCHANGED storageVars
  BY <1>10, ChannelFrame DEF Kill, storageVars
<1> QED
  BY <1>1, <1>2, <1>3, <1>4, <1>5, <1>6, <1>7, <1>8, <1>9, <1>10
     DEF AnyStep, Handle, HandleStep

----------------------------------------------------------------------------
(* The outputs *)

(* Opening a file adds at most a header. *)
LEMMA OpenedType ==
  ASSUME NEW d \in [Sinks -> Seq(Cells)]
  PROVE  Opened(d) \in [Sinks -> Seq(Cells)]
<1>1. <<Header>> \in Seq(Cells)
  BY CellFacts
<1> QED
  BY <1>1 DEF Opened

(* Whatever a write leaves behind is made of cells. *)
LEMMA WriteOutType ==
  ASSUME OutputTypeOK, NEW s \in Sinks, NEW cells \in Seq(Cells), NEW rest \in Seq(Cells),
         WriteOut(s, cells, rest)
  PROVE  /\ buf' \in [Sinks -> Seq(Cells)] /\ disk' \in [Sinks -> Seq(Cells)]
         /\ failed' \subseteq Sinks
<1>1. ASSUME NEW w \in Seq(Cells)
      PROVE  disk[s] \o w \in Seq(Cells)
  BY ConcatProperties DEF OutputTypeOK
<1>2. ASSUME NEW n \in 0..Len(cells) - 1
      PROVE  SubSeq(cells, 1, n) \in Seq(Cells)
  <2>1. Len(cells) \in Nat
    BY LenProperties
  <2>2. \A j \in 1..n : j \in 1..Len(cells) /\ cells[j] \in Cells
    BY <2>1, ElementOfSeq
  <2> QED
    BY <2>1, <2>2, SubSeqProperties
<1>3. CASE /\ disk' = [disk EXCEPT ![s] = @ \o cells]
           /\ buf' = [buf EXCEPT ![s] = rest]
           /\ UNCHANGED failed
  BY <1>1, <1>3 DEF OutputTypeOK
<1>4. CASE \E n \in 0..Len(cells) - 1 :
              /\ disk' = [disk EXCEPT ![s] = @ \o SubSeq(cells, 1, n)]
              /\ failed' = failed \cup {s}
              /\ UNCHANGED buf
  BY <1>1, <1>2, <1>4 DEF OutputTypeOK
<1> QED
  BY <1>3, <1>4 DEF WriteOut

(* The same of a write to a buffer that may overflow. *)
LEMMA BufWriteType ==
  ASSUME OutputTypeOK, NEW s \in Sinks, NEW line \in Seq(Cells), BufWrite(s, line)
  PROVE  /\ buf' \in [Sinks -> Seq(Cells)] /\ disk' \in [Sinks -> Seq(Cells)]
         /\ failed' \subseteq Sinks
<1> DEFINE all == buf[s] \o line
           n == Len(all)
<1>1. all \in Seq(Cells)
  BY ConcatProperties DEF OutputTypeOK
<1>2. n \in Nat /\ \A j \in 1..n : all[j] \in Cells
  BY <1>1, LenProperties, ElementOfSeq
<1>3. CASE n <= BufSize /\ buf' = [buf EXCEPT ![s] = all] /\ UNCHANGED <<disk, failed>>
  BY <1>1, <1>3 DEF OutputTypeOK
<1>4. CASE /\ n > BufSize
           /\ WriteOut(s, SubSeq(all, 1, BufSize), SubSeq(all, BufSize + 1, n))
  <2> HIDE DEF n
  <2>1. BufSize \in Nat /\ BufSize < n
    BY <1>2, <1>4, StorageAssumption DEF StorageAssumption
  <2>2. /\ \A j \in 1..BufSize : j \in 1..n
        /\ \A j \in BufSize + 1..n : j \in 1..n
    BY <1>2, <2>1
  <2> HIDE DEF all
  <2>3. /\ SubSeq(all, 1, BufSize) \in Seq(Cells)
        /\ SubSeq(all, BufSize + 1, n) \in Seq(Cells)
    BY <1>1, <1>2, <2>1, <2>2, SubSeqProperties DEF n
  <2> QED
    BY <1>4, <2>3, WriteOutType
<1> QED
  BY <1>3, <1>4 DEF BufWrite

(* The output served is one of those enabled. *)
LEMMA ServingType ==
  ASSUME OutputTypeOK, NEW s, Serving(s)
  PROVE  s \in Sinks /\ todo' \in Seq(Sinks)
BY HeadTailProperties DEF OutputTypeOK, Serving

(* At first no reading is in hand and none is needed. *)
LEMMA OutputInit == Init => OutputTypeOK /\ ReadingInHand
<1> SUFFICES ASSUME Init PROVE OutputTypeOK /\ ReadingInHand
  OBVIOUS
<1>1. [s \in Sinks |-> <<>>] \in [Sinks -> Seq(Cells)] /\ <<>> \in Seq(Sinks)
  BY EmptySeq
<1>2. disk \in [Sinks -> Seq(Cells)] /\ base \in [Sinks -> Seq(Cells)]
  BY <1>1, OpenedType DEF Init
<1> QED
  BY <1>1, <1>2 DEF Init, OutputTypeOK, ReadingInHand

(* While outputs wait to be served there is a reading to serve. *)
LEMMA OutputNext ==
  ASSUME OutputTypeOK, ReadingInHand, ChannelTypeOK, [AnyStep]_storageVars
  PROVE  OutputTypeOK' /\ ReadingInHand'
<1> DEFINE Same == UNCHANGED <<writerVars, base>>
<1>1. CASE Same
  BY <1>1 DEF OutputTypeOK, ReadingInHand, writerVars
<1>2. CASE Take
  <2>1. /\ todo' = SinkOrder /\ taken' # <<>>
        /\ UNCHANGED <<phase, buf, disk, failed, base>>
    <3>1. taken \in Seq(Values) /\ Head(q) \in Values
      BY <1>2, HeadTailProperties DEF Take, ChannelTypeOK
    <3> QED
      BY <1>2, <3>1, AppendProperties DEF Take, runVars
  <2> QED
    BY <2>1, SinkFacts DEF OutputTypeOK, ReadingInHand
<1>3. ASSUME NEW s \in {"json", "csv"}, WriteFile(s)
      PROVE  OutputTypeOK' /\ ReadingInHand'
  <2>1. s \in Sinks /\ todo' \in Seq(Sinks)
    BY <1>3, ServingType DEF WriteFile
  <2>2. UNCHANGED <<phase, taken, base>>
    BY <1>3 DEF WriteFile, runVars
  <2>3. taken # <<>>
    BY <1>3 DEF WriteFile, Serving, ReadingInHand
  <2>4. Current \in Values
    BY <2>3, LenProperties, ElementOfSeq, EmptySeq DEF Current, ChannelTypeOK
  <2>5. /\ buf' \in [Sinks -> Seq(Cells)] /\ disk' \in [Sinks -> Seq(Cells)]
        /\ failed' \subseteq Sinks
    <3>1. CASE UNCHANGED <<buf, disk, failed>>
      BY <3>1 DEF OutputTypeOK
    <3>2. CASE BufWrite(s, Line(Current))
      BY <2>1, <2>4, <3>2, CellFacts, BufWriteType
    <3> QED
      BY <1>3, <3>1, <3>2 DEF WriteFile
  <2> QED
    BY <2>1, <2>2, <2>3, <2>5 DEF OutputTypeOK, ReadingInHand
<1>4. CASE writeDB
  <2>1. "db" \in Sinks /\ todo' \in Seq(Sinks)
    BY <1>4, ServingType DEF writeDB
  <2>2. UNCHANGED <<phase, buf, taken, base>>
    BY <1>4 DEF writeDB, runVars
  <2>3. taken # <<>>
    BY <1>4 DEF writeDB, Serving, ReadingInHand
  <2>4. Current \in Values
    BY <2>3, LenProperties, ElementOfSeq, EmptySeq DEF Current, ChannelTypeOK
  <2>5. Append(disk["db"], Row(Current)) \in Seq(Cells)
    BY <2>1, <2>4, CellFacts, AppendProperties DEF OutputTypeOK
  <2>6. disk' \in [Sinks -> Seq(Cells)] /\ failed' \subseteq Sinks
    BY <1>4, <2>1, <2>5 DEF writeDB, OutputTypeOK
  <2> QED
    BY <2>1, <2>2, <2>3, <2>6 DEF OutputTypeOK, ReadingInHand
<1>5. CASE LoopEnds
  <2>1. /\ phase' = "flush" /\ todo' = FileOrder
        /\ UNCHANGED <<buf, disk, failed, base>>
    BY <1>5 DEF LoopEnds, runVars
  <2> QED
    BY <2>1, SinkFacts DEF OutputTypeOK, ReadingInHand
<1>6. ASSUME NEW s \in {"json", "csv"}, Flush(s)
      PROVE  OutputTypeOK' /\ ReadingInHand'
  <2>1. s \in Sinks /\ todo' \in Seq(Sinks)
    BY <1>6, ServingType DEF Flush
  <2>2. phase = "flush" /\ UNCHANGED <<phase, base>>
    BY <1>6 DEF Flush, runVars
  <2>3. /\ buf' \in [Sinks -> Seq(Cells)] /\ disk' \in [Sinks -> Seq(Cells)]
        /\ failed' \subseteq Sinks
    <3>1. CASE UNCHANGED <<buf, disk, failed>>
      BY <3>1 DEF OutputTypeOK
    <3>2. CASE WriteOut(s, buf[s], <<>>)
      <4>1. buf[s] \in Seq(Cells) /\ <<>> \in Seq(Cells)
        BY <2>1, EmptySeq DEF OutputTypeOK
      <4> QED
        BY <2>1, <3>2, <4>1, WriteOutType
    <3> QED
      BY <1>6, <3>1, <3>2 DEF Flush
  <2> QED
    BY <2>1, <2>2, <2>3 DEF OutputTypeOK, ReadingInHand
<1>7. CASE Stop
  BY <1>7 DEF Stop, runVars, OutputTypeOK, ReadingInHand
<1>8. CASE Restart
  <2>1. [s \in Sinks |-> <<>>] \in [Sinks -> Seq(Cells)] /\ <<>> \in Seq(Sinks)
    BY EmptySeq
  <2>2. Opened(disk) \in [Sinks -> Seq(Cells)]
    BY OpenedType DEF OutputTypeOK
  <2> QED
    BY <1>8, <2>1, <2>2 DEF Restart, OutputTypeOK, ReadingInHand
<1>9. ASSUME NEW p \in Producers, NEW v \in Values, Handle(p, v) \/ HandleStep(p) \/ Return(p)
      PROVE  Same
  BY <1>9 DEF Handle, HandleStep, HandleSend, HandleFull, SendOnClosed, RetrySend, Park,
              Timeout, Return, runVars
<1>10. CASE CloseQueue \/ CloseReturns \/ Kill \/ UNCHANGED storageVars
  <2>1. Same
    BY <1>10 DEF CloseQueue, CloseReturns, Kill, storageVars, runVars
  <2> QED
    BY <1>1, <2>1
<1>11. ASSUME NEW p \in Producers, HandleStep(p) \/ Return(p)
       PROVE  Same
  BY <1>11 DEF HandleStep, SendOnClosed, RetrySend, Park, Timeout, Return, runVars
<1> QED
  BY <1>1, <1>2, <1>3, <1>4, <1>5, <1>6, <1>7, <1>8, <1>9, <1>10, <1>11
     DEF AnyStep, Writer, writeJSONL, writeCSV

----------------------------------------------------------------------------
(* The end of the loop *)

(* Nothing enters a closed channel: no send completes, no parked sender is *)
(* left that a receive could serve.                                        *)
LEMMA DrainNext ==
  ASSUME OutputTypeOK, ChannelInv, LoopDrained, [AnyStep]_storageVars
  PROVE  LoopDrained'
<1> USE DEF LoopDrained
<1>1. ASSUME NEW p \in Producers, NEW v \in Values, Handle(p, v)
      PROVE  LoopDrained'
  BY <1>1 DEF Handle, HandleSend, HandleFull, SendOnClosed, chanVars, writerVars, runVars
<1>2. ASSUME NEW p \in Producers, HandleStep(p) \/ Return(p)
      PROVE  LoopDrained'
  BY <1>2 DEF HandleStep, RetrySend, Park, Timeout, SendOnClosed, Return,
              chanVars, writerVars, runVars
<1>3. CASE Take
  BY <1>3 DEF Take, runVars, ChannelInv, ParkedOnlyWhenFull
<1>4. CASE writeJSONL \/ writeCSV \/ writeDB
  BY <1>4 DEF writeJSONL, writeCSV, WriteFile, writeDB, chanVars, runVars
<1>5. CASE LoopEnds \/ Flush("json") \/ Flush("csv") \/ Stop
  BY <1>5 DEF LoopEnds, Flush, Stop, chanVars, runVars, ChannelInv, ParkedOnlyWhenFull
<1>6. CASE CloseQueue \/ CloseReturns \/ Kill \/ Restart \/ UNCHANGED storageVars
  BY <1>6 DEF CloseQueue, CloseReturns, Kill, Restart, storageVars, chanVars, writerVars, runVars
<1> QED
  BY <1>1, <1>2, <1>3, <1>4, <1>5, <1>6 DEF AnyStep, Writer

----------------------------------------------------------------------------
(* Theorems *)

(* The invariant holds at first. *)
LEMMA InvInit == Init => StorageInv
<1> SUFFICES ASSUME Init PROVE StorageInv
  OBVIOUS
<1>1. ChannelInv /\ OutputTypeOK /\ ReadingInHand
  BY ChannelInit, OutputInit
<1>2. proc = "up" /\ crashes = 0 /\ restarts = 0 /\ LoopDrained
  BY DEF Init, LoopDrained
<1> QED
  BY <1>1, <1>2 DEF StorageInv, TypeOK, RunTypeOK, ChannelInv

(* Every step keeps the invariant. *)
LEMMA InvNext == StorageInv /\ [AnyStep]_storageVars => StorageInv'
<1> SUFFICES ASSUME StorageInv, [AnyStep]_storageVars PROVE StorageInv'
  OBVIOUS
<1>1. ChannelInv' /\ ChannelTypeOK'
  BY ChannelNext DEF StorageInv, ChannelInv
<1>2. OutputTypeOK' /\ ReadingInHand'
  BY OutputNext DEF StorageInv, TypeOK
<1>3. LoopDrained'
  BY DrainNext DEF StorageInv, TypeOK
<1>4. RunTypeOK'
  <2> USE DEF StorageInv, TypeOK, RunTypeOK, runVars
  <2>1. ASSUME NEW p \in Producers, NEW v \in Values, Handle(p, v)
        PROVE  RunTypeOK'
    BY <2>1 DEF Handle, HandleSend, HandleFull, SendOnClosed
  <2>2. ASSUME NEW p \in Producers, HandleStep(p) \/ Return(p)
        PROVE  RunTypeOK'
    BY <2>2 DEF HandleStep, RetrySend, Park, Timeout, SendOnClosed, Return
  <2>3. CASE Writer
    BY <2>3 DEF Writer, Take, writeJSONL, writeCSV, WriteFile, writeDB, LoopEnds, Flush, Stop
  <2>4. CASE CloseQueue \/ CloseReturns \/ Kill \/ Restart \/ UNCHANGED storageVars
    BY <2>4 DEF CloseQueue, CloseReturns, Kill, Restart, storageVars
  <2> QED
    BY <2>1, <2>2, <2>3, <2>4 DEF AnyStep
<1> QED
  BY <1>1, <1>2, <1>3, <1>4 DEF StorageInv, TypeOK

(* The inductive invariant holds in every state of the store. *)
THEOREM StorageInvariance == SafeSpec => []StorageInv
<1>1. [Next]_storageVars => [AnyStep]_storageVars
  BY DEF Next, AnyStep
<1> QED
  BY <1>1, InvInit, InvNext, PTL DEF SafeSpec

(* Every variable keeps its type, for every capacity and set of outputs:   *)
(* the channel never holds more than MaxQueue readings.                    *)
THEOREM TypeCorrect == SafeSpec => []TypeOK
<1>1. StorageInv => TypeOK
  BY DEF StorageInv
<1> QED
  BY <1>1, StorageInvariance, PTL

(* Whatever the producers, the timeouts, Close and the crashes do, the     *)
(* channel hands the writer what it accepted, in order.                    *)
THEOREM ChannelIsFifo == SafeSpec => []Fifo
<1>1. StorageInv => Fifo
  BY DEF StorageInv, ChannelInv
<1> QED
  BY <1>1, StorageInvariance, PTL

(* A closed and empty channel has been drained. *)
LEMMA InvDrained == StorageInv => Drained
<1> SUFFICES ASSUME StorageInv, closer = "closed" PROVE taken = accepted /\ parked = <<>>
  BY DEF Drained
<1>1. q = <<>> /\ qclosed /\ taken \in Seq(Values) /\ accepted = taken \o q
  BY DEF StorageInv, LoopDrained, ChannelInv, ChannelTypeOK, Fifo
<1>2. taken \o <<>> = taken
  BY <1>1, ConcatEmptySeq
<1>3. parked = <<>>
  BY <1>1 DEF StorageInv, ChannelInv, ParkedOnlyWhenFull
<1> QED
  BY <1>1, <1>2, <1>3

(* When Close has returned the writer has taken every accepted reading.    *)
THEOREM CloseDrains == SafeSpec => []Drained
BY InvDrained, StorageInvariance, PTL

----------------------------------------------------------------------------
(* What the outputs hold *)

Files == Sinks \ {"db"}

(* The outputs that have not yet been served with the reading in hand, and *)
(* the readings each output has been handed.                               *)
InHand(s) == phase = "loop" /\ \E i \in 1..Len(todo) : todo[i] = s
Handed(s) == IF InHand(s) THEN SubSeq(taken, 1, Len(taken) - 1) ELSE taken

(* What the handed readings look like in the output, in cells.             *)
Stream(s) == Image(s, Kept(s, Handed(s)))

(* A file holds what it held at the start of the run and a part of its     *)
(* stream; without a failed write its buffer has the rest.                 *)
OnDisk(s) ==
  \E rest \in Seq(Cells) :
    /\ disk[s] \o rest = base[s] \o Stream(s)
    /\ Len(base[s]) <= Len(disk[s])
    /\ s \notin failed => rest = buf[s]

(* The database has no buffer, and only a failed insert leaves a row out.  *)
AllRows ==
  "db" \in Sinks =>
    /\ buf["db"] = <<>>
    /\ "db" \notin failed => disk["db"] = base["db"] \o Stream("db")

(* No output is served twice with a reading, and every file is flushed.    *)
ServedInTurn ==
  /\ \A i, j \in 1..Len(todo) : i # j => todo[i] # todo[j]
  /\ phase # "loop" =>
       \A s \in Files \ failed : buf[s] = <<>> \/ \E i \in 1..Len(todo) : todo[i] = s
  /\ phase = "stopped" => todo = <<>>

(* The files as this run found them have a torn line for each earlier run. *)
TornBefore == \A s \in Files : Cardinality(Torn(base[s])) <= restarts

ContentsInv ==
  /\ \A s \in Files : OnDisk(s) /\ Len(buf[s]) <= BufSize
  /\ AllRows /\ ServedInTurn /\ TornBefore

----------------------------------------------------------------------------
(* Cells and lines *)

(* Which line a cell of a file belongs to, and which half of it it is.     *)
LEMMA CellPlace ==
  ASSUME NEW n \in Nat, NEW i \in 1..2 * n
  PROVE  /\ (i + 1) \div 2 \in 1..n
         /\ \/ i % 2 = 1 /\ 2 - (i % 2) = 1
            \/ i % 2 = 0 /\ 2 - (i % 2) = 2
         /\ i % 2 = 1 =>
              i + 1 \in 1..2 * n /\ (i + 1) % 2 = 0 /\ ((i + 1) + 1) \div 2 = (i + 1) \div 2
OBVIOUS

LEMMA LastPlaces ==
  ASSUME NEW n \in Nat
  PROVE  /\ ((2 * n + 1) + 1) \div 2 = n + 1 /\ (2 * n + 1) % 2 = 1
         /\ ((2 * n + 2) + 1) \div 2 = n + 1 /\ (2 * n + 2) % 2 = 0
         /\ (2 * n) % 2 = 0
OBVIOUS

(* The cells of a file, one by one.                                        *)
LEMMA ImageOfFile ==
  ASSUME NEW s, s # "db", NEW t \in Seq(Values)
  PROVE  /\ Image(s, t) \in Seq(Cells) /\ Len(Image(s, t)) = 2 * Len(t)
         /\ \A i \in 1..2 * Len(t) : Image(s, t)[i] = <<t[(i + 1) \div 2], 2 - (i % 2)>>
<1> DEFINE n == Len(t)
           cell(i) == Line(t[(i + 1) \div 2])[2 - (i % 2)]
<1>1. n \in Nat
  BY LenProperties
<1>2. ASSUME NEW i \in 1..2 * n
      PROVE  cell(i) = <<t[(i + 1) \div 2], 2 - (i % 2)>> /\ cell(i) \in Cells
  <2>1. (i + 1) \div 2 \in 1..n
    BY <1>1, CellPlace
  <2>2. t[(i + 1) \div 2] \in Values
    BY <2>1, ElementOfSeq
  <2>3. 2 - (i % 2) = 1 \/ 2 - (i % 2) = 2
    BY <1>1, CellPlace
  <2> QED
    BY <2>2, <2>3 DEF Line, Cells
<1>3. 2 * n \in Nat
  BY <1>1
<1> HIDE DEF n
<1>4. Image(s, t) = [i \in 1..2 * n |-> cell(i)]
  BY DEF Image, n
<1> HIDE DEF cell
<1>5. Image(s, t) \in [1..2 * n -> Cells]
  BY <1>2, <1>4
<1>6. Image(s, t) \in Seq(Cells)
  BY <1>3, <1>5, SeqDef
<1>7. Len(Image(s, t)) = 2 * n
  BY <1>3, <1>5, <1>6, LenProperties
<1> QED
  BY <1>2, <1>4, <1>6, <1>7 DEF n

LEMMA ImageOfDB ==
  ASSUME NEW t \in Seq(Values)
  PROVE  /\ Image("db", t) \in Seq(Cells) /\ Len(Image("db", t)) = Len(t)
         /\ \A i \in 1..Len(t) : Image("db", t)[i] = Row(t[i])
<1>1. Len(t) \in Nat /\ \A i \in 1..Len(t) : t[i] \in Values
  BY LenProperties, ElementOfSeq
<1>2. Image("db", t) = [i \in 1..Len(t) |-> Row(t[i])]
  BY DEF Image
<1>3. Image("db", t) \in [1..Len(t) -> Cells]
  BY <1>1, <1>2, CellFacts
<1>4. Image("db", t) \in Seq(Cells)
  BY <1>1, <1>3, SeqDef
<1>5. Len(Image("db", t)) = Len(t)
  BY <1>1, <1>3, <1>4, LenProperties
<1> QED
  BY <1>2, <1>4, <1>5

(* A sequence that begins with one and goes on with another is both in a   *)
(* row.                                                                    *)
LEMMA IsConcat ==
  ASSUME NEW S, NEW a \in Seq(S), NEW b \in Seq(S), NEW w \in Seq(S),
         Len(w) = Len(a) + Len(b),
         \A i \in 1..Len(a) : w[i] = a[i],
         \A i \in 1..Len(b) : w[Len(a) + i] = b[i]
  PROVE  w = a \o b
<1>1. Len(a) \in Nat /\ Len(b) \in Nat
  BY LenProperties
<1>2. /\ a \o b \in Seq(S) /\ Len(a \o b) = Len(a) + Len(b)
      /\ \A i \in 1..Len(a) + Len(b) :
           (a \o b)[i] = IF i <= Len(a) THEN a[i] ELSE b[i - Len(a)]
  BY ConcatProperties
<1>3. ASSUME NEW i \in 1..Len(w) PROVE w[i] = (a \o b)[i]
  <2>1. CASE i <= Len(a)
    BY <1>1, <1>2, <2>1
  <2>2. CASE ~(i <= Len(a))
    <3>1. i - Len(a) \in 1..Len(b) /\ Len(a) + (i - Len(a)) = i
      BY <1>1, <2>2
    <3> QED
      BY <1>1, <1>2, <2>2, <3>1
  <2> QED
    BY <2>1, <2>2
<1> QED
  BY <1>2, <1>3, SeqEqual

(* Regrouping, and the two ways of cutting the same cells, as predicates of  *)
(* their own: the prover must not take them for rules to rewrite with.     *)
Regroups(a, b, c) == (a \o b) \o c = a \o (b \o c)
Meets(d, r, b, w) == d \o r = b \o w

LEMMA Regroup ==
  ASSUME NEW S, NEW a \in Seq(S), NEW b \in Seq(S), NEW c \in Seq(S)
  PROVE  Regroups(a, b, c)
BY ConcatAssociative DEF Regroups

(* A reading more is a line or a row more.                                 *)
LEMMA ImageAppend ==
  ASSUME NEW s, NEW t \in Seq(Values), NEW v \in Values
  PROVE  Image(s, Append(t, v)) = Image(s, t) \o (IF s = "db" THEN <<Row(v)>> ELSE Line(v))
<1> DEFINE u == Append(t, v)
           n == Len(t)
           a == Image(s, t)
           b == Image(s, u)
<1>1. /\ u \in Seq(Values) /\ n \in Nat /\ Len(u) = n + 1 /\ u[n + 1] = v
      /\ \A i \in 1..n : u[i] = t[i]
  BY AppendProperties, LenProperties
<1> HIDE DEF u
<1>2. CASE s = "db"
  <2> DEFINE w == <<Row(v)>>
  <2>1. w \in Seq(Cells) /\ Len(w) = 1 /\ w[1] = Row(v)
    BY CellFacts
  <2>2. a \in Seq(Cells) /\ Len(a) = n /\ \A i \in 1..n : a[i] = Row(t[i])
    BY <1>2, ImageOfDB
  <2>3. b \in Seq(Cells) /\ Len(b) = n + 1 /\ \A i \in 1..n + 1 : b[i] = Row(u[i])
    BY <1>1, <1>2, ImageOfDB
  <2> HIDE DEF w, n, a, b
  <2>4. \A i \in 1..Len(a) : b[i] = a[i]
    BY <1>1, <2>2, <2>3
  <2>5. \A i \in 1..Len(w) : b[Len(a) + i] = w[i]
    BY <1>1, <2>1, <2>2, <2>3
  <2>6. Len(b) = Len(a) + Len(w)
    BY <2>1, <2>2, <2>3
  <2>7. b = a \o w
    BY <2>1, <2>2, <2>3, <2>4, <2>5, <2>6, IsConcat
  <2> QED
    BY <1>2, <2>7 DEF a, b, u, w
<1>3. CASE s # "db"
  <2> DEFINE w == Line(v)
  <2>1. w \in Seq(Cells) /\ Len(w) = 2 /\ w[1] = <<v, 1>> /\ w[2] = <<v, 2>>
    BY CellFacts DEF Line
  <2>2. /\ a \in Seq(Cells) /\ Len(a) = 2 * n
        /\ \A i \in 1..2 * n : a[i] = <<t[(i + 1) \div 2], 2 - (i % 2)>>
    BY <1>3, ImageOfFile
  <2>3. /\ b \in Seq(Cells) /\ Len(b) = 2 * (n + 1)
        /\ \A i \in 1..2 * (n + 1) : b[i] = <<u[(i + 1) \div 2], 2 - (i % 2)>>
    BY <1>1, <1>3, ImageOfFile
  <2> HIDE DEF w, n, a, b
  <2>4. ASSUME NEW i \in 1..Len(a)
        PROVE  b[i] = a[i]
    <3>1. i \in 1..2 * n /\ i \in 1..2 * (n + 1)
      BY <1>1, <2>2
    <3>2. (i + 1) \div 2 \in 1..n
      BY <1>1, <3>1, CellPlace
    <3> QED
      BY <1>1, <2>2, <2>3, <3>1, <3>2
  <2>5. ASSUME NEW i \in 1..Len(w)
        PROVE  b[Len(a) + i] = w[i]
    <3>1. CASE i = 1
      <4>1. /\ 2 * n + 1 \in 1..2 * (n + 1) /\ ((2 * n + 1) + 1) \div 2 = n + 1
            /\ 2 - ((2 * n + 1) % 2) = 1
        BY <1>1, LastPlaces
      <4> QED
        BY <1>1, <2>1, <2>2, <2>3, <3>1, <4>1
    <3>2. CASE i = 2
      <4>1. /\ 2 * n + 2 \in 1..2 * (n + 1) /\ ((2 * n + 2) + 1) \div 2 = n + 1
            /\ 2 - ((2 * n + 2) % 2) = 2
        BY <1>1, LastPlaces
      <4> QED
        BY <1>1, <2>1, <2>2, <2>3, <3>2, <4>1
    <3> QED
      BY <2>1, <2>5, <3>1, <3>2
  <2>6. Len(b) = Len(a) + Len(w)
    BY <1>1, <2>1, <2>2, <2>3
  <2>7. b = a \o w
    BY <2>1, <2>2, <2>3, <2>4, <2>5, <2>6, IsConcat
  <2> QED
    BY <1>3, <2>7 DEF a, b, u, w
<1> QED
  BY <1>2, <1>3

----------------------------------------------------------------------------
(* What one more reading adds to an output *)

Piece(s, v) == IF v \in NoLine(s) THEN <<>> ELSE IF s = "db" THEN <<Row(v)>> ELSE Line(v)

LEMMA KeptType ==
  ASSUME NEW s, NEW t \in Seq(Values)
  PROVE  Kept(s, t) \in Seq(Values) /\ Image(s, Kept(s, t)) \in Seq(Cells)
<1>1. Kept(s, t) \in Seq(Values \cap (Values \ NoLine(s)))
  BY AmongType DEF Kept
<1>2. Values \cap (Values \ NoLine(s)) \subseteq Values
  OBVIOUS
<1>3. Kept(s, t) \in Seq(Values)
  <2> DEFINE V == Values \cap (Values \ NoLine(s))
  <2> HIDE DEF V
  <2> QED
    BY <1>1, <1>2, SeqMonotonic DEF V
<1>4. Image(s, Kept(s, t)) \in Seq(Cells)
  BY <1>3, ImageOfFile, ImageOfDB
<1> QED
  BY <1>3, <1>4

LEMMA PieceType ==
  ASSUME NEW s, NEW v \in Values
  PROVE  Piece(s, v) \in Seq(Cells)
BY CellFacts, EmptySeq DEF Piece

LEMMA StreamGrows ==
  ASSUME NEW s, NEW t \in Seq(Values), NEW v \in Values
  PROVE  Image(s, Kept(s, Append(t, v))) = Image(s, Kept(s, t)) \o Piece(s, v)
<1>1. Kept(s, Append(t, v)) = IF v \in NoLine(s) THEN Kept(s, t) ELSE Append(Kept(s, t), v)
  BY AmongAppend DEF Kept
<1>2. Kept(s, t) \in Seq(Values) /\ Image(s, Kept(s, t)) \in Seq(Cells)
  BY KeptType
<1>3. CASE v \in NoLine(s)
  BY <1>1, <1>2, <1>3, ConcatEmptySeq DEF Piece
<1>4. CASE v \notin NoLine(s)
  BY <1>1, <1>2, <1>4, ImageAppend DEF Piece
<1> QED
  BY <1>3, <1>4

(* The last of a sequence, and those before it. *)
LEMMA FrontAndLast ==
  ASSUME NEW S, NEW t \in Seq(S), t # <<>>
  PROVE  /\ SubSeq(t, 1, Len(t) - 1) \in Seq(S) /\ t[Len(t)] \in S
         /\ Len(SubSeq(t, 1, Len(t) - 1)) = Len(t) - 1
         /\ t = Append(SubSeq(t, 1, Len(t) - 1), t[Len(t)])
<1>0. Len(t) \in Nat /\ Len(t) >= 1
  BY EmptySeq
<1>1. 1 \in 1..Len(t) /\ Len(t) \in 1..Len(t)
  BY <1>0
<1>2. t[Len(t)] \in S /\ \A i \in 1..Len(t) - 1 : t[i] \in S
  BY <1>1, ElementOfSeq
<1> DEFINE w == SubSeq(t, 1, Len(t) - 1)
<1>3. w \in Seq(S) /\ Len(w) = Len(t) - 1
  <2>1. w \in Seq(S) /\ Len(w) = IF 1 <= Len(t) - 1 THEN (Len(t) - 1) - 1 + 1 ELSE 0
    BY <1>0, <1>2, SubSeqProperties
  <2> DEFINE n == Len(t)
             m == Len(w)
  <2>2. m = IF 1 <= n - 1 THEN (n - 1) - 1 + 1 ELSE 0
    BY <2>1
  <2>3. n \in Nat /\ n >= 1
    BY <1>0
  <2> HIDE DEF n, m
  <2>4. m = n - 1
    BY <2>2, <2>3
  <2> QED
    BY <2>1, <2>4 DEF n, m
<1>4. SubSeq(t, 1, Len(t)) = SubSeq(t, 1, Len(t) - 1) \o <<t[Len(t)]>>
  BY <1>1, SubSeqRecursiveSecond
<1>5. t = SubSeq(t, 1, Len(t) - 1) \o <<t[Len(t)]>>
  BY <1>4, SubSeqFull
<1> QED
  BY <1>2, <1>3, <1>5, AppendIsConcat

(* What an output has been handed is made of readings. *)
LEMMA HandedType ==
  ASSUME ChannelTypeOK, ReadingInHand, NEW s
  PROVE  Handed(s) \in Seq(Values) /\ Stream(s) \in Seq(Cells)
<1>1. taken \in Seq(Values)
  BY DEF ChannelTypeOK
<1>2. ASSUME InHand(s)
      PROVE  SubSeq(taken, 1, Len(taken) - 1) \in Seq(Values)
  <2>1. todo # <<>>
    BY <1>2, EmptySeq DEF InHand
  <2>2. taken # <<>>
    BY <1>2, <2>1 DEF InHand, ReadingInHand
  <2> QED
    BY <1>1, <2>2, FrontAndLast
<1>3. Handed(s) \in Seq(Values)
  BY <1>1, <1>2 DEF Handed
<1> QED
  BY <1>3, KeptType DEF Stream

(* Serving one output with the reading in hand extends its stream by what   *)
(* it makes of the reading, and leaves the others theirs.                  *)
LEMMA ServedStep ==
  ASSUME ChannelTypeOK, OutputTypeOK, ReadingInHand, ServedInTurn, phase = "loop",
         NEW s, Serving(s), UNCHANGED <<phase, taken>>
  PROVE  /\ s \in Sinks /\ taken # <<>> /\ Current \in Values
         /\ Handed(s)' = Append(Handed(s), Current)
         /\ Stream(s)' = Stream(s) \o Piece(s, Current)
         /\ \A r \in Sinks \ {s} : Handed(r)' = Handed(r) /\ Stream(r)' = Stream(r)
         /\ ServedInTurn'
<1>1. /\ todo \in Seq(Sinks) /\ todo # <<>> /\ todo' = Tail(todo) /\ todo[1] = s
      /\ Len(todo) \in Nat \ {0} /\ Len(todo') = Len(todo) - 1
      /\ \A i \in 1..Len(todo') : todo'[i] = todo[i + 1]
  BY HeadTailProperties, EmptySeq DEF Serving, OutputTypeOK
<1>2. \A i, j \in 1..Len(todo) : i # j => todo[i] # todo[j]
  BY DEF ServedInTurn
<1>3. s \in Sinks
  <2>1. 1 \in 1..Len(todo)
    BY <1>1
  <2> QED
    BY <1>1, <2>1, ElementOfSeq
<1>4. InHand(s) /\ ~InHand(s)'
  <2>1. \A i \in 1..Len(todo') : i + 1 \in 1..Len(todo) /\ i + 1 # 1 /\ 1 \in 1..Len(todo)
    BY <1>1
  <2> QED
    BY <1>1, <1>2, <2>1 DEF InHand
<1>5. ASSUME NEW r \in Sinks \ {s}
      PROVE  InHand(r)' <=> InHand(r)
  <2>1. ASSUME NEW i \in 1..Len(todo), todo[i] = r
        PROVE  \E j \in 1..Len(todo') : todo'[j] = r
    <3>1. i - 1 \in 1..Len(todo') /\ (i - 1) + 1 = i
      BY <1>1, <2>1
    <3> QED
      BY <1>1, <2>1, <3>1
  <2>2. ASSUME NEW j \in 1..Len(todo'), todo'[j] = r
        PROVE  \E i \in 1..Len(todo) : todo[i] = r
    <3>1. j + 1 \in 1..Len(todo)
      BY <1>1
    <3> QED
      BY <1>1, <2>2, <3>1
  <2> QED
    BY <2>1, <2>2 DEF InHand
<1>6. /\ taken \in Seq(Values) /\ taken # <<>> /\ Current \in Values
      /\ SubSeq(taken, 1, Len(taken) - 1) \in Seq(Values)
      /\ taken = Append(SubSeq(taken, 1, Len(taken) - 1), Current)
  <2>1. taken \in Seq(Values) /\ taken # <<>>
    BY <1>1 DEF ChannelTypeOK, ReadingInHand
  <2> QED
    BY <2>1, FrontAndLast DEF Current
<1>7. Handed(s)' = Append(Handed(s), Current) /\ Handed(s) \in Seq(Values)
  BY <1>4, <1>6 DEF Handed
<1>8. Stream(s)' = Stream(s) \o Piece(s, Current)
  <2>1. Image(s, Kept(s, Append(Handed(s), Current))) =
          Image(s, Kept(s, Handed(s))) \o Piece(s, Current)
    BY <1>6, <1>7, StreamGrows
  <2> QED
    BY <1>7, <2>1 DEF Stream
<1>9. ASSUME NEW r \in Sinks \ {s}
      PROVE  Handed(r)' = Handed(r) /\ Stream(r)' = Stream(r)
  <2>1. Handed(r)' = Handed(r)
    BY <1>5 DEF Handed
  <2> QED
    BY <2>1 DEF Stream
<1>10. ServedInTurn'
  <2>1. ASSUME NEW i \in 1..Len(todo'), NEW j \in 1..Len(todo'), i # j
        PROVE  todo'[i] # todo'[j]
    <3>1. i + 1 \in 1..Len(todo) /\ j + 1 \in 1..Len(todo) /\ i + 1 # j + 1
      BY <1>1, <2>1
    <3> QED
      BY <1>1, <1>2, <3>1
  <2> QED
    BY <2>1 DEF ServedInTurn
<1> QED
  BY <1>3, <1>6, <1>7, <1>8, <1>9, <1>10

----------------------------------------------------------------------------
(* Writing to a file *)

(* Cutting a sequence in two. *)
LEMMA CutInTwo ==
  ASSUME NEW S, NEW t \in Seq(S), NEW n \in 0..Len(t)
  PROVE  /\ SubSeq(t, 1, n) \in Seq(S) /\ Len(SubSeq(t, 1, n)) = n
         /\ SubSeq(t, n + 1, Len(t)) \in Seq(S) /\ Len(SubSeq(t, n + 1, Len(t))) = Len(t) - n
         /\ t = SubSeq(t, 1, n) \o SubSeq(t, n + 1, Len(t))
<1> DEFINE a == SubSeq(t, 1, n)
           b == SubSeq(t, n + 1, Len(t))
           k == Len(t)
<1>1. k \in Nat /\ n \in Nat /\ n <= k
  BY LenProperties
<1>2. \A i \in 1..Len(t) : t[i] \in S
  BY ElementOfSeq
<1>3. a \in Seq(S) /\ Len(a) = IF 1 <= n THEN n - 1 + 1 ELSE 0
  BY <1>1, <1>2, SubSeqProperties
<1>4. b \in Seq(S) /\ Len(b) = IF n + 1 <= k THEN k - (n + 1) + 1 ELSE 0
  BY <1>1, <1>2, SubSeqProperties
<1>5. SubSeq(t, 1, n) \o SubSeq(t, n + 1, Len(t)) = SubSeq(t, 1, Len(t))
  <2>1. 1 \in 1..Len(t) + 1 /\ n \in (1 - 1)..Len(t) /\ Len(t) \in n..Len(t)
    <3> HIDE DEF k
    <3>1. 1 \in 1..k + 1 /\ n \in (1 - 1)..k /\ k \in n..k
      BY <1>1
    <3> QED
      BY <3>1 DEF k
  <2> QED
    BY <2>1, ConcatAdjacentSubSeq
<1>6. t = a \o b
  BY <1>5, SubSeqFull
<1> DEFINE la == Len(a)
           lb == Len(b)
<1>7. la = (IF 1 <= n THEN n - 1 + 1 ELSE 0) /\ lb = (IF n + 1 <= k THEN k - (n + 1) + 1 ELSE 0)
  BY <1>3, <1>4
<1> HIDE DEF k, la, lb
<1>8. la = n /\ lb = k - n
  BY <1>1, <1>7
<1> QED
  BY <1>3, <1>4, <1>6, <1>8 DEF la, lb, k

(* A write to a file, whether it succeeds or fails in the middle, leaves    *)
(* what is on disk and what is still to come in a row as they were.        *)
LEMMA WriteOutKeeps ==
  ASSUME OutputTypeOK, NEW s \in Sinks, s \notin failed,
         NEW cells \in Seq(Cells), NEW rest \in Seq(Cells), WriteOut(s, cells, rest)
  PROVE  /\ \E r \in Seq(Cells) :
              /\ disk'[s] \o r = disk[s] \o (cells \o rest)
              /\ Len(disk[s]) <= Len(disk'[s])
              /\ s \notin failed' => r = buf'[s] /\ r = rest
         /\ s \in failed' => buf'[s] = buf[s]
         /\ \A o \in Sinks \ {s} :
              disk'[o] = disk[o] /\ buf'[o] = buf[o] /\ (o \in failed' <=> o \in failed)
<1>1. disk[s] \in Seq(Cells) /\ Len(disk[s]) \in Nat
  BY LenProperties DEF OutputTypeOK
<1>2. CASE /\ disk' = [disk EXCEPT ![s] = @ \o cells]
           /\ buf' = [buf EXCEPT ![s] = rest]
           /\ UNCHANGED failed
  <2>1. disk'[s] = disk[s] \o cells /\ buf'[s] = rest /\ s \notin failed'
    BY <1>2 DEF OutputTypeOK
  <2>2. (disk[s] \o cells) \o rest = disk[s] \o (cells \o rest)
    <3> DEFINE d == disk[s]
    <3>1. d \in Seq(Cells)
      BY <1>1
    <3> HIDE DEF d
    <3>2. Regroups(d, cells, rest)
      BY <3>1, Regroup
    <3> QED
      BY <3>2 DEF d, Regroups
  <2>3. Len(disk[s]) <= Len(disk[s] \o cells)
    <3>1. Len(disk[s] \o cells) = Len(disk[s]) + Len(cells) /\ Len(cells) \in Nat
      BY <1>1, ConcatProperties, LenProperties
    <3> QED
      BY <1>1, <3>1
  <2>4. \A o \in Sinks \ {s} :
          disk'[o] = disk[o] /\ buf'[o] = buf[o] /\ (o \in failed' <=> o \in failed)
    BY <1>2 DEF OutputTypeOK
  <2> QED
    BY <2>1, <2>2, <2>3, <2>4
<1>3. ASSUME NEW n \in 0..Len(cells) - 1,
             disk' = [disk EXCEPT ![s] = @ \o SubSeq(cells, 1, n)],
             failed' = failed \cup {s}, UNCHANGED buf
      PROVE  /\ \E r \in Seq(Cells) :
                  /\ disk'[s] \o r = disk[s] \o (cells \o rest)
                  /\ Len(disk[s]) <= Len(disk'[s])
             /\ s \in failed'
             /\ buf' = buf
             /\ \A o \in Sinks \ {s} : disk'[o] = disk[o] /\ (o \in failed' <=> o \in failed)
  <2> DEFINE a == SubSeq(cells, 1, n)
             b == SubSeq(cells, n + 1, Len(cells))
  <2>1. n \in 0..Len(cells)
    BY LenProperties
  <2>2. a \in Seq(Cells) /\ b \in Seq(Cells) /\ cells = a \o b
    BY <2>1, CutInTwo
  <2>3. disk'[s] = disk[s] \o a /\ \A o \in Sinks \ {s} : disk'[o] = disk[o]
    BY <1>3 DEF OutputTypeOK
  <2> HIDE DEF a, b
  <2>4. b \o rest \in Seq(Cells)
    BY <2>2, ConcatProperties
  <2>5. (disk[s] \o a) \o (b \o rest) = disk[s] \o (cells \o rest)
    <3> DEFINE d == disk[s]
               w == b \o rest
    <3>1. d \in Seq(Cells) /\ w \in Seq(Cells)
      BY <1>1, <2>4
    <3>2. w = b \o rest
      OBVIOUS
    <3> HIDE DEF d, w
    <3>a. a \in Seq(Cells) /\ b \in Seq(Cells)
      BY <2>2
    <3>3. Regroups(d, a, w) /\ Regroups(a, b, rest)
      BY <3>1, <3>a, Regroup
    <3>4. cells = a \o b
      BY <2>2
    <3> QED
      BY <3>2, <3>3, <3>4 DEF d, Regroups
  <2>6. Len(disk[s]) <= Len(disk[s] \o a)
    <3>1. Len(disk[s] \o a) = Len(disk[s]) + Len(a) /\ Len(a) \in Nat
      BY <1>1, <2>2, ConcatProperties, LenProperties
    <3> QED
      BY <1>1, <3>1
  <2> QED
    BY <1>3, <2>3, <2>4, <2>5, <2>6
<1> QED
  <2>1. CASE \E n \in 0..Len(cells) - 1 :
               /\ disk' = [disk EXCEPT ![s] = @ \o SubSeq(cells, 1, n)]
               /\ failed' = failed \cup {s} /\ UNCHANGED buf
    BY <1>3, <2>1
  <2> QED
    BY <1>2, <2>1 DEF WriteOut

(* So does a write to its buffer, which never grows beyond its size.        *)
LEMMA BufWriteKeeps ==
  ASSUME OutputTypeOK, NEW s \in Sinks, s \notin failed, Len(buf[s]) <= BufSize,
         NEW line \in Seq(Cells), Len(line) <= 2, BufWrite(s, line)
  PROVE  /\ \E r \in Seq(Cells) :
              /\ disk'[s] \o r = disk[s] \o (buf[s] \o line)
              /\ Len(disk[s]) <= Len(disk'[s])
              /\ s \notin failed' => r = buf'[s]
         /\ Len(buf'[s]) <= BufSize
         /\ \A o \in Sinks \ {s} :
              disk'[o] = disk[o] /\ buf'[o] = buf[o] /\ (o \in failed' <=> o \in failed)
<1> DEFINE all == buf[s] \o line
           a == SubSeq(all, 1, BufSize)
           b == SubSeq(all, BufSize + 1, Len(all))
<1>1. /\ disk[s] \in Seq(Cells) /\ buf[s] \in Seq(Cells)
      /\ Len(disk[s]) \in Nat /\ Len(buf[s]) \in Nat /\ Len(line) \in Nat
  BY LenProperties DEF OutputTypeOK
<1>2. all \in Seq(Cells) /\ Len(all) = Len(buf[s]) + Len(line)
  BY <1>1, ConcatProperties
<1>3. BufSize \in Nat /\ BufSize >= 2
  BY StorageAssumption DEF StorageAssumption
<1>4. CASE Len(all) <= BufSize /\ buf' = [buf EXCEPT ![s] = all] /\ UNCHANGED <<disk, failed>>
  <2>1. buf'[s] = all /\ disk'[s] = disk[s] /\ \A o \in Sinks \ {s} : buf'[o] = buf[o]
    BY <1>4 DEF OutputTypeOK
  <2> HIDE DEF all
  <2>2. Len(disk[s]) <= Len(disk'[s])
    BY <1>1, <2>1
  <2> QED
    BY <1>2, <1>4, <2>1, <2>2 DEF all
<1>5. CASE Len(all) > BufSize /\ WriteOut(s, a, b)
  <2> HIDE DEF all
  <2>1. BufSize \in 0..Len(all)
    BY <1>1, <1>2, <1>3, <1>5
  <2>2. /\ a \in Seq(Cells) /\ b \in Seq(Cells) /\ all = a \o b
        /\ Len(b) = Len(all) - BufSize
    BY <1>2, <2>1, CutInTwo
  <2> HIDE DEF a, b
  <2>3. /\ \E r \in Seq(Cells) :
              /\ disk'[s] \o r = disk[s] \o (a \o b)
              /\ Len(disk[s]) <= Len(disk'[s])
              /\ s \notin failed' => r = buf'[s] /\ r = b
        /\ s \in failed' => buf'[s] = buf[s]
        /\ \A o \in Sinks \ {s} :
              disk'[o] = disk[o] /\ buf'[o] = buf[o] /\ (o \in failed' <=> o \in failed)
    BY <1>5, <2>2, WriteOutKeeps
  <2>4. Len(b) <= BufSize
    BY <1>1, <1>2, <1>3, <2>2
  <2>5. Len(buf'[s]) <= BufSize
    BY <2>3, <2>4
  <2> QED
    BY <2>2, <2>3, <2>5 DEF all
<1> QED
  BY <1>4, <1>5 DEF BufWrite

----------------------------------------------------------------------------
(* Torn lines *)

(* The cells d are those of b followed by the first few of w. *)
Continues(d, b, w) ==
  \E m \in 0..Len(w) : d = b \o SubSeq(w, 1, m) /\ Len(d) = Len(b) + m

(* Two ways of cutting the same cells: the longer front is the shorter one  *)
(* and a part of what follows it.                                          *)
LEMMA LongerFront ==
  ASSUME NEW S, NEW d \in Seq(S), NEW r \in Seq(S), NEW b \in Seq(S), NEW w \in Seq(S),
         Meets(d, r, b, w), Len(b) <= Len(d)
  PROVE  Continues(d, b, w)
<1> DEFINE ld == Len(d)
           lr == Len(r)
           lb == Len(b)
           lw == Len(w)
           m == ld - lb
<1>1. ld \in Nat /\ lr \in Nat /\ lb \in Nat /\ lw \in Nat /\ lb <= ld
  BY LenProperties
<1>2. /\ Len(d \o r) = ld + lr /\ Len(b \o w) = lb + lw
      /\ \A i \in 1..ld + lr : (d \o r)[i] = IF i <= ld THEN d[i] ELSE r[i - ld]
      /\ \A i \in 1..lb + lw : (b \o w)[i] = IF i <= lb THEN b[i] ELSE w[i - lb]
  BY ConcatProperties
<1> HIDE DEF ld, lr, lb, lw
<1>m. d \o r = b \o w
  BY DEF Meets
<1>3. ld + lr = lb + lw
  BY <1>2, <1>m
<1>4. m \in 0..lw /\ ld = lb + m
  BY <1>1, <1>3
<1>5. \A i \in 1..ld : d[i] = IF i <= lb THEN b[i] ELSE w[i - lb]
  <2> TAKE i \in 1..ld
  <2>1. i \in 1..ld + lr /\ i \in 1..lb + lw /\ i <= ld
    BY <1>1, <1>3
  <2> QED
    BY <1>2, <1>m, <2>1
<1> DEFINE x == SubSeq(w, 1, m)
<1> HIDE DEF m
<1>6. x \in Seq(S) /\ Len(x) = m /\ \A i \in 1..m : x[i] = w[i]
  <2>1. m \in 0..Len(w)
    BY <1>4 DEF lw
  <2>2. x \in Seq(S) /\ Len(x) = m
    BY <2>1, CutInTwo
  <2>3. \A i \in 1..m : w[i] \in S
    <3> TAKE i \in 1..m
    <3>1. i \in 1..lw
      BY <1>1, <1>4
    <3> QED
      BY <3>1, ElementOfSeq DEF lw
  <2>4. \A i \in 1..m - 1 + 1 : x[i] = w[1 + i - 1]
    BY <1>1, <1>4, <2>3, SubSeqProperties
  <2> QED
    BY <1>1, <1>4, <2>2, <2>4
<1> HIDE DEF x
<1>7. d = b \o x
  <2>1. \A i \in 1..Len(b) : d[i] = b[i]
    BY <1>1, <1>4, <1>5 DEF lb
  <2>2. \A i \in 1..Len(x) : d[Len(b) + i] = x[i]
    <3> TAKE i \in 1..Len(x)
    <3>1. i \in 1..m /\ lb + i \in 1..ld /\ ~(lb + i <= lb) /\ (lb + i) - lb = i
      BY <1>1, <1>4, <1>6
    <3> QED
      BY <1>5, <1>6, <3>1 DEF lb
  <2>3. Len(d) = Len(b) + Len(x)
    BY <1>4, <1>6 DEF lb, ld
  <2> QED
    BY <1>6, <2>1, <2>2, <2>3, IsConcat
<1> QED
  BY <1>4, <1>7 DEF x, ld, lb, lw, Continues

(* Lines appended to a file tear at most the last of them, and none when   *)
(* they are whole; they mend nothing.                                      *)
LEMMA TornAppend ==
  ASSUME NEW s, s # "db", NEW b \in Seq(Cells), NEW t \in Seq(Values), NEW m \in 0..2 * Len(t)
  PROVE  LET d == b \o SubSeq(Image(s, t), 1, m)
         IN  /\ Torn(d) \subseteq Torn(b) \cup {Len(d)}
             /\ m = 2 * Len(t) => Torn(d) \subseteq Torn(b)
<1> DEFINE w == Image(s, t)
           x == SubSeq(w, 1, m)
           d == b \o x
           lb == Len(b)
           n == Len(t)
<1>1. lb \in Nat /\ n \in Nat /\ m \in Nat /\ m <= 2 * n
  <2>1. n \in Nat /\ lb \in Nat
    BY LenProperties
  <2> HIDE DEF lb, n
  <2> QED
    BY <2>1 DEF n
<1>2. /\ w \in Seq(Cells) /\ Len(w) = 2 * n
      /\ \A i \in 1..2 * n : w[i] = <<t[(i + 1) \div 2], 2 - (i % 2)>>
  BY ImageOfFile
<1> HIDE DEF w, n
<1>3. x \in Seq(Cells) /\ Len(x) = m /\ \A i \in 1..m : x[i] = w[i]
  <2>1. m \in 0..Len(w)
    BY <1>1, <1>2
  <2>2. x \in Seq(Cells) /\ Len(x) = m
    BY <1>2, <2>1, CutInTwo
  <2>3. \A i \in 1..m : w[i] \in Cells
    <3> TAKE i \in 1..m
    <3>1. i \in 1..Len(w)
      BY <1>1, <1>2
    <3> QED
      BY <1>2, <3>1, ElementOfSeq
  <2>4. \A i \in 1..m - 1 + 1 : x[i] = w[1 + i - 1]
    BY <1>1, <1>2, <2>3, SubSeqProperties
  <2> QED
    BY <1>1, <2>2, <2>4
<1>4. Len(x) = m
  BY <1>3
<1>5. /\ Len(d) = lb + m
      /\ \A i \in 1..lb + m : d[i] = IF i <= lb THEN b[i] ELSE x[i - lb]
  BY <1>3, ConcatProperties
<1> HIDE DEF x, d, lb
<1>6. ASSUME NEW i \in Torn(d)
      PROVE  i \in Torn(b) \/ (i = lb + m /\ m # 2 * n)
  <2>1. i \in 1..lb + m /\ d[i][2] = 1 /\ (i = lb + m \/ d[i + 1] # <<d[i][1], 2>>)
    BY <1>5 DEF Torn
  <2>2. CASE i <= lb
    <3>1. i \in 1..lb /\ d[i] = b[i]
      BY <1>1, <1>5, <2>1, <2>2
    <3>2. CASE i = lb
      BY <2>1, <3>1, <3>2 DEF Torn, lb
    <3>3. CASE i < lb
      <4>1. i + 1 \in 1..lb + m /\ i + 1 <= lb /\ i # lb + m
        BY <1>1, <2>1, <3>3
      <4>2. d[i + 1] = b[i + 1]
        BY <1>5, <4>1
      <4> QED
        BY <2>1, <3>1, <4>1, <4>2 DEF Torn, lb
    <3> QED
      BY <1>1, <2>1, <2>2, <3>2, <3>3
  <2>3. CASE i > lb
    <3> DEFINE j == i - lb
    <3>1. j \in 1..m /\ j \in 1..2 * n /\ i = lb + j
      BY <1>1, <2>1, <2>3
    <3>2. ~(i <= lb)
      BY <1>1, <2>1, <2>3
    <3>3. d[i] = <<t[(j + 1) \div 2], 2 - (j % 2)>>
      BY <1>2, <1>3, <1>5, <2>1, <3>1, <3>2
    <3>4. 2 - (j % 2) = 1
      BY <2>1, <3>3
    <3> HIDE DEF j
    <3>5. /\ j % 2 = 1
          /\ j + 1 \in 1..2 * n /\ (j + 1) % 2 = 0 /\ ((j + 1) + 1) \div 2 = (j + 1) \div 2
      BY <1>1, <3>1, <3>4, CellPlace
    <3>6. j # 2 * n
      BY <1>1, <3>1, <3>5
    <3>7. CASE j = m
      BY <3>1, <3>6, <3>7
    <3>8. CASE j # m
      <4>1. j + 1 \in 1..m /\ i + 1 \in 1..lb + m /\ ~(i + 1 <= lb) /\ (i + 1) - lb = j + 1
        BY <1>1, <3>1, <3>8
      <4>2. d[i + 1] = w[j + 1]
        BY <1>3, <1>5, <4>1
      <4>3. 2 - ((j + 1) % 2) = 2
        BY <3>5
      <4>4. w[j + 1] = <<t[(j + 1) \div 2], 2>>
        BY <1>2, <3>5, <4>3
      <4>5. d[i][1] = t[(j + 1) \div 2]
        BY <3>3
      <4>6. i # lb + m
        BY <1>1, <3>1, <3>8
      <4> QED
        BY <2>1, <4>2, <4>4, <4>5, <4>6
    <3> QED
      BY <3>7, <3>8
  <2> QED
    BY <1>1, <2>1, <2>2, <2>3
<1>7. Torn(d) \subseteq Torn(b) \cup {Len(d)}
  BY <1>5, <1>6
<1>8. m = 2 * n => Torn(d) \subseteq Torn(b)
  BY <1>6
<1> QED
  BY <1>7, <1>8 DEF d, x, w, n

(* The torn lines of a file can be counted. *)
LEMMA TornFinite ==
  ASSUME NEW d \in Seq(Cells)
  PROVE  IsFiniteSet(Torn(d)) /\ Cardinality(Torn(d)) \in Nat
<1>1. IsFiniteSet(1..Len(d))
  BY LenProperties, FS_Interval
<1>2. Torn(d) \subseteq 1..Len(d)
  BY DEF Torn
<1>3. IsFiniteSet(Torn(d))
  BY <1>1, <1>2, FS_Subset
<1> QED
  BY <1>3, FS_CardinalityType

(* A header is not a torn line. *)
LEMMA OpenedTorn ==
  ASSUME NEW d \in [Sinks -> Seq(Cells)], NEW s \in Sinks
  PROVE  Cardinality(Torn(Opened(d)[s])) <= Cardinality(Torn(d[s]))
<1>1. CASE s = "csv" /\ d[s] = <<>>
  <2>1. Opened(d)[s] = <<Header>> /\ <<Header>>[1][2] = 0 /\ Len(<<Header>>) = 1
    BY <1>1 DEF Opened, Header
  <2>2. Torn(<<Header>>) = {}
    <3>1. 1..Len(<<Header>>) = {1}
      BY <2>1
    <3> QED
      BY <2>1, <3>1 DEF Torn
  <2>3. Cardinality(Torn(d[s])) \in Nat
    BY TornFinite
  <2>4. Cardinality(Torn(Opened(d)[s])) = 0
    BY <2>1, <2>2, FS_EmptySet, Zenon
  <2> QED
    BY <2>3, <2>4
<1>2. CASE ~(s = "csv" /\ d[s] = <<>>)
  <2>1. Opened(d)[s] = d[s] /\ Cardinality(Torn(d[s])) \in Nat
    BY <1>2, TornFinite DEF Opened
  <2> QED
    BY <2>1
<1> QED
  BY <1>1, <1>2

(* What this run has torn so far. *)
LEMMA TornNow ==
  ASSUME OutputTypeOK, ChannelTypeOK, ReadingInHand, NEW s \in Files, OnDisk(s)
  PROVE  /\ Cardinality(Torn(disk[s])) <= Cardinality(Torn(base[s])) + 1
         /\ disk[s] = base[s] \o Stream(s) =>
              Cardinality(Torn(disk[s])) <= Cardinality(Torn(base[s]))
<1> DEFINE d == disk[s]
           b == base[s]
           w == Stream(s)
           t == Kept(s, Handed(s))
<1>1. d \in Seq(Cells) /\ b \in Seq(Cells) /\ w \in Seq(Cells) /\ s # "db"
  BY HandedType DEF OutputTypeOK, Files
<1>2. w = Image(s, t) /\ t \in Seq(Values)
  BY HandedType, KeptType DEF Stream
<1>3. PICK r \in Seq(Cells) : d \o r = b \o w /\ Len(b) <= Len(d)
  BY DEF OnDisk
<1> HIDE DEF d, b, w, t
<1>4. Len(w) = 2 * Len(t) /\ SubSeq(w, 1, Len(w)) = w /\ Len(w) \in Nat
  BY <1>1, <1>2, ImageOfFile, SubSeqFull, LenProperties
<1>5. PICK m \in 0..Len(w) : d = b \o SubSeq(w, 1, m) /\ Len(d) = Len(b) + m
  <2>1. Meets(d, r, b, w) /\ Len(b) <= Len(d)
    BY <1>3 DEF Meets
  <2>2. Continues(d, b, w)
    BY <1>1, <2>1, LongerFront
  <2> QED
    BY <2>2 DEF Continues
<1>6. Torn(d) \subseteq Torn(b) \cup {Len(d)}
  BY <1>1, <1>2, <1>4, <1>5, TornAppend
<1>7. d = b \o w => Torn(d) \subseteq Torn(b)
  <2> SUFFICES ASSUME d = b \o w PROVE Torn(d) \subseteq Torn(b)
    OBVIOUS
  <2> DEFINE k == 2 * Len(t)
  <2>1. k \in Nat /\ d = b \o SubSeq(Image(s, t), 1, k)
    BY <1>2, <1>4
  <2>2. k \in 0..2 * Len(t) /\ k = 2 * Len(t)
    <3>1. k \in 0..k
      BY <2>1
    <3> QED
      BY <3>1
  <2> HIDE DEF k
  <2>3. Torn(b \o SubSeq(Image(s, t), 1, k)) \subseteq Torn(b)
    BY <1>1, <1>2, <2>2, TornAppend
  <2> QED
    BY <2>1, <2>3
<1>8. IsFiniteSet(Torn(b)) /\ Cardinality(Torn(b)) \in Nat /\ Cardinality(Torn(d)) \in Nat
  BY <1>1, TornFinite
<1>9. /\ IsFiniteSet(Torn(b) \cup {Len(d)})
      /\ Cardinality(Torn(b) \cup {Len(d)}) <= Cardinality(Torn(b)) + 1
  <2>1. \A e : /\ IsFiniteSet(Torn(b) \cup {e})
              /\ Cardinality(Torn(b) \cup {e}) =
                   IF e \in Torn(b) THEN Cardinality(Torn(b)) ELSE Cardinality(Torn(b)) + 1
    BY <1>8, FS_AddElement
  <2> DEFINE e == Len(d)
             c == Cardinality(Torn(b) \cup {e})
             cb == Cardinality(Torn(b))
  <2>2. IsFiniteSet(Torn(b) \cup {e}) /\ (c = cb \/ c = cb + 1)
    BY <2>1
  <2>3. cb \in Nat
    BY <1>8
  <2> HIDE DEF c, cb
  <2>4. c <= cb + 1
    BY <2>2, <2>3
  <2> QED
    BY <2>2, <2>4 DEF c, cb
<1>10. Cardinality(Torn(d)) <= Cardinality(Torn(b) \cup {Len(d)})
  BY <1>6, <1>9, FS_Subset
<1>11. Cardinality(Torn(b) \cup {Len(d)}) \in Nat
  BY <1>9, FS_CardinalityType
<1>12. Cardinality(Torn(d)) <= Cardinality(Torn(b)) + 1
  BY <1>8, <1>9, <1>10, <1>11
<1>13. d = b \o w => Cardinality(Torn(d)) <= Cardinality(Torn(b))
  BY <1>7, <1>8, FS_Subset
<1> QED
  BY <1>12, <1>13 DEF d, b, w

----------------------------------------------------------------------------
(* The contents, step by step *)

(* The outputs are different from each other, and the files are those that  *)
(* are flushed.                                                            *)
LEMMA OrderFacts ==
  /\ \A i, j \in 1..Len(SinkOrder) : i # j => SinkOrder[i] # SinkOrder[j]
  /\ \A s \in Sinks : \E i \in 1..Len(SinkOrder) : SinkOrder[i] = s
  /\ \A i, j \in 1..Len(FileOrder) : i # j => FileOrder[i] # FileOrder[j]
  /\ \A s \in Files : \E i \in 1..Len(FileOrder) : FileOrder[i] = s
BY SinkAssumption DEF Sinks, Files, FileOrder, SinkAssumption

(* Before the first reading the streams are empty. *)
LEMMA StreamEmpty ==
  ASSUME NEW s
  PROVE  Image(s, Kept(s, <<>>)) = <<>>
<1>1. Kept(s, <<>>) = <<>>
  BY AmongEmpty DEF Kept
<1>2. <<>> \in Seq(Values) /\ Len(<<>>) = 0
  BY EmptySeq
<1>3. Image(s, <<>>) \in Seq(Cells) /\ Len(Image(s, <<>>)) = 0
  <2>1. CASE s = "db"
    BY <1>2, <2>1, ImageOfDB
  <2>2. CASE s # "db"
    <3>1. Image(s, <<>>) \in Seq(Cells) /\ Len(Image(s, <<>>)) = 2 * Len(<<>>)
      BY <1>2, <2>2, ImageOfFile
    <3> QED
      BY <1>2, <3>1
  <2> QED
    BY <2>1, <2>2
<1> QED
  BY <1>1, <1>3, EmptySeq

(* When a run begins the disk is as it was found, and nothing is on its way. *)
Fresh ==
  /\ phase = "loop" /\ todo = <<>> /\ taken = <<>>
  /\ buf = [s \in Sinks |-> <<>>] /\ base = disk
  /\ disk \in [Sinks -> Seq(Cells)]
  /\ TornBefore

LEMMA FreshContents == Fresh => ContentsInv
<1> SUFFICES ASSUME Fresh PROVE ContentsInv
  OBVIOUS
<1>1. \A s : Stream(s) = <<>>
  BY StreamEmpty, EmptySeq DEF Fresh, Stream, Handed, InHand
<1>2. Len(<<>>) <= BufSize
  BY StorageAssumption, EmptySeq DEF StorageAssumption
<1>3. \A s \in Files : OnDisk(s) /\ Len(buf[s]) <= BufSize
  <2> TAKE s \in Files
  <2>1. s \in Sinks /\ <<>> \in Seq(Cells)
    BY EmptySeq DEF Files
  <2>2. buf[s] = <<>> /\ base[s] = disk[s] /\ disk[s] \in Seq(Cells) /\ Len(disk[s]) \in Nat
    BY <2>1, LenProperties DEF Fresh
  <2>3. disk[s] \o <<>> = base[s] \o Stream(s)
    BY <1>1, <2>2
  <2>4. Len(base[s]) <= Len(disk[s])
    BY <2>2
  <2> QED
    BY <1>2, <2>1, <2>2, <2>3, <2>4 DEF OnDisk
<1>4. AllRows
  <2> SUFFICES ASSUME "db" \in Sinks
               PROVE  buf["db"] = <<>> /\ disk["db"] = base["db"] \o Stream("db")
    BY DEF AllRows
  <2>1. disk["db"] \in Seq(Cells) /\ base["db"] = disk["db"] /\ buf["db"] = <<>>
    BY DEF Fresh
  <2> QED
    BY <1>1, <2>1, ConcatEmptySeq
<1>5. ServedInTurn
  BY EmptySeq DEF Fresh, ServedInTurn
<1> QED
  BY <1>3, <1>4, <1>5 DEF ContentsInv, Fresh

LEMMA FreshContentsNext == Fresh' => ContentsInv'
BY FreshContents, PTL

LEMMA ContentsInit == Init => ContentsInv
<1> SUFFICES ASSUME Init PROVE Fresh
  BY FreshContents
<1> DEFINE none == [s \in Sinks |-> <<>>]
<1>1. none \in [Sinks -> Seq(Cells)]
  BY EmptySeq
<1>2. disk = Opened(none) /\ base = disk /\ restarts = 0
  BY DEF Init
<1>3. \A s \in Sinks : none[s] = <<>>
  OBVIOUS
<1> HIDE DEF none
<1>4. disk \in [Sinks -> Seq(Cells)]
  BY <1>1, <1>2, OpenedType
<1>5. TornBefore
  <2> SUFFICES ASSUME NEW s \in Files PROVE Cardinality(Torn(base[s])) <= 0
    BY <1>2 DEF TornBefore
  <2>1. s \in Sinks /\ none[s] = <<>>
    BY <1>3 DEF Files
  <2>2. Torn(<<>>) = {}
    BY EmptySeq DEF Torn
  <2>3. Cardinality(Torn(Opened(none)[s])) <= Cardinality(Torn(none[s]))
    BY <1>1, <2>1, OpenedTorn
  <2> QED
    BY <1>2, <2>1, <2>2, <2>3, FS_EmptySet
<1> QED
  BY <1>4, <1>5 DEF Init, Fresh

LEMMA ContentsRestart ==
  ASSUME StorageInv, ContentsInv, Restart
  PROVE  ContentsInv'
<1>1. disk \in [Sinks -> Seq(Cells)] /\ base \in [Sinks -> Seq(Cells)]
  BY DEF StorageInv, TypeOK, OutputTypeOK
<1>2. disk' = Opened(disk) /\ base' = disk' /\ restarts' = restarts + 1 /\ restarts \in Nat
  BY DEF Restart, StorageInv, TypeOK, RunTypeOK
<1>3. disk' \in [Sinks -> Seq(Cells)]
  BY <1>1, <1>2, OpenedType
<1>4. TornBefore'
  <2> SUFFICES ASSUME NEW s \in Files PROVE Cardinality(Torn(base'[s])) <= restarts + 1
    BY <1>2 DEF TornBefore
  <2>1. s \in Sinks
    BY DEF Files
  <2>2. Cardinality(Torn(disk[s])) <= Cardinality(Torn(base[s])) + 1
    BY TornNow DEF ContentsInv, StorageInv, TypeOK
  <2>3. Cardinality(Torn(base'[s])) <= Cardinality(Torn(disk[s]))
    BY <1>1, <1>2, <2>1, OpenedTorn
  <2>4. Cardinality(Torn(base[s])) <= restarts
    BY DEF ContentsInv, TornBefore
  <2>5. /\ Cardinality(Torn(disk[s])) \in Nat /\ Cardinality(Torn(base[s])) \in Nat
        /\ Cardinality(Torn(base'[s])) \in Nat
    BY <1>1, <1>2, <1>3, <2>1, TornFinite
  <2> QED
    BY <1>2, <2>2, <2>3, <2>4, <2>5
<1>5. Fresh'
  BY <1>2, <1>3, <1>4 DEF Restart, Fresh
<1> QED
  BY <1>5, FreshContentsNext

(* What the step leaves alone stays as it is. *)
LEMMA StreamFrame ==
  ASSUME UNCHANGED <<phase, todo, taken>>, NEW s
  PROVE  Handed(s)' = Handed(s) /\ Stream(s)' = Stream(s)
<1>1. Handed(s)' = Handed(s)
  BY DEF Handed, InHand
<1> QED
  BY <1>1 DEF Stream

LEMMA FileFrame ==
  ASSUME NEW s, OnDisk(s), disk'[s] = disk[s], buf'[s] = buf[s], base' = base,
         s \in failed' <=> s \in failed, Stream(s)' = Stream(s)
  PROVE  OnDisk(s)'
BY DEF OnDisk

LEMMA RowsFrame ==
  ASSUME AllRows,
         "db" \in Sinks =>
           /\ disk'["db"] = disk["db"] /\ buf'["db"] = buf["db"]
           /\ "db" \in failed' <=> "db" \in failed
           /\ Stream("db")' = Stream("db"),
         base' = base
  PROVE  AllRows'
BY DEF AllRows

LEMMA ContentsFrame ==
  ASSUME ContentsInv, UNCHANGED <<phase, todo, taken, buf, disk, failed, base, restarts>>
  PROVE  ContentsInv'
<1>1. \A s : Stream(s)' = Stream(s)
  BY StreamFrame
<1>2. \A s \in Files : OnDisk(s)' /\ Len(buf'[s]) <= BufSize
  BY <1>1, FileFrame DEF ContentsInv
<1>3. AllRows'
  BY <1>1, RowsFrame DEF ContentsInv
<1>4. ServedInTurn' /\ TornBefore'
  BY DEF ContentsInv, ServedInTurn, TornBefore
<1> QED
  BY <1>2, <1>3, <1>4 DEF ContentsInv

(* Taking a reading hands nothing out yet. *)
LEMMA ContentsTake ==
  ASSUME StorageInv, ContentsInv, Take
  PROVE  ContentsInv'
<1>1. /\ phase = "loop" /\ phase' = "loop" /\ todo = <<>> /\ todo' = SinkOrder
      /\ taken' = Append(taken, Head(q)) /\ UNCHANGED <<buf, disk, failed, base, restarts>>
  BY DEF Take, runVars
<1>2. taken \in Seq(Values) /\ Head(q) \in Values
  BY HeadTailProperties DEF StorageInv, TypeOK, ChannelTypeOK, Take
<1>3. ASSUME NEW s \in Sinks
      PROVE  Stream(s)' = Stream(s)
  <2>1. ~InHand(s) /\ InHand(s)'
    BY <1>1, EmptySeq, OrderFacts DEF InHand
  <2>2. SubSeq(taken', 1, Len(taken') - 1) = taken
    BY <1>1, <1>2, AppendProperties
  <2>3. Handed(s)' = Handed(s)
    BY <2>1, <2>2 DEF Handed
  <2> QED
    BY <2>3 DEF Stream
<1>4. \A s \in Files : OnDisk(s)' /\ Len(buf'[s]) <= BufSize
  BY <1>1, <1>3, FileFrame DEF ContentsInv, Files
<1>5. AllRows'
  BY <1>1, <1>3, RowsFrame DEF ContentsInv
<1>6. ServedInTurn' /\ TornBefore'
  BY <1>1, OrderFacts DEF ContentsInv, ServedInTurn, TornBefore
<1> QED
  BY <1>4, <1>5, <1>6 DEF ContentsInv

(* Cells that follow what is on disk and in the buffer follow the stream. *)
LEMMA CellsFollow ==
  ASSUME NEW d \in Seq(Cells), NEW r \in Seq(Cells), NEW b \in Seq(Cells), NEW w \in Seq(Cells),
         NEW p \in Seq(Cells)
  PROVE  Meets(d, r, b, w) => Meets(d, r \o p, b, w \o p)
<1>1. Regroups(d, r, p) /\ Regroups(b, w, p)
  BY Regroup
<1> QED
  BY <1>1 DEF Regroups, Meets

(* A line goes to the buffer, or to the file, or is left out; a failed      *)
(* file gets nothing more.                                                 *)
LEMMA ContentsWriteFile ==
  ASSUME StorageInv, ContentsInv, NEW s \in {"json", "csv"}, WriteFile(s)
  PROVE  ContentsInv'
<1> DEFINE v == Current
<1>1. /\ phase = "loop" /\ Serving(s) /\ UNCHANGED <<phase, taken, base, restarts>>
      /\ ChannelTypeOK /\ OutputTypeOK /\ ReadingInHand /\ ServedInTurn
  BY DEF WriteFile, runVars, StorageInv, TypeOK, ContentsInv
<1>2. /\ s \in Files /\ v \in Values
      /\ Stream(s)' = Stream(s) \o Piece(s, v)
      /\ \A o \in Sinks \ {s} : Stream(o)' = Stream(o)
      /\ ServedInTurn'
  BY <1>1, ServedStep DEF Files
<1>3. /\ disk[s] \in Seq(Cells) /\ buf[s] \in Seq(Cells) /\ base[s] \in Seq(Cells)
      /\ Stream(s) \in Seq(Cells) /\ Piece(s, v) \in Seq(Cells)
  BY <1>1, <1>2, HandedType, PieceType DEF OutputTypeOK, Files
<1>4. PICK r \in Seq(Cells) :
        /\ disk[s] \o r = base[s] \o Stream(s)
        /\ Len(base[s]) <= Len(disk[s])
        /\ s \notin failed => r = buf[s]
  BY <1>2 DEF ContentsInv, OnDisk
<1>5. Len(base[s]) \in Nat /\ Len(disk[s]) \in Nat /\ Len(buf[s]) <= BufSize
  BY <1>2, <1>3, LenProperties DEF ContentsInv
<1> HIDE DEF v
<1>6. \/ s \in failed /\ UNCHANGED <<buf, disk, failed>>
      \/ s \notin failed /\ v \in NoLine(s) /\ UNCHANGED <<buf, disk, failed>>
      \/ s \notin failed /\ v \notin NoLine(s) /\ BufWrite(s, Line(v))
  BY DEF WriteFile, Skips, v
<1>7. /\ OnDisk(s)' /\ Len(buf'[s]) <= BufSize
      /\ \A o \in Sinks \ {s} :
           disk'[o] = disk[o] /\ buf'[o] = buf[o] /\ (o \in failed' <=> o \in failed)
  <2>1. CASE s \in failed /\ UNCHANGED <<buf, disk, failed>>
    <3> DEFINE d == disk[s]
               b == base[s]
               w == Stream(s)
               p == Piece(s, v)
    <3>1. /\ d \in Seq(Cells) /\ b \in Seq(Cells) /\ w \in Seq(Cells) /\ p \in Seq(Cells)
          /\ d \o r = b \o w
      BY <1>3, <1>4
    <3> HIDE DEF d, b, w, p
    <3>m. Meets(d, r, b, w)
      BY <3>1 DEF Meets
    <3>2. Meets(d, r \o p, b, w \o p)
      BY <3>1, <3>m, CellsFollow
    <3>a. r \o p \in Seq(Cells)
      BY <3>1, ConcatProperties
    <3> DEFINE rp == r \o p
    <3>3. rp \in Seq(Cells) /\ disk'[s] \o rp = base'[s] \o Stream(s)'
      BY <1>1, <1>2, <2>1, <3>2, <3>a DEF d, b, w, p, Meets
    <3> HIDE DEF rp
    <3> QED
      BY <1>1, <1>4, <1>5, <2>1, <3>3 DEF OnDisk
  <2>2. CASE s \notin failed /\ v \in NoLine(s) /\ UNCHANGED <<buf, disk, failed>>
    <3>1. Stream(s)' = Stream(s)
      BY <1>2, <1>3, <2>2, ConcatEmptySeq DEF Piece
    <3> QED
      BY <1>1, <1>2, <1>5, <2>2, <3>1, FileFrame DEF ContentsInv
  <2>3. CASE s \notin failed /\ v \notin NoLine(s) /\ BufWrite(s, Line(v))
    <3> DEFINE line == Line(v)
    <3>1. line \in Seq(Cells) /\ Len(line) <= 2 /\ Piece(s, v) = line
      BY <1>2, <2>3, CellFacts DEF Piece, Line, Files
    <3> HIDE DEF line
    <3>2. /\ \E x \in Seq(Cells) :
               /\ disk'[s] \o x = disk[s] \o (buf[s] \o line)
               /\ Len(disk[s]) <= Len(disk'[s])
               /\ s \notin failed' => x = buf'[s]
          /\ Len(buf'[s]) <= BufSize
          /\ \A o \in Sinks \ {s} :
               disk'[o] = disk[o] /\ buf'[o] = buf[o] /\ (o \in failed' <=> o \in failed)
      BY <1>1, <1>2, <1>5, <2>3, <3>1, BufWriteKeeps DEF Files, line
    <3>3. PICK x \in Seq(Cells) :
            /\ disk'[s] \o x = disk[s] \o (buf[s] \o line)
            /\ Len(disk[s]) <= Len(disk'[s])
            /\ s \notin failed' => x = buf'[s]
      BY <3>2
    <3>4. disk[s] \o (buf[s] \o line) = base[s] \o (Stream(s) \o line)
      <4> DEFINE d == disk[s]
                 b == base[s]
                 w == Stream(s)
                 f == buf[s]
      <4>1. /\ d \in Seq(Cells) /\ b \in Seq(Cells) /\ w \in Seq(Cells) /\ f \in Seq(Cells)
            /\ d \o f = b \o w
        BY <1>3, <1>4, <2>3
      <4> HIDE DEF d, b, w, f
      <4>2. Meets(d, f, b, w)
        BY <4>1 DEF Meets
      <4>3. Meets(d, f \o line, b, w \o line)
        BY <3>1, <4>1, <4>2, CellsFollow
      <4> QED
        BY <4>3 DEF d, b, w, f, Meets
    <3>5. disk'[s] \o x = base'[s] \o Stream(s)'
      BY <1>1, <1>2, <3>1, <3>3, <3>4
    <3>6. Len(base'[s]) <= Len(disk'[s])
      <4>1. disk'[s] \in Seq(Cells) /\ Len(disk'[s]) \in Nat
        BY <1>1, <1>2, <2>3, <3>1, BufWriteType, LenProperties DEF Files, line
      <4> QED
        BY <1>1, <1>4, <1>5, <3>3, <4>1
    <3>7. OnDisk(s)'
      BY <3>3, <3>5, <3>6 DEF OnDisk
    <3> QED
      BY <3>2, <3>7
  <2> QED
    BY <1>6, <2>1, <2>2, <2>3
<1>8. \A o \in Files : OnDisk(o)' /\ Len(buf'[o]) <= BufSize
  <2> TAKE o \in Files
  <2>1. CASE o # s
    BY <1>1, <1>2, <1>7, <2>1, FileFrame DEF ContentsInv, Files
  <2> QED
    BY <1>7, <2>1
<1>9. AllRows'
  BY <1>1, <1>2, <1>7, RowsFrame DEF ContentsInv, Files
<1>10. TornBefore'
  BY <1>1 DEF ContentsInv, TornBefore
<1> QED
  BY <1>2, <1>8, <1>9, <1>10 DEF ContentsInv

(* A row goes to the database, or its insert fails. *)
LEMMA ContentsWriteDB ==
  ASSUME StorageInv, ContentsInv, writeDB
  PROVE  ContentsInv'
<1>1. /\ phase = "loop" /\ Serving("db") /\ UNCHANGED <<phase, taken, base, restarts, buf>>
      /\ ChannelTypeOK /\ OutputTypeOK /\ ReadingInHand /\ ServedInTurn
  BY DEF writeDB, runVars, StorageInv, TypeOK, ContentsInv
<1>2. /\ "db" \in Sinks /\ Current \in Values
      /\ Stream("db")' = Stream("db") \o Piece("db", Current)
      /\ \A o \in Sinks \ {"db"} : Stream(o)' = Stream(o)
      /\ ServedInTurn'
  BY <1>1, ServedStep
<1>3. /\ \A o \in Sinks \ {"db"} : disk'[o] = disk[o] /\ (o \in failed' <=> o \in failed)
      /\ "db" \notin failed' =>
           "db" \notin failed /\ disk'["db"] = Append(disk["db"], Row(Current))
  BY <1>1, <1>2 DEF writeDB, OutputTypeOK
<1>4. \A o \in Files : OnDisk(o)' /\ Len(buf'[o]) <= BufSize
  BY <1>1, <1>2, <1>3, FileFrame DEF ContentsInv, Files
<1>5. AllRows'
  <2>1. buf'["db"] = <<>>
    BY <1>1, <1>2 DEF ContentsInv, AllRows
  <2>2. ASSUME "db" \notin failed'
        PROVE  disk'["db"] = base'["db"] \o Stream("db")'
    <3> DEFINE d == disk["db"]
               b == base["db"]
               w == Stream("db")
               p == <<Row(Current)>>
    <3>1. /\ d \in Seq(Cells) /\ b \in Seq(Cells) /\ w \in Seq(Cells) /\ p \in Seq(Cells)
          /\ d = b \o w
      BY <1>1, <1>2, <1>3, <2>2, HandedType, CellFacts DEF OutputTypeOK, ContentsInv, AllRows
    <3>2. Piece("db", Current) = p
      BY DEF Piece, NoLine
    <3>3. Append(d, Row(Current)) = d \o p
      BY <1>2, <3>1, CellFacts, AppendIsConcat
    <3> HIDE DEF d, b, w, p
    <3>4. Regroups(b, w, p) /\ d = b \o w
      BY <3>1, Regroup
    <3>5. d \o p = b \o (w \o p)
      BY <3>4 DEF Regroups
    <3> QED
      BY <1>1, <1>2, <1>3, <2>2, <3>2, <3>3, <3>5 DEF d, b, w
  <2> QED
    BY <2>1, <2>2 DEF AllRows
<1>6. TornBefore'
  BY <1>1 DEF ContentsInv, TornBefore
<1> QED
  BY <1>2, <1>4, <1>5, <1>6 DEF ContentsInv

(* After the loop every reading has been handed to every output, and each   *)
(* file is flushed in its turn.                                            *)
LEMMA ContentsEnd ==
  ASSUME StorageInv, ContentsInv, LoopEnds \/ Stop
  PROVE  ContentsInv'
<1>1. /\ UNCHANGED <<taken, buf, disk, failed, base, restarts>> /\ phase' # "loop"
      /\ phase = "loop" => todo = <<>>
      /\ \/ phase' = "flush" /\ todo' = FileOrder
         \/ phase = "flush" /\ phase' = "stopped" /\ todo = <<>> /\ todo' = <<>>
  BY DEF LoopEnds, Stop, runVars
<1>2. \A s : Stream(s)' = Stream(s)
  <2>1. \A s : ~InHand(s) /\ ~InHand(s)'
    BY <1>1, EmptySeq DEF InHand
  <2> QED
    BY <1>1, <2>1 DEF Stream, Handed
<1>3. \A s \in Files : OnDisk(s)' /\ Len(buf'[s]) <= BufSize
  BY <1>1, <1>2, FileFrame DEF ContentsInv
<1>4. AllRows'
  BY <1>1, <1>2, RowsFrame DEF ContentsInv
<1>5. ServedInTurn'
  BY <1>1, OrderFacts, EmptySeq DEF ContentsInv, ServedInTurn
<1>6. TornBefore'
  BY <1>1 DEF ContentsInv, TornBefore
<1> QED
  BY <1>3, <1>4, <1>5, <1>6 DEF ContentsInv

LEMMA ContentsFlush ==
  ASSUME StorageInv, ContentsInv, NEW s \in {"json", "csv"}, Flush(s)
  PROVE  ContentsInv'
<1>1. /\ phase = "flush" /\ Serving(s) /\ UNCHANGED <<phase, taken, base, restarts>>
      /\ ChannelTypeOK /\ OutputTypeOK /\ ReadingInHand /\ ServedInTurn
  BY DEF Flush, runVars, StorageInv, TypeOK, ContentsInv
<1>2. s \in Files /\ s \in Sinks /\ Len(buf[s]) <= BufSize
  BY <1>1, ServingType DEF Files, ContentsInv
<1>3. \A o : Stream(o)' = Stream(o)
  <2>1. \A o : Handed(o)' = Handed(o)
    BY <1>1 DEF Handed, InHand
  <2> QED
    BY <2>1 DEF Stream
<1>4. PICK r \in Seq(Cells) :
        /\ disk[s] \o r = base[s] \o Stream(s)
        /\ Len(base[s]) <= Len(disk[s])
        /\ s \notin failed => r = buf[s]
  BY <1>2 DEF ContentsInv, OnDisk
<1>5. /\ OnDisk(s)' /\ Len(buf'[s]) <= BufSize
      /\ s \notin failed' => buf'[s] = <<>>
      /\ \A o \in Sinks \ {s} :
           disk'[o] = disk[o] /\ buf'[o] = buf[o] /\ (o \in failed' <=> o \in failed)
  <2>1. CASE s \in failed /\ UNCHANGED <<buf, disk, failed>>
    BY <1>1, <1>2, <1>3, <2>1, FileFrame DEF ContentsInv
  <2>2. CASE s \notin failed /\ WriteOut(s, buf[s], <<>>)
    <3>1. /\ buf[s] \in Seq(Cells) /\ <<>> \in Seq(Cells) /\ buf[s] \o <<>> = buf[s]
          /\ Len(base[s]) \in Nat /\ Len(disk[s]) \in Nat
      BY <1>1, <1>2, EmptySeq, ConcatEmptySeq, LenProperties DEF OutputTypeOK
    <3>2. /\ \E x \in Seq(Cells) :
               /\ disk'[s] \o x = disk[s] \o (buf[s] \o <<>>)
               /\ Len(disk[s]) <= Len(disk'[s])
               /\ s \notin failed' => x = buf'[s] /\ x = <<>>
          /\ s \in failed' => buf'[s] = buf[s]
          /\ \A o \in Sinks \ {s} :
               disk'[o] = disk[o] /\ buf'[o] = buf[o] /\ (o \in failed' <=> o \in failed)
      BY <1>1, <1>2, <2>2, <3>1, WriteOutKeeps
    <3>3. PICK x \in Seq(Cells) :
            /\ disk'[s] \o x = disk[s] \o buf[s]
            /\ Len(disk[s]) <= Len(disk'[s])
            /\ s \notin failed' => x = buf'[s] /\ x = <<>>
      BY <3>1, <3>2
    <3>4. disk'[s] \o x = base'[s] \o Stream(s)'
      BY <1>1, <1>3, <1>4, <2>2, <3>3
    <3>5. Len(base'[s]) <= Len(disk'[s])
      <4>1. disk'[s] \in Seq(Cells) /\ Len(disk'[s]) \in Nat
        BY <1>1, <1>2, <2>2, <3>1, WriteOutType, LenProperties
      <4> QED
        BY <1>1, <1>4, <3>1, <3>3, <4>1
    <3>6. OnDisk(s)'
      BY <3>3, <3>4, <3>5 DEF OnDisk
    <3>7. Len(buf'[s]) <= BufSize
      <4>1. Len(<<>>) <= BufSize
        BY StorageAssumption, EmptySeq DEF StorageAssumption
      <4> QED
        BY <1>2, <3>2, <3>3, <4>1
    <3> QED
      BY <3>2, <3>3, <3>6, <3>7
  <2> QED
    BY <2>1, <2>2 DEF Flush
<1>6. \A o \in Files : OnDisk(o)' /\ Len(buf'[o]) <= BufSize
  <2> TAKE o \in Files
  <2>1. CASE o # s
    BY <1>1, <1>3, <1>5, <2>1, FileFrame DEF ContentsInv, Files
  <2>2. CASE o = s
    <3>1. OnDisk(s)' /\ Len(buf'[s]) <= BufSize
      BY <1>5
    <3> QED
      BY <2>2, <3>1
  <2> QED
    BY <2>1, <2>2
<1>7. AllRows'
  BY <1>1, <1>2, <1>3, <1>5, RowsFrame DEF ContentsInv, Files
<1>8. ServedInTurn'
  <2>1. /\ todo \in Seq(Sinks) /\ todo # <<>> /\ todo' = Tail(todo) /\ todo[1] = s
        /\ Len(todo) \in Nat \ {0} /\ Len(todo') = Len(todo) - 1
        /\ \A i \in 1..Len(todo') : todo'[i] = todo[i + 1]
    BY <1>1, HeadTailProperties, EmptySeq DEF Serving, OutputTypeOK
  <2>2. /\ \A i, j \in 1..Len(todo) : i # j => todo[i] # todo[j]
        /\ \A o \in Files \ failed : buf[o] = <<>> \/ \E i \in 1..Len(todo) : todo[i] = o
    BY <1>1 DEF ServedInTurn
  <2>3. ASSUME NEW i \in 1..Len(todo'), NEW j \in 1..Len(todo'), i # j
        PROVE  todo'[i] # todo'[j]
    <3>1. i + 1 \in 1..Len(todo) /\ j + 1 \in 1..Len(todo) /\ i + 1 # j + 1
      BY <2>1, <2>3
    <3> QED
      BY <2>1, <2>2, <3>1
  <2>4. ASSUME NEW o \in Files \ failed'
        PROVE  buf'[o] = <<>> \/ \E j \in 1..Len(todo') : todo'[j] = o
    <3>1. CASE o = s
      <4>1. s \notin failed'
        BY <3>1
      <4> QED
        BY <1>5, <3>1, <4>1
    <3>2. CASE o # s
      <4>1. buf'[o] = buf[o] /\ (buf[o] = <<>> \/ \E i \in 1..Len(todo) : todo[i] = o)
        BY <1>5, <2>2, <3>2 DEF Files
      <4>2. ASSUME NEW i \in 1..Len(todo), todo[i] = o
            PROVE  \E j \in 1..Len(todo') : todo'[j] = o
        <5>1. i - 1 \in 1..Len(todo') /\ (i - 1) + 1 = i
          BY <2>1, <3>2, <4>2
        <5> QED
          BY <2>1, <4>2, <5>1
      <4> QED
        BY <4>1, <4>2
    <3> QED
      BY <3>1, <3>2
  <2> QED
    BY <1>1, <2>3, <2>4 DEF ServedInTurn
<1>9. TornBefore'
  BY <1>1 DEF ContentsInv, TornBefore
<1> QED
  BY <1>6, <1>7, <1>8, <1>9 DEF ContentsInv

(* Every step keeps what the outputs hold in order. *)
LEMMA ContentsNext ==
  ASSUME StorageInv, ContentsInv, [AnyStep]_storageVars
  PROVE  ContentsInv'
<1> DEFINE Same == UNCHANGED <<phase, todo, taken, buf, disk, failed, base, restarts>>
<1>1. ASSUME NEW p \in Producers, NEW v \in Values, Handle(p, v)
      PROVE  Same
  BY <1>1 DEF Handle, HandleSend, HandleFull, SendOnClosed, writerVars, runVars
<1>2. ASSUME NEW p \in Producers, HandleStep(p) \/ Return(p)
      PROVE  Same
  BY <1>2 DEF HandleStep, SendOnClosed, RetrySend, Park, Timeout, Return, writerVars, runVars
<1>3. CASE CloseQueue \/ CloseReturns \/ Kill \/ UNCHANGED storageVars
  <2>1. Same
    BY <1>3 DEF CloseQueue, CloseReturns, Kill, storageVars, writerVars, runVars
  <2> QED
    BY <2>1, ContentsFrame
<1>4. CASE Writer
  <2>1. CASE writeJSONL \/ writeCSV
    BY <2>1, ContentsWriteFile DEF writeJSONL, writeCSV
  <2>2. CASE Flush("json") \/ Flush("csv")
    BY <2>2, ContentsFlush
  <2> QED
    BY <1>4, <2>1, <2>2, ContentsTake, ContentsWriteDB, ContentsEnd DEF Writer
<1> HIDE DEF Same
<1>5. Same => ContentsInv'
  BY ContentsFrame DEF Same
<1> QED
  BY <1>1, <1>2, <1>3, <1>4, <1>5, ContentsRestart DEF AnyStep

----------------------------------------------------------------------------
(* What follows from the contents *)

(* A file whose writes all succeeded is written out when the writer has     *)
(* stopped.                                                                *)
LEMMA WholeWhenStopped ==
  ASSUME StorageInv, ContentsInv, phase = "stopped", NEW s \in Sinks \ failed
  PROVE  disk[s] = base[s] \o Image(s, Kept(s, taken))
<1>1. Stream(s) = Image(s, Kept(s, taken))
  BY DEF Stream, Handed, InHand
<1>2. CASE s = "db"
  BY <1>1, <1>2 DEF ContentsInv, AllRows
<1>3. CASE s # "db"
  <2>1. s \in Files /\ todo = <<>> /\ buf[s] = <<>>
    BY <1>3, EmptySeq DEF Files, ContentsInv, ServedInTurn
  <2>2. disk[s] \o <<>> = base[s] \o Stream(s)
    BY <2>1 DEF ContentsInv, OnDisk
  <2>3. disk[s] \in Seq(Cells)
    BY DEF StorageInv, TypeOK, OutputTypeOK
  <2> QED
    BY <1>1, <2>2, <2>3, ConcatEmptySeq
<1> QED
  BY <1>2, <1>3

(* What an output has still to be handed: the queue and, until it has been  *)
(* served, the reading in the writer's hands.                              *)
LEMMA StillToHand ==
  ASSUME StorageInv, NEW s
  PROVE  /\ Handed(s) \in Seq(Values)
         /\ \E u \in Seq(Values) : accepted = Handed(s) \o u /\ Len(u) <= MaxQueue + 1
<1>1. /\ taken \in Seq(Values) /\ q \in Seq(Values) /\ accepted = taken \o q
      /\ Len(q) \in Nat /\ Len(q) <= MaxQueue /\ MaxQueue \in Nat
  BY LenProperties, StorageAssumption
     DEF StorageInv, TypeOK, ChannelTypeOK, ChannelInv, Fifo, StorageAssumption
<1>2. Handed(s) \in Seq(Values)
  BY HandedType DEF StorageInv, TypeOK
<1>3. CASE ~InHand(s)
  <2>1. Len(q) <= MaxQueue + 1
    BY <1>1
  <2> QED
    BY <1>1, <1>2, <1>3, <2>1 DEF Handed
<1>4. CASE InHand(s)
  <2>1. taken # <<>>
    BY <1>4, EmptySeq DEF InHand, StorageInv, ReadingInHand
  <2> DEFINE h == Handed(s)
             e == <<taken[Len(taken)]>>
  <2>2. h \in Seq(Values) /\ e \in Seq(Values) /\ taken = h \o e /\ Len(e) = 1
    <3>1. h = SubSeq(taken, 1, Len(taken) - 1)
      BY <1>4 DEF Handed
    <3>2. taken[Len(taken)] \in Values /\ taken = Append(h, taken[Len(taken)])
      BY <1>1, <2>1, <3>1, FrontAndLast
    <3> QED
      BY <1>2, <3>2, AppendIsConcat
  <2> HIDE DEF h, e
  <2>a. (h \o e) \o q = h \o (e \o q)
    BY <1>1, <2>2, Regroup DEF Regroups
  <2>3. e \o q \in Seq(Values) /\ Len(e \o q) = Len(e) + Len(q)
    BY <1>1, <2>2, ConcatProperties
  <2>4. Len(e \o q) <= MaxQueue + 1
    BY <1>1, <2>2, <2>3
  <2> QED
    BY <1>1, <1>2, <2>2, <2>a, <2>3, <2>4 DEF h
<1> QED
  BY <1>2, <1>3, <1>4

(* How long a stream is beside what has been accepted. *)
LEMMA StreamBehind ==
  ASSUME StorageInv, NEW s
  PROVE  LET full == Image(s, Kept(s, accepted))
             k    == IF s = "db" THEN 1 ELSE 2
         IN  /\ full \in Seq(Cells) /\ Stream(s) \in Seq(Cells)
             /\ Len(full) <= Len(Stream(s)) + k * (MaxQueue + 1)
<1> DEFINE h == Handed(s)
           kh == Kept(s, h)
           ka == Kept(s, accepted)
           m == Len(kh)
           n == Len(ka)
<1>1. PICK u \in Seq(Values) : accepted = h \o u /\ Len(u) <= MaxQueue + 1
  BY StillToHand
<1>2. h \in Seq(Values) /\ accepted \in Seq(Values)
  BY StillToHand DEF StorageInv, TypeOK, ChannelTypeOK
<1>3. kh \in Seq(Values) /\ ka \in Seq(Values)
  BY <1>2, KeptType
<1>4. n <= m + Len(u)
  BY <1>1, <1>2, AmongLength DEF Kept
<1>5. m \in Nat /\ n \in Nat /\ Len(u) \in Nat /\ MaxQueue \in Nat
  BY <1>3, LenProperties, StorageAssumption DEF StorageAssumption
<1> DEFINE full == Image(s, ka)
           part == Image(s, kh)
<1>6. /\ full \in Seq(Cells) /\ part \in Seq(Cells) /\ part = Stream(s)
      /\ s = "db" => Len(full) = n /\ Len(part) = m
      /\ s # "db" => Len(full) = 2 * n /\ Len(part) = 2 * m
  BY <1>3, ImageOfFile, ImageOfDB DEF Stream
<1> HIDE DEF m, n, full, part
<1>7. Len(full) <= Len(part) + (IF s = "db" THEN 1 ELSE 2) * (MaxQueue + 1)
  BY <1>1, <1>4, <1>5, <1>6
<1> QED
  BY <1>6, <1>7 DEF full

LEMMA InvBoundedLoss == StorageInv /\ ContentsInv => BoundedLoss
<1> SUFFICES ASSUME StorageInv, ContentsInv, NEW s \in Sinks \ failed
             PROVE  Len(base[s] \o Image(s, Kept(s, accepted))) - Len(disk[s])
                      <= IF s = "db" THEN MaxQueue + 1 ELSE 2 * (MaxQueue + 1) + BufSize
  BY DEF BoundedLoss
<1> DEFINE full == Image(s, Kept(s, accepted))
           w == Stream(s)
           b == base[s]
           d == disk[s]
           f == buf[s]
<1>1. /\ full \in Seq(Cells) /\ w \in Seq(Cells)
      /\ Len(full) <= Len(w) + (IF s = "db" THEN 1 ELSE 2) * (MaxQueue + 1)
  BY StreamBehind
<1>2. b \in Seq(Cells) /\ d \in Seq(Cells) /\ f \in Seq(Cells)
  BY DEF StorageInv, TypeOK, OutputTypeOK
<1>3. /\ s = "db" => d = b \o w
      /\ s # "db" => d \o f = b \o w /\ Len(f) <= BufSize
  BY DEF ContentsInv, OnDisk, AllRows, Files
<1>4. MaxQueue \in Nat /\ BufSize \in Nat
  BY StorageAssumption DEF StorageAssumption
<1> HIDE DEF full, w, b, d, f
<1>5. /\ Len(full) \in Nat /\ Len(w) \in Nat /\ Len(b) \in Nat /\ Len(d) \in Nat /\ Len(f) \in Nat
      /\ Len(b \o full) = Len(b) + Len(full) /\ Len(b \o w) = Len(b) + Len(w)
      /\ Len(d \o f) = Len(d) + Len(f)
  BY <1>1, <1>2, LenProperties, ConcatProperties
<1>6. CASE s = "db"
  <2>1. Len(d) = Len(b) + Len(w)
    BY <1>3, <1>5, <1>6
  <2>2. Len(b \o full) - Len(d) <= MaxQueue + 1
    BY <1>1, <1>4, <1>5, <1>6, <2>1
  <2> QED
    BY <1>6, <2>2 DEF full, b, d
<1>7. CASE s # "db"
  <2>1. Len(d) + Len(f) = Len(b) + Len(w) /\ Len(f) <= BufSize
    BY <1>3, <1>5, <1>7
  <2>2. Len(b \o full) - Len(d) <= 2 * (MaxQueue + 1) + BufSize
    BY <1>1, <1>4, <1>5, <1>7, <2>1
  <2> QED
    BY <1>7, <2>2 DEF full, b, d
<1> QED
  BY <1>6, <1>7

LEMMA InvCloseLosesNothing == StorageInv /\ ContentsInv => CloseLosesNothing
<1> SUFFICES ASSUME StorageInv, ContentsInv, closer = "closed", NEW s \in Sinks \ failed
             PROVE  disk[s] = base[s] \o Image(s, Kept(s, accepted))
  BY DEF CloseLosesNothing
<1>1. phase = "stopped" /\ taken = accepted
  BY InvDrained DEF StorageInv, LoopDrained, Drained
<1> QED
  BY <1>1, WholeWhenStopped

LEMMA InvOneTornLine == StorageInv /\ ContentsInv => OneTornLinePerRun
<1> SUFFICES ASSUME StorageInv, ContentsInv, NEW s \in Files
             PROVE  Cardinality(Torn(disk[s])) <=
                      restarts + IF closer = "closed" /\ s \notin failed THEN 0 ELSE 1
  BY DEF OneTornLinePerRun, Files
<1>1. /\ Cardinality(Torn(disk[s])) <= Cardinality(Torn(base[s])) + 1
      /\ disk[s] = base[s] \o Stream(s) =>
           Cardinality(Torn(disk[s])) <= Cardinality(Torn(base[s]))
  BY TornNow DEF ContentsInv, StorageInv, TypeOK
<1>2. Cardinality(Torn(base[s])) <= restarts
  BY DEF ContentsInv, TornBefore
<1>3. closer = "closed" /\ s \notin failed => disk[s] = base[s] \o Stream(s)
  <2> SUFFICES ASSUME closer = "closed", s \notin failed PROVE disk[s] = base[s] \o Stream(s)
    OBVIOUS
  <2>1. phase = "stopped" /\ s \in Sinks \ failed
    BY DEF StorageInv, LoopDrained, Files
  <2>2. Stream(s) = Image(s, Kept(s, taken))
    BY <2>1 DEF Stream, Handed, InHand
  <2> QED
    BY <2>1, <2>2, WholeWhenStopped
<1>4. /\ Cardinality(Torn(disk[s])) \in Nat /\ Cardinality(Torn(base[s])) \in Nat
      /\ restarts \in Nat
  BY TornFinite DEF StorageInv, TypeOK, OutputTypeOK, RunTypeOK, Files
<1> QED
  BY <1>1, <1>2, <1>3, <1>4

----------------------------------------------------------------------------
(* Theorems *)

(* What every output holds is an invariant of the store. *)
THEOREM ContentsInvariance == SafeSpec => [](StorageInv /\ ContentsInv)
<1>1. Init => StorageInv /\ ContentsInv
  BY InvInit, ContentsInit
<1>2. StorageInv /\ ContentsInv /\ [Next]_storageVars => (StorageInv /\ ContentsInv)'
  <2> SUFFICES ASSUME StorageInv, ContentsInv, [Next]_storageVars
               PROVE  StorageInv' /\ ContentsInv'
    OBVIOUS
  <2>1. [AnyStep]_storageVars
    BY DEF Next, AnyStep
  <2> QED
    BY <2>1, InvNext, ContentsNext
<1> QED
  BY <1>1, <1>2, PTL DEF SafeSpec

(* After Close each output whose writes succeeded holds all that Handle     *)
(* accepted, in order, behind what it held before: whatever the outputs,    *)
(* the capacities, the writer's pace and the earlier crashes.              *)
THEOREM NothingIsLost == SafeSpec => []CloseLosesNothing
BY ContentsInvariance, InvCloseLosesNothing, PTL

(* A kill at any step costs an output at most the queue, the reading in     *)
(* hand and one buffer.                                                    *)
THEOREM LossIsBounded == SafeSpec => []BoundedLoss
BY ContentsInvariance, InvBoundedLoss, PTL

(* However often the process dies in the middle of a line, and whatever     *)
(* part of a buffer a failed write leaves behind, a file has at most one    *)
(* torn line for each run.                                                 *)
THEOREM TornLinesAreFew == SafeSpec => []OneTornLinePerRun
BY ContentsInvariance, InvOneTornLine, PTL

(* The header of the CSV file: what the run found, or wrote on opening the  *)
(* file, has it once, and lines hold no second one.                        *)
HeaderIn(d) == { i \in 1..Len(d) : d[i] = Header } = {1}
FoundWithHeader == "csv" \in Sinks => HeaderIn(base["csv"])

LEMMA HeaderNow ==
  ASSUME StorageInv, ContentsInv, FoundWithHeader, "csv" \in Sinks
  PROVE  HeaderIn(disk["csv"])
<1> DEFINE d == disk["csv"]
           b == base["csv"]
           w == Stream("csv")
           t == Kept("csv", Handed("csv"))
<1>1. d \in Seq(Cells) /\ b \in Seq(Cells) /\ w \in Seq(Cells)
  BY HandedType DEF OutputTypeOK, StorageInv, TypeOK, ChannelInv
<1>2. w = Image("csv", t) /\ t \in Seq(Values)
  BY HandedType, KeptType DEF Stream, StorageInv, TypeOK, ChannelInv
<1>3. PICK r \in Seq(Cells) : d \o r = b \o w /\ Len(b) <= Len(d)
  BY DEF OnDisk, ContentsInv, Files
<1>4. { i \in 1..Len(b) : b[i] = Header } = {1}
  BY DEF FoundWithHeader, HeaderIn
<1> HIDE DEF d, b, w, t
<1>5. /\ Len(d) \in Nat /\ Len(b) \in Nat /\ Len(w) \in Nat /\ Len(r) \in Nat
      /\ Len(d) + Len(r) = Len(b) + Len(w)
  BY <1>1, <1>3, LenProperties, ConcatProperties
<1>6. ASSUME NEW i \in 1..Len(d)
      PROVE  d[i] = Header <=> i = 1
  <2>1. d[i] = (b \o w)[i]
    BY <1>1, <1>3, <1>5, ConcatProperties
  <2>2. CASE i <= Len(b)
    <3>1. i \in 1..Len(b) /\ i \in 1..Len(b) + Len(w)
      BY <1>5, <2>2
    <3>2. (b \o w)[i] = b[i]
      BY <1>1, <2>2, <3>1, ConcatProperties
    <3>3. b[i] = Header <=> i = 1
      BY <1>4, <3>1
    <3> QED
      BY <2>1, <3>2, <3>3
  <2>3. CASE ~(i <= Len(b))
    <3> DEFINE k == i - Len(b)
    <3>1. k \in 1..Len(w) /\ i \in 1..Len(b) + Len(w)
      BY <1>5, <2>3
    <3>2. (b \o w)[i] = w[k]
      BY <1>1, <2>3, <3>1, ConcatProperties
    <3>3. w[k] = <<t[(k + 1) \div 2], 2 - (k % 2)>> /\ k \in 1..2 * Len(t) /\ Len(t) \in Nat
      BY <1>2, <3>1, ImageOfFile, LenProperties
    <3>4. 2 - (k % 2) # 0
      BY <3>3, CellPlace
    <3> HIDE DEF k
    <3>5. w[k] # Header
      BY <3>3, <3>4 DEF Header
    <3>6. i # 1
      <4>1. 1 \in 1..Len(b)
        BY <1>4
      <4> QED
        BY <1>5, <2>3, <4>1
    <3> QED
      BY <2>1, <3>2, <3>5, <3>6
  <2> QED
    BY <2>2, <2>3
<1>7. 1 \in 1..Len(d)
  <2>1. 1 \in 1..Len(b)
    BY <1>4
  <2> QED
    BY <1>3, <1>5, <2>1
<1> QED
  BY <1>6, <1>7 DEF HeaderIn, d

LEMMA HeaderInit == Init => FoundWithHeader
<1> SUFFICES ASSUME Init, "csv" \in Sinks PROVE HeaderIn(base["csv"])
  BY DEF FoundWithHeader
<1>1. base["csv"] = <<Header>>
  BY DEF Init, Opened
<1>2. Len(<<Header>>) = 1 /\ <<Header>>[1] = Header /\ 1..1 = {1}
  OBVIOUS
<1> QED
  BY <1>1, <1>2 DEF HeaderIn

LEMMA HeaderNext ==
  ASSUME StorageInv, ContentsInv, FoundWithHeader, [AnyStep]_storageVars
  PROVE  FoundWithHeader'
<1>1. CASE UNCHANGED base
  BY <1>1 DEF FoundWithHeader, HeaderIn
<1>2. CASE Restart
  <2> SUFFICES ASSUME "csv" \in Sinks PROVE HeaderIn(base'["csv"])
    BY DEF FoundWithHeader
  <2>1. HeaderIn(disk["csv"])
    BY HeaderNow
  <2>2. Len(<<>>) = 0 /\ 1 \notin 1..0
    OBVIOUS
  <2>3. disk["csv"] # <<>>
    BY <2>1, <2>2 DEF HeaderIn
  <2>4. base'["csv"] = disk["csv"]
    BY <1>2, <2>3 DEF Restart, Opened
  <2> QED
    BY <2>1, <2>4
<1>3. CASE UNCHANGED storageVars \/ CloseQueue \/ CloseReturns \/ Kill
  BY <1>1, <1>3 DEF storageVars, runVars, CloseQueue, CloseReturns, Kill
<1>4. CASE Writer
  <2>1. UNCHANGED base
    BY <1>4 DEF Writer, Take, writeJSONL, writeCSV, WriteFile, writeDB, LoopEnds, Flush, Stop,
       runVars
  <2> QED
    BY <1>1, <2>1
<1>5. ASSUME NEW p \in Producers, NEW v \in Values, Handle(p, v) PROVE UNCHANGED base
  BY <1>5 DEF Handle, HandleSend, HandleFull, SendOnClosed, runVars
<1>6. ASSUME NEW p \in Producers, HandleStep(p) \/ Return(p) PROVE UNCHANGED base
  BY <1>6 DEF HandleStep, SendOnClosed, RetrySend, Park, Timeout, Return, runVars
<1> QED
  BY <1>1, <1>2, <1>3, <1>4, <1>5, <1>6 DEF AnyStep

(* However often the process is killed and started again on the file, the   *)
(* CSV file begins with its header and has no second one.                  *)
THEOREM OneHeader == SafeSpec => []HeaderOnce
<1>1. StorageInv /\ ContentsInv /\ FoundWithHeader => HeaderOnce
  BY HeaderNow DEF HeaderOnce, HeaderIn
<1>2. StorageInv /\ ContentsInv /\ FoundWithHeader /\ [Next]_storageVars => FoundWithHeader'
  <2>1. [Next]_storageVars => [AnyStep]_storageVars
    BY DEF Next, AnyStep
  <2> QED
    BY <2>1, HeaderNext
<1> QED
  BY <1>1, <1>2, HeaderInit, ContentsInvariance, PTL DEF SafeSpec

----------------------------------------------------------------------------
(* The store implements the write-behind log *)

(* Each output is as far in the log as it has been handed readings. *)
LEMMA DoneIs ==
  ASSUME StorageInv, NEW s \in Sinks
  PROVE  /\ Done[s] = Len(Handed(s)) /\ Done[s] \in Nat /\ Done[s] <= Len(accepted)
         /\ SubSeq(accepted, 1, Done[s]) = Handed(s)
<1>1. Handed(s) \in Seq(Values) /\ taken \in Seq(Values)
  BY StillToHand DEF StorageInv, TypeOK, ChannelTypeOK
<1>2. PICK u \in Seq(Values) : accepted = Handed(s) \o u
  BY StillToHand
<1>3. Done[s] = Len(Handed(s))
  <2>1. Done[s] = Len(taken) - IF InHand(s) THEN 1 ELSE 0
    BY DEF Done, InHand
  <2>2. CASE InHand(s)
    <3>1. taken # <<>>
      BY <2>2, EmptySeq DEF InHand, StorageInv, ReadingInHand
    <3> QED
      BY <1>1, <2>1, <2>2, <3>1, FrontAndLast DEF Handed
  <2>3. CASE ~InHand(s)
    <3>1. Len(taken) \in Nat
      BY <1>1, LenProperties
    <3> QED
      BY <2>1, <2>3, <3>1 DEF Handed
  <2> QED
    BY <2>2, <2>3
<1> DEFINE h == Handed(s)
<1>4. h \in Seq(Values) /\ Len(h) \in Nat /\ Len(u) \in Nat
  BY <1>1, LenProperties
<1> HIDE DEF h
<1>5. /\ h \o u \in Seq(Values) /\ Len(h \o u) = Len(h) + Len(u)
      /\ \A i \in 1..Len(h) : (h \o u)[i] = h[i]
  BY <1>4, ConcatProperties
<1>6. SubSeq(h \o u, 1, Len(h)) = h
  <2> DEFINE t == h \o u
             n == Len(h)
             x == SubSeq(t, 1, n)
  <2>0. n \in Nat /\ Len(t) \in Nat /\ n <= Len(t) /\ t \in Seq(Values)
    BY <1>4, <1>5
  <2>1. n \in 0..Len(t)
    BY <2>0
  <2> HIDE DEF t, n
  <2>2. x \in Seq(Values) /\ Len(x) = n
    BY <2>0, <2>1, CutInTwo
  <2>3. \A i \in 1..n : t[i] \in Values
    BY <2>0, ElementOfSeq
  <2>4. \A i \in 1..n - 1 + 1 : x[i] = t[1 + i - 1]
    BY <2>0, <2>3, SubSeqProperties
  <2>5. \A i \in 1..n : x[i] = h[i]
    BY <1>5, <2>0, <2>4 DEF t, n
  <2> HIDE DEF x
  <2>6. x = h
    BY <1>4, <2>2, <2>5, SeqEqual DEF n
  <2> QED
    BY <2>6 DEF x, t, n
<1>7. Len(h) <= Len(accepted)
  BY <1>2, <1>4, <1>5 DEF h
<1> QED
  BY <1>2, <1>3, <1>4, <1>6, <1>7 DEF h

(* So the log's stream of an output is the one it has been handed. *)
LEMMA LogAmong ==
  ASSUME NEW t, NEW S
  PROVE  Log!Among(t, S) = Among(t, S)
BY DEF Log!Among, Among

LEMMA StreamIs ==
  ASSUME NEW s \in Files, NEW n, SubSeq(accepted, 1, n) = Handed(s)
  PROVE  Log!Stream(s, n) = Stream(s)
BY LogAmong DEF Log!Stream, Stream, Image, Kept, Files

LEMMA StreamIsNext ==
  ASSUME NEW s \in Files, NEW n, SubSeq(accepted, 1, n) = Handed(s)'
  PROVE  Log!Stream(s, n) = Stream(s)'
BY LogAmong DEF Log!Stream, Stream, Image, Kept, Files

(* A write to a file changes that file alone, and only at its end. *)
LEMMA DiskGrows ==
  ASSUME StorageInv, ContentsInv, NEW s \in {"json", "csv"}, WriteFile(s) \/ Flush(s)
  PROVE  /\ Len(disk[s]) <= Len(disk'[s])
         /\ disk' = [disk EXCEPT ![s] = disk'[s]]
<1>1. /\ OutputTypeOK /\ s \in Files /\ s \in Sinks /\ Len(buf[s]) <= BufSize
      /\ disk[s] \in Seq(Cells) /\ buf[s] \in Seq(Cells)
  BY ServingType DEF WriteFile, Flush, StorageInv, TypeOK, ContentsInv, Files, OutputTypeOK
<1>2. disk' \in [Sinks -> Seq(Cells)] /\ disk \in [Sinks -> Seq(Cells)]
  <2>1. [AnyStep]_storageVars
    BY DEF AnyStep, Writer, writeJSONL, writeCSV
  <2> QED
    BY <2>1, InvNext DEF StorageInv, TypeOK, OutputTypeOK
<1>3. Len(disk[s]) <= Len(disk'[s]) /\ \A o \in Sinks \ {s} : disk'[o] = disk[o]
  <2>1. CASE UNCHANGED disk
    BY <1>1, <2>1, LenProperties
  <2>2. CASE s \notin failed /\ BufWrite(s, Line(Current)) /\ WriteFile(s)
    <3>1. Current \in Values
      BY <2>2, ServedStep DEF WriteFile, StorageInv, TypeOK, ContentsInv
    <3>2. Line(Current) \in Seq(Cells) /\ Len(Line(Current)) <= 2
      BY <3>1, CellFacts DEF Line
    <3> QED
      BY <1>1, <2>2, <3>2, BufWriteKeeps
  <2>3. CASE s \notin failed /\ WriteOut(s, buf[s], <<>>)
    BY <1>1, <2>3, EmptySeq, WriteOutKeeps
  <2> QED
    BY <2>1, <2>2, <2>3 DEF WriteFile, Flush, Skips
<1> QED
  BY <1>1, <1>2, <1>3

(* What a file holds is one of the contents the log allows it. *)
LEMMA ContentsAllowed ==
  ASSUME NEW s, OnDisk(s), OutputTypeOK, s \in Sinks, Stream(s) \in Seq(Cells)
  PROVE  disk[s] \in {base[s] \o SubSeq(Stream(s), 1, m) : m \in 0..Len(Stream(s))}
<1> DEFINE d == disk[s]
           b == base[s]
           w == Stream(s)
<1>1. d \in Seq(Cells) /\ b \in Seq(Cells) /\ w \in Seq(Cells)
  BY DEF OutputTypeOK
<1>2. PICK r \in Seq(Cells) : d \o r = b \o w /\ Len(b) <= Len(d)
  BY DEF OnDisk
<1> HIDE DEF d, b, w
<1>m. Meets(d, r, b, w) /\ Len(b) <= Len(d)
  BY <1>2 DEF Meets
<1>3. PICK m \in 0..Len(w) : d = b \o SubSeq(w, 1, m) /\ Len(d) = Len(b) + m
  <2>1. Continues(d, b, w)
    BY <1>1, <1>m, LongerFront
  <2> QED
    BY <2>1 DEF Continues
<1> QED
  BY <1>3 DEF d, b, w

LEMMA AllowedInv ==
  StorageInv /\ ContentsInv =>
    \A s \in Files : disk[s] \in {base[s] \o SubSeq(Stream(s), 1, m) : m \in 0..Len(Stream(s))}
<1> SUFFICES ASSUME StorageInv, ContentsInv, NEW s \in Files
             PROVE  disk[s] \in {base[s] \o SubSeq(Stream(s), 1, m) : m \in 0..Len(Stream(s))}
  OBVIOUS
<1>1. Stream(s) \in Seq(Cells) /\ OnDisk(s) /\ OutputTypeOK /\ s \in Sinks
  BY HandedType DEF StorageInv, TypeOK, ContentsInv, Files
<1> QED
  BY <1>1, ContentsAllowed

LEMMA AllowedNext ==
  (StorageInv /\ ContentsInv)' =>
    (\A s \in Files :
       disk[s] \in {base[s] \o SubSeq(Stream(s), 1, m) : m \in 0..Len(Stream(s))})'
BY AllowedInv, PTL

LEMMA DoneInv ==
  StorageInv =>
    \A s \in Sinks : /\ Done[s] = Len(Handed(s)) /\ Done[s] \in Nat /\ Done[s] <= Len(accepted)
                     /\ SubSeq(accepted, 1, Done[s]) = Handed(s)
BY DoneIs

LEMMA DoneNext ==
  StorageInv' =>
    (\A s \in Sinks : /\ Done[s] = Len(Handed(s)) /\ Done[s] \in Nat /\ Done[s] <= Len(accepted)
                      /\ SubSeq(accepted, 1, Done[s]) = Handed(s))'
BY DoneInv, PTL

LEMMA LogInit == Init => Log!Init
<1> SUFFICES ASSUME Init PROVE Log!Init
  OBVIOUS
<1>1. Done = [s \in Sinks |-> 0]
  BY EmptySeq DEF Init, Done
<1> QED
  BY <1>1 DEF Init, Log!Init

(* Handing a reading to an output moves that output one reading on. *)
LEMMA DoneServed ==
  ASSUME StorageInv, StorageInv', ContentsInv, phase = "loop", NEW s, Serving(s),
         UNCHANGED <<phase, taken, accepted>>
  PROVE  /\ s \in Sinks /\ Done[s] < Len(accepted)
         /\ Done' = [Done EXCEPT ![s] = @ + 1]
         /\ SubSeq(accepted, 1, Done[s] + 1) = Handed(s)'
         /\ accepted[Done[s] + 1] = Current
<1>1. /\ s \in Sinks /\ taken # <<>> /\ Current \in Values
      /\ Handed(s)' = Append(Handed(s), Current)
      /\ \A r \in Sinks \ {s} : Handed(r)' = Handed(r)
  BY ServedStep DEF StorageInv, TypeOK, ContentsInv
<1>2. /\ \A r \in Sinks : Done[r] = Len(Handed(r)) /\ Done[r] \in Nat
      /\ \A r \in Sinks : /\ Done'[r] = Len(Handed(r)') /\ Done'[r] <= Len(accepted)
                          /\ SubSeq(accepted, 1, Done'[r]) = Handed(r)'
  BY DoneInv, DoneNext
<1>3. Handed(s) \in Seq(Values)
  BY HandedType DEF StorageInv, TypeOK
<1>4. Done'[s] = Done[s] + 1 /\ \A r \in Sinks \ {s} : Done'[r] = Done[r]
  BY <1>1, <1>2, <1>3, AppendProperties
<1>5. Done[s] < Len(accepted) /\ SubSeq(accepted, 1, Done[s] + 1) = Handed(s)'
  <2>1. accepted \in Seq(Values) /\ Len(accepted) \in Nat
    BY LenProperties DEF StorageInv, TypeOK, ChannelTypeOK
  <2> QED
    BY <1>1, <1>2, <1>4, <2>1
<1>6. Done' = [Done EXCEPT ![s] = @ + 1]
  <2>1. Done = [r \in Sinks |-> Done[r]] /\ Done' = [r \in Sinks |-> Done'[r]]
    BY DEF Done
  <2> QED
    BY <1>1, <1>4, <2>1
<1>7. accepted[Done[s] + 1] = Current
  <2> DEFINE k == Done[s]
             h == Handed(s)
             x == SubSeq(accepted, 1, k + 1)
  <2>1. /\ accepted \in Seq(Values) /\ Len(accepted) \in Nat /\ k \in Nat /\ k < Len(accepted)
        /\ k = Len(h) /\ h \in Seq(Values) /\ x = Append(h, Current)
    BY <1>1, <1>2, <1>3, <1>5, LenProperties DEF StorageInv, TypeOK, ChannelTypeOK
  <2>2. Append(h, Current)[k + 1] = Current
    BY <1>1, <2>1, AppendProperties
  <2>3. \A i \in 1..k + 1 : accepted[i] \in Values
    <3> TAKE i \in 1..k + 1
    <3> HIDE DEF k
    <3>1. i \in 1..Len(accepted)
      BY <2>1
    <3> QED
      BY <2>1, <3>1, ElementOfSeq
  <2> HIDE DEF k
  <2>4. \A i \in 1..(k + 1) - 1 + 1 : x[i] = accepted[1 + i - 1]
    BY <2>1, <2>3, SubSeqProperties
  <2>5. x[k + 1] = accepted[k + 1]
    BY <2>1, <2>4
  <2> QED
    BY <2>1, <2>2, <2>5 DEF k
<1> QED
  BY <1>1, <1>5, <1>6, <1>7

(* A step that hands nothing out leaves every output where it was. *)
LEMMA DoneFrame ==
  ASSUME UNCHANGED <<phase, todo, taken>>
  PROVE  Done' = Done
BY DEF Done

(* A reading enters the log, by a send or when a receive completes one. *)
LEMMA LogAccept ==
  ASSUME NEW v \in Values, accepted' = Append(accepted, v), UNCHANGED <<Done, disk, base>>
  PROVE  Log!Next
<1>1. Log!Accept(v)
  BY DEF Log!Accept
<1> QED
  BY <1>1 DEF Log!Next

LEMMA LogTake ==
  ASSUME StorageInv, StorageInv', Take
  PROVE  [Log!Next]_Log!vars
<1>1. Done' = Done
  <2>1. /\ phase = "loop" /\ phase' = "loop" /\ todo = <<>> /\ todo' = SinkOrder
        /\ taken' = Append(taken, Head(q))
    BY DEF Take
  <2>2. taken \in Seq(Values) /\ Head(q) \in Values
    BY HeadTailProperties DEF StorageInv, TypeOK, ChannelTypeOK, Take
  <2>3. Len(taken') = Len(taken) + 1 /\ Len(taken) \in Nat
    BY <2>1, <2>2, AppendProperties, LenProperties
  <2>4. \A s \in Sinks : ~InHand(s) /\ InHand(s)'
    BY <2>1, EmptySeq, OrderFacts DEF InHand
  <2>5. /\ Done = [s \in Sinks |-> Len(taken) - IF InHand(s) THEN 1 ELSE 0]
        /\ Done' = [s \in Sinks |-> Len(taken') - IF InHand(s)' THEN 1 ELSE 0]
    BY DEF Done, InHand
  <2>6. \A s \in Sinks : Len(taken') - (IF InHand(s)' THEN 1 ELSE 0) = Len(taken)
    BY <2>3, <2>4
  <2>7. \A s \in Sinks : Len(taken) - (IF InHand(s) THEN 1 ELSE 0) = Len(taken)
    BY <2>3, <2>4
  <2> QED
    BY <2>5, <2>6, <2>7, Zenon
<1>2. UNCHANGED <<disk, base>>
  BY DEF Take, runVars
<1>3. CASE parked = <<>>
  <2>1. accepted' = accepted
    BY <1>3 DEF Take, Receive
  <2> QED
    BY <1>1, <1>2, <2>1 DEF Log!vars
<1>4. CASE parked # <<>>
  <2>1. /\ Head(parked) \in Producers /\ Head(parked) = parked[1] /\ 1 \in 1..Len(parked)
    BY <1>4, HeadTailProperties, EmptySeq DEF StorageInv, TypeOK, ChannelTypeOK
  <2>2. call[Head(parked)].v \in Values
    BY <2>1 DEF StorageInv, ChannelInv, ParkedOnlyWhenFull, CallsCarryReadings
  <2>3. accepted' = Append(accepted, call[Head(parked)].v)
    BY <1>4 DEF Take, Receive
  <2> QED
    BY <1>1, <1>2, <2>2, <2>3, LogAccept
<1> QED
  BY <1>3, <1>4

LEMMA LogWriteFile ==
  ASSUME StorageInv, StorageInv', ContentsInv, ContentsInv',
         NEW s \in {"json", "csv"}, WriteFile(s)
  PROVE  Log!Next
<1>1. phase = "loop" /\ Serving(s) /\ UNCHANGED <<phase, taken, accepted, base>>
  BY DEF WriteFile, chanVars, runVars
<1>2. /\ s \in Sinks /\ Done[s] < Len(accepted)
      /\ Done' = [Done EXCEPT ![s] = @ + 1]
      /\ SubSeq(accepted, 1, Done[s] + 1) = Handed(s)'
  BY <1>1, DoneServed
<1>3. s \in Files
  BY <1>2 DEF Files
<1>4. Log!Stream(s, Done[s] + 1) = Stream(s)'
  BY <1>2, <1>3, StreamIsNext
<1>5. disk'[s] \in {base[s] \o SubSeq(Stream(s)', 1, m) : m \in 0..Len(Stream(s)')}
  BY <1>1, <1>3, AllowedNext
<1>6. disk'[s] \in Log!Contents(s, Done[s] + 1)
  BY <1>4, <1>5 DEF Log!Contents
<1>7. Len(disk'[s]) >= Len(disk[s]) /\ disk' = [disk EXCEPT ![s] = disk'[s]]
  <2>1. Len(disk[s]) \in Nat /\ Len(disk'[s]) \in Nat
    BY <1>2, LenProperties DEF StorageInv, TypeOK, OutputTypeOK
  <2> QED
    BY <2>1, DiskGrows
<1>8. Log!ApplyLine(s)
  BY <1>1, <1>2, <1>6, <1>7 DEF Log!ApplyLine
<1> QED
  BY <1>3, <1>8 DEF Log!Next, Log!Files, Files

LEMMA LogFlush ==
  ASSUME StorageInv, StorageInv', ContentsInv, ContentsInv',
         NEW s \in {"json", "csv"}, Flush(s)
  PROVE  Log!Next
<1>1. phase = "flush" /\ Serving(s) /\ UNCHANGED <<phase, taken, accepted, base>>
  BY DEF Flush, chanVars, runVars
<1>2. Done' = Done
  BY <1>1 DEF Done
<1>3. s \in Files /\ s \in Sinks
  BY <1>1, ServingType DEF Files, StorageInv, TypeOK
<1>4. SubSeq(accepted, 1, Done[s]) = Handed(s)'
  BY <1>1, <1>2, <1>3, DoneNext
<1>5. Log!Stream(s, Done[s]) = Stream(s)'
  BY <1>3, <1>4, StreamIsNext
<1>6. disk'[s] \in {base[s] \o SubSeq(Stream(s)', 1, m) : m \in 0..Len(Stream(s)')}
  BY <1>1, <1>3, AllowedNext
<1>7. disk'[s] \in Log!Contents(s, Done[s])
  BY <1>5, <1>6 DEF Log!Contents
<1>8. Len(disk'[s]) >= Len(disk[s]) /\ disk' = [disk EXCEPT ![s] = disk'[s]]
  <2>1. Len(disk[s]) \in Nat /\ Len(disk'[s]) \in Nat
    BY <1>3, LenProperties DEF StorageInv, TypeOK, OutputTypeOK
  <2> QED
    BY <2>1, DiskGrows
<1>9. Log!Persist(s)
  BY <1>1, <1>2, <1>7, <1>8 DEF Log!Persist
<1> QED
  BY <1>3, <1>9 DEF Log!Next, Log!Files, Files

LEMMA LogWriteDB ==
  ASSUME StorageInv, StorageInv', ContentsInv, writeDB
  PROVE  Log!Next
<1>1. phase = "loop" /\ Serving("db") /\ UNCHANGED <<phase, taken, accepted, base>>
  BY DEF writeDB, chanVars, runVars
<1>2. /\ "db" \in Sinks /\ Done["db"] < Len(accepted)
      /\ Done' = [Done EXCEPT !["db"] = @ + 1]
      /\ accepted[Done["db"] + 1] = Current
  BY <1>1, DoneServed
<1>3. \/ disk' = [disk EXCEPT !["db"] = Append(@, Row(Current))]
      \/ UNCHANGED disk
  BY DEF writeDB
<1>4. Log!ApplyRow("db")
  BY <1>1, <1>2, <1>3 DEF Log!ApplyRow
<1> QED
  BY <1>2, <1>4 DEF Log!Next, Log!Files

LEMMA LogRestart == ASSUME Restart PROVE Log!Next
<1>1. Done' = [s \in Sinks |-> 0]
  BY EmptySeq DEF Restart, Done
<1>2. Log!Reopen
  BY <1>1 DEF Restart, Log!Reopen
<1> QED
  BY <1>2 DEF Log!Next

(* Every step of the store is a step of the log, or changes nothing of it. *)
LEMMA LogNext ==
  ASSUME StorageInv, StorageInv', ContentsInv, ContentsInv', [AnyStep]_storageVars
  PROVE  [Log!Next]_Log!vars
<1> DEFINE Same == UNCHANGED <<phase, todo, taken, disk, base>>
<1>s. Same /\ accepted' = accepted => UNCHANGED Log!vars
  BY DoneFrame DEF Log!vars
<1>a. ASSUME Same, NEW v \in Values, accepted' = Append(accepted, v)
      PROVE  Log!Next
  BY <1>a, DoneFrame, LogAccept
<1>1. ASSUME NEW p \in Producers, NEW v \in Values, Handle(p, v)
      PROVE  [Log!Next]_Log!vars
  <2>1. Same /\ (accepted' = accepted \/ accepted' = Append(accepted, v))
    BY <1>1 DEF Handle, HandleSend, HandleFull, SendOnClosed, chanVars, writerVars, runVars
  <2> HIDE DEF Same
  <2> QED
    BY <1>s, <1>a, <2>1
<1>2. ASSUME NEW p \in Producers, HandleStep(p) \/ Return(p)
      PROVE  [Log!Next]_Log!vars
  <2>1. CASE RetrySend(p)
    <3>1. Same /\ accepted' = Append(accepted, call[p].v)
      BY <2>1 DEF RetrySend, writerVars, runVars
    <3>2. call[p].v \in Values
      BY <2>1 DEF RetrySend, StorageInv, ChannelInv, CallsCarryReadings
    <3> HIDE DEF Same
    <3> QED
      BY <1>a, <3>1, <3>2
  <2>2. CASE Park(p) \/ Timeout(p) \/ SendOnClosed(p) \/ Return(p)
    <3>1. Same /\ accepted' = accepted
      BY <2>2 DEF Park, Timeout, SendOnClosed, Return, chanVars, writerVars, runVars
    <3> HIDE DEF Same
    <3> QED
      BY <1>s, <3>1
  <2> QED
    BY <1>2, <2>1, <2>2 DEF HandleStep
<1>3. CASE CloseQueue \/ CloseReturns \/ Kill \/ UNCHANGED storageVars
  <2>1. Same /\ accepted' = accepted
    BY <1>3 DEF CloseQueue, CloseReturns, Kill, storageVars, chanVars, writerVars, runVars
  <2> HIDE DEF Same
  <2> QED
    BY <1>s, <2>1
<1>4. CASE LoopEnds \/ Stop
  <2>1. /\ UNCHANGED <<taken, accepted, disk, base>> /\ phase' # "loop"
        /\ phase = "loop" => todo = <<>>
    BY <1>4 DEF LoopEnds, Stop, chanVars, runVars
  <2>2. Done' = Done
    BY <2>1, EmptySeq DEF Done
  <2> QED
    BY <2>1, <2>2 DEF Log!vars
<1>5. CASE writeJSONL \/ writeCSV
  BY <1>5, LogWriteFile DEF writeJSONL, writeCSV
<1>6. CASE Flush("json") \/ Flush("csv")
  BY <1>6, LogFlush
<1> HIDE DEF Same
<1> QED
  BY <1>1, <1>2, <1>3, <1>4, <1>5, <1>6, LogTake, LogWriteDB, LogRestart DEF AnyStep, Writer

(* Under the queue, the writer and its buffers the store is a write-behind  *)
(* log: what an output holds is what it held before and a part of what the  *)
(* log has for it, and nothing on disk is ever rewritten.                  *)
THEOREM StoreImplementsLog == SafeSpec => ImplementsLog
<1>1. /\ StorageInv /\ ContentsInv /\ (StorageInv /\ ContentsInv)' /\ [Next]_storageVars
      => [Log!Next]_Log!vars
  <2> SUFFICES ASSUME StorageInv, ContentsInv, StorageInv', ContentsInv', [Next]_storageVars
               PROVE  [Log!Next]_Log!vars
    OBVIOUS
  <2>1. [AnyStep]_storageVars
    BY DEF Next, AnyStep
  <2> QED
    BY <2>1, LogNext
<1> QED
  BY <1>1, LogInit, ContentsInvariance, PTL DEF SafeSpec, ImplementsLog, Log!Spec

============================================================================
