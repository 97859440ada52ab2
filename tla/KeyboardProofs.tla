--------------------------- MODULE KeyboardProofs ---------------------------
(***************************************************************************)
(* Proofs about Keyboard, for queues of any size and any number of keys:   *)
(* type correctness, and that port 60h and the BIOS queue each implement   *)
(* KeyStream. And about AnsiInput: that the bytes of the serial line are   *)
(* the keys pressed.                                                       *)
(***************************************************************************)
EXTENDS Keyboard, AnsiInput, Induction, TLAPS

(* A circular buffer with room behaves as a sequence: writing at the tail   *)
(* index appends, advancing the head index removes the oldest entry.        *)

(* An index that has passed the end of the array once wraps to its start.   *)
LEMMA Wrap ==
  ASSUME NEW cap \in Nat \ {0}, NEW a \in 0..(2 * cap - 1)
  PROVE  a % cap = IF a < cap THEN a ELSE a - cap
  BY SMT

(* Two sequences of one length with the same entries are equal.             *)
LEMMA SeqEqual ==
  ASSUME NEW X, NEW s \in Seq(X), NEW t \in Seq(X), Len(s) = Len(t),
         \A i \in 1..Len(s) : s[i] = t[i]
  PROVE  s = t
  OBVIOUS

(* The entry n places behind the head of a queue.                           *)
At(q, cap, n) == IF q.head + n < cap THEN q.head + n ELSE q.head + n - cap

LEMMA Position ==
  ASSUME NEW cap \in Nat \ {0}, NEW X, NEW q \in Queue(cap, X)
  PROVE  \A n \in 0..cap : (q.head + n) % cap = At(q, cap, n) /\ At(q, cap, n) \in 0..(cap - 1)
<1>1. q.head \in 0..(cap - 1)
  BY DEF Queue
<1>2. ASSUME NEW n \in 0..cap
      PROVE  (q.head + n) % cap = At(q, cap, n) /\ At(q, cap, n) \in 0..(cap - 1)
  <2> DEFINE a == q.head + n
  <2>1. a \in 0..(2 * cap - 1)
    BY <1>1
  <2>2. a % cap = IF a < cap THEN a ELSE a - cap
    <3> HIDE DEF a
    <3> QED  BY <2>1, Wrap
  <2> QED  BY <1>1, <2>2 DEF At
<1> QED  BY <1>2

(* A queue stands for the sequence of its entries.                          *)
LEMMA ContentsIsSeq ==
  ASSUME NEW cap \in Nat \ {0}, NEW X, NEW q \in Queue(cap, X)
  PROVE  /\ Contents(q, cap) \in Seq(X)
         /\ Len(Contents(q, cap)) = q.count
         /\ Contents(q, cap) = [i \in 1..q.count |-> q.buf[At(q, cap, i - 1)]]
<1>1. /\ q.buf \in [0..(cap - 1) -> X] /\ q.count \in 0..cap
  BY DEF Queue
<1>2. \A i \in 1..q.count : /\ (q.head + (i - 1)) % cap = At(q, cap, i - 1)
                            /\ At(q, cap, i - 1) \in 0..(cap - 1)
  <2>1. \A i \in 1..q.count : i - 1 \in 0..cap  BY <1>1
  <2> QED  BY <2>1, Position
<1>3. Contents(q, cap) = [i \in 1..q.count |-> q.buf[At(q, cap, i - 1)]]
  BY <1>2 DEF Contents
<1>4. \A i \in 1..q.count : q.buf[At(q, cap, i - 1)] \in X
  BY <1>1, <1>2
<1>5. q.count \in Nat
  BY <1>1
<1> QED
  <2> DEFINE entry(i) == q.buf[At(q, cap, i - 1)]
  <2>1. \A i \in 1..q.count : entry(i) \in X
    BY <1>4
  <2>2. Contents(q, cap) = [i \in 1..q.count |-> entry(i)]
    BY <1>3
  <2> HIDE DEF entry
  <2>3. [i \in 1..q.count |-> entry(i)] \in Seq(X) /\ Len([i \in 1..q.count |-> entry(i)]) = q.count
    BY <1>5, <2>1
  <2> QED  BY <1>3, <2>2, <2>3

(* A new queue is empty.                                                    *)
LEMMA NewQueueEmpty ==
  ASSUME NEW cap \in Nat \ {0}, NEW X, NEW blank \in X
  PROVE  /\ NewQueue(cap, blank) \in Queue(cap, X)
         /\ Contents(NewQueue(cap, blank), cap) = << >>
<1>1. NewQueue(cap, blank) \in Queue(cap, X)
  BY DEF NewQueue, Queue
<1>2. NewQueue(cap, blank).count = 0
  BY DEF NewQueue
<1>3. /\ Contents(NewQueue(cap, blank), cap) \in Seq(X)
      /\ Len(Contents(NewQueue(cap, blank), cap)) = 0
  BY <1>1, <1>2, ContentsIsSeq
<1> HIDE DEF NewQueue
<1>4. \A s \in Seq(X) : Len(s) = 0 => s = << >>
  OBVIOUS
<1> QED  BY <1>1, <1>3, <1>4

(* Put on a queue with room keeps every entry and adds one behind them.     *)
THEOREM PutAppends ==
  ASSUME NEW cap \in Nat \ {0}, NEW X, NEW x \in X,
         NEW q \in Queue(cap, X), q.count < cap
  PROVE  /\ Put(q, cap, x) \in Queue(cap, X)
         /\ Contents(Put(q, cap, x), cap) = Append(Contents(q, cap), x)
<1> DEFINE p == Put(q, cap, x)
           new == At(q, cap, q.count)
<1>1. /\ q.buf \in [0..(cap - 1) -> X] /\ q.head \in 0..(cap - 1) /\ q.count \in 0..(cap - 1)
  BY DEF Queue
<1>2. (q.head + q.count) % cap = new /\ new \in 0..(cap - 1)
  <2>1. q.count \in 0..cap
    BY <1>1
  <2>2. \A n \in 0..cap : (q.head + n) % cap = At(q, cap, n) /\ At(q, cap, n) \in 0..(cap - 1)
    BY Position
  <2> QED  BY <2>1, <2>2
<1>3. /\ p.buf = [q.buf EXCEPT ![new] = x] /\ p.head = q.head /\ p.count = q.count + 1
      /\ p \in Queue(cap, X)
  BY <1>1, <1>2 DEF Put, Queue
<1>4. ASSUME NEW i \in 1..q.count
      PROVE  At(q, cap, i - 1) \in 0..(cap - 1) /\ At(q, cap, i - 1) # new
  <2>1. PICK h \in 0..(cap - 1), n \in 0..(cap - 1), k \in Nat :
          h = q.head /\ n = q.count /\ k = i - 1 /\ k < n
    BY <1>1
  <2>2. At(q, cap, i - 1) = IF h + k < cap THEN h + k ELSE h + k - cap
    BY <2>1 DEF At
  <2>3. new = IF h + n < cap THEN h + n ELSE h + n - cap
    BY <2>1 DEF At
  <2> HIDE DEF new
  <2> QED  BY <2>1, <2>2, <2>3
<1>5. \A i \in 1..(q.count + 1) :
        p.buf[At(p, cap, i - 1)] = Append(Contents(q, cap), x)[i]
  <2> SUFFICES ASSUME NEW i \in 1..(q.count + 1)
               PROVE  p.buf[At(p, cap, i - 1)] = Append(Contents(q, cap), x)[i]
    OBVIOUS
  <2>1. At(p, cap, i - 1) = At(q, cap, i - 1)
    BY <1>3 DEF At
  <2>2. CASE i = q.count + 1
    <3>1. i - 1 = q.count
      BY <1>1, <2>2
    <3>2. p.buf[At(p, cap, i - 1)] = x
      BY <1>1, <1>2, <1>3, <2>1, <3>1
    <3>3. Append(Contents(q, cap), x)[i] = x
      BY <1>1, <2>2, ContentsIsSeq
    <3> QED  BY <3>2, <3>3
  <2>3. CASE i # q.count + 1
    <3>1. i \in 1..q.count
      BY <1>1, <2>3
    <3>2. p.buf[At(p, cap, i - 1)] = q.buf[At(q, cap, i - 1)]
      BY <1>1, <1>2, <1>3, <1>4, <2>1, <3>1
    <3>3. Append(Contents(q, cap), x)[i] = Contents(q, cap)[i]
      BY <1>1, <3>1, ContentsIsSeq
    <3>4. Contents(q, cap)[i] = q.buf[At(q, cap, i - 1)]
      BY <3>1, ContentsIsSeq
    <3> QED  BY <3>2, <3>3, <3>4
  <2> QED  BY <2>2, <2>3
<1>6. /\ Contents(p, cap) = [i \in 1..(q.count + 1) |-> p.buf[At(p, cap, i - 1)]]
      /\ Contents(p, cap) \in Seq(X) /\ Len(Contents(p, cap)) = q.count + 1
  <2>1. ASSUME NEW t \in Queue(cap, X)
        PROVE  /\ Contents(t, cap) \in Seq(X) /\ Len(Contents(t, cap)) = t.count
               /\ Contents(t, cap) = [i \in 1..t.count |-> t.buf[At(t, cap, i - 1)]]
    BY ContentsIsSeq
  <2> HIDE DEF p
  <2> QED  BY <1>3, <2>1
<1>7. /\ Append(Contents(q, cap), x) \in Seq(X)
      /\ Len(Append(Contents(q, cap), x)) = q.count + 1
  BY <1>1, ContentsIsSeq
<1>8. \A i \in 1..(q.count + 1) : Contents(p, cap)[i] = Append(Contents(q, cap), x)[i]
  BY <1>5, <1>6
<1>9. Contents(p, cap) = Append(Contents(q, cap), x)
  <2> HIDE DEF p
  <2> QED  BY <1>6, <1>7, <1>8, SeqEqual
<1> QED  BY <1>3, <1>9

(* Drop on a queue that is not empty removes its oldest entry.              *)
THEOREM DropTakesOldest ==
  ASSUME NEW cap \in Nat \ {0}, NEW X, NEW q \in Queue(cap, X), q.count # 0
  PROVE  /\ Drop(q, cap) \in Queue(cap, X)
         /\ Contents(q, cap) # << >>
         /\ Oldest(q) = Head(Contents(q, cap))
         /\ Contents(Drop(q, cap), cap) = Tail(Contents(q, cap))
<1> DEFINE d == Drop(q, cap)
<1>1. /\ q.buf \in [0..(cap - 1) -> X] /\ q.head \in 0..(cap - 1) /\ q.count \in 1..cap
  BY DEF Queue
<1>2. (q.head + 1) % cap = At(q, cap, 1) /\ At(q, cap, 1) \in 0..(cap - 1)
  BY <1>1, Position
<1>3. /\ d.buf = q.buf /\ d.head = At(q, cap, 1) /\ d.count = q.count - 1
      /\ d \in Queue(cap, X)
  BY <1>1, <1>2 DEF Drop, Queue
<1>4. /\ Contents(q, cap) \in Seq(X) /\ Len(Contents(q, cap)) = q.count
      /\ Contents(q, cap) = [i \in 1..q.count |-> q.buf[At(q, cap, i - 1)]]
  BY ContentsIsSeq
<1>5. Contents(q, cap) # << >>
  BY <1>1, <1>4
<1>6. Oldest(q) = Head(Contents(q, cap))
  <2>1. At(q, cap, 1 - 1) = q.head
    BY <1>1 DEF At
  <2> QED  BY <1>1, <1>4, <2>1 DEF Oldest
<1>7. /\ Contents(d, cap) \in Seq(X) /\ Len(Contents(d, cap)) = q.count - 1
      /\ Contents(d, cap) = [i \in 1..(q.count - 1) |-> d.buf[At(d, cap, i - 1)]]
  <2>1. ASSUME NEW t \in Queue(cap, X)
        PROVE  /\ Contents(t, cap) \in Seq(X) /\ Len(Contents(t, cap)) = t.count
               /\ Contents(t, cap) = [i \in 1..t.count |-> t.buf[At(t, cap, i - 1)]]
    BY ContentsIsSeq
  <2> HIDE DEF d
  <2> QED  BY <1>3, <2>1
<1>8. /\ Tail(Contents(q, cap)) \in Seq(X) /\ Len(Tail(Contents(q, cap))) = q.count - 1
      /\ \A i \in 1..(q.count - 1) : Tail(Contents(q, cap))[i] = Contents(q, cap)[i + 1]
  BY <1>1, <1>4, <1>5
<1>9. \A i \in 1..(q.count - 1) : Contents(d, cap)[i] = Tail(Contents(q, cap))[i]
  <2> SUFFICES ASSUME NEW i \in 1..(q.count - 1)
               PROVE  Contents(d, cap)[i] = Tail(Contents(q, cap))[i]
    OBVIOUS
  <2>1. At(d, cap, i - 1) = At(q, cap, (i + 1) - 1)
    <3>1. d.head = IF q.head + 1 < cap THEN q.head + 1 ELSE q.head + 1 - cap
      BY <1>3 DEF At
    <3>2. PICK h \in 0..(cap - 1), e \in Int : h = q.head /\ e = d.head
      BY <1>1, <3>1
    <3>3. At(d, cap, i - 1) = IF e + (i - 1) < cap THEN e + (i - 1) ELSE e + (i - 1) - cap
      BY <3>2 DEF At
    <3>4. At(q, cap, (i + 1) - 1) = IF h + i < cap THEN h + i ELSE h + i - cap
      BY <3>2 DEF At
    <3>5. PICK at_d \in Int, at_q \in Int :
            at_d = At(d, cap, i - 1) /\ at_q = At(q, cap, (i + 1) - 1)
      BY <3>3, <3>4
    <3>6. i \in 1..(cap - 1) /\ cap \in Nat
      BY <1>1
    <3>7. CASE h + 1 < cap
      <4>1. e = h + 1
        BY <3>1, <3>2, <3>7
      <4>2. at_d = at_q
        <5>1. e + (i - 1) = h + i
          BY <4>1, <3>6
        <5> QED  BY <3>3, <3>4, <3>5, <5>1
      <4> QED  BY <3>5, <4>2
    <3>8. CASE ~(h + 1 < cap)
      <4>1. e = 0 /\ h = cap - 1
        BY <3>1, <3>2, <3>6, <3>8
      <4>2. e + (i - 1) < cap /\ e + (i - 1) = i - 1
        BY <3>6, <4>1
      <4>3. ~(h + i < cap) /\ h + i - cap = i - 1
        BY <3>6, <4>1
      <4> QED  BY <3>3, <3>4, <4>2, <4>3
    <3> QED  BY <3>7, <3>8
  <2>2. Contents(q, cap)[i + 1] = q.buf[At(q, cap, (i + 1) - 1)]
    BY <1>1, <1>4
  <2> QED  BY <1>3, <1>7, <1>8, <2>1, <2>2
<1>10. Contents(d, cap) = Tail(Contents(q, cap))
  <2> HIDE DEF d
  <2> QED  BY <1>7, <1>8, <1>9, SeqEqual
<1> QED  BY <1>3, <1>5, <1>6, <1>10

USE KeyboardAssumption

-----------------------------------------------------------------------------
(* The queues and what Reset, the reads and the polls do to them.           *)

LEMMA BlankQueues ==
  /\ NewQueue(KeyCapacity, NoKey) \in Queue(KeyCapacity, Key \cup {NoKey})
  /\ Contents(NewQueue(KeyCapacity, NoKey), KeyCapacity) = << >>
  /\ NewQueue(ScanCapacity, 0) \in Queue(ScanCapacity, Code)
  /\ Contents(NewQueue(ScanCapacity, 0), ScanCapacity) = << >>
<1>1. NoKey \in Key \cup {NoKey} /\ 0 \in Code
  BY DEF NoKey, Code
<1> QED  BY <1>1, NewQueueEmpty

LEMMA OldestTyped ==
  ASSUME NEW cap \in Nat \ {0}, NEW X, NEW q \in Queue(cap, X)
  PROVE  Oldest(q) \in X
  BY DEF Queue, Oldest

(* The keys read and the codes polled.                                      *)
LEMMA DropKey ==
  ASSUME TypeOK, keys.count # 0
  PROVE  /\ Drop(keys, KeyCapacity) \in Queue(KeyCapacity, Key \cup {NoKey})
         /\ Oldest(keys) \in Key \cup {NoKey}
  BY DropTakesOldest, OldestTyped DEF TypeOK

LEMMA TakeScanTyped ==
  ASSUME TypeOK, TakeScan
  PROVE  scans' \in Queue(ScanCapacity, Code) /\ seen' \in Seq(Code)
<1>1. CASE scans.count = 0
  BY <1>1 DEF TypeOK, TakeScan
<1>2. CASE scans.count # 0
  <2>1. Drop(scans, ScanCapacity) \in Queue(ScanCapacity, Code) /\ Oldest(scans) \in Code
    BY <1>2, DropTakesOldest, OldestTyped DEF TypeOK
  <2>2. seen \in Seq(Code)
    BY DEF TypeOK
  <2>3. seen' = Append(seen, Oldest(scans)) /\ scans' = Drop(scans, ScanCapacity)
    BY <1>2 DEF TakeScan
  <2> QED  BY <2>1, <2>2, <2>3
<1> QED  BY <1>1, <1>2

(* Two codes put on a scan queue with room for two.                         *)
LEMMA PutPair ==
  ASSUME NEW q \in Queue(ScanCapacity, Code), q.count <= ScanCapacity - 2, NEW k \in Key
  PROVE  /\ Put(Put(q, ScanCapacity, k), ScanCapacity, -k) \in Queue(ScanCapacity, Code)
         /\ Contents(Put(Put(q, ScanCapacity, k), ScanCapacity, -k), ScanCapacity)
              = Contents(q, ScanCapacity) \o <<k, -k>>
         /\ Len(Contents(q, ScanCapacity) \o <<k, -k>>) <= ScanCapacity
<1> DEFINE p == Put(q, ScanCapacity, k)
           r == Put(p, ScanCapacity, -k)
           c == Contents(q, ScanCapacity)
<1>1. k \in Code /\ -k \in Code
  BY DEF Key, Code
<1>2. q.count \in 0..ScanCapacity /\ q.count < ScanCapacity
  BY DEF Queue
<1>3. p \in Queue(ScanCapacity, Code) /\ Contents(p, ScanCapacity) = Append(c, k)
  BY <1>1, <1>2, PutAppends
<1>4. p.count = q.count + 1
  BY DEF Put
<1>5. r \in Queue(ScanCapacity, Code)
      /\ Contents(r, ScanCapacity) = Append(Contents(p, ScanCapacity), -k)
  <2>1. p.count < ScanCapacity
    BY <1>2, <1>4
  <2> HIDE DEF p
  <2> QED  BY <1>1, <1>3, <2>1, PutAppends
<1>6. c \in Seq(Code) /\ Len(c) = q.count
  BY ContentsIsSeq
<1>7. Append(Append(c, k), -k) = c \o <<k, -k>> /\ Len(c \o <<k, -k>>) = q.count + 2
  <2> HIDE DEF c
  <2> QED  BY <1>1, <1>6
<1>8. Contents(r, ScanCapacity) = c \o <<k, -k>>
  BY <1>3, <1>5, <1>7
<1>9. Len(c \o <<k, -k>>) <= ScanCapacity
  <2> HIDE DEF c
  <2> QED  BY <1>2, <1>7
<1> QED  BY <1>5, <1>8, <1>9

(* A key put on the BIOS queue, when there is room.                         *)
LEMMA PutKey ==
  ASSUME NEW q \in Queue(KeyCapacity, Key \cup {NoKey}), q.count < KeyCapacity, NEW k \in Key
  PROVE  /\ Put(q, KeyCapacity, k) \in Queue(KeyCapacity, Key \cup {NoKey})
         /\ Contents(Put(q, KeyCapacity, k), KeyCapacity) = Contents(q, KeyCapacity) \o <<k>>
         /\ Len(Contents(q, KeyCapacity) \o <<k>>) <= KeyCapacity
<1> DEFINE c == Contents(q, KeyCapacity)
<1>1. /\ Put(q, KeyCapacity, k) \in Queue(KeyCapacity, Key \cup {NoKey})
      /\ Contents(Put(q, KeyCapacity, k), KeyCapacity) = Append(c, k)
  BY PutAppends
<1>2. c \in Seq(Key \cup {NoKey}) /\ Len(c) = q.count /\ q.count \in Nat
  BY ContentsIsSeq DEF Queue
<1>3. Append(c, k) = c \o <<k>> /\ Len(c \o <<k>>) = q.count + 1
  <2> HIDE DEF c
  <2> QED  BY <1>2
<1> QED  BY <1>1, <1>2, <1>3

LEMMA NextKey ==
  ASSUME TypeOK, Press
  PROVE  pressed + 1 \in Key /\ pressed' = pressed + 1 /\ pressed' \in 0..MaxKeys
  BY DEF TypeOK, Press, Key

LEMMA PressTyped ==
  ASSUME TypeOK, Press
  PROVE  /\ scans' \in Queue(ScanCapacity, Code)
         /\ keys' \in Queue(KeyCapacity, Key \cup {NoKey})
         /\ ax' \in Key \cup {NoKey}
         /\ waiting' \in BOOLEAN
<1> DEFINE k == pressed + 1
<1>1. k \in Key /\ EnqueueScan(k) /\ EnqueueKey(k)
  BY NextKey DEF Press
<1> HIDE DEF k
<1>2. scans' \in Queue(ScanCapacity, Code)
  BY <1>1, PutPair DEF EnqueueScan, TypeOK
<1>3. /\ keys' \in Queue(KeyCapacity, Key \cup {NoKey})
      /\ ax' \in Key \cup {NoKey} /\ waiting' \in BOOLEAN
  BY <1>1, PutKey DEF EnqueueKey, TypeOK
<1> QED  BY <1>2, <1>3

(* The frames of HandlerReturns and NextFrame.                              *)
LEMMA FramePopped ==
  ASSUME NEW s \in Seq(Context), s # << >>
  PROVE  s[Len(s)] \in Context /\ SubSeq(s, 1, Len(s) - 1) \in Seq(Context)
  OBVIOUS

LEMMA BottomFrame ==
  ASSUME NEW s \in Seq(Context), NEW n \in Nat, n = Len(s), n > 1
  PROVE  SubSeq(s, 1, n - 1) # << >> /\ SubSeq(s, 1, n - 1)[1] = s[1]
<1>1. Len(SubSeq(s, 1, n - 1)) = n - 1
  OBVIOUS
<1>2. SubSeq(s, 1, n - 1) # << >>
  <2>1. Len(<< >>) = 0
    OBVIOUS
  <2> SUFFICES ASSUME SubSeq(s, 1, n - 1) = << >> PROVE FALSE
    OBVIOUS
  <2>2. Len(SubSeq(s, 1, n - 1)) = 0
    BY <2>1, Zenon
  <2>3. n - 1 # 0
    OBVIOUS
  <2> QED  BY <1>1, <2>2, <2>3, Zenon
<1>3. \A i \in 1..(n - 1) : SubSeq(s, 1, n - 1)[i] = s[i]
  OBVIOUS
<1>4. 1 \in 1..(n - 1)
  OBVIOUS
<1> QED  BY <1>2, <1>3, <1>4

(* What an interrupted place can be: only the program itself, at the bottom *)
(* of the stack, is between two instructions or in a read.                  *)
InMain == {"code", "read"}
StackInv ==
  /\ at \in InMain <=> stack = << >>
  /\ \A i \in DOMAIN stack : stack[i].at \in InMain <=> i = 1

LEMMA TypeInit == Init => TypeOK /\ StackInv
<1> SUFFICES ASSUME Init PROVE TypeOK /\ StackInv
  OBVIOUS
<1>1. TypeOK
  <2>1. << >> \in Seq(Context) /\ << >> \in Seq(Key \cup {NoKey}) /\ << >> \in Seq(Code)
    OBVIOUS
  <2>2. 0 \in 0..MaxKeys /\ 0 \in 0..Batch
    OBVIOUS
  <2> QED  BY <2>1, <2>2, BlankQueues DEF Init, TypeOK, Places, NoKey
<1>2. StackInv
  BY DEF Init, StackInv, InMain
<1> QED  BY <1>1, <1>2

LEMMA StackNext == TypeOK /\ StackInv /\ [Next]_vars => StackInv'
<1> SUFFICES ASSUME TypeOK, StackInv, [Next]_vars PROVE StackInv'
  OBVIOUS
<1>s. stack \in Seq(Context) /\ at \in Places
  BY DEF TypeOK
<1>1. CASE Launch \/ EnterShell
  BY <1>1 DEF Launch, EnterShell, ClearCpu, StackInv, InMain
<1>2. CASE UNCHANGED stack /\ (at' \in InMain <=> at \in InMain)
  BY <1>2 DEF StackInv
<1>3. CASE HandlerReturns
  <2> DEFINE n == Len(stack)
  <2>1. stack # << >>
    BY <1>3 DEF HandlerReturns, StackInv, InMain
  <2>2. n \in Nat \ {0} /\ DOMAIN stack = 1..n
    BY <1>s, <2>1
  <2>3. /\ stack' \in Seq(Context) /\ Len(stack') = n - 1
        /\ \A i \in 1..(n - 1) : stack'[i] = stack[i]
    BY <1>s, <1>3, <2>2 DEF HandlerReturns
  <2>4. at' = stack[n].at
    BY <1>3 DEF HandlerReturns
  <2>5. stack[n].at \in InMain <=> n = 1
    BY <2>2 DEF StackInv
  <2>6. stack' = << >> <=> n = 1
    BY <2>2, <2>3
  <2>7. \A i \in DOMAIN stack' : stack'[i].at \in InMain <=> i = 1
    BY <2>2, <2>3 DEF StackInv
  <2> QED  BY <2>4, <2>5, <2>6, <2>7 DEF StackInv
<1>4. CASE NextFrame
  <2>1. CASE ~Interruptible
    BY <1>4, <2>1 DEF NextFrame, StackInv
  <2>2. CASE Interruptible
    <3> DEFINE n == Len(stack)
               frame == [at |-> at, ax |-> ax, inf |-> inf]
    <3>1. n \in Nat /\ DOMAIN stack = 1..n /\ (stack = << >> <=> n = 0)
      BY <1>s
    <3>2. frame \in Context
      BY DEF TypeOK, Context
    <3>3. stack' = Append(stack, frame) /\ at' = "isr_in"
      BY <1>4, <2>2 DEF NextFrame
    <3>4. /\ DOMAIN stack' = 1..(n + 1) /\ stack' # << >>
          /\ \A i \in 1..n : stack'[i] = stack[i]
          /\ stack'[n + 1] = frame
      BY <1>s, <3>1, <3>2, <3>3
    <3>5. frame.at \in InMain <=> n = 0
      BY <3>1 DEF StackInv
    <3>6. \A i \in DOMAIN stack' : stack'[i].at \in InMain <=> i = 1
      BY <3>1, <3>4, <3>5 DEF StackInv
    <3> QED  BY <3>3, <3>4, <3>6 DEF StackInv, InMain
  <2> QED  BY <2>1, <2>2
<1>5. CASE ReadKey \/ WaitKey \/ PeekKey \/ DosRead \/ UseKey \/ PollScan \/ HookVector
           \/ (\E on \in BOOLEAN : SetInterrupts(on))
  BY <1>2, <1>5 DEF ReadKey, WaitKey, PeekKey, DosRead, UseKey, PollScan, HookVector,
     SetInterrupts, InMain, cpu
<1>6. CASE HandlerReads \/ HandlerAcknowledges \/ Exit \/ BudgetExhausted \/ Press
           \/ UNCHANGED vars
  BY <1>2, <1>6 DEF HandlerReads, HandlerAcknowledges, Exit, BudgetExhausted, Press,
     vars, cpu, InMain
<1> QED  BY <1>1, <1>3, <1>4, <1>5, <1>6 DEF Next, Program, AskingProgram, Handler

LEMMA TypeNext == TypeOK /\ StackInv /\ [Next]_vars => TypeOK'
<1> SUFFICES ASSUME TypeOK, StackInv, [Next]_vars PROVE TypeOK'
  OBVIOUS
<1>t. /\ stack \in Seq(Context) /\ got \in Seq(Key \cup {NoKey}) /\ seen \in Seq(Code)
      /\ pressed \in 0..MaxKeys /\ batch \in 0..Batch /\ ax \in Key \cup {NoKey}
  BY DEF TypeOK
<1>1. CASE Launch
  <2>1. << >> \in Seq(Context)
    OBVIOUS
  <2> QED  BY <1>1, <2>1, BlankQueues DEF Launch, Reset, ClearCpu, TypeOK, Places, history, NoKey
<1>2. CASE EnterShell
  <2>1. << >> \in Seq(Context) /\ << >> \in Seq(Key \cup {NoKey}) /\ << >> \in Seq(Code)
    OBVIOUS
  <2>2. 0 \in 0..Batch
    OBVIOUS
  <2> QED  BY <1>2, <2>1, <2>2, BlankQueues DEF EnterShell, Reset, ClearCpu, TypeOK, Places, NoKey
<1>3. CASE ReadKey \/ DosRead
  BY <1>3, DropKey DEF ReadKey, DosRead, TypeOK, Places, history
<1>4. CASE WaitKey
  BY <1>4 DEF WaitKey, TypeOK, Places, history
<1>5. CASE PeekKey
  <2>1. Oldest(keys) \in Key \cup {NoKey}
    BY <1>5, DropKey DEF PeekKey
  <2> QED  BY <1>5, <2>1 DEF PeekKey, TypeOK, machine, history
<1>6. CASE UseKey
  BY <1>6 DEF UseKey, TypeOK, Places, machine
<1>7. CASE PollScan
  BY <1>7, TakeScanTyped DEF PollScan, TypeOK, cpu
<1>8. CASE HookVector \/ \E on \in BOOLEAN : SetInterrupts(on)
  BY <1>8 DEF HookVector, SetInterrupts, TypeOK, machine, history
<1>9. CASE HandlerReads
  BY <1>9, TakeScanTyped DEF HandlerReads, TypeOK, Places
<1>10. CASE HandlerAcknowledges
  BY <1>10 DEF HandlerAcknowledges, TypeOK, Places, history
<1>11. CASE HandlerReturns
  <2>1. stack # << >>
    BY <1>11 DEF HandlerReturns, StackInv, InMain
  <2>2. stack[Len(stack)] \in Context /\ SubSeq(stack, 1, Len(stack) - 1) \in Seq(Context)
    BY <1>t, <2>1, FramePopped
  <2> QED  BY <1>11, <2>2 DEF HandlerReturns, TypeOK, Context, machine, history
<1>12. CASE BudgetExhausted \/ Exit
  BY <1>12 DEF BudgetExhausted, Exit, TypeOK, machine, cpu, history
<1>13. CASE Press
  <2>1. pressed' \in 0..MaxKeys /\ batch' \in 0..Batch
    BY <1>t, <1>13, NextKey DEF Press
  <2> QED  BY <1>13, <2>1, PressTyped DEF Press, TypeOK
<1>14. CASE NextFrame
  <2>1. [at |-> at, ax |-> ax, inf |-> inf] \in Context
    BY DEF TypeOK, Context
  <2>2. 0 \in 0..Batch
    OBVIOUS
  <2>3. CASE ~Interruptible
    BY <1>14, <2>2, <2>3 DEF NextFrame, TypeOK
  <2>4. CASE Interruptible
    <3>1. stack' = Append(stack, [at |-> at, ax |-> ax, inf |-> inf]) /\ at' = "isr_in"
      BY <1>14, <2>4 DEF NextFrame
    <3>2. stack' \in Seq(Context)
      BY <1>t, <2>1, <3>1
    <3> QED  BY <1>14, <2>2, <2>4, <3>1, <3>2 DEF NextFrame, TypeOK, Places
  <2> QED  BY <2>3, <2>4
<1>15. CASE UNCHANGED vars
  BY <1>15 DEF TypeOK, vars, machine, cpu, history
<1> QED  BY <1>1, <1>2, <1>3, <1>4, <1>5, <1>6, <1>7, <1>8, <1>9, <1>10, <1>11, <1>12,
            <1>13, <1>14, <1>15 DEF Next, Program, AskingProgram, Handler

(* Every variable keeps its type, for queues of any size.                   *)
THEOREM TypeCorrect == Spec => []TypeOK
<1>1. Init => TypeOK /\ StackInv
  BY TypeInit
<1>2. TypeOK /\ StackInv /\ [Next]_vars => (TypeOK /\ StackInv)'
  BY TypeNext, StackNext
<1> QED  BY <1>1, <1>2, PTL DEF Spec

-----------------------------------------------------------------------------
(* Between two sessions nothing of the last one is left, and a program that *)
(* asks before it reads is never waited for.                                *)
ShellInv ==
  /\ phase = "shell" => got = << >> /\ seen = << >>
  /\ "wait" \notin Services => waiting = FALSE

LEMMA ShellNext == ShellInv /\ [Next]_vars => ShellInv'
<1> SUFFICES ASSUME ShellInv, [Next]_vars PROVE ShellInv'
  OBVIOUS
<1>1. CASE Launch \/ EnterShell
  BY <1>1 DEF Launch, EnterShell, Reset, ShellInv
<1>2. CASE Program
  <2>1. ASSUME phase = "run", phase' \in {"run", "poll"},
               waiting' = waiting \/ waiting' = FALSE \/ "wait" \in Services
        PROVE  ShellInv'
    BY <2>1 DEF ShellInv
  <2>2. CASE ReadKey \/ WaitKey \/ PeekKey \/ DosRead \/ UseKey \/ PollScan \/ HookVector
             \/ (\E on \in BOOLEAN : SetInterrupts(on))
    BY <2>1, <2>2 DEF ReadKey, WaitKey, PeekKey, DosRead, UseKey, PollScan, HookVector,
       SetInterrupts, machine
  <2>3. CASE Handler \/ Exit
    BY <2>1, <2>3 DEF Handler, HandlerReads, HandlerAcknowledges, HandlerReturns, Exit, machine
  <2> QED  BY <1>2, <2>2, <2>3 DEF Program, AskingProgram
<1>3. CASE BudgetExhausted \/ NextFrame \/ UNCHANGED vars
  BY <1>3 DEF BudgetExhausted, NextFrame, ShellInv, vars, machine, history
<1>4. CASE Press
  BY <1>4 DEF Press, EnqueueKey, ShellInv
<1> QED  BY <1>1, <1>2, <1>3, <1>4 DEF Next

(* What holds of every state.                                               *)
IInv == TypeOK /\ StackInv /\ ShellInv

LEMMA Inductive == Spec => []IInv
<1>1. Init => IInv
  BY TypeInit DEF Init, ShellInv, IInv
<1>2. IInv /\ [Next]_vars => IInv'
  BY TypeNext, StackNext, ShellNext DEF IInv
<1> QED  BY <1>1, <1>2, PTL DEF Spec

-----------------------------------------------------------------------------
(* Port 60h implements KeyStream.                                           *)

ScanStream == <<InSession, Contents(scans, ScanCapacity), seen, pressed>>

LEMMA ScansInit == Init => Scanned!Init
  BY BlankQueues DEF Init, InSession, Scanned!Init

(* IN AL, 60h takes the oldest code or nothing.                             *)
LEMMA TakeScanTakes ==
  ASSUME TypeOK, TakeScan, phase = "run", UNCHANGED <<pressed, phase>>
  PROVE  Scanned!Take \/ UNCHANGED ScanStream
<1>1. CASE scans.count = 0
  BY <1>1 DEF TakeScan, InSession, ScanStream
<1>2. CASE scans.count # 0
  <2>1. scans \in Queue(ScanCapacity, Code)
    BY DEF TypeOK
  <2>2. /\ Contents(scans, ScanCapacity) # << >>
        /\ Oldest(scans) = Head(Contents(scans, ScanCapacity))
        /\ Contents(Drop(scans, ScanCapacity), ScanCapacity) = Tail(Contents(scans, ScanCapacity))
    BY <1>2, <2>1, DropTakesOldest
  <2>3. seen' = Append(seen, Oldest(scans)) /\ scans' = Drop(scans, ScanCapacity)
    BY <1>2 DEF TakeScan
  <2> QED  BY <2>2, <2>3 DEF InSession, Scanned!Take
<1> QED  BY <1>1, <1>2

(* A key adds both its codes, or neither when less than two codes fit.      *)
LEMMA PressTypesScans ==
  ASSUME TypeOK, Press
  PROVE  \E k \in Key : Scanned!Accept(k) \/ Scanned!Refuse(k)
<1> DEFINE k == pressed + 1
<1>1. k \in Key /\ pressed' = k /\ EnqueueScan(k) /\ seen' = seen
  BY NextKey DEF Press
<1>s. InSession /\ InSession'
  BY DEF Press, InSession
<1>2. scans \in Queue(ScanCapacity, Code)
  BY DEF TypeOK
<1>3. CASE scans.count <= ScanCapacity - 2
  <2> HIDE DEF k
  <2>1. scans' = Put(Put(scans, ScanCapacity, k), ScanCapacity, -k)
    BY <1>1, <1>3 DEF EnqueueScan
  <2>2. /\ Contents(scans', ScanCapacity) = Contents(scans, ScanCapacity) \o <<k, -k>>
        /\ Len(Contents(scans, ScanCapacity) \o <<k, -k>>) <= ScanCapacity
    BY <1>1, <1>2, <1>3, <2>1, PutPair
  <2>3. k = pressed + 1
    BY DEF k
  <2>4. Scanned!Accept(k)
    BY <1>1, <1>s, <2>2, <2>3 DEF Scanned!Accept, Scanned!Pressed, Scanned!Room, ScanEvents
  <2> QED  BY <1>1, <2>4
<1>4. CASE ~(scans.count <= ScanCapacity - 2)
  <2>1. scans' = scans
    BY <1>1, <1>4 DEF EnqueueScan
  <2> HIDE DEF k
  <2>2. PICK c \in Seq(Code) : c = Contents(scans, ScanCapacity) /\ Len(c) = scans.count
    BY <1>2, ContentsIsSeq
  <2>3. k \in Code /\ -k \in Code /\ scans.count \in Nat
    BY <1>1, <1>2 DEF Key, Code, Queue
  <2>4. Len(c \o <<k, -k>>) = scans.count + 2
    BY <2>2, <2>3
  <2>5. ~Scanned!Room(k)
    BY <1>4, <2>2, <2>3, <2>4 DEF Scanned!Room, ScanEvents
  <2>6. k = pressed + 1
    BY DEF k
  <2>7. Scanned!Refuse(k)
    BY <1>1, <1>s, <2>1, <2>5, <2>6 DEF Scanned!Refuse, Scanned!Pressed
  <2> QED  BY <1>1, <2>7
<1> QED  BY <1>3, <1>4

LEMMA ScansNext == TypeOK /\ ShellInv /\ [Next]_vars => [Scanned!Next]_(Scanned!vars)
<1> SUFFICES ASSUME TypeOK, ShellInv, [Next]_vars
             PROVE  Scanned!Next \/ UNCHANGED ScanStream
  BY DEF ScanStream, Scanned!vars
<1>1. CASE Launch
  BY <1>1, BlankQueues DEF Launch, Reset, history, ShellInv, InSession, Scanned!Start, Scanned!Next
<1>2. CASE EnterShell
  BY <1>2, BlankQueues DEF EnterShell, Reset, InSession, Scanned!Stop, Scanned!Next
<1>3. CASE PollScan \/ HandlerReads
  <2>1. TakeScan /\ phase = "run" /\ UNCHANGED <<pressed, phase>>
    BY <1>3 DEF PollScan, HandlerReads
  <2> QED  BY <2>1, TakeScanTakes DEF Scanned!Next
<1>4. CASE Press
  BY <1>4, PressTypesScans DEF Scanned!Next
<1>5. CASE ReadKey \/ WaitKey \/ PeekKey \/ DosRead \/ UseKey \/ HookVector
           \/ (\E on \in BOOLEAN : SetInterrupts(on))
  BY <1>5 DEF ReadKey, WaitKey, PeekKey, DosRead, UseKey, HookVector, SetInterrupts,
     machine, history, InSession, ScanStream
<1>6. CASE HandlerAcknowledges \/ HandlerReturns \/ Exit \/ BudgetExhausted \/ NextFrame
           \/ UNCHANGED vars
  BY <1>6 DEF HandlerAcknowledges, HandlerReturns, Exit, BudgetExhausted, NextFrame,
     vars, machine, history, InSession, ScanStream
<1> QED  BY <1>1, <1>2, <1>3, <1>4, <1>5, <1>6 DEF Next, Program, AskingProgram, Handler

(* Whole make-break pairs reach port 60h once each and in order, for queues *)
(* of any size and whatever the program does.                               *)
THEOREM ScansImplement == Spec => ScansImplementStream
<1>1. Init => Scanned!Init
  BY ScansInit
<1>2. IInv /\ [Next]_vars => [Scanned!Next]_(Scanned!vars)
  BY ScansNext DEF IInv
<1>3. Spec => []IInv
  BY Inductive
<1>4. Spec => Scanned!Spec
  BY <1>1, <1>2, <1>3, PTL DEF Spec, Scanned!Spec
<1> QED  BY <1>4 DEF ScansImplementStream

-----------------------------------------------------------------------------
(* The BIOS queue implements KeyStream for programs that ask first.         *)

KeyStreamState == <<InSession, Contents(keys, KeyCapacity), got \o InTransit, pressed>>

LEMMA KeysInit == Init => Typed!Init
  BY BlankQueues DEF Init, InSession, Typed!Init, InTransit, Main

(* The program goes on without a read.                                      *)
LEMMA TransitKept ==
  ASSUME UNCHANGED <<at, ax, stack>>
  PROVE  InTransit' = InTransit
  BY DEF InTransit, Main

(* An interrupt saves the key in transit, IRET restores it.                 *)
LEMMA TransitInterrupted ==
  ASSUME IInv, NextFrame \/ Handler
  PROVE  InTransit' = InTransit
<1>1. stack \in Seq(Context)
  BY DEF IInv, TypeOK
<1>2. CASE NextFrame
  <2>1. CASE ~Interruptible
    BY <1>2, <2>1, TransitKept DEF NextFrame
  <2>2. CASE Interruptible
    <3> DEFINE frame == [at |-> at, ax |-> ax, inf |-> inf]
    <3>1. stack' = Append(stack, frame) /\ frame.at = at /\ frame.ax = ax
      BY <1>2, <2>2 DEF NextFrame
    <3>2. frame \in Context
      BY DEF IInv, TypeOK, Context
    <3> HIDE DEF frame
    <3>3. stack' # << >> /\ stack'[1] = IF stack = << >> THEN frame ELSE stack[1]
      BY <1>1, <3>1, <3>2
    <3>4. Main'.at = Main.at /\ Main'.ax = Main.ax
      BY <3>1, <3>3 DEF Main
    <3> QED  BY <3>4 DEF InTransit
  <2> QED  BY <2>1, <2>2
<1>3. CASE HandlerReads \/ HandlerAcknowledges
  <2>1. stack # << >> /\ stack' = stack
    BY <1>3 DEF HandlerReads, HandlerAcknowledges, IInv, StackInv, InMain
  <2> QED  BY <2>1 DEF InTransit, Main
<1>4. CASE HandlerReturns
  <2> DEFINE n == Len(stack)
  <2>1. stack # << >>
    BY <1>4 DEF HandlerReturns, IInv, StackInv, InMain
  <2>2. n \in Nat \ {0} /\ stack' = SubSeq(stack, 1, n - 1)
        /\ at' = stack[n].at /\ ax' = stack[n].ax
    BY <1>1, <1>4, <2>1 DEF HandlerReturns
  <2>3. CASE n = 1
    <3>1. stack' = << >> /\ at' = stack[1].at /\ ax' = stack[1].ax
      BY <1>1, <2>2, <2>3
    <3>2. Main'.at = Main.at /\ Main'.ax = Main.ax
      BY <2>1, <3>1 DEF Main
    <3> QED  BY <3>2 DEF InTransit
  <2>4. CASE n # 1
    <3>1. n \in Nat /\ n > 1 /\ n = Len(stack)
      <4>1. n \in Nat \ {0}
        BY <2>2
      <4>2. n = Len(stack)
        OBVIOUS
      <4> HIDE DEF n
      <4> QED  BY <2>4, <4>1, <4>2
    <3>2. stack' # << >> /\ stack'[1] = stack[1]
      <4>1. SubSeq(stack, 1, n - 1) # << >> /\ SubSeq(stack, 1, n - 1)[1] = stack[1]
        <5> HIDE DEF n
        <5> QED  BY <1>1, <3>1, BottomFrame
      <4> QED  BY <2>2, <4>1
    <3>3. Main' = stack[1] /\ Main = stack[1]
      BY <2>1, <3>2 DEF Main
    <3>4. Main'.at = Main.at /\ Main'.ax = Main.ax
      BY <3>3
    <3> QED  BY <3>4 DEF InTransit
  <2> QED  BY <2>3, <2>4
<1> QED  BY <1>2, <1>3, <1>4 DEF Handler

(* A read takes the oldest key into AX.                                     *)
LEMMA ReadTakes ==
  ASSUME IInv, ReadKey \/ DosRead
  PROVE  Typed!Take
<1>1. stack = << >> /\ at = "code" /\ stack' = stack /\ at' = "read"
  BY DEF ReadKey, DosRead, IInv, StackInv, InMain
<1>2. /\ ax' = Oldest(keys) /\ keys' = Drop(keys, KeyCapacity)
      /\ keys.count # 0 /\ got' = got /\ pressed' = pressed /\ InSession /\ InSession'
  BY DEF ReadKey, DosRead, history, InSession
<1>3. InTransit = << >> /\ InTransit' = <<ax'>>
  BY <1>1 DEF InTransit, Main
<1>4. keys \in Queue(KeyCapacity, Key \cup {NoKey}) /\ got \in Seq(Key \cup {NoKey})
  BY DEF IInv, TypeOK
<1>5. /\ Contents(keys, KeyCapacity) # << >>
      /\ Oldest(keys) = Head(Contents(keys, KeyCapacity))
      /\ Contents(Drop(keys, KeyCapacity), KeyCapacity) = Tail(Contents(keys, KeyCapacity))
  BY <1>2, <1>4, DropTakesOldest
<1>6. Oldest(keys) \in Key \cup {NoKey}
  BY <1>4, OldestTyped
<1>7. got' \o InTransit' = Append(got \o InTransit, ax')
  BY <1>2, <1>3, <1>4, <1>6
<1> QED  BY <1>2, <1>5, <1>7 DEF Typed!Take

(* Using the key moves it from AX into the history.                         *)
LEMMA UseKeeps ==
  ASSUME IInv, UseKey
  PROVE  UNCHANGED KeyStreamState
<1>1. stack = << >> /\ at = "read" /\ stack' = stack /\ at' = "code"
  BY DEF UseKey, IInv, StackInv, InMain
<1>2. InTransit = <<ax>> /\ InTransit' = << >>
  BY <1>1 DEF InTransit, Main
<1>3. got \in Seq(Key \cup {NoKey}) /\ ax \in Key \cup {NoKey}
  BY DEF IInv, TypeOK
<1>4. got' = Append(got, ax) /\ keys' = keys /\ pressed' = pressed /\ InSession' = InSession
  BY DEF UseKey, machine, InSession
<1>5. got' \o InTransit' = got \o InTransit
  BY <1>2, <1>3, <1>4
<1> QED  BY <1>4, <1>5 DEF KeyStreamState

(* A key is queued, or refused when the queue is full.                      *)
LEMMA PressTypesKey ==
  ASSUME IInv, "wait" \notin Services, Press
  PROVE  \E k \in Key : Typed!Accept(k) \/ Typed!Refuse(k)
<1> DEFINE k == pressed + 1
<1>1. k \in Key /\ pressed' = k /\ EnqueueKey(k) /\ UNCHANGED <<got, at, stack>>
  BY NextKey DEF Press, IInv
<1>s. InSession /\ InSession'
  BY DEF Press, InSession
<1>2. waiting = FALSE /\ keys \in Queue(KeyCapacity, Key \cup {NoKey})
  BY DEF IInv, ShellInv, TypeOK
<1>3. ax' = ax
  BY <1>1, <1>2 DEF EnqueueKey
<1>4. got' \o InTransit' = got \o InTransit
  BY <1>1, <1>3, TransitKept
<1>5. CASE keys.count < KeyCapacity
  <2> HIDE DEF k
  <2>1. keys' = Put(keys, KeyCapacity, k)
    BY <1>1, <1>2, <1>5 DEF EnqueueKey
  <2>2. /\ Contents(keys', KeyCapacity) = Contents(keys, KeyCapacity) \o <<k>>
        /\ Len(Contents(keys, KeyCapacity) \o <<k>>) <= KeyCapacity
    BY <1>1, <1>2, <1>5, <2>1, PutKey
  <2>3. k = pressed + 1
    BY DEF k
  <2>4. Typed!Accept(k)
    BY <1>1, <1>s, <1>4, <2>2, <2>3 DEF Typed!Accept, Typed!Pressed, Typed!Room, KeyEvent
  <2> QED  BY <1>1, <2>4
<1>6. CASE ~(keys.count < KeyCapacity)
  <2>1. keys' = keys
    BY <1>1, <1>2, <1>6 DEF EnqueueKey
  <2> HIDE DEF k
  <2>2. PICK c \in Seq(Key \cup {NoKey}) :
          c = Contents(keys, KeyCapacity) /\ Len(c) = keys.count
    BY <1>2, ContentsIsSeq
  <2>3. keys.count \in Nat
    BY <1>2 DEF Queue
  <2>4. Len(c \o <<k>>) = keys.count + 1
    BY <1>1, <2>2, <2>3
  <2>5. ~Typed!Room(k)
    BY <1>6, <2>2, <2>3, <2>4 DEF Typed!Room, KeyEvent
  <2>6. k = pressed + 1
    BY DEF k
  <2>7. Typed!Refuse(k)
    BY <1>1, <1>s, <1>4, <2>1, <2>5, <2>6 DEF Typed!Refuse, Typed!Pressed
  <2> QED  BY <1>1, <2>7
<1> QED  BY <1>5, <1>6

LEMMA SessionEmpties ==
  ASSUME IInv, Launch \/ EnterShell
  PROVE  Typed!Start \/ Typed!Stop
<1>1. Contents(keys', KeyCapacity) = << >> /\ got' = << >> /\ pressed' = pressed
  BY BlankQueues DEF Launch, EnterShell, Reset, history, IInv, ShellInv
<1>2. InTransit' = << >>
  BY DEF Launch, EnterShell, ClearCpu, InTransit, Main
<1>3. InSession' = ~InSession
  BY DEF Launch, EnterShell, InSession
<1> QED  BY <1>1, <1>2, <1>3 DEF Typed!Start, Typed!Stop, InSession

LEMMA KeysNext ==
  ASSUME "wait" \notin Services
  PROVE  IInv /\ [Next]_vars => [Typed!Next]_(Typed!vars)
<1> SUFFICES ASSUME IInv, [Next]_vars
             PROVE  Typed!Next \/ UNCHANGED KeyStreamState
  BY DEF KeyStreamState, Typed!vars
<1>1. CASE Launch \/ EnterShell
  BY <1>1, SessionEmpties DEF Typed!Next
<1>2. CASE ReadKey \/ DosRead
  BY <1>2, ReadTakes DEF Typed!Next
<1>3. CASE UseKey
  BY <1>3, UseKeeps
<1>4. CASE Press
  BY <1>4, PressTypesKey DEF Typed!Next
<1>5. CASE PeekKey
  <2>1. stack = << >> /\ at = "code"
    BY <1>5 DEF PeekKey, IInv, StackInv, InMain
  <2>2. InTransit' = InTransit
    BY <1>5, <2>1 DEF PeekKey, InTransit, Main
  <2> QED  BY <1>5, <2>2 DEF PeekKey, machine, history, InSession, KeyStreamState
<1>6. CASE PollScan \/ HookVector \/ (\E on \in BOOLEAN : SetInterrupts(on))
           \/ Exit \/ BudgetExhausted \/ UNCHANGED vars
  <2>1. UNCHANGED <<at, ax, stack, keys, got, pressed, InSession>>
    BY <1>6 DEF PollScan, HookVector, SetInterrupts, Exit, BudgetExhausted, vars,
       machine, cpu, history, InSession
  <2> QED  BY <2>1, TransitKept DEF KeyStreamState
<1>7. CASE NextFrame \/ Handler
  <2>1. UNCHANGED <<keys, got, pressed, InSession>>
    BY <1>7 DEF NextFrame, Handler, HandlerReads, HandlerAcknowledges, HandlerReturns,
       machine, history, InSession
  <2> QED  BY <1>7, <2>1, TransitInterrupted DEF KeyStreamState
<1>8. ~WaitKey
  BY DEF WaitKey
<1> QED  BY <1>1, <1>2, <1>3, <1>4, <1>5, <1>6, <1>7, <1>8 DEF Next, Program, AskingProgram, Handler

(* A program that asks (AH = 1) before it reads (AH = 0) gets every queued  *)
(* key once and in order, for queues of any size and whatever interrupts    *)
(* come between.                                                            *)
THEOREM KeysImplement == ("wait" \notin Services) => (Spec => KeysImplementStream)
<1> SUFFICES ASSUME "wait" \notin Services PROVE Spec => Typed!Spec
  BY DEF KeysImplementStream
<1>1. Init => Typed!Init
  BY KeysInit
<1>2. IInv /\ [Next]_vars => [Typed!Next]_(Typed!vars)
  BY KeysNext
<1>3. Spec => []IInv
  BY Inductive
<1> QED  BY <1>1, <1>2, <1>3, PTL DEF Spec, Typed!Spec

-----------------------------------------------------------------------------
(* No program, waiting or not, reads keys out of order.                     *)

Known == (got \o InTransit) \o Contents(keys, KeyCapacity)
UpTo(s, n) == \A i \in DOMAIN s : s[i] <= n

OrderInv ==
  /\ Ascending(Known)
  /\ UpTo(Known, pressed)
  /\ waiting => keys.count = 0

LEMMA Ascends ==
  ASSUME NEW s \in Seq(Nat), Ascending(s), NEW n \in Nat, UpTo(s, n), NEW k \in {0, n + 1}
  PROVE  Ascending(s \o <<k>>) /\ UpTo(s \o <<k>>, n + 1)
<1> DEFINE t == s \o <<k>>
<1>1. PICK m \in Nat : m = Len(s) /\ DOMAIN s = 1..m
  OBVIOUS
<1>2. DOMAIN t = 1..(m + 1) /\ (\A i \in 1..m : t[i] = s[i]) /\ t[m + 1] = k
  BY <1>1
<1>3. \A i \in 1..m : s[i] \in Nat /\ s[i] <= n
  BY <1>1 DEF UpTo
<1> HIDE DEF t
<1>4. UpTo(t, n + 1)
  BY <1>1, <1>2, <1>3 DEF UpTo
<1>5. ASSUME NEW i \in 1..(m + 1), NEW j \in 1..(m + 1), i < j, t[i] # NoKey, t[j] # NoKey
      PROVE  t[i] < t[j]
  <2>1. i \in 1..m
    BY <1>1, <1>5
  <2>2. CASE j = m + 1
    BY <1>2, <1>3, <1>5, <2>1, <2>2 DEF NoKey
  <2>3. CASE j \in 1..m
    BY <1>1, <1>2, <1>5, <2>1, <2>3 DEF Ascending
  <2> QED  BY <1>1, <2>2, <2>3
<1>6. Ascending(t)
  BY <1>2, <1>5 DEF Ascending
<1> QED  BY <1>4, <1>6 DEF t

LEMMA AscendsBefore ==
  ASSUME NEW s \in Seq(Nat), NEW k \in Nat, NEW n \in Nat,
         Ascending(s \o <<k>>), UpTo(s \o <<k>>, n)
  PROVE  Ascending(s) /\ UpTo(s, n)
<1> DEFINE t == s \o <<k>>
<1>1. PICK m \in Nat : m = Len(s) /\ DOMAIN s = 1..m
  OBVIOUS
<1>2. DOMAIN t = 1..(m + 1) /\ (\A i \in 1..m : t[i] = s[i] /\ i \in 1..(m + 1))
  BY <1>1
<1>3. Ascending(t) /\ UpTo(t, n)
  OBVIOUS
<1> HIDE DEF t
<1> QED  BY <1>1, <1>2, <1>3 DEF Ascending, UpTo

(* The keys known are numbers, and the queue is a sequence of them.         *)
LEMMA KnownTyped ==
  ASSUME TypeOK
  PROVE  /\ got \in Seq(Nat) /\ InTransit \in Seq(Nat) /\ pressed \in Nat
         /\ keys \in Queue(KeyCapacity, Key \cup {NoKey}) /\ keys.count \in Nat
         /\ Contents(keys, KeyCapacity) \in Seq(Nat)
         /\ Len(Contents(keys, KeyCapacity)) = keys.count
<1>1. Key \cup {NoKey} \subseteq Nat
  BY DEF Key, NoKey
<1>2. /\ keys \in Queue(KeyCapacity, Key \cup {NoKey}) /\ got \in Seq(Key \cup {NoKey})
      /\ stack \in Seq(Context) /\ ax \in Key \cup {NoKey} /\ pressed \in Nat
  BY DEF TypeOK
<1>3. Contents(keys, KeyCapacity) \in Seq(Key \cup {NoKey})
      /\ Len(Contents(keys, KeyCapacity)) = keys.count
  BY <1>2, ContentsIsSeq
<1>4. \A s \in Seq(Key \cup {NoKey}) : s \in Seq(Nat)
  BY <1>1
<1>5. Main.ax \in Nat
  <2>1. stack # << >> => stack[1] \in Context
    BY <1>2
  <2> QED  BY <1>1, <1>2, <2>1 DEF Main, Context
<1>6. InTransit \in Seq(Nat)
  BY <1>5 DEF InTransit
<1>7. keys.count \in Nat
  BY <1>2 DEF Queue
<1> QED  BY <1>2, <1>3, <1>4, <1>6, <1>7

LEMMA UpToNext ==
  ASSUME NEW s \in Seq(Nat), NEW n \in Nat, UpTo(s, n)
  PROVE  UpTo(s, n + 1)
<1>1. \A i \in DOMAIN s : s[i] \in Nat /\ s[i] <= n
  BY DEF UpTo
<1> QED  BY <1>1 DEF UpTo

LEMMA NothingJoins ==
  ASSUME NEW s \in Seq(Nat), NEW c \in Seq(Nat), Len(c) = 0
  PROVE  c = << >> /\ s \o c = s
<1>1. c = << >>
  OBVIOUS
<1>2. s \o << >> = s
  OBVIOUS
<1> QED  BY <1>1, <1>2

LEMMA LastJoins ==
  ASSUME NEW s \in Seq(Nat), NEW c \in Seq(Nat), NEW k \in Nat
  PROVE  s \o (c \o <<k>>) = (s \o c) \o <<k>>
<1> DEFINE l == s \o (c \o <<k>>)
           t == (s \o c) \o <<k>>
<1>1. /\ c \o <<k>> \in Seq(Nat) /\ Len(c \o <<k>>) = Len(c) + 1
      /\ s \o c \in Seq(Nat) /\ Len(s \o c) = Len(s) + Len(c)
  OBVIOUS
<1>2. l \in Seq(Nat) /\ t \in Seq(Nat) /\ Len(l) = Len(t)
  BY <1>1
<1>3. \A i \in 1..Len(l) : l[i] = t[i]
  BY <1>1
<1> HIDE DEF l, t
<1>4. l = t
  BY <1>2, <1>3, SeqEqual
<1> QED  BY <1>4 DEF l, t

LEMMA HeadMoves ==
  ASSUME NEW s \in Seq(Nat), NEW c \in Seq(Nat), c # << >>
  PROVE  Append(s, Head(c)) \o Tail(c) = s \o c
<1> DEFINE l == Append(s, Head(c)) \o Tail(c)
           t == s \o c
<1>1. PICK n \in Nat, m \in Nat \ {0} : n = Len(s) /\ m = Len(c)
  OBVIOUS
<1>2. /\ Append(s, Head(c)) \in Seq(Nat) /\ Len(Append(s, Head(c))) = n + 1
      /\ Tail(c) \in Seq(Nat) /\ Len(Tail(c)) = m - 1
  BY <1>1
<1>3. l \in Seq(Nat) /\ Len(l) = n + m /\ t \in Seq(Nat) /\ Len(t) = n + m
  BY <1>1, <1>2
<1>4. \A i \in 1..n : l[i] = s[i] /\ t[i] = s[i]
  BY <1>1, <1>2
<1>5. l[n + 1] = c[1] /\ t[n + 1] = c[1]
  BY <1>1, <1>2
<1>6. ASSUME NEW i \in (n + 2)..(n + m) PROVE l[i] = c[i - n] /\ t[i] = c[i - n]
  <2>1. l[i] = Tail(c)[i - (n + 1)]
    BY <1>1, <1>2
  <2>2. Tail(c)[i - (n + 1)] = c[(i - (n + 1)) + 1]
    BY <1>1, <1>2
  <2>3. (i - (n + 1)) + 1 = i - n
    OBVIOUS
  <2>4. t[i] = c[i - n]
    BY <1>1
  <2> QED  BY <2>1, <2>2, <2>3, <2>4
<1>7. \A i \in 1..(n + m) : l[i] = t[i]
  <2> HIDE DEF l, t
  <2>1. \A i \in 1..(n + m) : i \in 1..n \/ i = n + 1 \/ i \in (n + 2)..(n + m)
    OBVIOUS
  <2> QED  BY <1>4, <1>5, <1>6, <2>1
<1> HIDE DEF l, t
<1>8. l = t
  BY <1>3, <1>7, SeqEqual
<1> QED  BY <1>8 DEF l, t

LEMMA EmptyOrder == Ascending(<< >>) /\ \A n : UpTo(<< >>, n)
  BY DEF Ascending, UpTo

LEMMA PressOrder ==
  ASSUME IInv, OrderInv, Press
  PROVE  OrderInv'
<1> DEFINE k == pressed + 1
           c == Contents(keys, KeyCapacity)
           g == got \o InTransit
<1>1. k \in Key /\ pressed' = k /\ EnqueueKey(k) /\ UNCHANGED <<got, at, stack>>
  BY NextKey DEF Press, IInv
<1>2. /\ got \in Seq(Nat) /\ InTransit \in Seq(Nat) /\ pressed \in Nat
      /\ keys \in Queue(KeyCapacity, Key \cup {NoKey}) /\ keys.count \in Nat
      /\ c \in Seq(Nat) /\ Len(c) = keys.count
  BY KnownTyped DEF IInv
<1>3. g \in Seq(Nat) /\ g \o c \in Seq(Nat)
  <2> HIDE DEF c
  <2> QED  BY <1>2
<1>4. Ascending(g \o c) /\ UpTo(g \o c, pressed) /\ (waiting => keys.count = 0)
  BY DEF OrderInv, Known
<1>5. UpTo(g \o c, k)
  BY <1>2, <1>3, <1>4, UpToNext
<1>6. Ascending((g \o c) \o <<k>>) /\ UpTo((g \o c) \o <<k>>, k)
  <2>1. k \in {0, pressed + 1}
    OBVIOUS
  <2> HIDE DEF g, c
  <2> QED  BY <1>2, <1>3, <1>4, <2>1, Ascends DEF k
<1>7. CASE waiting
  <2>1. ax' = k /\ waiting' = FALSE /\ keys' = keys
    BY <1>1, <1>7 DEF EnqueueKey
  <2>2. c = << >> /\ g \o c = g
    <3> HIDE DEF c, g
    <3> QED  BY <1>2, <1>3, <1>4, <1>7, NothingJoins
  <2>3. CASE stack = << >> /\ at = "read"
    <3>1. InTransit = <<ax>> /\ InTransit' = <<k>>
      BY <1>1, <2>1, <2>3 DEF InTransit, Main
    <3>2. ax \in Nat
      BY DEF IInv, TypeOK, Key, NoKey
    <3>3. Ascending(got \o <<ax>>) /\ UpTo(got \o <<ax>>, pressed)
      BY <1>4, <2>2, <3>1
    <3>4. Ascending(got) /\ UpTo(got, pressed)
      BY <1>2, <3>2, <3>3, AscendsBefore
    <3>5. k \in {0, pressed + 1}
      OBVIOUS
    <3>6. Ascending(got \o <<k>>) /\ UpTo(got \o <<k>>, k)
      BY <1>2, <3>4, <3>5, Ascends
    <3>7. Known' = (got \o <<k>>) \o c
      BY <1>1, <2>1, <3>1 DEF Known
    <3>8. Known' = got \o <<k>>
      <4> HIDE DEF c
      <4> QED  BY <1>2, <2>2, <3>7
    <3> QED  BY <1>1, <2>1, <3>6, <3>8 DEF OrderInv
  <2>4. CASE ~(stack = << >> /\ at = "read")
    <3>1. InTransit' = InTransit
      BY <1>1, <2>4 DEF InTransit, Main
    <3>2. Known' = g \o c
      BY <1>1, <2>1, <3>1 DEF Known
    <3> QED  BY <1>1, <1>4, <1>5, <2>1, <3>2 DEF OrderInv
  <2> QED  BY <2>3, <2>4
<1>8. CASE ~waiting
  <2>1. ax' = ax /\ waiting' = waiting
    BY <1>1, <1>8 DEF EnqueueKey
  <2>2. InTransit' = InTransit
    BY <1>1, <2>1, TransitKept
  <2>3. CASE keys.count < KeyCapacity
    <3>1. keys' = Put(keys, KeyCapacity, k)
      BY <1>1, <1>8, <2>3 DEF EnqueueKey
    <3>2. Contents(keys', KeyCapacity) = c \o <<k>>
      <4> HIDE DEF k
      <4> QED  BY <1>1, <1>2, <2>3, <3>1, PutKey
    <3>3. Known' = g \o (c \o <<k>>)
      BY <1>1, <2>2, <3>2 DEF Known
    <3>4. g \o (c \o <<k>>) = (g \o c) \o <<k>>
      <4>1. PICK x \in Seq(Nat), y \in Seq(Nat), n \in Nat : x = g /\ y = c /\ n = k
        <5>1. k \in Nat
          BY <1>2
        <5> HIDE DEF g, c, k
        <5> QED  BY <1>2, <1>3, <5>1
      <4>2. x \o (y \o <<n>>) = (x \o y) \o <<n>>
        BY LastJoins
      <4> HIDE DEF g, c, k
      <4> QED  BY <4>1, <4>2
    <3>5. waiting' = FALSE
      BY <1>8, <2>1 DEF IInv, TypeOK
    <3> QED  BY <1>1, <1>6, <3>3, <3>4, <3>5 DEF OrderInv
  <2>4. CASE ~(keys.count < KeyCapacity)
    <3>1. keys' = keys
      BY <1>1, <1>8, <2>4 DEF EnqueueKey
    <3>2. Known' = g \o c
      BY <1>1, <2>2, <3>1 DEF Known
    <3> QED  BY <1>1, <1>4, <1>5, <1>8, <2>1, <3>1, <3>2 DEF OrderInv
  <2> QED  BY <2>3, <2>4
<1> QED  BY <1>7, <1>8

LEMMA OrderNext == IInv /\ OrderInv /\ [Next]_vars => OrderInv'
<1> SUFFICES ASSUME IInv, OrderInv, [Next]_vars PROVE OrderInv'
  OBVIOUS
<1>t. /\ got \in Seq(Nat) /\ InTransit \in Seq(Nat) /\ pressed \in Nat
      /\ keys \in Queue(KeyCapacity, Key \cup {NoKey}) /\ keys.count \in Nat
      /\ Contents(keys, KeyCapacity) \in Seq(Nat)
      /\ Len(Contents(keys, KeyCapacity)) = keys.count
  BY KnownTyped DEF IInv
<1>1. CASE Launch \/ EnterShell
  <2>1. Contents(keys', KeyCapacity) = << >> /\ got' = << >> /\ waiting' = FALSE
    BY <1>1, BlankQueues DEF Launch, EnterShell, Reset, history, IInv, ShellInv
  <2>2. InTransit' = << >>
    BY <1>1 DEF Launch, EnterShell, ClearCpu, InTransit, Main
  <2>3. Known' = << >>
    BY <2>1, <2>2 DEF Known
  <2> QED  BY <2>1, <2>3, EmptyOrder DEF OrderInv
<1>2. ASSUME Known' = Known, pressed' = pressed, waiting' => keys'.count = 0
      PROVE  OrderInv'
  BY <1>2 DEF OrderInv
<1>3. CASE ReadKey \/ DosRead
  <2>1. Typed!Take
    BY <1>3, ReadTakes
  <2>2. /\ Contents(keys, KeyCapacity) # << >>
        /\ got' \o InTransit' = Append(got \o InTransit, Head(Contents(keys, KeyCapacity)))
        /\ Contents(keys', KeyCapacity) = Tail(Contents(keys, KeyCapacity))
    BY <2>1 DEF Typed!Take
  <2>3. got \o InTransit \in Seq(Nat)
    BY <1>t
  <2>4. Known' = Known
    BY <1>t, <2>2, <2>3, HeadMoves DEF Known
  <2>5. pressed' = pressed /\ waiting' = FALSE
    BY <1>3 DEF ReadKey, DosRead, history, OrderInv, IInv, TypeOK
  <2> QED  BY <1>2, <2>4, <2>5
<1>4. CASE WaitKey
  <2>1. stack = << >> /\ at = "code" /\ stack' = << >> /\ at' = "read" /\ ax' = NoKey
    BY <1>4 DEF WaitKey, IInv, StackInv, InMain
  <2>2. InTransit = << >> /\ InTransit' = <<NoKey>>
    BY <2>1 DEF InTransit, Main
  <2>3. got' = got /\ keys' = keys /\ pressed' = pressed /\ keys.count = 0
    BY <1>4 DEF WaitKey, history
  <2>4. Contents(keys, KeyCapacity) = << >>
    BY <1>t, <2>3
  <2>5. Known = got /\ Known' = got \o <<NoKey>>
    <3>1. Known = (got \o << >>) \o << >> /\ Known' = (got \o <<NoKey>>) \o << >>
      BY <2>2, <2>3, <2>4 DEF Known
    <3> QED  BY <1>t, <3>1 DEF NoKey
  <2>6. /\ Ascending(got) /\ UpTo(got, pressed) /\ NoKey \in {0, pressed + 1}
    BY <2>5 DEF OrderInv, NoKey
  <2>7. Ascending(Known')
    BY <1>t, <2>5, <2>6, Ascends
  <2>8. UpTo(Known', pressed')
    <3>1. PICK m \in Nat : m = Len(got) /\ DOMAIN got = 1..m
      BY <1>t
    <3>2. /\ DOMAIN (got \o <<NoKey>>) = 1..(m + 1) /\ (got \o <<NoKey>>)[m + 1] = NoKey
          /\ \A i \in 1..m : (got \o <<NoKey>>)[i] = got[i]
      BY <1>t, <3>1 DEF NoKey
    <3>3. \A i \in 1..m : got[i] <= pressed
      BY <2>6, <3>1 DEF UpTo
    <3>4. \A i \in 1..(m + 1) : (got \o <<NoKey>>)[i] <= pressed
      BY <1>t, <3>1, <3>2, <3>3 DEF NoKey
    <3> QED  BY <2>3, <2>5, <3>2, <3>4 DEF UpTo
  <2> QED  BY <2>3, <2>7, <2>8 DEF OrderInv
<1>5. CASE UseKey
  <2>1. KeyStreamState' = KeyStreamState
    BY <1>5, UseKeeps
  <2>2. keys' = keys /\ waiting' = waiting
    BY <1>5 DEF UseKey, machine
  <2> QED  BY <1>2, <2>1, <2>2 DEF KeyStreamState, Known, OrderInv
<1>6. CASE Press
  BY <1>6, PressOrder
<1>7. CASE PeekKey
  <2>1. stack = << >> /\ at = "code"
    BY <1>7 DEF PeekKey, IInv, StackInv, InMain
  <2>2. InTransit' = InTransit
    BY <1>7, <2>1 DEF PeekKey, InTransit, Main
  <2> QED  BY <1>2, <1>7, <2>2 DEF PeekKey, machine, history, Known, OrderInv
<1>8. CASE PollScan \/ HookVector \/ (\E on \in BOOLEAN : SetInterrupts(on))
           \/ Exit \/ BudgetExhausted \/ UNCHANGED vars
  <2>1. UNCHANGED <<at, ax, stack, keys, got, pressed, waiting>>
    BY <1>8 DEF PollScan, HookVector, SetInterrupts, Exit, BudgetExhausted, vars,
       machine, cpu, history
  <2> QED  BY <1>2, <2>1, TransitKept DEF Known, OrderInv
<1>9. CASE NextFrame \/ Handler
  <2>1. UNCHANGED <<keys, got, pressed, waiting>>
    BY <1>9 DEF NextFrame, Handler, HandlerReads, HandlerAcknowledges, HandlerReturns,
       machine, history
  <2> QED  BY <1>2, <1>9, <2>1, TransitInterrupted DEF Known, OrderInv
<1> QED  BY <1>1, <1>3, <1>4, <1>5, <1>6, <1>7, <1>8, <1>9 DEF Next, Program, AskingProgram

(* The keys a program reads, by a read that found one, by DOS or by the     *)
(* hand-over to a waiting read, and those still queued, are in the order    *)
(* they were typed, each once, for queues of any size and any program.      *)
THEOREM KeysAreInOrder == Spec => []KeysInOrder
<1>1. Init => OrderInv
  <2> SUFFICES ASSUME Init PROVE OrderInv
    OBVIOUS
  <2>1. Known = << >>
    BY BlankQueues DEF Init, Known, InTransit, Main
  <2> QED  BY <2>1, EmptyOrder DEF Init, OrderInv
<1>2. OrderInv => KeysInOrder
  BY DEF OrderInv, Known, KeysInOrder
<1> QED  BY <1>1, <1>2, Inductive, OrderNext, PTL DEF Spec

-----------------------------------------------------------------------------
(* Interrupts.  A handler that has not acknowledged is never interrupted,   *)
(* so the only one there can be is the one that runs.                       *)

IrqInv ==
  /\ irqActive <=> at \in Unacknowledged
  /\ \A i \in DOMAIN stack : stack[i].at \notin Unacknowledged
  /\ HandlerFindsCode

LEMMA IrqNext == IInv /\ IrqInv /\ [Next]_vars => IrqInv'
<1> SUFFICES ASSUME IInv, IrqInv, [Next]_vars PROVE IrqInv'
  OBVIOUS
<1>s. stack \in Seq(Context)
  BY DEF IInv, TypeOK
<1>1. CASE Launch \/ EnterShell
  BY <1>1 DEF Launch, EnterShell, Reset, ClearCpu, IrqInv, HandlerFindsCode, Unacknowledged
<1>2. CASE UNCHANGED <<at, irqActive, stack>> /\ (at # "isr_in" \/ UNCHANGED scans)
  BY <1>2 DEF IrqInv, HandlerFindsCode
<1>3. CASE ReadKey \/ WaitKey \/ DosRead \/ UseKey
  BY <1>3 DEF ReadKey, WaitKey, DosRead, UseKey, machine, IrqInv, HandlerFindsCode,
     Unacknowledged
<1>4. CASE PeekKey \/ PollScan \/ HookVector \/ (\E on \in BOOLEAN : SetInterrupts(on))
           \/ Exit \/ BudgetExhausted \/ UNCHANGED vars
  BY <1>2, <1>4 DEF PeekKey, PollScan, HookVector, SetInterrupts, Exit, BudgetExhausted,
     vars, machine, cpu
<1>5. CASE HandlerReads \/ HandlerAcknowledges
  BY <1>5 DEF HandlerReads, HandlerAcknowledges, IrqInv, HandlerFindsCode, Unacknowledged
<1>6. CASE HandlerReturns
  <2> DEFINE n == Len(stack)
  <2>1. stack # << >> /\ irqActive = FALSE
    BY <1>6 DEF HandlerReturns, IInv, TypeOK, StackInv, InMain, IrqInv, Unacknowledged
  <2>2. n \in DOMAIN stack /\ stack' = SubSeq(stack, 1, n - 1) /\ at' = stack[n].at
    BY <1>s, <1>6, <2>1 DEF HandlerReturns
  <2>3. at' \notin Unacknowledged /\ irqActive' = irqActive
    BY <1>6, <2>2 DEF IrqInv, HandlerReturns, machine
  <2>4. \A i \in DOMAIN stack' : i \in DOMAIN stack /\ stack'[i] = stack[i]
    BY <1>s, <2>1, <2>2
  <2>5. \A i \in DOMAIN stack' : stack'[i].at \notin Unacknowledged
    BY <2>4 DEF IrqInv
  <2> QED  BY <2>1, <2>3, <2>5 DEF IrqInv, HandlerFindsCode, Unacknowledged
<1>7. CASE Press
  <2>1. UNCHANGED <<at, irqActive, stack>> /\ EnqueueScan(pressed + 1)
    BY <1>7 DEF Press
  <2>2. scans.count \in Nat
    BY DEF IInv, TypeOK, Queue
  <2>3. scans.count # 0 => scans'.count # 0
    BY <2>1, <2>2 DEF EnqueueScan, Put
  <2> QED  BY <2>1, <2>3 DEF IrqInv, HandlerFindsCode
<1>8. CASE NextFrame
  <2>1. CASE ~Interruptible
    BY <1>2, <1>8, <2>1 DEF NextFrame
  <2>2. CASE Interruptible
    <3> DEFINE frame == [at |-> at, ax |-> ax, inf |-> inf]
               n == Len(stack)
    <3>1. /\ stack' = Append(stack, frame) /\ at' = "isr_in" /\ irqActive' = TRUE
          /\ scans' = scans /\ scans.count # 0 /\ frame.at \notin Unacknowledged
      BY <1>8, <2>2 DEF NextFrame, Interruptible, IrqInv
    <3>2. frame \in Context
      BY DEF IInv, TypeOK, Context
    <3>3. \A i \in DOMAIN stack' : stack'[i] = frame \/ (i \in DOMAIN stack /\ stack'[i] = stack[i])
      <4> HIDE DEF frame
      <4> QED  BY <1>s, <3>1, <3>2
    <3>4. \A i \in DOMAIN stack' : stack'[i].at \notin Unacknowledged
      <4> HIDE DEF frame
      <4> QED  BY <3>1, <3>3 DEF IrqInv
    <3> QED  BY <3>1, <3>4 DEF IrqInv, HandlerFindsCode, Unacknowledged
  <2> QED  BY <2>1, <2>2
<1> QED  BY <1>1, <1>3, <1>4, <1>5, <1>6, <1>7, <1>8 DEF Next, Program, AskingProgram, Handler

LEMMA IrqInductive == Spec => [](IInv /\ IrqInv)
<1>1. Init => IrqInv
  BY DEF Init, IrqInv, HandlerFindsCode, Unacknowledged
<1>2. IInv /\ IrqInv /\ [Next]_vars => IrqInv'
  BY IrqNext
<1> QED  BY <1>1, <1>2, Inductive, PTL DEF Spec

(* However deep interrupts nest, keyboard_irq_active is set exactly while   *)
(* one handler, and no more, has still to acknowledge.                      *)
THEOREM OneHandlerUnacknowledged == Spec => []OneUnacknowledged
<1>1. IInv /\ IrqInv => OneUnacknowledged
  <2> SUFFICES ASSUME IInv, IrqInv PROVE OneUnacknowledged
    OBVIOUS
  <2>1. Len(stack) \in Nat /\ DOMAIN stack = 1..Len(stack)
    BY DEF IInv, TypeOK
  <2>2. \A i \in 0..Len(stack) : Pending(i) <=> i = 0 /\ irqActive
    BY <2>1 DEF Pending, IrqInv
  <2>3. 0 \in 0..Len(stack)
    BY <2>1
  <2> QED  BY <2>2, <2>3 DEF OneUnacknowledged
<1> QED  BY <1>1, IrqInductive, PTL

(* No interrupt is spurious, for queues of any size and any program that    *)
(* reads port 60h itself as often as it likes.                              *)
THEOREM NoSpuriousInterrupt == Spec => []HandlerFindsCode
<1>1. IrqInv => HandlerFindsCode
  BY DEF IrqInv
<1> QED  BY <1>1, IrqInductive, PTL

----------------------------------------------------------------------------
(* The serial line: what has been sent and not fed, and what the strokes fed *)
(* so far mean.                                                            *)

Bytes == {"A", "F", "cr", "del", "nul", "[", "esc", "3", "~"}
Marks == Bytes \cup {"M", "bs", "backspace", "escape", "up"}
Keys == [ascii : Marks, scan : Marks]

(* What is on the line from each stroke on.                                *)
Tails(ss, t) ==
  /\ t \in [1..(Len(ss) + 1) -> Seq(Bytes)]
  /\ t[Len(ss) + 1] = << >>
  /\ \A i \in 1..Len(ss) : t[i] = Sent[ss[i]] \o t[i + 1]

(* What the decoder makes of a stroke.                                     *)
Gives(s) ==
  CASE s = "enter" -> <<KeyOf("cr", "M")>>
    [] s = "delete" -> <<KeyOf("~", "~")>>
    [] s = "end" -> << >>
    [] OTHER -> Meant(s)

(* What it has made of the strokes up to each of them.                     *)
Heard(ss, h) ==
  /\ h \in [0..Len(ss) -> Seq(Keys)]
  /\ h[0] = << >>
  /\ \A i \in 1..Len(ss) : h[i] = h[i - 1] \o Gives(ss[i])

(* Where the decoder may be inside the bytes of one stroke.                *)
Inside(s, e, l, rest) ==
  \/ s = "up" /\ \/ e = 1 /\ l = <<"[">> \o (<<"A">> \o rest)
                 \/ e = 2 /\ l = <<"A">> \o rest
  \/ s = "end" /\ \/ e = 1 /\ l = <<"[">> \o (<<"F">> \o rest)
                  \/ e = 2 /\ l = <<"F">> \o rest
  \/ s = "delete" /\ \/ e = 1 /\ l = <<"[">> \o (<<"3">> \o (<<"~">> \o rest))
                     \/ e = 2 /\ l = <<"3">> \o (<<"~">> \o rest)
                     \/ e = 0 /\ l = <<"~">> \o rest

(* k strokes have been fed, and the last of them is decoded, or it is an   *)
(* Escape that is held, or the one behind it is under way.                 *)
Between(ss, e, l, d, k, t, h) == e = 0 /\ l = t[k + 1] /\ d = h[k]
Holding(ss, e, l, d, k, t, h) ==
  k # 0 /\ ss[k] = "escape" /\ e = 1 /\ l = t[k + 1] /\ d = h[k - 1]
UnderWay(ss, e, l, d, k, t, h) ==
  k # Len(ss) /\ Inside(ss[k + 1], e, l, t[k + 2]) /\ d = h[k]

Spot(ss, e, l, d, k, t, h) ==
  \/ Between(ss, e, l, d, k, t, h)
  \/ Holding(ss, e, l, d, k, t, h)
  \/ UnderWay(ss, e, l, d, k, t, h)

Decoding(ss, e, l, d) ==
  \E t, h : /\ Tails(ss, t) /\ Heard(ss, h)
            /\ \E k \in 0..Len(ss) : Spot(ss, e, l, d, k, t, h)

ClearOf(ss) == \A i \in 1..Len(ss) - 1 : ss[i] = "escape" => ss[i + 1] \notin Continuing

AnsiInv ==
  strokes \in Seq(Strokes) /\ (ClearOf(strokes) => Decoding(strokes, escape, line, decoded))

(* Sequences.                                                              *)
LEMMA Behind ==
  ASSUME NEW X, NEW e \in X, NEW s \in Seq(X)
  PROVE  /\ <<e>> \o s \in Seq(X) /\ <<e>> \o s # << >>
         /\ Head(<<e>> \o s) = e /\ Tail(<<e>> \o s) = s
  OBVIOUS

LEMMA Joined ==
  ASSUME NEW X, NEW r \in Seq(X), NEW s \in Seq(X)
  PROVE  r \o s \in Seq(X) /\ << >> \o s = s /\ s \o << >> = s
  OBVIOUS

Regroups(r, s, u) == (r \o s) \o u = r \o (s \o u)
Opens3(a, b, c, s) == <<a, b, c>> \o s = <<a>> \o (<<b>> \o (<<c>> \o s))
Opens4(a, b, c, d, s) == <<a, b, c, d>> \o s = <<a>> \o (<<b>> \o (<<c>> \o (<<d>> \o s)))

LEMMA Regrouped ==
  ASSUME NEW X, NEW r \in Seq(X), NEW s \in Seq(X), NEW u \in Seq(X)
  PROVE  Regroups(r, s, u)
<1> DEFINE x == (r \o s) \o u
           y == r \o (s \o u)
<1>1. x \in Seq(X) /\ y \in Seq(X) /\ Len(x) = Len(y)
  OBVIOUS
<1>2. \A i \in 1..Len(x) : x[i] = y[i]
  OBVIOUS
<1> HIDE DEF x, y
<1>3. x = y
  BY <1>1, <1>2, SeqEqual
<1> QED
  BY <1>3 DEF x, y, Regroups

LEMMA Apart3 ==
  ASSUME NEW X, NEW a \in X, NEW b \in X, NEW c \in X, NEW s \in Seq(X)
  PROVE  /\ <<a, b, c>> \in Seq(X) /\ <<a, b, c>> # << >>
         /\ Opens3(a, b, c, s)
<1> DEFINE x == <<a, b, c>> \o s
           y == <<a>> \o (<<b>> \o (<<c>> \o s))
<1>1. x \in Seq(X) /\ y \in Seq(X) /\ Len(x) = Len(y)
  OBVIOUS
<1>2. \A i \in 1..Len(x) : x[i] = y[i]
  OBVIOUS
<1> HIDE DEF x, y
<1>3. x = y
  BY <1>1, <1>2, SeqEqual
<1> QED
  BY <1>1, <1>3 DEF x, y, Opens3

LEMMA Apart4 ==
  ASSUME NEW X, NEW a \in X, NEW b \in X, NEW c \in X, NEW d \in X, NEW s \in Seq(X)
  PROVE  /\ <<a, b, c, d>> \in Seq(X) /\ <<a, b, c, d>> # << >>
         /\ Opens4(a, b, c, d, s)
<1> DEFINE x == <<a, b, c, d>> \o s
           y == <<a>> \o (<<b>> \o (<<c>> \o (<<d>> \o s)))
<1>1. x \in Seq(X) /\ y \in Seq(X) /\ Len(x) = Len(y)
  OBVIOUS
<1>2. \A i \in 1..Len(x) : x[i] = y[i]
  OBVIOUS
<1> HIDE DEF x, y
<1>3. x = y
  BY <1>1, <1>2, SeqEqual
<1> QED
  BY <1>1, <1>3 DEF x, y, Opens4

(* The strokes and their bytes.                                            *)
LEMMA StrokeNames ==
  \A s \in Strokes : s \in {"letter", "enter", "backspace", "break", "bracket", "escape",
                            "up", "end", "delete"}
  BY AnsiInputAssumption DEF Sent

LEMMA SentAs ==
  /\ Sent["letter"] = <<"A">> /\ Sent["enter"] = <<"cr">> /\ Sent["backspace"] = <<"del">>
  /\ Sent["break"] = <<"nul">> /\ Sent["bracket"] = <<"[">> /\ Sent["escape"] = <<"esc">>
  /\ Sent["up"] = <<"esc", "[", "A">> /\ Sent["end"] = <<"esc", "[", "F">>
  /\ Sent["delete"] = <<"esc", "[", "3", "~">>
  BY DEF Sent

LEMMA GivesAs ==
  /\ Plain("A") = Gives("letter") /\ Plain("cr") = Gives("enter")
  /\ Plain("del") = Gives("backspace") /\ Plain("nul") = Gives("break")
  /\ Plain("[") = Gives("bracket") /\ Plain("esc") = Gives("escape")
  /\ Plain("~") = Gives("delete")
  /\ Arrow("A") = [escape |-> 0, keys |-> Gives("up")]
  /\ Arrow("F") = [escape |-> 0, keys |-> << >>] /\ Gives("end") = << >>
  /\ Arrow("3") = [escape |-> 0, keys |-> << >>]
<1>1. Plain("A") = Gives("letter") /\ Plain("cr") = Gives("enter")
  BY DEF Plain, Gives, Meant, ScanOf
<1>2. Plain("del") = Gives("backspace") /\ Plain("nul") = Gives("break")
  BY DEF Plain, Gives, Meant, ScanOf
<1>3. Plain("[") = Gives("bracket") /\ Plain("esc") = Gives("escape") /\ Plain("~") = Gives("delete")
  BY DEF Plain, Gives, Meant, ScanOf
<1>4. /\ Arrow("A") = [escape |-> 0, keys |-> Gives("up")]
      /\ Arrow("F") = [escape |-> 0, keys |-> << >>] /\ Gives("end") = << >>
      /\ Arrow("3") = [escape |-> 0, keys |-> << >>]
  BY DEF Arrow, Gives, Meant
<1> QED
  BY <1>1, <1>2, <1>3, <1>4

LEMMA Single == \A X : << >> \in Seq(X) /\ \A e \in X : <<e>> \in Seq(X) /\ <<e>> # << >>
  OBVIOUS

LEMMA GivesTyped == \A s \in Strokes : Gives(s) \in Seq(Keys)
<1>1. \A a \in Marks, c \in Marks : KeyOf(a, c) \in Keys
  BY DEF KeyOf, Keys
<1>2. << >> \in Seq(Keys) /\ \A a \in Marks, c \in Marks : <<KeyOf(a, c)>> \in Seq(Keys)
  BY <1>1, Single
<1>3. /\ Gives("letter") = <<KeyOf("A", "A")>> /\ Gives("enter") = <<KeyOf("cr", "M")>>
      /\ Gives("backspace") = <<KeyOf("bs", "backspace")>> /\ Gives("break") = << >>
      /\ Gives("bracket") = <<KeyOf("[", "[")>> /\ Gives("escape") = <<KeyOf("esc", "escape")>>
      /\ Gives("up") = <<KeyOf("nul", "up")>> /\ Gives("end") = << >>
      /\ Gives("delete") = <<KeyOf("~", "~")>>
  BY DEF Gives, Meant
<1>4. /\ Gives("letter") \in Seq(Keys) /\ Gives("enter") \in Seq(Keys)
      /\ Gives("backspace") \in Seq(Keys) /\ Gives("break") \in Seq(Keys)
      /\ Gives("bracket") \in Seq(Keys)
  BY <1>2, <1>3 DEF Marks, Bytes
<1>5. /\ Gives("escape") \in Seq(Keys) /\ Gives("up") \in Seq(Keys)
      /\ Gives("end") \in Seq(Keys) /\ Gives("delete") \in Seq(Keys)
  BY <1>2, <1>3 DEF Marks, Bytes
<1> QED
  BY StrokeNames, <1>4, <1>5

LEMMA SentTyped == \A s \in Strokes : Sent[s] \in Seq(Bytes) /\ Sent[s] # << >>
<1>1. /\ "A" \in Bytes /\ "F" \in Bytes /\ "cr" \in Bytes /\ "del" \in Bytes /\ "nul" \in Bytes
      /\ "[" \in Bytes /\ "esc" \in Bytes /\ "3" \in Bytes /\ "~" \in Bytes
  BY DEF Bytes
<1>2. /\ \A s \in {"letter", "enter", "backspace", "break", "bracket", "escape"} :
           Sent[s] \in Seq(Bytes) /\ Sent[s] # << >>
  BY <1>1, Single, SentAs
<1>3. /\ Sent["up"] \in Seq(Bytes) /\ Sent["up"] # << >>
      /\ Sent["end"] \in Seq(Bytes) /\ Sent["end"] # << >>
  BY <1>1, Apart3, SentAs
<1>4. Sent["delete"] \in Seq(Bytes) /\ Sent["delete"] # << >>
  BY <1>1, Apart4, SentAs
<1> QED
  BY StrokeNames, <1>2, <1>3, <1>4

(* One byte is fed.                                                        *)
LEMMA Fed ==
  ASSUME FeedByte, NEW byte \in Bytes, NEW rest \in Seq(Bytes), line = <<byte>> \o rest,
         NEW e, NEW typed, FedWith(byte) = [escape |-> e, keys |-> typed]
  PROVE  line' = rest /\ strokes' = strokes /\ escape' = e /\ decoded' = decoded \o typed
<1>1. Head(line) = byte /\ Tail(line) = rest
  BY Behind
<1> QED
  BY <1>1 DEF FeedByte

(* What is known where k strokes have been fed.                            *)
Window(ss, t, h, k) ==
  /\ t[k + 1] \in Seq(Bytes) /\ h[k] \in Seq(Keys)
  /\ k = Len(ss) => t[k + 1] = << >>
  /\ k # Len(ss) => /\ ss[k + 1] \in Strokes /\ k + 1 \in 0..Len(ss)
                    /\ t[k + 1] = Sent[ss[k + 1]] \o t[k + 2] /\ t[k + 2] \in Seq(Bytes)
                    /\ h[k + 1] = h[k] \o Gives(ss[k + 1])
  /\ k # 0 => ss[k] \in Strokes /\ h[k] = h[k - 1] \o Gives(ss[k]) /\ h[k - 1] \in Seq(Keys)

LEMMA QueueWindows ==
  ASSUME NEW ss \in Seq(Strokes), NEW t, Tails(ss, t), NEW h, Heard(ss, h), NEW k \in 0..Len(ss)
  PROVE  Window(ss, t, h, k)
<1>1. PICK n \in Nat : n = Len(ss)
  OBVIOUS
<1>e. \A i \in 1..n : ss[i] \in Strokes
  BY <1>1
<1>t. /\ t \in [1..(n + 1) -> Seq(Bytes)] /\ t[n + 1] = << >>
      /\ \A i \in 1..n : t[i] = Sent[ss[i]] \o t[i + 1]
  BY <1>1 DEF Tails
<1>h. /\ h \in [0..n -> Seq(Keys)]
      /\ \A i \in 1..n : h[i] = h[i - 1] \o Gives(ss[i])
  BY <1>1 DEF Heard
<1>k. k \in 0..n
  BY <1>1
<1>2. t[k + 1] \in Seq(Bytes) /\ h[k] \in Seq(Keys) /\ (k = n => t[k + 1] = << >>)
  <2>1. k + 1 \in 1..(n + 1)
    BY <1>k
  <2> QED
    BY <1>k, <1>t, <1>h, <2>1
<1>3. ASSUME k # n
      PROVE  /\ ss[k + 1] \in Strokes /\ k + 1 \in 0..n
             /\ t[k + 1] = Sent[ss[k + 1]] \o t[k + 2] /\ t[k + 2] \in Seq(Bytes)
             /\ h[k + 1] = h[k] \o Gives(ss[k + 1])
  <2>1. PICK i \in 1..n : i = k + 1 /\ i + 1 = k + 2 /\ i - 1 = k /\ i + 1 \in 1..(n + 1)
    BY <1>k, <1>3
  <2>2. t[i] = Sent[ss[i]] \o t[i + 1] /\ h[i] = h[i - 1] \o Gives(ss[i])
    BY <1>t, <1>h
  <2>3. t[i + 1] \in Seq(Bytes)
    BY <1>t, <2>1
  <2>4. ss[i] \in Strokes /\ i \in 0..n
    BY <1>e
  <2> QED
    BY <2>1, <2>2, <2>3, <2>4
<1>4. ASSUME k # 0
      PROVE  ss[k] \in Strokes /\ h[k] = h[k - 1] \o Gives(ss[k]) /\ h[k - 1] \in Seq(Keys)
  <2>1. k \in 1..n /\ k - 1 \in 0..n
    BY <1>k, <1>4
  <2> QED
    BY <1>e, <1>h, <2>1
<1> QED
  BY <1>1, <1>2, <1>3, <1>4 DEF Window

(* Between two strokes the decoder takes the first byte of the next one.   *)
LEMMA FeedBetween ==
  ASSUME strokes \in Seq(Strokes), FeedByte,
         NEW t, Tails(strokes, t), NEW h, Heard(strokes, h), NEW k \in 0..Len(strokes),
         Between(strokes, escape, line, decoded, k, t, h)
  PROVE  \E j \in 0..Len(strokes) : Spot(strokes, escape', line', decoded', j, t, h)
<1>w. Window(strokes, t, h, k)
  BY QueueWindows
<1>0. escape = 0 /\ line = t[k + 1] /\ decoded = h[k]
  BY DEF Between
<1>1. k # Len(strokes)
  BY <1>0, <1>w DEF FeedByte, Window
<1>2. PICK s \in Strokes, rest \in Seq(Bytes) :
        /\ s = strokes[k + 1] /\ rest = t[k + 2] /\ k + 1 \in 0..Len(strokes)
        /\ line = Sent[s] \o rest /\ h[k + 1] = decoded \o Gives(s)
  BY <1>0, <1>1, <1>w DEF Window
<1>3. /\ "A" \in Bytes /\ "cr" \in Bytes /\ "del" \in Bytes /\ "nul" \in Bytes
      /\ "[" \in Bytes /\ "esc" \in Bytes /\ "F" \in Bytes /\ "3" \in Bytes /\ "~" \in Bytes
  BY DEF Bytes
<1>n. (k + 1) + 1 = k + 2 /\ (k + 1) - 1 = k /\ k + 1 # 0
  OBVIOUS
<1>d. decoded \in Seq(Keys) /\ decoded \o << >> = decoded
  BY <1>0, <1>w, Joined DEF Window
<1>4. ASSUME NEW byte \in Bytes, byte # "esc", Sent[s] = <<byte>>, Plain(byte) = Gives(s)
      PROVE  Between(strokes, escape', line', decoded', k + 1, t, h)
  <2>1. FedWith(byte) = [escape |-> 0, keys |-> Plain(byte)]
    BY <1>0, <1>4 DEF FedWith
  <2>2. line' = rest /\ escape' = 0 /\ decoded' = decoded \o Plain(byte)
    BY <1>2, <1>4, <2>1, Fed
  <2> QED
    BY <1>2, <1>4, <1>n, <2>2 DEF Between
<1>5. ASSUME NEW more \in Seq(Bytes), line = <<"esc">> \o more
      PROVE  line' = more /\ escape' = 1 /\ decoded' = decoded
  <2>1. FedWith("esc") = [escape |-> 1, keys |-> << >>]
    BY <1>0 DEF FedWith
  <2> QED
    BY <1>3, <1>5, <1>d, <2>1, Fed
<1>6. CASE s \in {"letter", "enter", "backspace", "break", "bracket"}
  <2>1. Between(strokes, escape', line', decoded', k + 1, t, h)
    <3>1. s = "letter" => Between(strokes, escape', line', decoded', k + 1, t, h)
      BY <1>3, <1>4, SentAs, GivesAs
    <3>2. s = "enter" => Between(strokes, escape', line', decoded', k + 1, t, h)
      BY <1>3, <1>4, SentAs, GivesAs
    <3>3. s = "backspace" => Between(strokes, escape', line', decoded', k + 1, t, h)
      BY <1>3, <1>4, SentAs, GivesAs
    <3>4. s = "break" => Between(strokes, escape', line', decoded', k + 1, t, h)
      BY <1>3, <1>4, SentAs, GivesAs
    <3>5. s = "bracket" => Between(strokes, escape', line', decoded', k + 1, t, h)
      BY <1>3, <1>4, SentAs, GivesAs
    <3> QED
      BY <1>6, <3>1, <3>2, <3>3, <3>4, <3>5
  <2> QED
    BY <1>2, <2>1 DEF Spot
<1>7. CASE s = "escape"
  <2>1. line' = rest /\ escape' = 1 /\ decoded' = decoded
    BY <1>2, <1>5, <1>7, SentAs
  <2>2. Holding(strokes, escape', line', decoded', k + 1, t, h)
    BY <1>0, <1>2, <1>7, <1>n, <2>1 DEF Holding
  <2> QED
    BY <1>2, <2>2 DEF Spot
<1>8. ASSUME NEW more \in Seq(Bytes), line = <<"esc">> \o more, Inside(s, 1, more, rest)
      PROVE  \E j \in 0..Len(strokes) : Spot(strokes, escape', line', decoded', j, t, h)
  <2>1. line' = more /\ escape' = 1 /\ decoded' = decoded
    BY <1>5, <1>8
  <2>2. UnderWay(strokes, escape', line', decoded', k, t, h)
    BY <1>0, <1>1, <1>2, <1>8, <2>1 DEF UnderWay
  <2> QED
    BY <2>2 DEF Spot
<1>9. CASE s = "up"
  <2>1. PICK more \in Seq(Bytes) : more = <<"[">> \o (<<"A">> \o rest) /\ line = <<"esc">> \o more
    <3>1. <<"A">> \o rest \in Seq(Bytes) /\ <<"[">> \o (<<"A">> \o rest) \in Seq(Bytes)
      BY <1>3, Behind
    <3>2. <<"esc", "[", "A">> \o rest = <<"esc">> \o (<<"[">> \o (<<"A">> \o rest))
      <4>1. Opens3("esc", "[", "A", rest)
        BY <1>3, Apart3
      <4> QED
        BY <4>1 DEF Opens3
    <3> QED
      BY <1>2, <1>9, <3>1, <3>2, SentAs
  <2> QED
    BY <1>8, <1>9, <2>1 DEF Inside
<1>10. CASE s = "end"
  <2>1. PICK more \in Seq(Bytes) : more = <<"[">> \o (<<"F">> \o rest) /\ line = <<"esc">> \o more
    <3>1. <<"F">> \o rest \in Seq(Bytes) /\ <<"[">> \o (<<"F">> \o rest) \in Seq(Bytes)
      BY <1>3, Behind
    <3>2. <<"esc", "[", "F">> \o rest = <<"esc">> \o (<<"[">> \o (<<"F">> \o rest))
      <4>1. Opens3("esc", "[", "F", rest)
        BY <1>3, Apart3
      <4> QED
        BY <4>1 DEF Opens3
    <3> QED
      BY <1>2, <1>10, <3>1, <3>2, SentAs
  <2> QED
    BY <1>8, <1>10, <2>1 DEF Inside
<1>11. CASE s = "delete"
  <2>1. PICK more \in Seq(Bytes) :
          more = <<"[">> \o (<<"3">> \o (<<"~">> \o rest)) /\ line = <<"esc">> \o more
    <3>1. /\ <<"~">> \o rest \in Seq(Bytes) /\ <<"3">> \o (<<"~">> \o rest) \in Seq(Bytes)
          /\ <<"[">> \o (<<"3">> \o (<<"~">> \o rest)) \in Seq(Bytes)
      BY <1>3, Behind
    <3>2. <<"esc", "[", "3", "~">> \o rest = <<"esc">> \o (<<"[">> \o (<<"3">> \o (<<"~">> \o rest)))
      <4>1. Opens4("esc", "[", "3", "~", rest)
        BY <1>3, Apart4
      <4> QED
        BY <4>1 DEF Opens4
    <3> QED
      BY <1>2, <1>11, <3>1, <3>2, SentAs
  <2> QED
    BY <1>8, <1>11, <2>1 DEF Inside
<1> QED
  BY <1>2, <1>6, <1>7, <1>9, <1>10, <1>11, StrokeNames

(* The byte behind an Escape that is held begins a stroke that does not    *)
(* continue it.                                                            *)
LEMMA FeedHolding ==
  ASSUME strokes \in Seq(Strokes), ClearOf(strokes), FeedByte,
         NEW t, Tails(strokes, t), NEW h, Heard(strokes, h), NEW k \in 0..Len(strokes),
         Holding(strokes, escape, line, decoded, k, t, h)
  PROVE  \E j \in 0..Len(strokes) : Spot(strokes, escape', line', decoded', j, t, h)
<1>w. Window(strokes, t, h, k)
  BY QueueWindows
<1>0. k # 0 /\ strokes[k] = "escape" /\ escape = 1 /\ line = t[k + 1] /\ decoded = h[k - 1]
  BY DEF Holding
<1>1. k # Len(strokes) /\ decoded \in Seq(Keys) /\ h[k] = decoded \o Gives("escape")
  BY <1>0, <1>w DEF FeedByte, Window
<1>2. PICK s \in Strokes, rest \in Seq(Bytes) :
        /\ s = strokes[k + 1] /\ rest = t[k + 2] /\ k + 1 \in 0..Len(strokes)
        /\ line = Sent[s] \o rest /\ h[k + 1] = h[k] \o Gives(s)
  BY <1>0, <1>1, <1>w DEF Window
<1>n. (k + 1) + 1 = k + 2 /\ k \in 1..(Len(strokes) - 1)
  BY <1>0, <1>1
<1>3. s \notin Continuing
  BY <1>0, <1>2, <1>n DEF ClearOf
<1>4. /\ "A" \in Bytes /\ "cr" \in Bytes /\ "del" \in Bytes /\ "nul" \in Bytes
  BY DEF Bytes
<1>5. /\ Gives("escape") \in Seq(Keys) /\ Gives(s) \in Seq(Keys)
  <2>1. "escape" \in Strokes
    BY <1>0, <1>w DEF Window
  <2> QED
    BY <2>1, GivesTyped
<1>6. ASSUME NEW byte \in Bytes, byte \notin {"esc", "["}, Sent[s] = <<byte>>, Plain(byte) = Gives(s)
      PROVE  Between(strokes, escape', line', decoded', k + 1, t, h)
  <2>e. Held(byte) = [escape |-> 0, keys |-> Plain("esc") \o Plain(byte)]
    BY <1>6 DEF Held
  <2>p. Plain("esc") = Gives("escape")
    BY GivesAs
  <2>1. FedWith(byte) = [escape |-> 0, keys |-> Gives("escape") \o Gives(s)]
    <3>1. FedWith(byte) = Held(byte)
      BY <1>0 DEF FedWith
    <3> QED
      BY <1>6, <2>e, <2>p, <3>1
  <2>2. line' = rest /\ escape' = 0 /\ decoded' = decoded \o (Gives("escape") \o Gives(s))
    BY <1>2, <1>6, <2>1, Fed
  <2>3. (decoded \o Gives("escape")) \o Gives(s) = decoded \o (Gives("escape") \o Gives(s))
    <3>1. PICK a \in Seq(Keys), b \in Seq(Keys) : a = Gives("escape") /\ b = Gives(s)
      BY <1>5
    <3>2. (decoded \o a) \o b = decoded \o (a \o b)
      <4>1. Regroups(decoded, a, b)
        BY <1>1, Regrouped
      <4> QED
        BY <4>1 DEF Regroups
    <3> QED
      BY <3>1, <3>2
  <2> QED
    BY <1>1, <1>2, <1>n, <2>2, <2>3 DEF Between
<1>7. s \in {"letter", "enter", "backspace", "break"}
  BY <1>3, StrokeNames DEF Continuing
<1>8. s = "letter" => Between(strokes, escape', line', decoded', k + 1, t, h)
  BY <1>4, <1>6, SentAs, GivesAs
<1>9. s = "enter" => Between(strokes, escape', line', decoded', k + 1, t, h)
  BY <1>4, <1>6, SentAs, GivesAs
<1>10. s = "backspace" => Between(strokes, escape', line', decoded', k + 1, t, h)
  BY <1>4, <1>6, SentAs, GivesAs
<1>11. s = "break" => Between(strokes, escape', line', decoded', k + 1, t, h)
  BY <1>4, <1>6, SentAs, GivesAs
<1> QED
  BY <1>2, <1>7, <1>8, <1>9, <1>10, <1>11 DEF Spot

(* Inside the bytes of an arrow, of End or of Delete.                      *)
LEMMA FeedUnderWay ==
  ASSUME strokes \in Seq(Strokes), FeedByte,
         NEW t, Tails(strokes, t), NEW h, Heard(strokes, h), NEW k \in 0..Len(strokes),
         UnderWay(strokes, escape, line, decoded, k, t, h)
  PROVE  \E j \in 0..Len(strokes) : Spot(strokes, escape', line', decoded', j, t, h)
<1>w. Window(strokes, t, h, k)
  BY QueueWindows
<1>1. k # Len(strokes) /\ Inside(strokes[k + 1], escape, line, t[k + 2]) /\ decoded = h[k]
  BY DEF UnderWay
<1>2. PICK s \in Strokes, rest \in Seq(Bytes) :
        /\ s = strokes[k + 1] /\ rest = t[k + 2] /\ k + 1 \in 0..Len(strokes)
        /\ h[k + 1] = decoded \o Gives(s)
  BY <1>1, <1>w DEF Window
<1>3. /\ "A" \in Bytes /\ "[" \in Bytes /\ "F" \in Bytes /\ "3" \in Bytes /\ "~" \in Bytes
  BY DEF Bytes
<1>n. (k + 1) + 1 = k + 2
  OBVIOUS
<1>d. decoded \in Seq(Keys) /\ decoded \o << >> = decoded
  BY <1>1, <1>w, Joined DEF Window
<1>b. ASSUME line' = rest, escape' = 0, decoded' = decoded \o Gives(s)
      PROVE  \E j \in 0..Len(strokes) : Spot(strokes, escape', line', decoded', j, t, h)
  <2>1. Between(strokes, escape', line', decoded', k + 1, t, h)
    BY <1>2, <1>b, <1>n DEF Between
  <2> QED
    BY <1>2, <2>1 DEF Spot
<1>u. ASSUME Inside(s, escape', line', rest), decoded' = decoded
      PROVE  \E j \in 0..Len(strokes) : Spot(strokes, escape', line', decoded', j, t, h)
  <2>1. UnderWay(strokes, escape', line', decoded', k, t, h)
    BY <1>1, <1>2, <1>u DEF UnderWay
  <2> QED
    BY <2>1 DEF Spot
<1>4. ASSUME escape = 1, NEW more \in Seq(Bytes), line = <<"[">> \o more
      PROVE  line' = more /\ escape' = 2 /\ decoded' = decoded
  <2>1. FedWith("[") = [escape |-> 2, keys |-> << >>]
    BY <1>4 DEF FedWith, Held
  <2> QED
    BY <1>3, <1>4, <1>d, <2>1, Fed
<1>5. ASSUME escape = 2, NEW byte \in Bytes, NEW more \in Seq(Bytes), line = <<byte>> \o more,
             NEW typed, Arrow(byte) = [escape |-> 0, keys |-> typed]
      PROVE  line' = more /\ escape' = 0 /\ decoded' = decoded \o typed
  <2>1. FedWith(byte) = [escape |-> 0, keys |-> typed]
    BY <1>5 DEF FedWith
  <2> QED
    BY <1>5, <2>1, Fed
<1>6. CASE s = "up" /\ escape = 1 /\ line = <<"[">> \o (<<"A">> \o rest)
  <2>1. line' = <<"A">> \o rest /\ escape' = 2 /\ decoded' = decoded
    BY <1>3, <1>4, <1>6, Behind
  <2> QED
    BY <1>6, <1>u, <2>1 DEF Inside
<1>7. CASE s = "up" /\ escape = 2 /\ line = <<"A">> \o rest
  <2>1. line' = rest /\ escape' = 0 /\ decoded' = decoded \o Gives("up")
    BY <1>3, <1>5, <1>7, GivesAs
  <2> QED
    BY <1>7, <1>b, <2>1
<1>8. CASE s = "end" /\ escape = 1 /\ line = <<"[">> \o (<<"F">> \o rest)
  <2>1. line' = <<"F">> \o rest /\ escape' = 2 /\ decoded' = decoded
    BY <1>3, <1>4, <1>8, Behind
  <2> QED
    BY <1>8, <1>u, <2>1 DEF Inside
<1>9. CASE s = "end" /\ escape = 2 /\ line = <<"F">> \o rest
  <2>1. line' = rest /\ escape' = 0 /\ decoded' = decoded \o Gives("end")
    BY <1>3, <1>5, <1>9, GivesAs
  <2> QED
    BY <1>9, <1>b, <2>1
<1>10. CASE s = "delete" /\ escape = 1 /\ line = <<"[">> \o (<<"3">> \o (<<"~">> \o rest))
  <2>1. <<"~">> \o rest \in Seq(Bytes) /\ <<"3">> \o (<<"~">> \o rest) \in Seq(Bytes)
    BY <1>3, Behind
  <2>2. line' = <<"3">> \o (<<"~">> \o rest) /\ escape' = 2 /\ decoded' = decoded
    BY <1>4, <1>10, <2>1
  <2> QED
    BY <1>10, <1>u, <2>2 DEF Inside
<1>11. CASE s = "delete" /\ escape = 2 /\ line = <<"3">> \o (<<"~">> \o rest)
  <2>1. line' = <<"~">> \o rest /\ escape' = 0 /\ decoded' = decoded
    <3>1. PICK more \in Seq(Bytes) : more = <<"~">> \o rest
      BY <1>3, Behind
    <3>2. line' = more /\ escape' = 0 /\ decoded' = decoded \o << >>
      <4>1. Arrow("3") = [escape |-> 0, keys |-> << >>] /\ line = <<"3">> \o more
        BY <1>11, <3>1, GivesAs
      <4> QED
        BY <1>3, <1>5, <1>11, <4>1
    <3> QED
      BY <1>d, <3>1, <3>2
  <2> QED
    BY <1>11, <1>u, <2>1 DEF Inside
<1>12. CASE s = "delete" /\ escape = 0 /\ line = <<"~">> \o rest
  <2>1. FedWith("~") = [escape |-> 0, keys |-> Gives("delete")]
    BY <1>12, GivesAs DEF FedWith
  <2>2. line' = rest /\ escape' = 0 /\ decoded' = decoded \o Gives("delete")
    BY <1>3, <1>12, <2>1, Fed
  <2> QED
    BY <1>12, <1>b, <2>2
<1> QED
  BY <1>1, <1>2, <1>6, <1>7, <1>8, <1>9, <1>10, <1>11, <1>12 DEF Inside

LEMMA FeedDecodes ==
  ASSUME strokes \in Seq(Strokes), ClearOf(strokes), FeedByte,
         Decoding(strokes, escape, line, decoded)
  PROVE  Decoding(strokes, escape', line', decoded')
<1>1. PICK t, h : /\ Tails(strokes, t) /\ Heard(strokes, h)
                  /\ \E k \in 0..Len(strokes) : Spot(strokes, escape, line, decoded, k, t, h)
  BY DEF Decoding
<1>2. \E j \in 0..Len(strokes) : Spot(strokes, escape', line', decoded', j, t, h)
  BY <1>1, FeedBetween, FeedHolding, FeedUnderWay DEF Spot
<1> QED
  BY <1>1, <1>2 DEF Decoding

(* A key is pressed: its bytes are behind all the others.                  *)
LEMMA FirstKept ==
  ASSUME NEW a \in Bytes, NEW r \in Seq(Bytes), NEW x \in Seq(Bytes)
  PROVE  (<<a>> \o r) \o x = <<a>> \o (r \o x)
<1>1. Regroups(<<a>>, r, x)
  BY Single, Regrouped
<1> QED
  BY <1>1 DEF Regroups

LEMMA InsideGrows ==
  ASSUME NEW s, NEW e, NEW l, NEW rest \in Seq(Bytes), NEW x \in Seq(Bytes), Inside(s, e, l, rest)
  PROVE  Inside(s, e, l \o x, rest \o x)
<1>1. /\ "A" \in Bytes /\ "[" \in Bytes /\ "F" \in Bytes /\ "3" \in Bytes /\ "~" \in Bytes
  BY DEF Bytes
<1>2. ASSUME NEW a \in Bytes
      PROVE  /\ (<<a>> \o rest) \o x = <<a>> \o (rest \o x)
             /\ <<a>> \o rest \in Seq(Bytes)
  BY FirstKept, Behind
<1>3. ASSUME NEW a \in Bytes, NEW b \in Bytes
      PROVE  /\ (<<a>> \o (<<b>> \o rest)) \o x = <<a>> \o (<<b>> \o (rest \o x))
             /\ <<a>> \o (<<b>> \o rest) \in Seq(Bytes)
  <2>1. PICK r \in Seq(Bytes) : r = <<b>> \o rest /\ r \o x = <<b>> \o (rest \o x)
    BY <1>2
  <2>2. (<<a>> \o r) \o x = <<a>> \o (r \o x) /\ <<a>> \o r \in Seq(Bytes)
    BY FirstKept, Behind
  <2> QED
    BY <2>1, <2>2
<1>4. (<<"[">> \o (<<"3">> \o (<<"~">> \o rest))) \o x = <<"[">> \o (<<"3">> \o (<<"~">> \o (rest \o x)))
  <2>1. PICK r \in Seq(Bytes) :
          r = <<"3">> \o (<<"~">> \o rest) /\ r \o x = <<"3">> \o (<<"~">> \o (rest \o x))
    BY <1>1, <1>3
  <2>2. (<<"[">> \o r) \o x = <<"[">> \o (r \o x)
    BY <1>1, FirstKept
  <2> QED
    BY <2>1, <2>2
<1>5. CASE s = "up"
  BY <1>1, <1>2, <1>3, <1>5 DEF Inside
<1>6. CASE s = "end"
  BY <1>1, <1>2, <1>3, <1>6 DEF Inside
<1>7. CASE s = "delete"
  BY <1>1, <1>2, <1>3, <1>4, <1>7 DEF Inside
<1> QED
  BY <1>5, <1>6, <1>7 DEF Inside

(* What the line holds from each stroke on, when a stroke is added.         *)
Lengthens(ss, s, t, u) == /\ Tails(Append(ss, s), u)
                          /\ \A i \in 1..(Len(ss) + 1) : u[i] = t[i] \o Sent[s]

LEMMA TailsGrow ==
  ASSUME NEW ss \in Seq(Strokes), NEW s \in Strokes, NEW t, Tails(ss, t)
  PROVE  \E u : Lengthens(ss, s, t, u)
<1>2. PICK n \in Nat : n = Len(ss)
  OBVIOUS
<1>3. PICK x \in Seq(Bytes) : x = Sent[s]
  BY SentTyped
<1>5. PICK tt \in Seq(Strokes) :
        /\ tt = Append(ss, s) /\ Len(tt) = n + 1 /\ tt[n + 1] = s
        /\ \A i \in 1..n : tt[i] = ss[i] /\ ss[i] \in Strokes
  <2>1. /\ Append(ss, s) \in Seq(Strokes) /\ Len(Append(ss, s)) = Len(ss) + 1
        /\ Append(ss, s)[Len(ss) + 1] = s
        /\ \A i \in 1..Len(ss) : Append(ss, s)[i] = ss[i] /\ ss[i] \in Strokes
    OBVIOUS
  <2> QED
    BY <1>2, <2>1
<1>t. /\ t \in [1..(n + 1) -> Seq(Bytes)] /\ t[n + 1] = << >>
      /\ \A i \in 1..n : t[i] = Sent[ss[i]] \o t[i + 1]
  BY <1>2 DEF Tails
<1>6. \A i \in 1..(n + 1) : t[i] \o x \in Seq(Bytes)
  BY <1>t, Joined
<1>7. PICK u \in [1..(n + 2) -> Seq(Bytes)] :
        u = [i \in 1..(n + 2) |-> IF i = n + 2 THEN << >> ELSE t[i] \o x]
  <2>1. \A i \in 1..(n + 2) : (IF i = n + 2 THEN << >> ELSE t[i] \o x) \in Seq(Bytes)
    <3>1. << >> \in Seq(Bytes) /\ \A i \in 1..(n + 2) : i = n + 2 \/ i \in 1..(n + 1)
      BY Single
    <3> QED
      BY <1>6, <3>1
  <2> QED
    BY <2>1
<1>8. u[n + 2] = << >> /\ \A i \in 1..(n + 1) : u[i] = t[i] \o x
  BY <1>7
<1>10. Tails(tt, u)
  <2>1. ASSUME NEW i \in 1..(n + 1) PROVE u[i] = Sent[tt[i]] \o u[i + 1]
    <3>1. CASE i = n + 1
      <4>1. u[i] = << >> \o x /\ u[i + 1] = << >>
        <5>1. i + 1 = n + 2 /\ i \in 1..(n + 1) /\ t[i] = << >>
          BY <1>t, <3>1
        <5>2. u[i] = t[i] \o x
          BY <1>8, <5>1
        <5> QED
          BY <1>8, <5>1, <5>2
      <4>2. << >> \o x = x /\ x \o << >> = x
        BY Joined
      <4> QED
        BY <1>3, <1>5, <3>1, <4>1, <4>2
    <3>2. CASE i # n + 1
      <4>1. i \in 1..n /\ i + 1 \in 1..(n + 1)
        BY <3>2
      <4>2. PICK a \in Seq(Bytes), b \in Seq(Bytes) : a = Sent[tt[i]] /\ b = t[i + 1] /\ t[i] = a \o b
        <5>1. tt[i] = ss[i] /\ Sent[ss[i]] \in Seq(Bytes)
          BY <1>5, <4>1, SentTyped
        <5>2. t[i + 1] \in Seq(Bytes) /\ t[i] = Sent[ss[i]] \o t[i + 1]
          BY <1>t, <4>1
        <5> QED
          BY <5>1, <5>2
      <4>3. Regroups(a, b, x)
        BY Regrouped
      <4>4. u[i] = (a \o b) \o x /\ u[i + 1] = b \o x
        BY <1>8, <4>1, <4>2
      <4> QED
        BY <4>2, <4>3, <4>4 DEF Regroups
    <3> QED
      BY <3>1, <3>2
  <2> QED
    <3>1. Len(tt) + 1 = n + 2 /\ 1..Len(tt) = 1..(n + 1)
      BY <1>5
    <3> QED
      BY <1>7, <1>8, <2>1, <3>1 DEF Tails
<1>11. Lengthens(ss, s, t, u)
  BY <1>2, <1>3, <1>5, <1>8, <1>10 DEF Lengthens
<1> QED
  BY <1>11

LEMMA TypeDecodes ==
  ASSUME NEW ss \in Seq(Strokes), NEW s \in Strokes, NEW e, NEW l, NEW d, Decoding(ss, e, l, d)
  PROVE  Decoding(Append(ss, s), e, l \o Sent[s], d)
<1>1. PICK t, h : /\ Tails(ss, t) /\ Heard(ss, h)
                  /\ \E k \in 0..Len(ss) : Spot(ss, e, l, d, k, t, h)
  BY DEF Decoding
<1>2. PICK n \in Nat : n = Len(ss)
  OBVIOUS
<1>3. PICK x \in Seq(Bytes) : x = Sent[s]
  BY SentTyped
<1>4. PICK m \in Seq(Keys) : m = Gives(s)
  BY GivesTyped
<1>5. PICK tt \in Seq(Strokes) :
        /\ tt = Append(ss, s) /\ Len(tt) = n + 1 /\ tt[n + 1] = s
        /\ \A i \in 1..n : tt[i] = ss[i] /\ ss[i] \in Strokes
  <2>1. /\ Append(ss, s) \in Seq(Strokes) /\ Len(Append(ss, s)) = Len(ss) + 1
        /\ Append(ss, s)[Len(ss) + 1] = s
        /\ \A i \in 1..Len(ss) : Append(ss, s)[i] = ss[i] /\ ss[i] \in Strokes
    OBVIOUS
  <2> QED
    BY <1>2, <2>1
<1>t. /\ t \in [1..(n + 1) -> Seq(Bytes)] /\ t[n + 1] = << >>
      /\ \A i \in 1..n : t[i] = Sent[ss[i]] \o t[i + 1]
  BY <1>1, <1>2 DEF Tails
<1>h. /\ h \in [0..n -> Seq(Keys)] /\ h[0] = << >>
      /\ \A i \in 1..n : h[i] = h[i - 1] \o Gives(ss[i])
  BY <1>1, <1>2 DEF Heard
<1>6. PICK u : Lengthens(ss, s, t, u)
  BY <1>1, TailsGrow
<1>7. /\ Tails(Append(ss, s), u)
      /\ \A i \in 1..(Len(ss) + 1) : u[i] = t[i] \o Sent[s]
  BY <1>6 DEF Lengthens
<1>8. \A i \in 1..(n + 1) : u[i] = t[i] \o x
  BY <1>2, <1>3, <1>7
<1>9. PICK g \in [0..(n + 1) -> Seq(Keys)] :
        /\ g[n + 1] = h[n] \o m
        /\ \A i \in 0..n : g[i] = h[i]
  <2>1. h[n] \o m \in Seq(Keys)
    BY <1>h, Joined
  <2>2. PICK last \in Seq(Keys) : last = h[n] \o m
    BY <2>1
  <2>3. PICK g : g = [i \in 0..(n + 1) |-> IF i = n + 1 THEN last ELSE h[i]]
    OBVIOUS
  <2>4. \A i \in 0..(n + 1) : i = n + 1 \/ i \in 0..n
    OBVIOUS
  <2>5. g \in [0..(n + 1) -> Seq(Keys)]
    BY <1>h, <2>3, <2>4
  <2>6. g[n + 1] = last /\ \A i \in 0..n : g[i] = h[i]
    BY <2>3
  <2> QED
    BY <2>2, <2>5, <2>6
<1>10. Tails(tt, u)
  BY <1>5, <1>7
<1>11. Heard(tt, g)
  <2>1. ASSUME NEW i \in 1..(n + 1) PROVE g[i] = g[i - 1] \o Gives(tt[i])
    <3>1. CASE i = n + 1
      <4>1. i - 1 = n /\ n \in 0..n
        BY <3>1
      <4>2. g[i] = h[n] \o m /\ g[i - 1] = h[n] /\ Gives(tt[i]) = m
        BY <1>4, <1>5, <1>9, <3>1, <4>1
      <4> QED
        BY <4>2
    <3>2. CASE i # n + 1
      <4>1. i \in 1..n /\ i \in 0..n /\ i - 1 \in 0..n
        BY <3>2
      <4> QED
        BY <1>5, <1>9, <1>h, <4>1
    <3> QED
      BY <3>1, <3>2
  <2>2. g[0] = << >>
    BY <1>9, <1>h
  <2> QED
    BY <1>5, <1>9, <2>1, <2>2 DEF Heard
<1>12. PICK k \in 0..n : Spot(ss, e, l, d, k, t, h)
  BY <1>1, <1>2
<1>13. /\ k + 1 \in 1..(n + 1) /\ u[k + 1] = t[k + 1] \o x /\ g[k] = h[k] /\ k \in 0..(n + 1)
       /\ k # 0 => tt[k] = ss[k] /\ g[k - 1] = h[k - 1]
  <2>1. k + 1 \in 1..(n + 1) /\ k \in 0..(n + 1) /\ (k # 0 => k \in 1..n /\ k - 1 \in 0..n)
    OBVIOUS
  <2> QED
    BY <1>5, <1>8, <1>9, <2>1
<1>14. Spot(tt, e, l \o x, d, k, u, g)
  <2>1. CASE Between(ss, e, l, d, k, t, h)
    BY <1>13, <2>1 DEF Between, Spot
  <2>2. CASE Holding(ss, e, l, d, k, t, h)
    BY <1>13, <2>2 DEF Holding, Spot
  <2>3. CASE UnderWay(ss, e, l, d, k, t, h)
    <3>1. k # n /\ Inside(ss[k + 1], e, l, t[k + 2]) /\ d = h[k]
      BY <1>2, <2>3 DEF UnderWay
    <3>2. k + 1 \in 1..n /\ k + 2 \in 1..(n + 1) /\ k # n + 1
      BY <3>1
    <3>3. t[k + 2] \in Seq(Bytes) /\ u[k + 2] = t[k + 2] \o x /\ tt[k + 1] = ss[k + 1]
      BY <1>5, <1>8, <1>t, <3>2
    <3>4. Inside(ss[k + 1], e, l \o x, t[k + 2] \o x)
      BY <3>1, <3>3, InsideGrows
    <3> QED
      BY <1>5, <1>13, <3>1, <3>2, <3>3, <3>4 DEF UnderWay, Spot
  <2> QED
    BY <1>12, <2>1, <2>2, <2>3 DEF Spot
<1> QED
  BY <1>3, <1>5, <1>10, <1>11, <1>13, <1>14 DEF Decoding

LEMMA ClearBefore ==
  ASSUME NEW ss \in Seq(Strokes), NEW s \in Strokes, ClearOf(Append(ss, s))
  PROVE  ClearOf(ss)
<1>1. /\ Len(Append(ss, s)) = Len(ss) + 1 /\ Len(ss) \in Nat
      /\ \A i \in 1..Len(ss) : Append(ss, s)[i] = ss[i]
  OBVIOUS
<1>2. PICK tt : tt = Append(ss, s) /\ Len(tt) = Len(ss) + 1 /\ \A i \in 1..Len(ss) : tt[i] = ss[i]
  BY <1>1
<1>3. ClearOf(tt)
  BY <1>2
<1>4. ASSUME NEW i \in 1..Len(ss) - 1, ss[i] = "escape" PROVE ss[i + 1] \notin Continuing
  <2>1. i \in 1..Len(tt) - 1 /\ i \in 1..Len(ss) /\ i + 1 \in 1..Len(ss)
    BY <1>1, <1>2
  <2> QED
    BY <1>2, <1>3, <1>4, <2>1 DEF ClearOf
<1> QED
  BY <1>4 DEF ClearOf

LEMMA NothingTyped == Decoding(<< >>, 0, << >>, << >>)
<1>1. PICK t \in [1..1 -> Seq(Bytes)] : t[1] = << >>
  <2>1. PICK e \in Seq(Bytes) : e = << >>
    BY Single
  <2>2. PICK g : g = [i \in 1..1 |-> e]
    OBVIOUS
  <2>3. g \in [1..1 -> Seq(Bytes)] /\ g[1] = e
    BY <2>2
  <2> QED
    BY <2>1, <2>3
<1>2. PICK h \in [0..0 -> Seq(Keys)] : h[0] = << >>
  <2>1. PICK e \in Seq(Keys) : e = << >>
    BY Single
  <2>2. PICK g : g = [i \in 0..0 |-> e]
    OBVIOUS
  <2>3. g \in [0..0 -> Seq(Keys)] /\ g[0] = e
    BY <2>2
  <2> QED
    BY <2>1, <2>3
<1>3. Len(<< >>) = 0
  OBVIOUS
<1>4. PICK ss : ss = << >> /\ Len(ss) = 0
  BY <1>3
<1>5. Tails(ss, t) /\ Heard(ss, h)
  BY <1>1, <1>2, <1>4 DEF Tails, Heard
<1>6. Spot(ss, 0, << >>, << >>, 0, t, h) /\ 0 \in 0..Len(ss)
  BY <1>1, <1>2, <1>4 DEF Spot, Between
<1> QED
  BY <1>4, <1>5, <1>6 DEF Decoding

THEOREM AnsiInductive == AnsiSpec => []AnsiInv
<1>e. << >> \in Seq(Strokes)
  BY Single
<1>1. AnsiInit => AnsiInv
  BY <1>e, NothingTyped DEF AnsiInit, AnsiInv
<1>2. AnsiInv /\ [AnsiNext]_ansiVars => AnsiInv'
  <2> SUFFICES ASSUME AnsiInv, [AnsiNext]_ansiVars PROVE AnsiInv'
    OBVIOUS
  <2>1. CASE InitInput
    BY <1>e, <2>1, NothingTyped DEF InitInput, AnsiInv
  <2>2. CASE TypeStroke
    <3>1. PICK s \in Strokes : strokes' = Append(strokes, s) /\ line' = line \o Sent[s]
      BY <2>2 DEF TypeStroke
    <3>2. UNCHANGED <<escape, decoded>>
      BY <2>2 DEF TypeStroke
    <3>3. strokes \in Seq(Strokes) /\ strokes' \in Seq(Strokes)
      BY <3>1 DEF AnsiInv
    <3>4. ASSUME ClearOf(strokes') PROVE Decoding(strokes', escape, line', decoded)
      <4>1. ClearOf(strokes)
        BY <3>1, <3>3, <3>4, ClearBefore
      <4>2. Decoding(strokes, escape, line, decoded)
        BY <4>1 DEF AnsiInv
      <4> QED
        BY <3>1, <3>3, <4>2, TypeDecodes
    <3> QED
      BY <3>2, <3>3, <3>4 DEF AnsiInv
  <2>3. CASE FeedByte
    <3>1. strokes' = strokes
      BY <2>3 DEF FeedByte
    <3> QED
      BY <2>3, <3>1, FeedDecodes DEF AnsiInv
  <2>4. CASE UNCHANGED ansiVars
    BY <2>4 DEF ansiVars, AnsiInv
  <2> QED
    BY <2>1, <2>2, <2>3, <2>4 DEF AnsiNext
<1> QED
  BY <1>1, <1>2, PTL DEF AnsiSpec

(* The keys of all strokes, one after the other.                           *)
AddsUp(m, n, h) ==
  Len(m) = n /\ h[1] = m[1] /\ \A i \in 2..n : h[i] = h[i - 1] \o m[i]

LEMMA Flattened ==
  ASSUME NEW m, NEW n \in Nat \ {0}, NEW h, AddsUp(m, n, h)
  PROVE  FlattenSeq(m) = h[n]
<1>0. Len(m) = n /\ h[1] = m[1] /\ \A i \in 2..n : h[i] = h[i - 1] \o m[i]
  BY DEF AddsUp
<1> DEFINE Adds(f) == f = [i \in 1..n |-> IF i = 1 THEN m[i] ELSE f[i - 1] \o m[i]]
<1>1. PICK g : g = [i \in 1..n |-> h[i]]
  OBVIOUS
<1>2. Adds(g)
  <2>1. \A i \in 1..n : g[i] = IF i = 1 THEN m[i] ELSE g[i - 1] \o m[i]
    <3> SUFFICES ASSUME NEW i \in 1..n PROVE g[i] = IF i = 1 THEN m[i] ELSE g[i - 1] \o m[i]
      OBVIOUS
    <3>1. CASE i = 1
      BY <1>0, <1>1, <3>1
    <3>2. CASE i # 1
      <4>1. i \in 2..n /\ i - 1 \in 1..n
        BY <3>2
      <4> QED
        BY <1>0, <1>1, <3>2, <4>1
    <3> QED
      BY <3>1, <3>2
  <2> QED
    BY <1>1, <2>1
<1>3. ASSUME NEW f, Adds(f) PROVE f[n] = h[n]
  <2>1. \A i \in 1..n : f[i] = IF i = 1 THEN m[i] ELSE f[i - 1] \o m[i]
    BY <1>3
  <2> DEFINE T == {j \in Nat : j + 1 <= n => f[j + 1] = h[j + 1]}
  <2>2. 0 \in T
    BY <1>0, <2>1
  <2>3. ASSUME NEW j \in Nat, j \in T PROVE j + 1 \in T
    <3> SUFFICES ASSUME (j + 1) + 1 <= n PROVE f[(j + 1) + 1] = h[(j + 1) + 1]
      OBVIOUS
    <3>1. PICK i \in 2..n : i = (j + 1) + 1 /\ i - 1 = j + 1 /\ i \in 1..n /\ i # 1
      OBVIOUS
    <3>2. f[i] = f[i - 1] \o m[i] /\ h[i] = h[i - 1] \o m[i]
      BY <1>0, <2>1, <3>1
    <3>3. f[j + 1] = h[j + 1]
      BY <2>3
    <3> QED
      BY <3>1, <3>2, <3>3
  <2>4. Nat \subseteq T
    <3> HIDE DEF T
    <3> QED
      BY <2>2, <2>3, AllNumbers
  <2>5. PICK j \in Nat : n = j + 1
    <3>1. n - 1 \in Nat /\ n = (n - 1) + 1
      OBVIOUS
    <3> QED
      BY <3>1
  <2> QED
    BY <2>4, <2>5
<1>4. FlattenSeq(m) = (CHOOSE f : Adds(f))[n]
  BY <1>0 DEF FlattenSeq
<1>5. Adds(CHOOSE f : Adds(f))
  <2> HIDE DEF Adds
  <2> QED
    BY <1>2
<1> QED
  BY <1>3, <1>4, <1>5

LEMMA HeardAll ==
  ASSUME NEW ss \in Seq(Strokes), NEW h, Heard(ss, h)
  PROVE  FlattenSeq([i \in DOMAIN ss |-> Gives(ss[i])]) = h[Len(ss)]
<1>1. PICK n \in Nat : n = Len(ss) /\ DOMAIN ss = 1..n
  OBVIOUS
<1>h. /\ h \in [0..n -> Seq(Keys)] /\ h[0] = << >>
      /\ \A i \in 1..n : h[i] = h[i - 1] \o Gives(ss[i])
  BY <1>1 DEF Heard
<1>2. PICK m : m = [i \in 1..n |-> Gives(ss[i])]
  OBVIOUS
<1>3. m \in Seq(Seq(Keys)) /\ Len(m) = n
  <2>1. \A i \in 1..n : Gives(ss[i]) \in Seq(Keys)
    BY <1>1, GivesTyped
  <2> QED
    BY <1>2, <2>1
<1>4. CASE n = 0
  <2>1. m = << >> /\ Len(m) = 0
    BY <1>3, <1>4
  <2>2. FlattenSeq(m) = m
    BY <2>1 DEF FlattenSeq
  <2> QED
    BY <1>1, <1>2, <1>4, <1>h, <2>1, <2>2
<1>5. CASE n # 0
  <2>1. h[1] = m[1]
    <3>1. h[1] = h[0] \o Gives(ss[1]) /\ m[1] = Gives(ss[1]) /\ Gives(ss[1]) \in Seq(Keys)
      <4>1. 1 \in 1..n /\ 1 - 1 = 0
        BY <1>5
      <4> QED
        <5>1. ss[1] \in Strokes
          BY <1>1, <4>1
        <5>2. Gives(ss[1]) \in Seq(Keys)
          BY <5>1, GivesTyped
        <5>3. h[1] = h[1 - 1] \o Gives(ss[1])
          BY <1>h, <4>1
        <5> QED
          BY <1>2, <4>1, <5>2, <5>3
    <3> QED
      BY <1>h, <3>1, Joined
  <2>2. \A i \in 2..n : h[i] = h[i - 1] \o m[i]
    <3>1. \A i \in 2..n : i \in 1..n
      OBVIOUS
    <3> QED
      BY <1>2, <1>h, <3>1
  <2>3. FlattenSeq(m) = h[n]
    <3>1. AddsUp(m, n, h)
      BY <1>3, <2>1, <2>2 DEF AddsUp
    <3> QED
      BY <1>5, <3>1, Flattened
  <2> QED
    BY <1>1, <1>2, <2>3
<1> QED
  BY <1>4, <1>5

LEMMA GivenByOne ==
  \A s \in Strokes : \A k : k \in MayGive(s) => k \in UNION {MayGive(x) : x \in Strokes}
  OBVIOUS

LEMMA GivesAllowed == \A s \in Strokes : Gives(s) \in MayGive(s)
<1> SUFFICES ASSUME NEW s \in Strokes PROVE Gives(s) \in MayGive(s)
  OBVIOUS
<1>1. CASE s \notin Unsupported
  <2>1. Gives(s) = Meant(s)
    BY <1>1 DEF Unsupported, Gives
  <2> QED
    BY <1>1, <2>1 DEF MayGive
<1>2. CASE s = "end"
  BY <1>2 DEF Gives, MayGive, Unsupported
<1>3. CASE s = "enter"
  <2>1. Gives(s) = Plain("cr")
    BY <1>3, GivesAs
  <2>2. Sent[s] = <<"cr">> /\ 1 \in DOMAIN Sent[s]
    BY <1>3, SentAs
  <2>3. "cr" \in Range(Sent[s])
    BY <2>2 DEF Range
  <2> QED
    BY <1>3, <2>1, <2>3 DEF MayGive, Unsupported
<1>4. CASE s = "delete"
  <2>1. Gives(s) = Plain("~")
    BY <1>4, GivesAs
  <2>2. Sent[s] = <<"esc", "[", "3", "~">> /\ 4 \in DOMAIN Sent[s]
    BY <1>4, SentAs
  <2>3. "~" \in Range(Sent[s])
    BY <2>2 DEF Range
  <2> QED
    BY <1>4, <2>1, <2>3 DEF MayGive, Unsupported
<1> QED
  BY <1>1, <1>2, <1>3, <1>4 DEF Unsupported

GivenInOrder ==
  \E given \in [DOMAIN strokes -> UNION {MayGive(s) : s \in Strokes}] :
    /\ \A i \in DOMAIN strokes : given[i] \in MayGive(strokes[i])
    /\ decoded \o (IF escape = 1 THEN Plain("esc") ELSE << >>) = FlattenSeq(given)

LEMMA GivesInOrder ==
  ASSUME strokes \in Seq(Strokes),
         decoded \o (IF escape = 1 THEN Plain("esc") ELSE << >>)
           = FlattenSeq([i \in DOMAIN strokes |-> Gives(strokes[i])])
  PROVE  GivenInOrder
<1>1. PICK given : given = [i \in DOMAIN strokes |-> Gives(strokes[i])]
  OBVIOUS
<1>2. \A i \in DOMAIN strokes : strokes[i] \in Strokes
  OBVIOUS
<1>3. \A i \in DOMAIN strokes : given[i] \in MayGive(strokes[i])
  BY <1>1, <1>2, GivesAllowed
<1>4. given \in [DOMAIN strokes -> UNION {MayGive(s) : s \in Strokes}]
  <2>1. \A i \in DOMAIN strokes : Gives(strokes[i]) \in UNION {MayGive(s) : s \in Strokes}
    BY <1>2, GivesAllowed, GivenByOne
  <2> QED
    BY <1>1, <2>1
<1>5. decoded \o (IF escape = 1 THEN Plain("esc") ELSE << >>) = FlattenSeq(given)
  BY <1>1
<1> QED
  BY <1>3, <1>4, <1>5 DEF GivenInOrder

(* Once everything sent has been fed, in whatever pieces it came and however *)
(* many keys were pressed, a letter, "[", Backspace, Escape and an arrow    *)
(* have each given the key of a PC that they stand for, in their order, but *)
(* for a last Escape that is still held, and if no Escape was followed by   *)
(* "[" or a stroke that begins with Escape. Enter, Delete and End, which    *)
(* the decoder does not support, have given one wrong key at most and       *)
(* spoilt no other.                                                         *)
THEOREM KeystrokesAreKeys == AnsiSpec => []KeystrokesDecode
<1>1. AnsiInv => KeystrokesDecode
  <2> SUFFICES ASSUME AnsiInv, line = << >>, Clear
               PROVE  GivenInOrder
    BY DEF KeystrokesDecode, GivenInOrder
  <2> SUFFICES decoded \o (IF escape = 1 THEN Plain("esc") ELSE << >>)
                 = FlattenSeq([i \in DOMAIN strokes |-> Gives(strokes[i])])
    BY GivesInOrder DEF AnsiInv
  <2>1. strokes \in Seq(Strokes) /\ Decoding(strokes, escape, line, decoded)
    BY DEF AnsiInv, Clear, ClearOf
  <2>2. PICK t, h : /\ Tails(strokes, t) /\ Heard(strokes, h)
                    /\ \E k \in 0..Len(strokes) : Spot(strokes, escape, line, decoded, k, t, h)
    BY <2>1 DEF Decoding
  <2>3. PICK k \in 0..Len(strokes) : Spot(strokes, escape, line, decoded, k, t, h)
    BY <2>2
  <2>4. Window(strokes, t, h, k)
    BY <2>1, <2>2, QueueWindows
  <2>5. ASSUME line = t[k + 1] PROVE k = Len(strokes)
    <3> SUFFICES ASSUME k # Len(strokes) PROVE FALSE
      OBVIOUS
    <3>1. PICK a \in Seq(Bytes), b \in Seq(Bytes) : a # << >> /\ a \o b = line
      BY <2>4, <2>5, SentTyped DEF Window
    <3> QED
      BY <3>1
  <2>6. CASE Between(strokes, escape, line, decoded, k, t, h)
    <3>1. escape = 0 /\ decoded = h[k] /\ k = Len(strokes) /\ decoded \in Seq(Keys)
      BY <2>4, <2>5, <2>6 DEF Between, Window
    <3>2. decoded \o << >> = decoded
      BY <3>1, Joined
    <3>3. FlattenSeq([i \in DOMAIN strokes |-> Gives(strokes[i])]) = decoded
      BY <2>1, <2>2, <3>1, HeardAll
    <3>4. (IF escape = 1 THEN Plain("esc") ELSE << >>) = << >>
      BY <3>1
    <3> QED
      BY <3>2, <3>3, <3>4
  <2>7. CASE Holding(strokes, escape, line, decoded, k, t, h)
    <3>1. escape = 1 /\ k # 0 /\ strokes[k] = "escape" /\ decoded = h[k - 1] /\ k = Len(strokes)
      BY <2>5, <2>7 DEF Holding
    <3>2. h[k] = decoded \o Gives("escape")
      BY <2>4, <3>1 DEF Window
    <3> QED
      BY <2>1, <2>2, <3>1, <3>2, HeardAll, GivesAs
  <2>8. CASE UnderWay(strokes, escape, line, decoded, k, t, h)
    <3>1. PICK rest \in Seq(Bytes) : rest = t[k + 2] /\ Inside(strokes[k + 1], escape, line, rest)
      BY <2>4, <2>8 DEF UnderWay, Window
    <3>2. /\ "A" \in Bytes /\ "[" \in Bytes /\ "F" \in Bytes /\ "3" \in Bytes /\ "~" \in Bytes
      BY DEF Bytes
    <3>3. PICK a \in Bytes, r \in Seq(Bytes) : line = <<a>> \o r
      <4>1. \A b \in Bytes : <<b>> \o rest \in Seq(Bytes)
        BY Behind
      <4>2. \A b \in Bytes, c \in Bytes : <<b>> \o (<<c>> \o rest) \in Seq(Bytes)
        BY <4>1, Behind
      <4> QED
        BY <3>1, <3>2, <4>1, <4>2 DEF Inside
    <3> QED
      BY <3>3, Behind
  <2> QED
    BY <2>3, <2>6, <2>7, <2>8 DEF Spot
<1> QED
  BY <1>1, AnsiInductive, PTL

----------------------------------------------------------------------------
(* How many keys there may be. A held Escape may still become a key, and    *)
(* what is fed behind it or behind its bracket may be more than its share.  *)
Owed(e) == IF e = 0 THEN 0 ELSE IF e = 1 THEN 2 ELSE 1
Begun(e, n, k) == (e = 1 /\ n <= 2 * k) \/ (e = 0 /\ n + 1 <= 2 * k)
Middle(e, n, k) == e \in {0, 2} /\ n <= 2 * k
Late(e, n, k) == e = 0 /\ n <= 2 * k + 1
Behaved(f, m, k) == m + Owed(f) <= 2 * (k + 1)

(* The decoder is between two strokes, or within the bytes of one, in       *)
(* whatever state the strokes before it left it.                            *)
Ready(e, l, n, k, t) == e \in 0..2 /\ l = t[k + 1] /\ n + Owed(e) <= 2 * k
Within(e, l, n, k, rest) ==
  \/ \E c \in {"A", "F"} : l = <<"[">> \o (<<c>> \o rest) /\ Begun(e, n, k)
  \/ \E c \in {"A", "F"} : l = <<c>> \o rest /\ Middle(e, n, k)
  \/ l = <<"[">> \o (<<"3">> \o (<<"~">> \o rest)) /\ Begun(e, n, k)
  \/ l = <<"3">> \o (<<"~">> \o rest) /\ Middle(e, n, k)
  \/ l = <<"~">> \o rest /\ Late(e, n, k)
Stands(ss, e, l, n, k, t) ==
  Ready(e, l, n, k, t) \/ (k # Len(ss) /\ Within(e, l, n, k, t[k + 2]))
Counting(ss, e, l, n) ==
  \E t : Tails(ss, t) /\ \E k \in 0..Len(ss) : Stands(ss, e, l, n, k, t)
RoomInv ==
  /\ strokes \in Seq(Strokes) /\ escape \in 0..2 /\ decoded \in Seq(Keys)
  /\ Counting(strokes, escape, line, Len(decoded))

(* What one byte does to the state and to the number of keys.               *)
Gains(byte, e, n, f, m) ==
  /\ e = 0 /\ byte = "esc" => f = 1 /\ m <= n
  /\ e = 0 /\ byte # "esc" => f = 0 /\ m <= n + 1
  /\ e = 1 /\ byte = "[" => f = 2 /\ m <= n
  /\ e = 1 /\ byte = "esc" => f = 0 /\ m <= n + 1
  /\ e = 1 /\ byte \notin {"[", "esc"} => f = 0 /\ m <= n + 2
  /\ e = 2 => f = 0 /\ m <= n + 1
  /\ e = 2 /\ byte # "A" => m <= n

LEMMA PlainTyped == \A b \in Bytes : Plain(b) \in Seq(Keys) /\ Len(Plain(b)) <= 1
<1>1. \A a \in Marks, c \in Marks : KeyOf(a, c) \in Keys
  BY DEF KeyOf, Keys
<1>2. /\ << >> \in Seq(Keys) /\ Len(<< >>) <= 1
      /\ \A x \in Keys : <<x>> \in Seq(Keys) /\ Len(<<x>>) <= 1
  OBVIOUS
<1> SUFFICES ASSUME NEW b \in Bytes PROVE Plain(b) \in Seq(Keys) /\ Len(Plain(b)) <= 1
  OBVIOUS
<1>3. CASE b = "nul"
  <2>1. Plain(b) = << >>
    BY <1>3 DEF Plain, ScanOf
  <2> QED
    BY <1>2, <2>1
<1>4. CASE b # "nul"
  <2>1. ScanOf(b) \in Marks /\ ScanOf(b) # "none"
    BY <1>4 DEF ScanOf, Marks, Bytes
  <2>2. PICK a \in Marks : a = IF b = "del" THEN "bs" ELSE b
    BY DEF Marks
  <2>3. Plain(b) = <<KeyOf(a, ScanOf(b))>>
    BY <2>1, <2>2 DEF Plain
  <2> QED
    BY <1>1, <1>2, <2>1, <2>3
<1> QED
  BY <1>3, <1>4

LEMMA ArrowTyped ==
  \A b \in Bytes : \E typed \in Seq(Keys) :
    /\ Arrow(b) = [escape |-> 0, keys |-> typed]
    /\ Len(typed) <= 1 /\ (b # "A" => Len(typed) <= 0)
<1> SUFFICES ASSUME NEW b \in Bytes
             PROVE  \E typed \in Seq(Keys) : /\ Arrow(b) = [escape |-> 0, keys |-> typed]
                                             /\ Len(typed) <= 1 /\ (b # "A" => Len(typed) <= 0)
  OBVIOUS
<1>1. PICK x \in Keys : x = KeyOf("nul", "up")
  BY DEF KeyOf, Keys, Marks, Bytes
<1>5. /\ << >> \in Seq(Keys) /\ Len(<< >>) = 0
      /\ <<x>> \in Seq(Keys) /\ Len(<<x>>) = 1
  OBVIOUS
<1>2. PICK none \in Seq(Keys), one \in Seq(Keys) :
        none = << >> /\ Len(none) = 0 /\ one = <<x>> /\ Len(one) = 1
  BY <1>5
<1>3. CASE b = "A"
  <2>1. Arrow(b) = [escape |-> 0, keys |-> one]
    BY <1>1, <1>2, <1>3 DEF Arrow
  <2> WITNESS one \in Seq(Keys)
  <2> QED
    BY <1>2, <1>3, <2>1
<1>4. CASE b # "A"
  <2>1. Arrow(b) = [escape |-> 0, keys |-> none]
    BY <1>2, <1>4 DEF Arrow
  <2> WITNESS none \in Seq(Keys)
  <2> QED
    BY <1>2, <2>1
<1> QED
  BY <1>3, <1>4

LEMMA FedGains ==
  ASSUME FeedByte, decoded \in Seq(Keys), escape \in 0..2,
         NEW byte \in Bytes, NEW rest \in Seq(Bytes), line = <<byte>> \o rest
  PROVE  /\ line' = rest /\ strokes' = strokes /\ escape' \in 0..2 /\ decoded' \in Seq(Keys)
         /\ Gains(byte, escape, Len(decoded), escape', Len(decoded'))
<1>1. ASSUME NEW typed \in Seq(Keys), NEW n \in Nat, Len(typed) <= n, decoded' = decoded \o typed
      PROVE  decoded' \in Seq(Keys) /\ Len(decoded') <= Len(decoded) + n /\ Len(decoded') \in Nat
  <2>1. decoded \o typed \in Seq(Keys) /\ Len(decoded \o typed) = Len(decoded) + Len(typed)
    OBVIOUS
  <2> QED
    BY <1>1, <2>1
<1>2. ASSUME NEW e \in 0..2, NEW typed \in Seq(Keys), FedWith(byte) = [escape |-> e, keys |-> typed],
             NEW n \in Nat, Len(typed) <= n
      PROVE  /\ line' = rest /\ strokes' = strokes /\ escape' = e
             /\ decoded' \in Seq(Keys) /\ Len(decoded') <= Len(decoded) + n
  BY <1>1, <1>2, Fed
<1>9. << >> \in Seq(Keys) /\ Len(<< >>) <= 0
  OBVIOUS
<1>3. Len(decoded) \in Nat /\ Len(decoded) + 0 = Len(decoded)
  OBVIOUS
<1>4. "esc" \in Bytes
  BY DEF Bytes
<1>5. CASE escape = 0 /\ byte = "esc"
  <2>3. FedWith(byte) = [escape |-> 1, keys |-> << >>]
    BY <1>5 DEF FedWith
  <2>1. PICK typed \in Seq(Keys) : Len(typed) <= 0 /\ FedWith(byte) = [escape |-> 1, keys |-> typed]
    BY <1>9, <2>3
  <2>2. /\ line' = rest /\ strokes' = strokes /\ escape' = 1
        /\ decoded' \in Seq(Keys) /\ Len(decoded') <= Len(decoded) + 0
    BY <1>2, <2>1
  <2> QED
    BY <1>3, <1>5, <2>2 DEF Gains
<1>6. CASE escape = 0 /\ byte # "esc"
  <2>1. FedWith(byte) = [escape |-> 0, keys |-> Plain(byte)]
    BY <1>6 DEF FedWith
  <2>2. /\ line' = rest /\ strokes' = strokes /\ escape' = 0
        /\ decoded' \in Seq(Keys) /\ Len(decoded') <= Len(decoded) + 1
    BY <1>2, <2>1, PlainTyped
  <2> QED
    BY <1>6, <2>2 DEF Gains
<1>7. CASE escape = 1
  <2>0. FedWith(byte) = Held(byte)
    BY <1>7 DEF FedWith
  <2>1. CASE byte = "["
    <3>3. FedWith(byte) = [escape |-> 2, keys |-> << >>]
      BY <2>0, <2>1 DEF Held
    <3>1. PICK typed \in Seq(Keys) : Len(typed) <= 0 /\ FedWith(byte) = [escape |-> 2, keys |-> typed]
      BY <1>9, <3>3
    <3>2. /\ line' = rest /\ strokes' = strokes /\ escape' = 2
          /\ decoded' \in Seq(Keys) /\ Len(decoded') <= Len(decoded) + 0
      BY <1>2, <3>1
    <3> QED
      BY <1>3, <1>7, <2>1, <3>2 DEF Gains
  <2>2. CASE byte = "esc"
    <3>1. FedWith(byte) = [escape |-> 0, keys |-> Plain("esc")]
      BY <2>0, <2>2 DEF Held
    <3>2. /\ line' = rest /\ strokes' = strokes /\ escape' = 0
          /\ decoded' \in Seq(Keys) /\ Len(decoded') <= Len(decoded) + 1
      BY <1>2, <1>4, <3>1, PlainTyped
    <3> QED
      BY <1>7, <2>2, <3>2 DEF Gains
  <2>3. CASE byte \notin {"[", "esc"}
    <3>1. FedWith(byte) = [escape |-> 0, keys |-> Plain("esc") \o Plain(byte)]
      BY <2>0, <2>3 DEF Held
    <3>2. PICK a \in Seq(Keys), b \in Seq(Keys) :
            a = Plain("esc") /\ b = Plain(byte) /\ Len(a) <= 1 /\ Len(b) <= 1
      BY <1>4, PlainTyped
    <3>5. a \o b \in Seq(Keys) /\ Len(a \o b) <= 2
      BY <3>2
    <3>3. PICK both \in Seq(Keys) : Len(both) <= 2 /\ FedWith(byte) = [escape |-> 0, keys |-> both]
      BY <3>1, <3>2, <3>5
    <3>4. /\ line' = rest /\ strokes' = strokes /\ escape' = 0
          /\ decoded' \in Seq(Keys) /\ Len(decoded') <= Len(decoded) + 2
      BY <1>2, <3>3
    <3> QED
      BY <1>7, <2>3, <3>4 DEF Gains
  <2> QED
    BY <2>1, <2>2, <2>3
<1>8. CASE escape = 2
  <2>1. PICK typed \in Seq(Keys) : /\ Arrow(byte) = [escape |-> 0, keys |-> typed]
                                   /\ Len(typed) <= 1 /\ (byte # "A" => Len(typed) <= 0)
    BY ArrowTyped
  <2>2. FedWith(byte) = [escape |-> 0, keys |-> typed]
    BY <1>8, <2>1 DEF FedWith
  <2>3. /\ line' = rest /\ strokes' = strokes /\ escape' = 0
        /\ decoded' \in Seq(Keys) /\ Len(decoded') <= Len(decoded) + 1
    BY <1>2, <2>1, <2>2
  <2>4. byte # "A" => Len(decoded') <= Len(decoded) + 0
    BY <1>2, <2>1, <2>2
  <2> QED
    BY <1>3, <1>8, <2>3, <2>4 DEF Gains
<1> QED
  BY <1>5, <1>6, <1>7, <1>8

(* The first byte of a stroke.                                              *)
LEMMA GainsReady ==
  ASSUME NEW byte, NEW e \in 0..2, NEW f \in 0..2, NEW n \in Nat, NEW m \in Nat, NEW k \in Nat,
         Gains(byte, e, n, f, m), n + Owed(e) <= 2 * k
  PROVE  /\ byte \in {"A", "cr", "del", "nul", "[", "esc"} => Behaved(f, m, k)
         /\ byte = "esc" => Begun(f, m, k)
<1>1. CASE e = 0
  BY <1>1 DEF Gains, Owed, Begun, Behaved
<1>2. CASE e = 1
  BY <1>2 DEF Gains, Owed, Begun, Behaved
<1>3. CASE e = 2
  BY <1>3 DEF Gains, Owed, Begun, Behaved
<1> QED
  BY <1>1, <1>2, <1>3

(* The bytes behind it.                                                     *)
LEMMA GainsWithin ==
  ASSUME NEW byte, NEW e \in 0..2, NEW f \in 0..2, NEW n \in Nat, NEW m \in Nat, NEW k \in Nat,
         Gains(byte, e, n, f, m)
  PROVE  /\ byte = "[" /\ Begun(e, n, k) => Middle(f, m, k)
         /\ byte \in {"A", "F"} /\ Middle(e, n, k) => Behaved(f, m, k)
         /\ byte = "3" /\ Middle(e, n, k) => Late(f, m, k)
         /\ byte = "~" /\ Late(e, n, k) => Behaved(f, m, k)
<1>1. CASE e = 0
  BY <1>1 DEF Gains, Owed, Begun, Middle, Late, Behaved
<1>2. CASE e = 1
  BY <1>2 DEF Gains, Owed, Begun, Middle, Late, Behaved
<1>3. CASE e = 2
  BY <1>3 DEF Gains, Owed, Begun, Middle, Late, Behaved
<1> QED
  BY <1>1, <1>2, <1>3

(* A byte is fed.                                                           *)
LEMMA FeedReady ==
  ASSUME strokes \in Seq(Strokes), FeedByte, escape \in 0..2, decoded \in Seq(Keys),
         NEW t, Tails(strokes, t), NEW k \in 0..Len(strokes),
         Ready(escape, line, Len(decoded), k, t)
  PROVE  /\ escape' \in 0..2 /\ decoded' \in Seq(Keys) /\ strokes' = strokes
         /\ \E j \in 0..Len(strokes) : Stands(strokes, escape', line', Len(decoded'), j, t)
<1>k. k \in Nat
  OBVIOUS
<1>1. PICK n \in Nat : n = Len(decoded) /\ n + Owed(escape) <= 2 * k /\ line = t[k + 1]
  BY DEF Ready
<1>2. k # Len(strokes)
  BY <1>1 DEF FeedByte, Tails
<1>3. PICK s \in Strokes, rest \in Seq(Bytes) :
        /\ s = strokes[k + 1] /\ rest = t[k + 2] /\ k + 1 \in 0..Len(strokes)
        /\ line = Sent[s] \o rest
  <2>1. PICK i \in 1..Len(strokes) : i = k + 1 /\ i + 1 = k + 2
    BY <1>2
  <2>2. t[i] = Sent[strokes[i]] \o t[i + 1]
    BY DEF Tails
  <2>3. t[i + 1] \in Seq(Bytes)
    <3>1. i + 1 \in 1..(Len(strokes) + 1)
      OBVIOUS
    <3> QED
      BY <3>1 DEF Tails
  <2>4. PICK s \in Strokes : s = strokes[i]
    OBVIOUS
  <2>5. PICK rest \in Seq(Bytes) : rest = t[i + 1]
    BY <2>3
  <2>6. line = Sent[s] \o rest
    BY <1>1, <2>1, <2>2, <2>4, <2>5
  <2>7. k + 1 \in 0..Len(strokes)
    BY <2>1
  <2> QED
    BY <2>1, <2>4, <2>5, <2>6, <2>7
<1>4. /\ "A" \in Bytes /\ "cr" \in Bytes /\ "del" \in Bytes /\ "nul" \in Bytes
      /\ "[" \in Bytes /\ "esc" \in Bytes /\ "F" \in Bytes /\ "3" \in Bytes /\ "~" \in Bytes
  BY DEF Bytes
<1>n. (k + 1) + 1 = k + 2
  OBVIOUS
<1>5. ASSUME NEW byte \in Bytes, NEW more \in Seq(Bytes), line = <<byte>> \o more
      PROVE  /\ line' = more /\ escape' \in 0..2 /\ decoded' \in Seq(Keys) /\ strokes' = strokes
             /\ byte \in {"A", "cr", "del", "nul", "[", "esc"} =>
                  Behaved(escape', Len(decoded'), k)
             /\ byte = "esc" => Begun(escape', Len(decoded'), k)
  <2>1. /\ line' = more /\ escape' \in 0..2 /\ decoded' \in Seq(Keys) /\ strokes' = strokes
        /\ Gains(byte, escape, n, escape', Len(decoded'))
    BY <1>1, <1>5, FedGains
  <2>2. PICK m \in Nat, f \in 0..2 : m = Len(decoded') /\ f = escape'
    BY <2>1
  <2>3. Gains(byte, escape, n, f, m)
    BY <2>1, <2>2
  <2>4. /\ byte \in {"A", "cr", "del", "nul", "[", "esc"} => Behaved(f, m, k)
        /\ byte = "esc" => Begun(f, m, k)
    BY <1>1, <1>k, <2>3, GainsReady
  <2> QED
    BY <2>1, <2>2, <2>4
<1>6. ASSUME NEW byte \in {"A", "cr", "del", "nul", "[", "esc"}, Sent[s] = <<byte>>
      PROVE  /\ escape' \in 0..2 /\ decoded' \in Seq(Keys) /\ strokes' = strokes
             /\ \E j \in 0..Len(strokes) : Stands(strokes, escape', line', Len(decoded'), j, t)
  <2>1. /\ line' = rest /\ escape' \in 0..2 /\ decoded' \in Seq(Keys) /\ strokes' = strokes
        /\ Behaved(escape', Len(decoded'), k)
    BY <1>3, <1>4, <1>5, <1>6
  <2>2. Ready(escape', line', Len(decoded'), k + 1, t)
    BY <1>3, <1>n, <2>1 DEF Ready, Behaved
  <2> QED
    BY <1>3, <2>1, <2>2 DEF Stands
<1>7. ASSUME NEW more \in Seq(Bytes), line = <<"esc">> \o more,
             Begun(escape', Len(decoded'), k) => Within(escape', more, Len(decoded'), k, rest)
      PROVE  /\ escape' \in 0..2 /\ decoded' \in Seq(Keys) /\ strokes' = strokes
             /\ \E j \in 0..Len(strokes) : Stands(strokes, escape', line', Len(decoded'), j, t)
  <2>1. /\ line' = more /\ escape' \in 0..2 /\ decoded' \in Seq(Keys) /\ strokes' = strokes
        /\ Begun(escape', Len(decoded'), k)
    BY <1>4, <1>5, <1>7
  <2>2. Within(escape', line', Len(decoded'), k, t[k + 2])
    BY <1>3, <1>7, <2>1
  <2> QED
    BY <1>2, <2>1, <2>2 DEF Stands
<1>8. CASE s \in {"letter", "enter", "backspace", "break", "bracket", "escape"}
  BY <1>6, <1>8, SentAs
<1>9. ASSUME NEW c \in {"A", "F"}, Sent[s] = <<"esc", "[", c>>
      PROVE  /\ escape' \in 0..2 /\ decoded' \in Seq(Keys) /\ strokes' = strokes
             /\ \E j \in 0..Len(strokes) : Stands(strokes, escape', line', Len(decoded'), j, t)
  <2>1. PICK more \in Seq(Bytes) : more = <<"[">> \o (<<c>> \o rest) /\ line = <<"esc">> \o more
    <3>1. <<c>> \o rest \in Seq(Bytes) /\ <<"[">> \o (<<c>> \o rest) \in Seq(Bytes)
      BY <1>4, Behind
    <3>2. <<"esc", "[", c>> \o rest = <<"esc">> \o (<<"[">> \o (<<c>> \o rest))
      <4>1. Opens3("esc", "[", c, rest)
        BY <1>4, Apart3
      <4> QED
        BY <4>1 DEF Opens3
    <3> QED
      BY <1>3, <1>9, <3>1, <3>2
  <2> QED
    BY <1>7, <2>1 DEF Within
<1>10. CASE s \in {"up", "end"}
  BY <1>9, <1>10, SentAs
<1>11. CASE s = "delete"
  <2>1. PICK more \in Seq(Bytes) :
          more = <<"[">> \o (<<"3">> \o (<<"~">> \o rest)) /\ line = <<"esc">> \o more
    <3>1. /\ <<"~">> \o rest \in Seq(Bytes) /\ <<"3">> \o (<<"~">> \o rest) \in Seq(Bytes)
          /\ <<"[">> \o (<<"3">> \o (<<"~">> \o rest)) \in Seq(Bytes)
      BY <1>4, Behind
    <3>2. <<"esc", "[", "3", "~">> \o rest = <<"esc">> \o (<<"[">> \o (<<"3">> \o (<<"~">> \o rest)))
      <4>1. Opens4("esc", "[", "3", "~", rest)
        BY <1>4, Apart4
      <4> QED
        BY <4>1 DEF Opens4
    <3> QED
      BY <1>3, <1>11, <3>1, <3>2, SentAs
  <2> QED
    BY <1>7, <2>1 DEF Within
<1> QED
  BY <1>8, <1>10, <1>11, StrokeNames

LEMMA FeedWithin ==
  ASSUME strokes \in Seq(Strokes), FeedByte, escape \in 0..2, decoded \in Seq(Keys),
         NEW t, Tails(strokes, t), NEW k \in 0..Len(strokes), k # Len(strokes),
         Within(escape, line, Len(decoded), k, t[k + 2])
  PROVE  /\ escape' \in 0..2 /\ decoded' \in Seq(Keys) /\ strokes' = strokes
         /\ \E j \in 0..Len(strokes) : Stands(strokes, escape', line', Len(decoded'), j, t)
<1>k. k \in Nat
  OBVIOUS
<1>1. PICK n \in Nat, rest \in Seq(Bytes) :
        /\ n = Len(decoded) /\ rest = t[k + 2] /\ Within(escape, line, n, k, rest)
        /\ k + 1 \in 0..Len(strokes) /\ (k + 1) + 1 = k + 2
  <2>1. t[k + 2] \in Seq(Bytes)
    <3>1. k + 2 \in 1..(Len(strokes) + 1)
      OBVIOUS
    <3> QED
      BY <3>1 DEF Tails
  <2> QED
    BY <2>1
<1>4. /\ "A" \in Bytes /\ "[" \in Bytes /\ "F" \in Bytes /\ "3" \in Bytes /\ "~" \in Bytes
  BY DEF Bytes
<1>5. ASSUME NEW byte \in Bytes, NEW more \in Seq(Bytes), line = <<byte>> \o more
      PROVE  /\ line' = more /\ escape' \in 0..2 /\ decoded' \in Seq(Keys) /\ strokes' = strokes
             /\ byte = "[" /\ Begun(escape, n, k) => Middle(escape', Len(decoded'), k)
             /\ byte \in {"A", "F"} /\ Middle(escape, n, k) =>
                  Behaved(escape', Len(decoded'), k)
             /\ byte = "3" /\ Middle(escape, n, k) => Late(escape', Len(decoded'), k)
             /\ byte = "~" /\ Late(escape, n, k) => Behaved(escape', Len(decoded'), k)
  <2>1. /\ line' = more /\ escape' \in 0..2 /\ decoded' \in Seq(Keys) /\ strokes' = strokes
        /\ Gains(byte, escape, n, escape', Len(decoded'))
    BY <1>1, <1>5, FedGains
  <2>2. PICK m \in Nat, f \in 0..2 : m = Len(decoded') /\ f = escape'
    BY <2>1
  <2>3. Gains(byte, escape, n, f, m)
    BY <2>1, <2>2
  <2>4. /\ byte = "[" /\ Begun(escape, n, k) => Middle(f, m, k)
        /\ byte \in {"A", "F"} /\ Middle(escape, n, k) => Behaved(f, m, k)
        /\ byte = "3" /\ Middle(escape, n, k) => Late(f, m, k)
        /\ byte = "~" /\ Late(escape, n, k) => Behaved(f, m, k)
    BY <1>k, <2>3, GainsWithin
  <2> QED
    BY <2>1, <2>2, <2>4
<1>6. ASSUME line' = rest, escape' \in 0..2, decoded' \in Seq(Keys), strokes' = strokes,
             Behaved(escape', Len(decoded'), k)
      PROVE  /\ escape' \in 0..2 /\ decoded' \in Seq(Keys) /\ strokes' = strokes
             /\ \E j \in 0..Len(strokes) : Stands(strokes, escape', line', Len(decoded'), j, t)
  <2>1. Ready(escape', line', Len(decoded'), k + 1, t)
    BY <1>1, <1>6 DEF Ready, Behaved
  <2> QED
    BY <1>1, <1>6, <2>1 DEF Stands
<1>7. ASSUME escape' \in 0..2, decoded' \in Seq(Keys), strokes' = strokes,
             Within(escape', line', Len(decoded'), k, rest)
      PROVE  /\ escape' \in 0..2 /\ decoded' \in Seq(Keys) /\ strokes' = strokes
             /\ \E j \in 0..Len(strokes) : Stands(strokes, escape', line', Len(decoded'), j, t)
  BY <1>1, <1>7 DEF Stands
<1>8. \A b \in Bytes : <<b>> \o rest \in Seq(Bytes)
  BY Behind
<1>9. ASSUME NEW c \in {"A", "F"}, line = <<"[">> \o (<<c>> \o rest), Begun(escape, n, k)
      PROVE  /\ escape' \in 0..2 /\ decoded' \in Seq(Keys) /\ strokes' = strokes
             /\ \E j \in 0..Len(strokes) : Stands(strokes, escape', line', Len(decoded'), j, t)
  <2>1. PICK more \in Seq(Bytes) : more = <<c>> \o rest /\ line = <<"[">> \o more
    BY <1>4, <1>8, <1>9
  <2>2. /\ line' = more /\ escape' \in 0..2 /\ decoded' \in Seq(Keys) /\ strokes' = strokes
        /\ Middle(escape', Len(decoded'), k)
    BY <1>4, <1>5, <1>9, <2>1
  <2>3. Within(escape', line', Len(decoded'), k, rest)
    BY <2>1, <2>2 DEF Within
  <2> QED
    BY <1>7, <2>2, <2>3
<1>10. ASSUME NEW c \in {"A", "F"}, line = <<c>> \o rest, Middle(escape, n, k)
       PROVE  /\ escape' \in 0..2 /\ decoded' \in Seq(Keys) /\ strokes' = strokes
              /\ \E j \in 0..Len(strokes) : Stands(strokes, escape', line', Len(decoded'), j, t)
  <2>1. /\ line' = rest /\ escape' \in 0..2 /\ decoded' \in Seq(Keys) /\ strokes' = strokes
        /\ Behaved(escape', Len(decoded'), k)
    BY <1>4, <1>5, <1>10
  <2> QED
    BY <1>6, <2>1
<1>11. CASE line = <<"[">> \o (<<"3">> \o (<<"~">> \o rest)) /\ Begun(escape, n, k)
  <2>1. PICK more \in Seq(Bytes) : more = <<"3">> \o (<<"~">> \o rest) /\ line = <<"[">> \o more
    BY <1>4, <1>8, <1>11, Behind
  <2>2. /\ line' = more /\ escape' \in 0..2 /\ decoded' \in Seq(Keys) /\ strokes' = strokes
        /\ Middle(escape', Len(decoded'), k)
    BY <1>4, <1>5, <1>11, <2>1
  <2>3. Within(escape', line', Len(decoded'), k, rest)
    BY <2>1, <2>2 DEF Within
  <2> QED
    BY <1>7, <2>2, <2>3
<1>12. CASE line = <<"3">> \o (<<"~">> \o rest) /\ Middle(escape, n, k)
  <2>1. PICK more \in Seq(Bytes) : more = <<"~">> \o rest /\ line = <<"3">> \o more
    BY <1>4, <1>8, <1>12
  <2>2. /\ line' = more /\ escape' \in 0..2 /\ decoded' \in Seq(Keys) /\ strokes' = strokes
        /\ Late(escape', Len(decoded'), k)
    BY <1>4, <1>5, <1>12, <2>1
  <2>3. Within(escape', line', Len(decoded'), k, rest)
    BY <2>1, <2>2 DEF Within
  <2> QED
    BY <1>7, <2>2, <2>3
<1>13. CASE line = <<"~">> \o rest /\ Late(escape, n, k)
  <2>1. /\ line' = rest /\ escape' \in 0..2 /\ decoded' \in Seq(Keys) /\ strokes' = strokes
        /\ Behaved(escape', Len(decoded'), k)
    BY <1>4, <1>5, <1>13
  <2> QED
    BY <1>6, <2>1
<1> QED
  BY <1>1, <1>9, <1>10, <1>11, <1>12, <1>13 DEF Within

LEMMA WithinGrows ==
  ASSUME NEW e, NEW l, NEW n, NEW k, NEW rest \in Seq(Bytes), NEW x \in Seq(Bytes),
         Within(e, l, n, k, rest)
  PROVE  Within(e, l \o x, n, k, rest \o x)
<1>1. /\ "A" \in Bytes /\ "[" \in Bytes /\ "F" \in Bytes /\ "3" \in Bytes /\ "~" \in Bytes
  BY DEF Bytes
<1>2. ASSUME NEW a \in Bytes
      PROVE  (<<a>> \o rest) \o x = <<a>> \o (rest \o x) /\ <<a>> \o rest \in Seq(Bytes)
  BY FirstKept, Behind
<1>3. ASSUME NEW a \in Bytes, NEW b \in Bytes
      PROVE  /\ (<<a>> \o (<<b>> \o rest)) \o x = <<a>> \o (<<b>> \o (rest \o x))
             /\ <<a>> \o (<<b>> \o rest) \in Seq(Bytes)
  <2>1. PICK r \in Seq(Bytes) : r = <<b>> \o rest /\ r \o x = <<b>> \o (rest \o x)
    BY <1>2
  <2>2. (<<a>> \o r) \o x = <<a>> \o (r \o x) /\ <<a>> \o r \in Seq(Bytes)
    BY FirstKept, Behind
  <2> QED
    BY <2>1, <2>2
<1>4. (<<"[">> \o (<<"3">> \o (<<"~">> \o rest))) \o x = <<"[">> \o (<<"3">> \o (<<"~">> \o (rest \o x)))
  <2>1. PICK r \in Seq(Bytes) :
          r = <<"3">> \o (<<"~">> \o rest) /\ r \o x = <<"3">> \o (<<"~">> \o (rest \o x))
    BY <1>1, <1>3
  <2>2. (<<"[">> \o r) \o x = <<"[">> \o (r \o x)
    BY <1>1, FirstKept
  <2> QED
    BY <2>1, <2>2
<1>5. ASSUME NEW c \in {"A", "F"}, l = <<"[">> \o (<<c>> \o rest), Begun(e, n, k)
      PROVE  Within(e, l \o x, n, k, rest \o x)
  <2>1. l \o x = <<"[">> \o (<<c>> \o (rest \o x))
    BY <1>1, <1>3, <1>5
  <2> QED
    BY <1>5, <2>1 DEF Within
<1>6. ASSUME NEW c \in {"A", "F"}, l = <<c>> \o rest, Middle(e, n, k)
      PROVE  Within(e, l \o x, n, k, rest \o x)
  <2>1. l \o x = <<c>> \o (rest \o x)
    BY <1>1, <1>2, <1>6
  <2> QED
    BY <1>6, <2>1 DEF Within
<1>7. CASE l = <<"[">> \o (<<"3">> \o (<<"~">> \o rest)) /\ Begun(e, n, k)
  BY <1>4, <1>7 DEF Within
<1>8. CASE l = <<"3">> \o (<<"~">> \o rest) /\ Middle(e, n, k)
  <2>1. l \o x = <<"3">> \o (<<"~">> \o (rest \o x))
    BY <1>1, <1>3, <1>8
  <2> QED
    BY <1>8, <2>1 DEF Within
<1>9. CASE l = <<"~">> \o rest /\ Late(e, n, k)
  <2>1. l \o x = <<"~">> \o (rest \o x)
    BY <1>1, <1>2, <1>9
  <2> QED
    BY <1>9, <2>1 DEF Within
<1> QED
  BY <1>5, <1>6, <1>7, <1>8, <1>9 DEF Within

LEMMA TypeCounts ==
  ASSUME NEW ss \in Seq(Strokes), NEW s \in Strokes, NEW e, NEW l, NEW n, Counting(ss, e, l, n)
  PROVE  Counting(Append(ss, s), e, l \o Sent[s], n)
<1>1. PICK t : Tails(ss, t) /\ \E k \in 0..Len(ss) : Stands(ss, e, l, n, k, t)
  BY DEF Counting
<1>2. PICK k \in 0..Len(ss) : Stands(ss, e, l, n, k, t)
  BY <1>1
<1>9. PICK u : Lengthens(ss, s, t, u)
  BY <1>1, TailsGrow
<1>3. /\ Tails(Append(ss, s), u)
      /\ \A i \in 1..(Len(ss) + 1) : u[i] = t[i] \o Sent[s]
  BY <1>9 DEF Lengthens
<1>4. PICK x \in Seq(Bytes) : x = Sent[s]
  BY SentTyped
<1>8. Len(Append(ss, s)) = Len(ss) + 1
  OBVIOUS
<1>5. PICK tt : tt = Append(ss, s) /\ Len(tt) = Len(ss) + 1
  BY <1>8
<1>6. k + 1 \in 1..(Len(ss) + 1) /\ k \in 0..Len(tt) /\ k # Len(tt)
  BY <1>5
<1>7. Stands(tt, e, l \o x, n, k, u)
  <2>1. CASE Ready(e, l, n, k, t)
    BY <1>3, <1>4, <1>6, <2>1 DEF Ready, Stands
  <2>2. CASE k # Len(ss) /\ Within(e, l, n, k, t[k + 2])
    <3>1. PICK rest \in Seq(Bytes) : rest = t[k + 2] /\ u[k + 2] = rest \o x
      <4>1. k + 2 \in 1..(Len(ss) + 1)
        BY <2>2
      <4> QED
        BY <1>1, <1>3, <1>4, <4>1 DEF Tails
    <3>2. Within(e, l \o x, n, k, rest \o x)
      BY <2>2, <3>1, WithinGrows
    <3> QED
      BY <1>6, <3>1, <3>2 DEF Stands
  <2> QED
    BY <1>2, <2>1, <2>2 DEF Stands
<1> QED
  BY <1>3, <1>4, <1>5, <1>6, <1>7 DEF Counting

LEMMA NothingCounted == Counting(<< >>, 0, << >>, 0)
<1>1. PICK t, h : Tails(<< >>, t) /\ Heard(<< >>, h)
  BY NothingTyped DEF Decoding
<1>2. Len(<< >>) = 0 /\ t[1] = << >>
  <2>1. Len(<< >>) = 0
    OBVIOUS
  <2> QED
    BY <1>1, <2>1 DEF Tails
<1>3. PICK ss : ss = << >> /\ Len(ss) = 0
  BY <1>2
<1>4. Stands(ss, 0, << >>, 0, 0, t) /\ 0 \in 0..Len(ss)
  BY <1>2, <1>3 DEF Stands, Ready, Owed
<1> QED
  BY <1>1, <1>3, <1>4 DEF Counting

(* However keys are pressed and their bytes arrive, the decoder's state is  *)
(* one of its three, and it never makes more than two keys of a stroke.     *)
THEOREM AnsiTypeCorrect == AnsiSpec => []AnsiTypeOK
<1>e. << >> \in Seq(Strokes) /\ << >> \in Seq(Keys) /\ Len(<< >>) = 0
  OBVIOUS
<1>1. AnsiInit => RoomInv
  BY <1>e, NothingCounted DEF AnsiInit, RoomInv
<1>2. RoomInv /\ [AnsiNext]_ansiVars => RoomInv'
  <2> SUFFICES ASSUME RoomInv, [AnsiNext]_ansiVars PROVE RoomInv'
    OBVIOUS
  <2>0. /\ strokes \in Seq(Strokes) /\ escape \in 0..2 /\ decoded \in Seq(Keys)
        /\ Counting(strokes, escape, line, Len(decoded))
    BY DEF RoomInv
  <2>1. CASE InitInput
    BY <1>e, <2>1, NothingCounted DEF InitInput, RoomInv
  <2>2. CASE TypeStroke
    <3>1. PICK s \in Strokes : strokes' = Append(strokes, s) /\ line' = line \o Sent[s]
      BY <2>2 DEF TypeStroke
    <3>2. UNCHANGED <<escape, decoded>>
      BY <2>2 DEF TypeStroke
    <3>3. Counting(Append(strokes, s), escape, line \o Sent[s], Len(decoded))
      BY <2>0, TypeCounts
    <3>4. strokes' \in Seq(Strokes)
      BY <2>0, <3>1
    <3> QED
      BY <2>0, <3>1, <3>2, <3>3, <3>4 DEF RoomInv
  <2>3. CASE FeedByte
    <3>1. PICK t : /\ Tails(strokes, t)
                   /\ \E k \in 0..Len(strokes) : Stands(strokes, escape, line, Len(decoded), k, t)
      BY <2>0 DEF Counting
    <3>2. PICK k \in 0..Len(strokes) : Stands(strokes, escape, line, Len(decoded), k, t)
      BY <3>1
    <3>3. /\ escape' \in 0..2 /\ decoded' \in Seq(Keys) /\ strokes' = strokes
          /\ \E j \in 0..Len(strokes) : Stands(strokes, escape', line', Len(decoded'), j, t)
      BY <2>0, <2>3, <3>1, <3>2, FeedReady, FeedWithin DEF Stands
    <3> QED
      BY <2>0, <3>1, <3>3 DEF RoomInv, Counting
  <2>4. CASE UNCHANGED ansiVars
    BY <2>4 DEF ansiVars, RoomInv
  <2> QED
    BY <2>1, <2>2, <2>3, <2>4 DEF AnsiNext
<1>3. RoomInv => AnsiTypeOK
  <2> SUFFICES ASSUME RoomInv PROVE AnsiTypeOK
    OBVIOUS
  <2>0. /\ strokes \in Seq(Strokes) /\ escape \in 0..2 /\ decoded \in Seq(Keys)
        /\ Counting(strokes, escape, line, Len(decoded))
    BY DEF RoomInv
  <2>5. PICK t : \E k \in 0..Len(strokes) : Stands(strokes, escape, line, Len(decoded), k, t)
    BY <2>0 DEF Counting
  <2>1. PICK k \in 0..Len(strokes) : Stands(strokes, escape, line, Len(decoded), k, t)
    BY <2>5
  <2>2. PICK n \in Nat, c \in Nat : n = Len(decoded) /\ c = Len(strokes)
    BY <2>0
  <2>3. CASE Ready(escape, line, Len(decoded), k, t)
    <3>1. n + Owed(escape) <= 2 * k /\ Owed(escape) \in Nat /\ k <= c
      BY <2>2, <2>3 DEF Ready, Owed
    <3>2. n <= 2 * c
      BY <3>1
    <3> QED
      BY <2>0, <2>2, <3>2 DEF AnsiTypeOK
  <2>4. CASE k # Len(strokes) /\ Within(escape, line, Len(decoded), k, t[k + 2])
    <3>1. Begun(escape, n, k) \/ Middle(escape, n, k) \/ Late(escape, n, k)
      BY <2>2, <2>4 DEF Within
    <3>2. n <= 2 * k + 1 /\ k + 1 <= c
      BY <2>2, <2>4, <3>1 DEF Begun, Middle, Late
    <3>3. n <= 2 * c
      BY <3>2
    <3> QED
      BY <2>0, <2>2, <3>3 DEF AnsiTypeOK
  <2> QED
    BY <2>1, <2>3, <2>4 DEF Stands
<1> QED
  BY <1>1, <1>2, <1>3, PTL DEF AnsiSpec
=============================================================================
