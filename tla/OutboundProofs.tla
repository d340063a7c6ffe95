--------------------------- MODULE OutboundProofs ---------------------------
(***************************************************************************)
(* Proofs about module Outbound, for queues of any length and any number   *)
(* of messages and requests.                                               *)
(*                                                                         *)
(* That the slots are counted exactly, and that messages arrive in order,  *)
(* depends on where every message on its way is: in the game thread, among *)
(* the calls left for the event loop, in the queue, with the sender.       *)
(***************************************************************************)
EXTENDS Outbound, SequenceTheorems, FiniteSetTheorems, TLAPS

-----------------------------------------------------------------------------
(* The state. *)
Lines == {0} \cup Queues
Calls ==
  [do : {"start", "overflow"}, arg : {0}]
  \cup [do : {"enqueue"}, arg : Messages \ {Snapshot}]
  \cup [do : {"stop"}, arg : [queue : Lines, task : Lines]]
Senders == [pc : {"idle", "get", "sending", "failed", "done"}, m : Messages]

Types ==
  /\ game \in [pc : {"idle", "ensure", "task", "reserve", "post", "overflow"}, n : Messages]
  /\ game.pc = "idle" \/ game.n # Snapshot
  /\ made \in Lines /\ queue \in Lines /\ task \in Lines
  /\ items \in [Queues -> Seq(Messages)] /\ \A k \in Queues : Len(items[k]) <= MaxOutbound
  /\ unfinished \in [Queues -> Int] /\ sender \in [Queues -> Senders]
  /\ backlog \in -1 .. MaxOutbound /\ overflowed \in BOOLEAN /\ closing \in Nat
  /\ calls \in Seq(Calls) /\ sent \in Seq(Messages) /\ registered \in BOOLEAN
  /\ stopping \in {"no", "queue", "task", "slots"} /\ taken \in [queue : Lines, task : Lines]
  /\ handler \in [pc : {"loop", "wait", "gone"}, on : Lines]
  /\ socket \in {"reads", "stalled", "dead"}

(* What join() waits for is what is queued or being sent. *)
Counted == \A k \in Queues : unfinished[k] = Len(items[k]) + Sending(k)

(* A second queue is made only by a game thread that had begun with the    *)
(* socket before it was forgotten; a task starts on a queue without one.   *)
Works(k) == sender[k].pc \in {"get", "sending"}
Queued ==
  /\ queue <= made
  /\ registered \/ stopping = "queue" => made = queue /\ made <= 1
  /\ game.pc = "ensure" => made <= 1
  /\ \A k \in Queues : k > made => ~Works(k)
  /\ queue # 0 /\ (task = 0 \/ stopping = "task") => ~Works(queue)

(* While the socket plays it has one queue and one task. *)
Plays ==
  registered =>
    /\ stopping = "no" /\ task \in {0, queue}
    /\ \A k \in Queues : k # queue => items[k] = <<>>
    /\ \A k \in Queues : k # task => sender[k].pc = "idle"
    /\ \A i \in DOMAIN calls : calls[i].do # "stop"
    /\ \A i \in DOMAIN calls : calls[i].do = "overflow" => overflowed
    /\ queue = 0 => calls = <<>> /\ game.pc \in {"idle", "ensure"} /\ ~overflowed
    /\ game.pc = "overflow" => overflowed

Slots ==
  registered /\ queue # 0 => backlog = Reserved + Len(items[queue]) + Sending(queue)

(* The numbers of the messages left for the event loop to enqueue. *)
Numbers == [i \in DOMAIN calls |-> IF calls[i].do = "enqueue" THEN calls[i].arg ELSE Snapshot]

(* a has been received, b is being sent, c is queued, d is left to the     *)
(* event loop; the game is at message d or the next.  After a send that    *)
(* failed nothing more is sent.                                            *)
Failed == queue # 0 /\ sender[queue].pc = "failed"
Going == IF game.pc \in {"ensure", "task", "reserve", "post"} THEN 1 ELSE 0

InHand(a, b) ==
  IF queue # 0 /\ sender[queue].pc = "sending" /\ sender[queue].m # Snapshot
  THEN b = a + 1 /\ sender[queue].m = b ELSE b = a
InQueue(b, c) == IF queue # 0 THEN InTurn(items[queue], b, c) ELSE c = b
Left(c, d) == ~overflowed => InTurn(Numbers, c, d) /\ c <= d /\ game.n = d + Going

Flow(a, b, c, d) ==
  /\ InTurn(sent, 0, a) /\ a <= game.n
  /\ ~Failed => b <= c /\ c <= game.n /\ InHand(a, b) /\ InQueue(b, c) /\ Left(c, d)

Flows == registered => \E a, b, c, d \in Messages : Flow(a, b, c, d)

Inv == Types /\ Counted /\ Queued /\ Plays /\ Slots /\ Flows

-----------------------------------------------------------------------------
(* Messages in turn. *)

LEMMA NothingInTurn ==
  ASSUME NEW a \in Nat
  PROVE InTurn(<<>>, a, a)
<1>1. DOMAIN <<>> = {}
  OBVIOUS
<1>2. a + 1 .. a = {}
  OBVIOUS
<1> QED
  BY <1>1, <1>2 DEF InTurn

LEMMA AppendAt ==
  ASSUME NEW S, NEW s \in Seq(S), NEW x \in S
  PROVE /\ Append(s, x) \in Seq(S)
        /\ Len(Append(s, x)) = Len(s) + 1
        /\ DOMAIN Append(s, x) = DOMAIN s \cup {Len(s) + 1}
        /\ Len(s) + 1 \notin DOMAIN s
        /\ \A i \in DOMAIN s : i < Len(s) + 1 /\ i \in Nat
        /\ \A i \in DOMAIN s : Append(s, x)[i] = s[i]
        /\ Append(s, x)[Len(s) + 1] = x
<1>1. PICK n \in Nat : n = Len(s)
  OBVIOUS
<1>2. DOMAIN s = 1 .. n
  BY <1>1
<1>3. Len(Append(s, x)) = n + 1 /\ Append(s, x) \in Seq(S)
  BY <1>1
<1>4. DOMAIN Append(s, x) = 1 .. n + 1
  BY <1>3
<1>5. \A i \in 1 .. n : Append(s, x)[i] = s[i]
  BY <1>1
<1>6. Append(s, x)[n + 1] = x
  BY <1>1
<1>7. 1 .. n + 1 = (1 .. n) \cup {n + 1} /\ n + 1 \notin 1 .. n
  OBVIOUS
<1>8. \A i \in 1 .. n : i < n + 1 /\ i \in Nat
  OBVIOUS
<1> QED
  BY <1>1, <1>2, <1>3, <1>4, <1>5, <1>6, <1>7, <1>8

LEMMA SeqAsFunction ==
  ASSUME NEW S, NEW s \in Seq(S)
  PROVE s \in [DOMAIN s -> S]
<1>1. PICK n \in Nat : n = Len(s)
  OBVIOUS
<1>2. s \in [1 .. n -> S]
  BY <1>1
<1> QED
  BY <1>2

LEMMA TailAt ==
  ASSUME NEW S, NEW s \in Seq(S), s # <<>>
  PROVE /\ Tail(s) \in Seq(S) /\ Head(s) \in S /\ Head(s) = s[1]
        /\ Len(s) \in Nat /\ Len(s) >= 1 /\ Len(Tail(s)) = Len(s) - 1
        /\ DOMAIN s = 1 .. Len(s) /\ DOMAIN Tail(s) = 1 .. Len(s) - 1
        /\ \A i \in DOMAIN Tail(s) : Tail(s)[i] = s[i + 1]
<1>1. PICK n \in Nat : n = Len(s)
  OBVIOUS
<1>2. n # 0
  BY <1>1, EmptySeq
<1>3. Tail(s) \in Seq(S) /\ Len(Tail(s)) = n - 1 /\ Head(s) = s[1]
  BY <1>1, <1>2
<1>4. 1 \in 1 .. n /\ Head(s) \in S
  BY <1>1, <1>2
<1>5. DOMAIN Tail(s) = 1 .. n - 1
  BY <1>1, <1>2
<1>6. \A i \in 1 .. n - 1 : Tail(s)[i] = s[i + 1]
  BY <1>1, <1>2
<1> QED
  BY <1>1, <1>2, <1>3, <1>4, <1>5, <1>6

LEMMA SnapshotInTurn ==
  ASSUME NEW s \in Seq(Messages), NEW a \in Nat, NEW b \in Nat, InTurn(s, a, b)
  PROVE InTurn(Append(s, Snapshot), a, b)
<1> DEFINE t == Append(s, Snapshot)
<1>1. PICK n \in Nat : n = Len(s) + 1
  OBVIOUS
<1>2. Snapshot \in Messages
  BY BoundsAssumption DEF Snapshot, Messages
<1>3. /\ DOMAIN t = DOMAIN s \cup {n} /\ n \notin DOMAIN s
      /\ \A i \in DOMAIN s : t[i] = s[i]
      /\ t[n] = Snapshot
  BY <1>1, <1>2, AppendAt
<1>4. {t[i] : i \in DOMAIN t} \ {Snapshot} = {s[i] : i \in DOMAIN s} \ {Snapshot}
  BY <1>3, Zenon
<1>5. ASSUME NEW i \in DOMAIN t, NEW j \in DOMAIN t, i < j, t[i] # Snapshot, t[j] # Snapshot
      PROVE t[i] < t[j]
  <2>1. i \in DOMAIN s /\ j \in DOMAIN s /\ t[i] = s[i] /\ t[j] = s[j]
    BY <1>3, <1>5, Zenon
  <2> QED
    BY <2>1, <1>5 DEF InTurn
<1>6. {t[i] : i \in DOMAIN t} \ {Snapshot} = a + 1 .. b
  BY <1>4 DEF InTurn
<1> QED
  BY <1>5, <1>6 DEF InTurn

LEMMA NextInTurn ==
  ASSUME NEW s \in Seq(Messages), NEW a \in Nat, NEW b \in Nat, a <= b, InTurn(s, a, b),
         b + 1 \in Messages
  PROVE InTurn(Append(s, b + 1), a, b + 1)
<1>0. PICK m \in Messages : m = b + 1
  OBVIOUS
<1> DEFINE t == Append(s, m)
<1>1. PICK n \in Nat : n = Len(s) + 1
  OBVIOUS
<1>3. /\ DOMAIN t = DOMAIN s \cup {n} /\ n \notin DOMAIN s
      /\ \A i \in DOMAIN s : t[i] = s[i]
      /\ \A i \in DOMAIN s : i < n /\ i \in Nat
      /\ t[n] = m
  BY <1>1, AppendAt
<1>4. {t[i] : i \in DOMAIN t} \ {Snapshot} = ({s[i] : i \in DOMAIN s} \ {Snapshot}) \cup {m}
  <2>1. m # Snapshot
    BY <1>0 DEF Snapshot
  <2> QED
    BY <1>3, <2>1, Zenon
<1>5. {t[i] : i \in DOMAIN t} \ {Snapshot} = a + 1 .. m
  <2>1. {t[i] : i \in DOMAIN t} \ {Snapshot} = (a + 1 .. b) \cup {m}
    BY <1>4 DEF InTurn
  <2>2. (a + 1 .. b) \cup {m} = a + 1 .. m
    BY <1>0
  <2> QED
    BY <2>1, <2>2
<1>6. ASSUME NEW i \in DOMAIN t, NEW j \in DOMAIN t, i < j, t[i] # Snapshot, t[j] # Snapshot
      PROVE t[i] < t[j]
  <2>1. i \in DOMAIN s
    <3>1. j \in DOMAIN s \/ j = n
      BY <1>3, Zenon
    <3>2. j \in Nat /\ j <= n
      BY <1>3, <3>1
    <3>3. i # n
      BY <3>2, <1>6
    <3> QED
      BY <1>3, <3>3, Zenon
  <2>2. CASE j \in DOMAIN s
    <3>1. t[i] = s[i] /\ t[j] = s[j]
      BY <1>3, <2>1, <2>2, Zenon
    <3> QED
      BY <3>1, <1>6, <2>1, <2>2 DEF InTurn
  <2>3. CASE j = n
    <3>1. t[i] = s[i] /\ t[j] = m
      BY <1>3, <2>1, <2>3, Zenon
    <3>2. s[i] \in {s[k] : k \in DOMAIN s} \ {Snapshot}
      BY <3>1, <2>1, <1>6, Zenon
    <3>3. s[i] \in a + 1 .. b
      BY <3>2 DEF InTurn
    <3> QED
      BY <3>1, <3>3, <1>0
  <2> QED
    BY <1>3, <2>2, <2>3, Zenon
<1>7. InTurn(t, a, m)
  BY <1>5, <1>6 DEF InTurn
<1> QED
  BY <1>7, <1>0

LEMMA SnapshotTaken ==
  ASSUME NEW s \in Seq(Messages), NEW a \in Nat, NEW b \in Nat, InTurn(s, a, b),
         s # <<>>, Head(s) = Snapshot
  PROVE InTurn(Tail(s), a, b)
<1> DEFINE t == Tail(s)
<1>1. PICK n \in Nat : n = Len(s)
  OBVIOUS
<1>2. n >= 1 /\ DOMAIN s = 1 .. n /\ DOMAIN t = 1 .. n - 1 /\ s[1] = Snapshot
  BY <1>1, TailAt
<1>3. \A i \in DOMAIN t : t[i] = s[i + 1]
  BY <1>1, TailAt
<1>4. \A i \in DOMAIN t : i + 1 \in DOMAIN s
  BY <1>2
<1>5. \A i \in DOMAIN s : i = 1 \/ (i - 1 \in DOMAIN t /\ i - 1 + 1 = i)
  BY <1>2
<1>6. {t[i] : i \in DOMAIN t} \ {Snapshot} = {s[i] : i \in DOMAIN s} \ {Snapshot}
  <2>1. ASSUME NEW x \in {t[i] : i \in DOMAIN t} PROVE x \in {s[i] : i \in DOMAIN s}
    BY <1>3, <1>4
  <2>2. ASSUME NEW x \in {s[i] : i \in DOMAIN s}, x # Snapshot PROVE x \in {t[i] : i \in DOMAIN t}
    <3>1. PICK i \in DOMAIN s : x = s[i]
      BY <2>2
    <3>2. i - 1 \in DOMAIN t /\ i - 1 + 1 = i
      BY <3>1, <2>2, <1>5, <1>2
    <3>3. t[i - 1] = x
      BY <3>1, <3>2, <1>3
    <3> QED
      BY <3>2, <3>3
  <2> QED
    BY <2>1, <2>2
<1>7. ASSUME NEW i \in DOMAIN t, NEW j \in DOMAIN t, i < j, t[i] # Snapshot, t[j] # Snapshot
      PROVE t[i] < t[j]
  <2>1. i + 1 \in DOMAIN s /\ j + 1 \in DOMAIN s /\ i + 1 < j + 1
    BY <1>7, <1>4, <1>2
  <2>2. t[i] = s[i + 1] /\ t[j] = s[j + 1]
    BY <1>3, <1>7
  <2> QED
    BY <2>1, <2>2, <1>7 DEF InTurn
<1>8. {t[i] : i \in DOMAIN t} \ {Snapshot} = a + 1 .. b
  BY <1>6 DEF InTurn
<1> QED
  BY <1>7, <1>8 DEF InTurn

LEMMA NextTaken ==
  ASSUME NEW s \in Seq(Messages), NEW a \in Nat, NEW b \in Nat, InTurn(s, a, b),
         s # <<>>, Head(s) # Snapshot
  PROVE Head(s) = a + 1 /\ a + 1 <= b /\ InTurn(Tail(s), a + 1, b)
<1> DEFINE t == Tail(s)
<1>1. PICK n \in Nat : n = Len(s)
  OBVIOUS
<1>2. n >= 1 /\ DOMAIN s = 1 .. n /\ DOMAIN t = 1 .. n - 1 /\ Head(s) = s[1] /\ 1 \in DOMAIN s
  BY <1>1, TailAt
<1>3. \A i \in DOMAIN t : t[i] = s[i + 1]
  BY <1>1, TailAt
<1>4. \A i \in DOMAIN t : i + 1 \in DOMAIN s
  BY <1>2
<1>5. \A i \in DOMAIN s : i = 1 \/ (i - 1 \in DOMAIN t /\ i - 1 + 1 = i)
  BY <1>2
<1>6. PICK h \in a + 1 .. b : h = s[1]
  <2>1. s[1] \in {s[i] : i \in DOMAIN s} \ {Snapshot}
    BY <1>2
  <2> QED
    BY <2>1 DEF InTurn
<1>7. \A x \in a + 1 .. b : \E i \in DOMAIN s : s[i] = x /\ x # Snapshot
  <2>1. a + 1 .. b = {s[i] : i \in DOMAIN s} \ {Snapshot}
    BY DEF InTurn
  <2> QED
    BY <2>1
<1>8. ASSUME NEW j \in DOMAIN s, j # 1, s[j] # Snapshot PROVE h < s[j]
  <2>1. 1 < j
    BY <1>8, <1>2
  <2>2. s[1] # Snapshot
    BY <1>2
  <2> QED
    BY <2>1, <2>2, <1>2, <1>6, <1>8 DEF InTurn
<1>9. h = a + 1
  <2>1. a + 1 \in a + 1 .. b
    BY <1>6
  <2>2. PICK i \in DOMAIN s : s[i] = a + 1 /\ s[i] # Snapshot
    BY <2>1, <1>7
  <2>3. i = 1 \/ h < s[i]
    BY <2>2, <1>8
  <2> QED
    BY <2>2, <2>3, <1>6
<1>10. ASSUME NEW i \in DOMAIN t, t[i] # Snapshot PROVE t[i] \in h + 1 .. b
  <2>1. i + 1 \in DOMAIN s /\ i + 1 # 1 /\ t[i] = s[i + 1]
    BY <1>10, <1>3, <1>4, <1>2
  <2>2. s[i + 1] \in {s[k] : k \in DOMAIN s} \ {Snapshot}
    BY <2>1, <1>10
  <2>3. PICK x \in a + 1 .. b : x = s[i + 1]
    BY <2>2 DEF InTurn
  <2>4. h < s[i + 1]
    BY <2>1, <1>8, <1>10
  <2> QED
    BY <2>1, <2>3, <2>4, <1>6
<1>11. ASSUME NEW x \in h + 1 .. b PROVE x \in {t[i] : i \in DOMAIN t} \ {Snapshot}
  <2>1. x \in a + 1 .. b /\ x # h
    BY <1>6
  <2>2. PICK i \in DOMAIN s : s[i] = x /\ x # Snapshot
    BY <2>1, <1>7
  <2>3. i - 1 \in DOMAIN t /\ i - 1 + 1 = i
    BY <2>1, <2>2, <1>5, <1>6
  <2>4. t[i - 1] = x
    BY <2>2, <2>3, <1>3
  <2> QED
    BY <2>2, <2>3, <2>4
<1>12. {t[i] : i \in DOMAIN t} \ {Snapshot} = h + 1 .. b
  BY <1>10, <1>11
<1>13. ASSUME NEW i \in DOMAIN t, NEW j \in DOMAIN t, i < j, t[i] # Snapshot, t[j] # Snapshot
       PROVE t[i] < t[j]
  <2>1. i + 1 \in DOMAIN s /\ j + 1 \in DOMAIN s /\ i + 1 < j + 1
    BY <1>13, <1>4, <1>2
  <2>2. t[i] = s[i + 1] /\ t[j] = s[j + 1]
    BY <1>3, <1>13
  <2> QED
    BY <2>1, <2>2, <1>13 DEF InTurn
<1>14. InTurn(t, h, b)
  BY <1>12, <1>13 DEF InTurn
<1> QED
  BY <1>14, <1>9, <1>6, <1>2

-----------------------------------------------------------------------------
(* The calls left for the event loop. *)

LEMMA CallKinds ==
  ASSUME NEW x \in Calls
  PROVE /\ x.do \in {"start", "overflow", "enqueue", "stop"}
        /\ x.do = "enqueue" => x.arg \in Messages \ {Snapshot}
        /\ x.do = "stop" => x.arg \in [queue : Lines, task : Lines]
BY DEF Calls

LEMMA CallsFinite ==
  ASSUME calls \in Seq(Calls)
  PROVE /\ IsFiniteSet(Posted) /\ Cardinality(Posted) \in Nat
        /\ \A i \in DOMAIN calls : calls[i] \in Calls /\ i \in Nat
        /\ Numbers \in Seq(Messages) /\ Len(Numbers) = Len(calls)
        /\ DOMAIN Numbers = DOMAIN calls
<1>1. PICK n \in Nat : n = Len(calls)
  OBVIOUS
<1>2. DOMAIN calls = 1 .. n
  BY <1>1
<1>3. IsFiniteSet(DOMAIN calls)
  <2>1. 1 \in Int /\ n \in Int
    OBVIOUS
  <2>2. IsFiniteSet(1 .. n)
    BY <2>1, FS_Interval, Zenon
  <2> QED
    BY <2>2, <1>2
<1>4. Posted \subseteq DOMAIN calls
  BY DEF Posted
<1>5. IsFiniteSet(Posted)
  BY <1>3, <1>4, FS_Subset, Zenon
<1>6. Cardinality(Posted) \in Nat
  BY <1>5, FS_CardinalityType, Zenon
<1>7. \A i \in DOMAIN calls : calls[i] \in Calls /\ i \in Nat
  BY <1>2, <1>1
<1>8. \A i \in DOMAIN calls : Numbers[i] \in Messages
  <2> SUFFICES ASSUME NEW i \in DOMAIN calls PROVE Numbers[i] \in Messages
    OBVIOUS
  <2>1. Snapshot \in Messages
    BY BoundsAssumption DEF Snapshot, Messages
  <2>2. calls[i].do = "enqueue" => calls[i].arg \in Messages
    BY <1>7, CallKinds
  <2> QED
    BY <2>1, <2>2 DEF Numbers
<1>9. Numbers \in [1 .. n -> Messages]
  BY <1>8, <1>2 DEF Numbers
<1>10. Numbers \in Seq(Messages) /\ Len(Numbers) = n
  BY <1>9, <1>1
<1> QED
  BY <1>1, <1>2, <1>5, <1>6, <1>7, <1>9, <1>10

LEMMA CallLeft ==
  ASSUME calls \in Seq(Calls), NEW x \in Calls, calls' = Append(calls, x)
  PROVE /\ calls' \in Seq(Calls) /\ calls' # <<>>
        /\ \A i \in DOMAIN calls' : calls'[i] = x \/ \E j \in DOMAIN calls : calls'[i] = calls[j]
        /\ Cardinality(Posted') = Cardinality(Posted) + (IF x.do = "enqueue" THEN 1 ELSE 0)
        /\ Numbers' = Append(Numbers, IF x.do = "enqueue" THEN x.arg ELSE Snapshot)
<1>1. PICK n \in Nat : n = Len(calls) + 1
  OBVIOUS
<1>2. /\ calls' \in Seq(Calls) /\ DOMAIN calls' = DOMAIN calls \cup {n} /\ n \notin DOMAIN calls
      /\ \A i \in DOMAIN calls : calls'[i] = calls[i]
      /\ calls'[n] = x
  BY <1>1, AppendAt
<1>3. calls' # <<>>
  BY <1>2
<1>4. \A i \in DOMAIN calls' : calls'[i] = x \/ \E j \in DOMAIN calls : calls'[i] = calls[j]
  BY <1>2, Zenon
<1>5. Cardinality(Posted') = Cardinality(Posted) + (IF x.do = "enqueue" THEN 1 ELSE 0)
  <2>1. IsFiniteSet(Posted) /\ Cardinality(Posted) \in Nat
    BY CallsFinite
  <2>2. CASE x.do = "enqueue"
    <3>1. Posted' = Posted \cup {n} /\ n \notin Posted
      BY <1>2, <2>2 DEF Posted
    <3>2. Cardinality(Posted \cup {n}) = Cardinality(Posted) + 1
      BY <3>1, <2>1, FS_AddElement, Zenon
    <3> QED
      BY <3>1, <3>2, <2>2
  <2>3. CASE x.do # "enqueue"
    <3>1. Posted' = Posted
      BY <1>2, <2>3 DEF Posted
    <3> QED
      BY <3>1, <2>1, <2>3
  <2> QED
    BY <2>2, <2>3
<1>6. Numbers' = Append(Numbers, IF x.do = "enqueue" THEN x.arg ELSE Snapshot)
  <2> DEFINE y == IF x.do = "enqueue" THEN x.arg ELSE Snapshot
  <2>1. PICK z \in Messages : z = y
    <3>1. Snapshot \in Messages
      BY BoundsAssumption DEF Snapshot, Messages
    <3> QED
      BY <3>1, CallKinds
  <2>2. /\ Numbers \in Seq(Messages) /\ Len(Numbers) + 1 = n
        /\ DOMAIN Numbers = DOMAIN calls
    BY <1>1, CallsFinite
  <2> DEFINE t == Append(Numbers, z)
  <2>3. /\ t \in Seq(Messages) /\ DOMAIN t = DOMAIN Numbers \cup {n}
        /\ \A i \in DOMAIN Numbers : t[i] = Numbers[i]
        /\ t[n] = z
    BY <2>2, AppendAt
  <2>4. DOMAIN t = DOMAIN calls'
    BY <2>2, <2>3, <1>2
  <2>5. ASSUME NEW i \in DOMAIN calls'
        PROVE t[i] = IF calls'[i].do = "enqueue" THEN calls'[i].arg ELSE Snapshot
    <3>1. CASE i \in DOMAIN calls
      BY <3>1, <2>2, <2>3, <1>2 DEF Numbers
    <3>2. CASE i = n
      BY <3>2, <2>1, <2>3, <1>2
    <3> QED
      BY <3>1, <3>2, <1>2
  <2>6. t \in [DOMAIN t -> Messages]
    BY <2>3, SeqAsFunction
  <2>7. Numbers' = t
    BY <2>4, <2>5, <2>6 DEF Numbers
  <2> QED
    BY <2>7, <2>1
<1> QED
  BY <1>2, <1>3, <1>4, <1>5, <1>6

LEMMA CallTaken ==
  ASSUME calls \in Seq(Calls), calls # <<>>, calls' = Tail(calls)
  PROVE /\ calls' \in Seq(Calls) /\ Head(calls) \in Calls
        /\ 1 \in DOMAIN calls /\ Head(calls) = calls[1]
        /\ \A i \in DOMAIN calls' : \E j \in DOMAIN calls : calls'[i] = calls[j]
        /\ Cardinality(Posted') \in Nat
        /\ Cardinality(Posted) = Cardinality(Posted')
                                 + (IF Head(calls).do = "enqueue" THEN 1 ELSE 0)
        /\ Numbers # <<>> /\ Numbers' = Tail(Numbers)
        /\ Head(Numbers) = IF Head(calls).do = "enqueue" THEN Head(calls).arg ELSE Snapshot
<1>1. PICK n \in Nat : n = Len(calls)
  OBVIOUS
<1>2. /\ calls' \in Seq(Calls) /\ Head(calls) \in Calls /\ Head(calls) = calls[1]
      /\ n >= 1 /\ DOMAIN calls = 1 .. n /\ DOMAIN calls' = 1 .. n - 1
      /\ \A i \in DOMAIN calls' : calls'[i] = calls[i + 1]
  BY <1>1, TailAt
<1>3. 1 \in DOMAIN calls
  BY <1>2
<1>4. \A i \in DOMAIN calls' : \E j \in DOMAIN calls : calls'[i] = calls[j]
  <2>1. \A i \in DOMAIN calls' : i + 1 \in DOMAIN calls
    BY <1>2
  <2> QED
    BY <1>2, <2>1
<1>5. /\ Cardinality(Posted) = Cardinality(Posted') + (IF Head(calls).do = "enqueue" THEN 1 ELSE 0)
      /\ Cardinality(Posted') \in Nat
  <2> DEFINE Others == Posted \ {1}
             shift == [i \in Others |-> i - 1]
  <2>1. IsFiniteSet(Posted) /\ Cardinality(Posted) \in Nat
    BY CallsFinite
  <2>2. \A i \in Others : i - 1 \in Posted'
    <3> SUFFICES ASSUME NEW i \in Others PROVE i - 1 \in Posted'
      OBVIOUS
    <3>1. i \in DOMAIN calls /\ calls[i].do = "enqueue" /\ i # 1
      BY DEF Posted
    <3>2. i - 1 \in DOMAIN calls' /\ i - 1 + 1 = i
      BY <3>1, <1>2
    <3>3. calls'[i - 1] = calls[i]
      BY <3>2, <1>2
    <3> QED
      BY <3>1, <3>2, <3>3 DEF Posted
  <2>3. \A i \in Posted' : i + 1 \in Others /\ i + 1 - 1 = i
    <3> SUFFICES ASSUME NEW i \in Posted' PROVE i + 1 \in Others /\ i + 1 - 1 = i
      OBVIOUS
    <3>1. i \in DOMAIN calls' /\ calls'[i].do = "enqueue"
      BY DEF Posted
    <3>2. i + 1 \in DOMAIN calls /\ i + 1 # 1 /\ i + 1 - 1 = i
      BY <3>1, <1>2
    <3>3. calls'[i] = calls[i + 1]
      BY <3>1, <1>2
    <3> QED
      BY <3>1, <3>2, <3>3 DEF Posted
  <2>4. shift \in [Others -> Posted']
    BY <2>2
  <2>5. \A i, j \in Others : shift[i] = shift[j] => i = j
    <3> SUFFICES ASSUME NEW i \in Others, NEW j \in Others, i - 1 = j - 1 PROVE i = j
      OBVIOUS
    <3>1. i \in 1 .. n /\ j \in 1 .. n
      BY <1>2 DEF Posted
    <3> QED
      BY <3>1
  <2>6. \A i \in Posted' : \E j \in Others : shift[j] = i
    <3> SUFFICES ASSUME NEW i \in Posted' PROVE \E j \in Others : shift[j] = i
      OBVIOUS
    <3>1. i + 1 \in Others /\ i + 1 - 1 = i
      BY <2>3
    <3>2. PICK j \in Others : j = i + 1
      BY <3>1
    <3>3. i \in Int
      BY <1>2 DEF Posted
    <3>4. j - 1 = i
      BY <3>2, <3>3
    <3>5. shift[j] = i
      BY <3>4
    <3> QED
      BY <3>5
  <2>7. shift \in Bijection(Others, Posted')
    BY <2>4, <2>5, <2>6 DEF Bijection, Injection, Surjection, IsInjective
  <2>8. IsFiniteSet(Others)
    BY <2>1, FS_Subset, Others \subseteq Posted
  <2>9. ExistsBijection(Others, Posted')
    BY <2>7, Zenon DEF ExistsBijection
  <2>10. Cardinality(Others) = Cardinality(Posted') /\ Cardinality(Others) \in Nat
    BY <2>8, <2>9, FS_Bijection, FS_CardinalityType, Zenon
  <2>11. CASE Head(calls).do = "enqueue"
    <3>1. 1 \in Posted
      BY <2>11, <1>2, <1>3 DEF Posted
    <3>2. Cardinality(Posted \ {1}) = Cardinality(Posted) - 1
      BY <3>1, <2>1, FS_RemoveElement, Zenon
    <3> QED
      BY <3>2, <2>1, <2>10, <2>11
  <2>12. CASE Head(calls).do # "enqueue"
    <3>1. Others = Posted
      BY <2>12, <1>2 DEF Posted
    <3>2. Cardinality(Posted') = Cardinality(Posted)
      BY <3>1, <2>10
    <3> QED
      BY <3>2, <2>1, <2>12
  <2> QED
    BY <2>11, <2>12
<1>6. /\ Numbers \in Seq(Messages) /\ Len(Numbers) = n /\ DOMAIN Numbers = DOMAIN calls
  BY <1>1, CallsFinite
<1>7. Numbers # <<>>
  BY <1>3, <1>6
<1>8. /\ Tail(Numbers) \in Seq(Messages) /\ Head(Numbers) = Numbers[1]
      /\ DOMAIN Tail(Numbers) = 1 .. n - 1
      /\ \A i \in 1 .. n - 1 : Tail(Numbers)[i] = Numbers[i + 1]
  BY <1>6, <1>7, TailAt
<1>9. Numbers' = Tail(Numbers)
  <2> DEFINE t == Tail(Numbers)
  <2>1. DOMAIN t = DOMAIN calls'
    BY <1>8, <1>2
  <2>2. ASSUME NEW i \in DOMAIN calls'
        PROVE t[i] = IF calls'[i].do = "enqueue" THEN calls'[i].arg ELSE Snapshot
    <3>1. i + 1 \in DOMAIN calls /\ calls'[i] = calls[i + 1] /\ t[i] = Numbers[i + 1]
      BY <1>2, <1>8, <2>1
    <3> QED
      BY <3>1 DEF Numbers
  <2>3. t \in [DOMAIN t -> Messages]
    BY <1>8, SeqAsFunction
  <2> QED
    BY <2>1, <2>2, <2>3 DEF Numbers
<1>10. Head(Numbers) = IF Head(calls).do = "enqueue" THEN Head(calls).arg ELSE Snapshot
  BY <1>8, <1>3, <1>2 DEF Numbers
<1> QED
  BY <1>2, <1>3, <1>4, <1>5, <1>7, <1>9, <1>10

-----------------------------------------------------------------------------
(* Steps that leave a part of the state alone. *)

LEMMA CountedStays ==
  ASSUME Counted, UNCHANGED <<items, unfinished, sender>> PROVE Counted'
BY DEF Counted, Sending

LEMMA FlowsStay ==
  ASSUME Flows, registered' => registered,
         UNCHANGED <<game, sent, queue, sender, items, calls, overflowed>>
  PROVE Flows'
BY DEF Flows, Flow, Failed, Going, InHand, InQueue, Left, Numbers

LEMMA SlotsStay ==
  ASSUME Slots, registered' => registered, Reserved' = Reserved,
         UNCHANGED <<queue, items, sender, backlog>>
  PROVE Slots'
BY DEF Slots, Sending

LEMMA FreedInRange ==
  ASSUME Types, NEW n \in Nat
  PROVE Freed(n) \in -1 .. MaxOutbound
BY BoundsAssumption DEF Types, Freed

LEMMA FreedExactly ==
  ASSUME Types, NEW n \in Nat, n <= backlog
  PROVE Freed(n) = backlog - n
BY BoundsAssumption DEF Types, Freed

LEMMA HandOver ==
  ASSUME Inv, UNCHANGED <<thread, lists, senders, slots, calls, closing, sent>>,
         registered' \in BOOLEAN, registered' => registered /\ stopping' = stopping,
         stopping' \in {stopping, "queue"}, stopping' # stopping => registered, taken' = taken,
         handler' \in [pc : {"loop", "wait", "gone"}, on : Lines],
         socket' \in {"reads", "stalled", "dead"}
  PROVE Inv'
<1> USE DEF thread, lists, senders, slots
<1>1. Types'
  BY DEF Inv, Types
<1>2. Counted'
  BY CountedStays DEF Inv
<1>3. Queued'
  BY DEF Inv, Queued, Works, Plays, Types
<1>4. Plays'
  BY DEF Inv, Plays, Works
<1>5. Slots'
  <2>1. Reserved' = Reserved
    BY DEF Reserved, Posted
  <2> QED
    BY <2>1, SlotsStay DEF Inv
<1>6. Flows'
  BY FlowsStay DEF Inv
<1> QED
  BY <1>1, <1>2, <1>3, <1>4, <1>5, <1>6 DEF Inv

LEMMA ClientStep ==
  ASSUME Inv, CloseSlowClient \/ Joined \/ Stalls \/ ReadsAgain \/ Dies PROVE Inv'
<1>1. UNCHANGED <<thread, lists, senders, slots, calls, closing, stops, sent>>
  BY DEF CloseSlowClient, Joined, Stalls, ReadsAgain, Dies
<1>2. handler' \in [pc : {"loop", "wait", "gone"}, on : Lines]
  BY DEF CloseSlowClient, Joined, Stalls, ReadsAgain, Dies, Inv, Types, client, Lines
<1>3. socket' \in {"reads", "stalled", "dead"}
  BY DEF CloseSlowClient, Joined, Stalls, ReadsAgain, Dies, Inv, Types
<1>4. registered \in BOOLEAN
  BY DEF Inv, Types
<1> QED
  BY <1>1, <1>2, <1>3, <1>4, HandOver DEF stops

LEMMA LeaveStep ==
  ASSUME Inv, HandlerEnds \/ Replaced PROVE Inv'
<1>1. UNCHANGED <<thread, lists, senders, slots, calls, closing, taken, sent>>
  BY DEF HandlerEnds, Replaced
<1>2. handler' \in [pc : {"loop", "wait", "gone"}, on : Lines]
  BY DEF HandlerEnds, Replaced, Inv, Types, client, Lines
<1>3. socket' \in {"reads", "stalled", "dead"}
  BY DEF HandlerEnds, Replaced, Inv, Types, client
<1>4. /\ registered' = FALSE /\ stopping' \in {stopping, "queue"}
      /\ stopping' # stopping => registered
  BY DEF HandlerEnds, Replaced, LoopFree
<1> QED
  BY <1>1, <1>2, <1>3, <1>4, HandOver

LEMMA BroadcastStep ==
  ASSUME Inv, GameBroadcasts PROVE Inv'
<1>0. /\ UNCHANGED <<made, lists, senders, slots, calls, closing, stops, client, sent>>
      /\ registered /\ game.pc = "idle" /\ game' = [pc |-> "ensure", n |-> game.n + 1]
  BY DEF GameBroadcasts
<1>1. Types'
  <2>1. game'.n \in Messages /\ game' = [pc |-> "ensure", n |-> game'.n] /\ game'.n # Snapshot
    BY BoundsAssumption DEF GameBroadcasts, Inv, Types, Messages, Snapshot
  <2> QED
    BY <1>0, <2>1 DEF Inv, Types, lists, senders, slots, stops, client
<1>2. Counted'
  BY <1>0, CountedStays DEF Inv, lists, senders
<1>3. Queued'
  BY <1>0 DEF Inv, Queued, Works, lists, senders, stops
<1>4. Plays'
  BY <1>0 DEF Inv, Plays, lists, senders, slots, stops
<1>5. Slots'
  <2>1. Reserved' = Reserved
    BY <1>0 DEF Reserved, Posted
  <2> QED
    BY <1>0, <2>1, SlotsStay DEF Inv, lists, senders, slots, stops
<1>6. Flows'
  <2>1. PICK a \in Messages, b \in Messages, c \in Messages, d \in Messages : Flow(a, b, c, d)
    BY <1>0 DEF Inv, Flows
  <2>2. game.n \in Nat /\ game'.n = game.n + 1 /\ Going = 0 /\ Going' = 1
    BY <1>0 DEF Inv, Types, Messages, Going
  <2>3. Flow(a, b, c, d)'
    BY <2>1, <2>2, <1>0
    DEF Messages, Flow, Failed, InHand, InQueue, Left, Numbers, lists, senders, slots
  <2> QED
    BY <2>3 DEF Flows
<1> QED
  BY <1>1, <1>2, <1>3, <1>4, <1>5, <1>6 DEF Inv

LEMMA EnsureStep ==
  ASSUME Inv, GameEnsures PROVE Inv'
<1>0. /\ UNCHANGED <<items, unfinished, senders, overflowed, calls, closing, stops, client, sent>>
      /\ game.pc = "ensure" /\ game' = [game EXCEPT !.pc = "task"]
      /\ MakeQueue
  BY DEF GameEnsures
<1>00. made \in Nat /\ made <= 1 /\ queue \in Lines
  BY <1>0 DEF Inv, Queued, Types, Lines, Queues
<1>01. \/ queue # 0 /\ UNCHANGED <<made, queue, backlog>>
       \/ queue = 0 /\ made' = made + 1 /\ queue' = made + 1 /\ backlog' = 0
  BY <1>0 DEF MakeQueue
<1>1. Types'
  <2>1. game' \in [pc : {"idle", "ensure", "task", "reserve", "post", "overflow"}, n : Messages]
    BY <1>0 DEF Inv, Types
  <2>2. made' \in Lines /\ queue' \in Lines
    BY <1>00, <1>01 DEF Inv, Types, Lines, Queues
  <2>3. backlog' \in -1 .. MaxOutbound
    BY <1>01, BoundsAssumption DEF Inv, Types
  <2> QED
    BY <1>0, <2>1, <2>2, <2>3 DEF Inv, Types, senders, stops, client
<1>2. Counted'
  BY <1>0, CountedStays DEF Inv, senders
<1>3. Queued'
  <2>1. game'.pc = "task"
    BY <1>0 DEF Inv, Types
  <2>2. CASE queue # 0
    BY <1>0, <1>01, <2>1, <2>2 DEF Inv, Queued, Works, senders, stops
  <2>3. CASE queue = 0
    <3>1. made' = made + 1 /\ queue' = made + 1
      BY <1>01, <2>3
    <3>2. registered \/ stopping = "queue" => made = 0
      BY <2>3 DEF Inv, Queued
    <3>3. \A k \in Queues : k > made => ~Works(k)'
      BY <1>0 DEF Inv, Queued, Works, senders
    <3>4. \A k \in Queues : k > made' => ~Works(k)'
      BY <3>1, <3>3, <1>00 DEF Queues
    <3>5. queue' \in Queues /\ queue' > made
      BY <3>1, <1>00 DEF Queues
    <3>6. ~Works(queue)'
      BY <3>3, <3>5 DEF Works
    <3> QED
      BY <1>0, <2>1, <3>1, <3>2, <3>4, <3>6, <1>00 DEF Queued, Works, stops
  <2> QED
    BY <2>2, <2>3
<1>4. Plays'
  BY <1>0, <1>01, <1>00 DEF Inv, Plays, senders, stops, Types, Queues, Lines
<1>5. queue # 0 => UNCHANGED <<queue, backlog>>
  BY <1>01
<1>6. queue = 0 /\ registered =>
        /\ queue' = 1 /\ backlog' = 0 /\ calls = <<>> /\ items[1] = <<>> /\ sender[1].pc = "idle"
  BY <1>00, <1>01 DEF Inv, Queued, Plays, Queues
<1>7. Slots'
  <2>1. Reserved' = Reserved
    BY <1>0 DEF Reserved, Posted, Inv, Types
  <2>2. CASE queue # 0
    BY <1>0, <1>5, <2>1, <2>2, SlotsStay DEF Inv, stops, senders
  <2>3. CASE queue = 0
    <3> SUFFICES ASSUME registered PROVE backlog' = Reserved + Len(items[1]) + Sending(1)
      BY <1>0, <1>6, <2>1, <2>3 DEF Slots, Sending, stops, senders
    <3>1. Posted = {}
      BY <1>6, <2>3 DEF Posted
    <3>2. Cardinality(Posted) = 0
      BY <3>1, FS_EmptySet, Zenon
    <3>3. Reserved = 0
      BY <3>2, <1>0 DEF Reserved
    <3>4. Sending(1) = 0 /\ Len(items[1]) = 0
      BY <1>6, <2>3 DEF Sending
    <3> QED
      BY <3>3, <3>4, <1>6, <2>3
  <2> QED
    BY <2>2, <2>3
<1>8. Flows'
  <2> SUFFICES ASSUME registered PROVE Flows'
    BY <1>0 DEF Flows, stops
  <2>1. PICK a \in Messages, b \in Messages, c \in Messages, d \in Messages : Flow(a, b, c, d)
    BY <1>0 DEF Inv, Flows
  <2>2. game'.n = game.n /\ Going = 1 /\ Going' = 1
    BY <1>0 DEF Inv, Types, Going
  <2>3. CASE queue # 0
    BY <2>1, <2>2, <2>3, <1>0, <1>5
    DEF Flows, Flow, Failed, InHand, InQueue, Left, Numbers, senders
  <2>4. CASE queue = 0
    <3>1. InHand(a, b) /\ InQueue(b, c) /\ Left(c, d)
      BY <2>1, <2>4 DEF Flow, Failed
    <3>2. b = a /\ c = b /\ b \in Nat
      BY <3>1, <2>4 DEF InHand, InQueue, Messages
    <3>3. InTurn(items[1], b, c)
      BY <3>2, <1>6, <2>4, NothingInTurn
    <3>4. InHand(a, b)' /\ InQueue(b, c)'
      BY <3>2, <3>3, <1>0, <1>6, <2>4 DEF InHand, InQueue, senders
    <3>5. Left(c, d)'
      BY <3>1, <2>2, <1>0 DEF Left, Numbers
    <3>6. Flow(a, b, c, d)'
      BY <3>4, <3>5, <2>1, <2>2, <2>4, <1>0 DEF Flow, Failed
    <3> QED
      BY <3>6 DEF Flows
  <2> QED
    BY <2>3, <2>4
<1> QED
  BY <1>1, <1>2, <1>3, <1>4, <1>7, <1>8 DEF Inv

LEMMA TaskStep ==
  ASSUME Inv, GameAsksForTask PROVE Inv'
<1>0. /\ UNCHANGED <<made, lists, senders, slots, closing, stops, client, sent>>
      /\ game.pc = "task" /\ game' = [game EXCEPT !.pc = "reserve"]
      /\ calls' = calls \/ calls' = Append(calls, [do |-> "start", arg |-> 0])
  BY DEF GameAsksForTask
<1>00. game' \in [pc : {"idle", "ensure", "task", "reserve", "post", "overflow"}, n : Messages]
       /\ game'.n = game.n /\ game'.pc = "reserve"
  BY <1>0 DEF Inv, Types
<1>01. calls \in Seq(Calls)
  BY DEF Inv, Types
<1>02. /\ calls' \in Seq(Calls)
       /\ \A i \in DOMAIN calls' : calls'[i].do \in {"stop", "overflow"} =>
            \E j \in DOMAIN calls : calls'[i] = calls[j]
       /\ Cardinality(Posted') = Cardinality(Posted)
       /\ Numbers' = Numbers \/ Numbers' = Append(Numbers, Snapshot)
  <2>1. CASE calls' = calls
    BY <2>1, <1>01 DEF Posted, Numbers
  <2>2. CASE calls' = Append(calls, [do |-> "start", arg |-> 0])
    <3>1. PICK x \in Calls : x = [do |-> "start", arg |-> 0]
      BY DEF Calls
    <3>2. x.do = "start"
      BY <3>1
    <3>3. Cardinality(Posted) \in Nat
      BY <1>01, CallsFinite
    <3>4. /\ calls' \in Seq(Calls)
          /\ \A i \in DOMAIN calls' : calls'[i] = x \/ \E j \in DOMAIN calls : calls'[i] = calls[j]
          /\ Cardinality(Posted') = Cardinality(Posted) + 0
          /\ Numbers' = Append(Numbers, Snapshot)
      BY <2>2, <3>1, <3>2, <1>01, CallLeft
    <3>5. Cardinality(Posted') = Cardinality(Posted)
      BY <3>3, <3>4
    <3>6. \A i \in DOMAIN calls' : calls'[i].do \in {"stop", "overflow"} =>
            \E j \in DOMAIN calls : calls'[i] = calls[j]
      BY <3>4, <3>2
    <3> QED
      BY <3>4, <3>5, <3>6
  <2> QED
    BY <1>0, <2>1, <2>2
<1>1. Types'
  BY <1>0, <1>00, <1>02 DEF Inv, Types, lists, senders, slots, stops, client
<1>2. Counted'
  BY <1>0, CountedStays DEF Inv, lists, senders
<1>3. Queued'
  BY <1>0, <1>00 DEF Inv, Queued, Works, lists, senders, stops
<1>4. Plays'
  <2> SUFFICES ASSUME registered PROVE Plays'
    BY <1>0 DEF Plays, stops
  <2>1. queue # 0
    BY <1>0 DEF Inv, Plays
  <2>2. \A i \in DOMAIN calls' : calls'[i].do # "stop" /\ (calls'[i].do = "overflow" => overflowed)
    BY <1>02 DEF Inv, Plays
  <2> QED
    BY <1>0, <1>00, <2>1, <2>2 DEF Inv, Plays, lists, senders, slots, stops
<1>5. Slots'
  <2>1. Reserved' = Reserved
    BY <1>0, <1>00, <1>02 DEF Reserved
  <2> QED
    BY <1>0, <2>1, SlotsStay DEF Inv, lists, senders, slots, stops
<1>6. Flows'
  <2> SUFFICES ASSUME registered PROVE Flows'
    BY <1>0 DEF Flows, stops
  <2>1. PICK a \in Messages, b \in Messages, c \in Messages, d \in Messages : Flow(a, b, c, d)
    BY DEF Inv, Flows
  <2>2. Going = 1 /\ Going' = 1
    BY <1>0, <1>00 DEF Going
  <2>3. Left(c, d) => Left(c, d)'
    <3>1. c \in Nat /\ d \in Nat /\ Numbers \in Seq(Messages)
      BY <1>01, CallsFinite DEF Messages
    <3>2. InTurn(Numbers, c, d) => InTurn(Numbers, c, d)'
      BY <3>1, <1>02, SnapshotInTurn
    <3> QED
      BY <3>2, <2>2, <1>0, <1>00 DEF Left, slots
  <2>4. Flow(a, b, c, d)'
    BY <2>1, <2>3, <1>0, <1>00 DEF Flow, Failed, InHand, InQueue, lists, senders
  <2> QED
    BY <2>4 DEF Flows
<1> QED
  BY <1>1, <1>2, <1>3, <1>4, <1>5, <1>6 DEF Inv

LEMMA ReserveStep ==
  ASSUME Inv, GameReserves PROVE Inv'
<1>0. /\ UNCHANGED <<made, lists, senders, calls, closing, stops, client, sent>>
      /\ game.pc = "reserve"
      /\ \/ Dropped /\ game' = [game EXCEPT !.pc = "idle"] /\ UNCHANGED slots
         \/ /\ ~Dropped /\ Full(backlog) /\ game' = [game EXCEPT !.pc = "overflow"]
            /\ overflowed' = TRUE /\ UNCHANGED backlog
         \/ /\ ~Dropped /\ ~Full(backlog) /\ game' = [game EXCEPT !.pc = "post"]
            /\ backlog' = backlog + 1 /\ UNCHANGED overflowed
  BY DEF GameReserves
<1>00. game' \in [pc : {"idle", "ensure", "task", "reserve", "post", "overflow"}, n : Messages]
       /\ game'.n = game.n /\ game'.pc \in {"idle", "overflow", "post"}
  BY <1>0 DEF Inv, Types
<1>01. backlog' \in -1 .. MaxOutbound /\ overflowed' \in BOOLEAN
  <2>1. backlog \in -1 .. MaxOutbound /\ overflowed \in BOOLEAN
    BY DEF Inv, Types
  <2>2. backlog' = backlog \/ (backlog' = backlog + 1 /\ ~(backlog >= MaxOutbound))
    BY <1>0 DEF Full, slots
  <2>3. backlog' \in -1 .. MaxOutbound
    BY <2>1, <2>2, BoundsAssumption
  <2> QED
    BY <2>1, <2>3, <1>0 DEF slots
<1>02. Cardinality(Posted) \in Nat
  BY CallsFinite DEF Inv, Types
<1>03. registered => queue # 0 /\ backlog >= 0
  <2>1. registered => queue # 0
    BY <1>0 DEF Inv, Plays
  <2>2. registered => backlog = Cardinality(Posted) + Len(items[queue]) + Sending(queue)
    BY <1>0, <1>02, <2>1 DEF Inv, Slots, Reserved, Sending, Types, Lines
  <2>3. registered => items[queue] \in Seq(Messages)
    BY <2>1 DEF Inv, Types, Lines
  <2>4. registered => Len(items[queue]) \in Nat
    BY <2>3
  <2> QED
    BY <2>1, <2>2, <2>4, <1>02 DEF Sending
<1>1. Types'
  BY <1>0, <1>00, <1>01 DEF Inv, Types, lists, senders, stops, client
<1>2. Counted'
  BY <1>0, CountedStays DEF Inv, lists, senders
<1>3. Queued'
  BY <1>0, <1>00 DEF Inv, Queued, Works, lists, senders, stops
<1>4. Plays'
  <2> SUFFICES ASSUME registered PROVE Plays'
    BY <1>0 DEF Plays, stops
  <2>1. overflowed => overflowed'
    BY <1>0 DEF slots
  <2>2. game'.pc = "overflow" => overflowed'
    BY <1>0, <1>00
  <2> QED
    BY <1>0, <1>03, <2>1, <2>2 DEF Inv, Plays, lists, senders, stops
<1>5. Slots'
  <2> SUFFICES ASSUME registered PROVE Slots'
    BY <1>0 DEF Slots, stops
  <2>1. \/ backlog' = backlog /\ Reserved' = Reserved
        \/ backlog' = backlog + 1 /\ Reserved' = Reserved + 1
    BY <1>0, <1>00, <1>02 DEF Reserved, Posted, slots
  <2>2. /\ backlog = Reserved + Len(items[queue]) + Sending(queue)
        /\ items[queue] \in Seq(Messages)
    BY <1>03 DEF Inv, Slots, Types, Lines
  <2>3. Reserved \in Nat /\ Len(items[queue]) \in Nat /\ Sending(queue) \in Nat
    BY <2>2, <1>0, <1>02 DEF Reserved, Sending
  <2>4. backlog' = Reserved' + Len(items[queue]) + Sending(queue)
    BY <2>1, <2>2, <2>3
  <2> QED
    BY <2>4, <1>0 DEF Slots, Sending, lists, senders
<1>6. Flows'
  <2> SUFFICES ASSUME registered PROVE Flows'
    BY <1>0 DEF Flows, stops
  <2>1. PICK a \in Messages, b \in Messages, c \in Messages, d \in Messages : Flow(a, b, c, d)
    BY DEF Inv, Flows
  <2>2. overflowed' \/ (Going = 1 /\ Going' = 1 /\ ~overflowed)
    BY <1>0, <1>00, <1>03 DEF Going, Dropped, Inv, Types, slots
  <2>3. Left(c, d) => Left(c, d)'
    BY <2>2, <1>0, <1>00 DEF Left, Numbers
  <2>4. Flow(a, b, c, d)'
    BY <2>1, <2>3, <1>0, <1>00 DEF Flow, Failed, InHand, InQueue, lists, senders
  <2> QED
    BY <2>4 DEF Flows
<1> QED
  BY <1>1, <1>2, <1>3, <1>4, <1>5, <1>6 DEF Inv

LEMMA PostStep ==
  ASSUME Inv, GamePosts PROVE Inv'
<1> DEFINE x == IF game.pc = "post" THEN [do |-> "enqueue", arg |-> game.n]
                                    ELSE [do |-> "overflow", arg |-> 0]
<1>0. /\ UNCHANGED <<made, lists, senders, slots, closing, stops, client, sent>>
      /\ game.pc \in {"post", "overflow"} /\ game' = [game EXCEPT !.pc = "idle"]
      /\ calls' = Append(calls, x)
  BY DEF GamePosts
<1>00. game' \in [pc : {"idle", "ensure", "task", "reserve", "post", "overflow"}, n : Messages]
       /\ game'.n = game.n /\ game'.pc = "idle"
  BY <1>0 DEF Inv, Types
<1>01. calls \in Seq(Calls) /\ Cardinality(Posted) \in Nat
  BY CallsFinite DEF Inv, Types
<1>02. x.do \in {"enqueue", "overflow"} /\ (x.do = "enqueue" <=> game.pc = "post")
       /\ (x.do = "enqueue" => x.arg = game.n)
  BY <1>0
<1>03. PICK y \in Calls : y = x
  <2>1. game.pc = "post" => game.n \in Messages \ {Snapshot}
    BY DEF Inv, Types
  <2> QED
    BY <2>1, <1>0 DEF Calls
<1>04. /\ calls' \in Seq(Calls) /\ calls' # <<>>
       /\ \A i \in DOMAIN calls' : calls'[i] = y \/ \E j \in DOMAIN calls : calls'[i] = calls[j]
       /\ Cardinality(Posted') = Cardinality(Posted) + (IF y.do = "enqueue" THEN 1 ELSE 0)
       /\ Numbers' = Append(Numbers, IF y.do = "enqueue" THEN y.arg ELSE Snapshot)
  BY <1>0, <1>01, <1>03, CallLeft
<1>05. /\ Cardinality(Posted') = Cardinality(Posted) + (IF game.pc = "post" THEN 1 ELSE 0)
       /\ Numbers' = Append(Numbers, IF game.pc = "post" THEN game.n ELSE Snapshot)
  BY <1>02, <1>03, <1>04
<1>1. Types'
  BY <1>0, <1>00, <1>04 DEF Inv, Types, lists, senders, slots, stops, client
<1>2. Counted'
  BY <1>0, CountedStays DEF Inv, lists, senders
<1>3. Queued'
  BY <1>0, <1>00 DEF Inv, Queued, Works, lists, senders, stops
<1>4. Plays'
  <2> SUFFICES ASSUME registered PROVE Plays'
    BY <1>0 DEF Plays, stops
  <2>1. queue # 0
    BY <1>0 DEF Inv, Plays
  <2>2. \A i \in DOMAIN calls' : calls'[i].do # "stop" /\ (calls'[i].do = "overflow" => overflowed)
    BY <1>0, <1>02, <1>03, <1>04 DEF Inv, Plays
  <2> QED
    BY <1>0, <1>00, <2>1, <2>2 DEF Inv, Plays, lists, senders, slots, stops
<1>5. Slots'
  <2>1. Reserved' = Reserved
    BY <1>0, <1>00, <1>01, <1>05 DEF Reserved
  <2> QED
    BY <1>0, <2>1, SlotsStay DEF Inv, lists, senders, slots, stops
<1>6. Flows'
  <2> SUFFICES ASSUME registered PROVE Flows'
    BY <1>0 DEF Flows, stops
  <2>1. PICK a \in Messages, b \in Messages, c \in Messages, d \in Messages : Flow(a, b, c, d)
    BY DEF Inv, Flows
  <2>2. Going' = 0 /\ (overflowed \/ game.pc = "post")
    BY <1>0, <1>00 DEF Going, Inv, Plays
  <2>3. PICK e \in Messages : Left(c, d) => Left(c, e)'
    <3>1. CASE overflowed
      BY <3>1, <1>0 DEF Left, slots
    <3>2. CASE game.pc = "post" /\ ~overflowed
      <4>1. PICK e \in Messages : e = game.n
        BY DEF Inv, Types
      <4> SUFFICES ASSUME Left(c, d) PROVE Left(c, e)'
        OBVIOUS
      <4>2. InTurn(Numbers, c, d) /\ c <= d /\ e = d + 1 /\ c \in Nat /\ d \in Nat
        BY <3>2, <4>1 DEF Left, Going, Messages
      <4>3. InTurn(Append(Numbers, d + 1), c, d + 1)
        <5>1. Numbers \in Seq(Messages)
          BY <1>01, CallsFinite
        <5> QED
          BY <4>2, <5>1, NextInTurn
      <4>4. Numbers' = Append(Numbers, d + 1)
        BY <1>05, <3>2, <4>1, <4>2
      <4>5. InTurn(Numbers, c, e)'
        BY <4>2, <4>3, <4>4
      <4>6. c <= e /\ game'.n = e + 0
        <5>1. e \in Nat /\ game'.n = e
          BY <4>1, <1>00 DEF Messages
        <5> QED
          BY <4>2, <5>1
      <4> QED
        BY <4>5, <4>6, <2>2 DEF Left
    <3> QED
      BY <2>2, <3>1, <3>2
  <2>4. Flow(a, b, c, e)'
    BY <2>1, <2>3, <1>0, <1>00 DEF Flow, Failed, InHand, InQueue, lists, senders
  <2> QED
    BY <2>4 DEF Flows
<1> QED
  BY <1>1, <1>2, <1>3, <1>4, <1>5, <1>6 DEF Inv

LEMMA StartStep ==
  ASSUME Inv, RunStart PROVE Inv'
<1>0. /\ UNCHANGED <<thread, lists, slots, closing, stops, client, sent>>
      /\ calls # <<>> /\ Head(calls).do = "start" /\ calls' = Tail(calls)
      /\ stopping = "no" /\ StartTask(queue)
  BY DEF RunStart, Run, LoopFree
<1>01. calls \in Seq(Calls)
  BY DEF Inv, Types
<1>02. /\ calls' \in Seq(Calls)
       /\ \A i \in DOMAIN calls' : \E j \in DOMAIN calls : calls'[i] = calls[j]
       /\ Numbers # <<>> /\ Numbers' = Tail(Numbers) /\ Head(Numbers) = Snapshot
  BY <1>0, <1>01, CallTaken
<1>03. Cardinality(Posted') = Cardinality(Posted)
  <2>1. Cardinality(Posted) = Cardinality(Posted') + 0
    BY <1>0, <1>01, CallTaken
  <2>2. Cardinality(Posted)' \in Nat
    BY <1>0, <1>01, CallTaken
  <2> QED
    BY <2>1, <2>2
<1>04. \/ UNCHANGED <<task, sender>>
       \/ /\ task = 0 /\ queue # 0 /\ task' = queue
          /\ sender' = [sender EXCEPT ![queue] = [pc |-> "get", m |-> Snapshot]]
  BY <1>0 DEF StartTask, Idle, senders
<1>05. queue \in Lines /\ sender \in [Queues -> Senders]
  BY DEF Inv, Types
<1>1. Types'
  <2>1. [pc |-> "get", m |-> Snapshot] \in Senders
    BY BoundsAssumption DEF Senders, Messages, Snapshot
  <2>2. sender' \in [Queues -> Senders] /\ task' \in Lines
    BY <1>04, <1>05, <2>1 DEF Inv, Types
  <2> QED
    BY <1>0, <1>02, <2>2 DEF Inv, Types, thread, lists, slots, stops, client
<1>2. \A k \in Queues : /\ Sending(k)' = Sending(k)
                        /\ \/ sender'[k] = sender[k]
                           \/ k = queue /\ sender'[k].pc = "get" /\ task' = k
  <2>1. CASE UNCHANGED <<task, sender>>
    BY <2>1 DEF Sending
  <2>2. CASE task = 0 /\ queue # 0 /\ task' = queue
             /\ sender' = [sender EXCEPT ![queue] = [pc |-> "get", m |-> Snapshot]]
    <3>1. sender[queue].pc # "sending"
      BY <2>2, <1>05 DEF Inv, Queued, Works, Lines
    <3> QED
      BY <2>2, <3>1, <1>05 DEF Sending
  <2> QED
    BY <1>04, <2>1, <2>2
<1>3. Counted'
  BY <1>0, <1>2 DEF Inv, Counted, lists
<1>4. Queued'
  <2>1. \A k \in Queues : k > made => ~Works(k)'
    <3> SUFFICES ASSUME NEW k \in Queues, k > made PROVE ~Works(k)'
      OBVIOUS
    <3>1. k # queue
      BY DEF Inv, Queued, Types, Lines, Queues
    <3> QED
      BY <3>1, <1>2 DEF Inv, Queued, Works
  <2>2. queue # 0 => task' # 0 \/ ~Works(queue)'
    <3>1. CASE UNCHANGED <<task, sender>>
      BY <3>1, <1>0 DEF Inv, Queued, Works, lists
    <3> QED
      BY <3>1, <1>04
  <2> QED
    BY <1>0, <2>1, <2>2 DEF Inv, Queued, Works, thread, lists, stops
<1>5. Plays'
  <2> SUFFICES ASSUME registered PROVE Plays'
    BY <1>0 DEF Plays, stops
  <2>1. queue # 0
    BY <1>0 DEF Inv, Plays
  <2>2. \A i \in DOMAIN calls' : calls'[i].do # "stop" /\ (calls'[i].do = "overflow" => overflowed)
    BY <1>02 DEF Inv, Plays
  <2>3. task' \in {0, queue} /\ \A k \in Queues : k # task' => sender'[k].pc = "idle"
    BY <1>04, <1>05 DEF Inv, Plays
  <2> QED
    BY <1>0, <2>1, <2>2, <2>3 DEF Inv, Plays, thread, lists, slots, stops
<1>6. Slots'
  <2>1. Reserved' = Reserved
    BY <1>0, <1>03 DEF Reserved, thread
  <2> QED
    BY <1>0, <1>2, <1>05, <2>1 DEF Inv, Slots, lists, slots, stops, Lines
<1>7. Flows'
  <2> SUFFICES ASSUME registered PROVE Flows'
    BY <1>0 DEF Flows, stops
  <2>1. PICK a \in Messages, b \in Messages, c \in Messages, d \in Messages : Flow(a, b, c, d)
    BY DEF Inv, Flows
  <2>2. queue # 0 /\ queue \in Queues
    BY <1>0, <1>05 DEF Inv, Plays, Lines
  <2>3. \/ UNCHANGED <<task, sender>>
        \/ sender[queue].pc = "idle" /\ sender'[queue].pc = "get"
    BY <2>2, <1>04, <1>05 DEF Inv, Plays
  <2>4. (Failed' <=> Failed) /\ (InHand(a, b) => InHand(a, b)')
    BY <2>2, <2>3, <1>0 DEF Failed, InHand, lists
  <2>5. Left(c, d) => Left(c, d)'
    <3>1. c \in Nat /\ d \in Nat /\ Numbers \in Seq(Messages)
      BY <1>01, CallsFinite DEF Messages
    <3>2. InTurn(Numbers, c, d) => InTurn(Numbers, c, d)'
      BY <3>1, <1>02, SnapshotTaken
    <3> QED
      BY <3>2, <1>0 DEF Left, slots, Going, thread
  <2>6. Flow(a, b, c, d)'
    BY <2>1, <2>4, <2>5, <1>0 DEF Flow, InQueue, lists, thread
  <2> QED
    BY <2>6 DEF Flows
<1> QED
  BY <1>1, <1>3, <1>4, <1>5, <1>6, <1>7 DEF Inv

LEMMA PutAt ==
  ASSUME Types, NEW q \in Queues, NEW m \in Messages, Len(items[q]) < MaxOutbound,
         items' = [items EXCEPT ![q] = Append(@, m)]
  PROVE /\ items' \in [Queues -> Seq(Messages)] /\ \A k \in Queues : Len(items'[k]) <= MaxOutbound
        /\ items'[q] = Append(items[q], m) /\ Len(items'[q]) = Len(items[q]) + 1
        /\ Len(items[q]) \in Nat
        /\ \A k \in Queues \ {q} : items'[k] = items[k]
<1>1. items \in [Queues -> Seq(Messages)] /\ \A k \in Queues : Len(items[k]) <= MaxOutbound
  BY DEF Types
<1>2. PICK s \in Seq(Messages) : s = items[q]
  BY <1>1
<1>3. PICK n \in Nat : n = Len(s)
  BY <1>2
<1>4. Append(s, m) \in Seq(Messages) /\ Len(Append(s, m)) = n + 1
  BY <1>3, AppendAt
<1>5. items' = [items EXCEPT ![q] = Append(s, m)]
  BY <1>2
<1>6. items'[q] = Append(s, m) /\ \A k \in Queues \ {q} : items'[k] = items[k]
  BY <1>1, <1>5
<1>7. items' \in [Queues -> Seq(Messages)]
  BY <1>1, <1>4, <1>5
<1>8. n + 1 <= MaxOutbound
  BY <1>2, <1>3, BoundsAssumption
<1>9. \A k \in Queues : Len(items'[k]) <= MaxOutbound
  <2> SUFFICES ASSUME NEW k \in Queues PROVE Len(items'[k]) <= MaxOutbound
    OBVIOUS
  <2>1. CASE k = q
    BY <2>1, <1>4, <1>6, <1>8
  <2>2. CASE k # q
    BY <2>2, <1>1, <1>6
  <2> QED
    BY <2>1, <2>2
<1> QED
  BY <1>2, <1>3, <1>4, <1>6, <1>7, <1>9

LEMMA OverflowAt ==
  ASSUME Types, Counted, NEW more \in Nat, HandleOverflow(more)
  PROVE /\ items' \in [Queues -> Seq(Messages)] /\ \A k \in Queues : Len(items'[k]) <= MaxOutbound
        /\ unfinished' \in [Queues -> Int] /\ backlog' \in -1 .. MaxOutbound /\ closing' \in Nat
        /\ \A k \in Queues : items'[k] = (IF k = queue THEN <<>> ELSE items[k])
        /\ \A k \in Queues : unfinished'[k] = Len(items'[k]) + Sending(k)
        /\ queue \in Queues /\ more + Len(items[queue]) <= backlog =>
             backlog' = backlog - Len(items[queue]) - more
<1>1. /\ items \in [Queues -> Seq(Messages)] /\ \A k \in Queues : Len(items[k]) <= MaxOutbound
      /\ unfinished \in [Queues -> Int] /\ queue \in Lines /\ closing \in Nat
      /\ backlog \in -1 .. MaxOutbound
  BY DEF Types
<1>2. PICK n \in Nat : n = IF queue = 0 THEN 0 ELSE Len(items[queue])
  <2>1. queue # 0 => items[queue] \in Seq(Messages)
    BY <1>1 DEF Lines
  <2> QED
    BY <2>1
<1>3. /\ items' = [k \in Queues |-> IF k = queue THEN <<>> ELSE items[k]]
      /\ unfinished' = [k \in Queues |-> IF k = queue THEN unfinished[k] - n ELSE unfinished[k]]
      /\ backlog' = Freed(n + more) /\ closing' = closing + 1
  BY <1>2 DEF HandleOverflow
<1>4. <<>> \in Seq(Messages) /\ Len(<<>>) = 0
  OBVIOUS
<1>5. items' \in [Queues -> Seq(Messages)]
  BY <1>1, <1>3, <1>4
<1>6. \A k \in Queues : Len(items'[k]) <= MaxOutbound
  BY <1>1, <1>3, <1>4, BoundsAssumption
<1>7. unfinished' \in [Queues -> Int]
  BY <1>1, <1>3
<1>8. n + more \in Nat
  OBVIOUS
<1>9. backlog' \in -1 .. MaxOutbound
  BY <1>3, <1>8, FreedInRange
<1>10. ASSUME NEW k \in Queues PROVE unfinished'[k] = Len(items'[k]) + Sending(k)
  <2>1. unfinished[k] = Len(items[k]) + Sending(k) /\ Sending(k) \in Nat
    BY DEF Counted, Sending
  <2>2. CASE k = queue
    <3>1. n = Len(items[k])
      BY <2>2, <1>2 DEF Queues
    <3>2. unfinished'[k] = Sending(k)
      BY <1>3, <2>1, <2>2, <3>1
    <3> QED
      BY <3>2, <2>1, <2>2, <1>3, <1>4
  <2>3. CASE k # queue
    BY <2>3, <2>1, <1>3
  <2> QED
    BY <2>2, <2>3
<1>11. queue \in Queues /\ more + Len(items[queue]) <= backlog =>
             backlog' = backlog - Len(items[queue]) - more
  <2> SUFFICES ASSUME queue \in Queues, more + Len(items[queue]) <= backlog
               PROVE backlog' = backlog - Len(items[queue]) - more
    OBVIOUS
  <2>1. n = Len(items[queue])
    BY <1>2 DEF Queues
  <2>2. n + more <= backlog
    BY <2>1
  <2>3. backlog' = backlog - (n + more)
    BY <1>3, <1>8, <2>2, FreedExactly
  <2> QED
    BY <2>1, <2>3, <1>1
<1> QED
  BY <1>3, <1>1, <1>5, <1>6, <1>7, <1>9, <1>10, <1>11

LEMMA EnqueueStep ==
  ASSUME Inv, RunEnqueue PROVE Inv'
<1>0. /\ UNCHANGED <<thread, queue, senders, stops, client, sent>>
      /\ calls # <<>> /\ Head(calls).do = "enqueue" /\ calls' = Tail(calls)
      /\ EnqueueReserved(Head(calls).arg)
  BY DEF RunEnqueue, Run
<1>01. calls \in Seq(Calls) /\ Types /\ Counted /\ Cardinality(Posted) \in Nat
  BY CallsFinite DEF Inv, Types
<1>02. /\ calls' \in Seq(Calls) /\ Head(calls) \in Calls
       /\ \A i \in DOMAIN calls' : \E j \in DOMAIN calls : calls'[i] = calls[j]
       /\ Cardinality(Posted') \in Nat
       /\ Cardinality(Posted) = Cardinality(Posted') + 1
       /\ Numbers # <<>> /\ Numbers' = Tail(Numbers) /\ Head(Numbers) = Head(calls).arg
  BY <1>0, <1>01, CallTaken
<1>03. PICK m \in Messages : m = Head(calls).arg /\ m # Snapshot
  BY <1>0, <1>02, CallKinds
<1>04. /\ items \in [Queues -> Seq(Messages)] /\ \A k \in Queues : Len(items[k]) <= MaxOutbound
       /\ unfinished \in [Queues -> Int] /\ queue \in Lines /\ closing \in Nat
       /\ backlog \in -1 .. MaxOutbound /\ overflowed \in BOOLEAN
  BY DEF Inv, Types
<1>05. registered =>
         /\ queue \in Queues /\ backlog = Reserved + Len(items[queue]) + Sending(queue)
         /\ Reserved \in Nat /\ Reserved >= 1 /\ Len(items[queue]) \in Nat
         /\ Sending(queue) \in {0, 1} /\ Reserved' = Reserved - 1
  <2> SUFFICES ASSUME registered
               PROVE  /\ queue \in Queues /\ backlog = Reserved + Len(items[queue]) + Sending(queue)
                      /\ Reserved \in Nat /\ Reserved >= 1 /\ Len(items[queue]) \in Nat
                      /\ Sending(queue) \in {0, 1} /\ Reserved' = Reserved - 1
    OBVIOUS
  <2>1. queue \in Queues
    BY <1>0, <1>04 DEF Inv, Plays, Lines
  <2>2. Reserved' = Reserved - 1 /\ Reserved \in Nat /\ Reserved >= 1
    <3>1. PICK n \in Nat : n = Cardinality(Posted')
      BY <1>02
    <3>2. PICK p \in Nat : p = IF game.pc = "post" THEN 1 ELSE 0
      OBVIOUS
    <3>3. Reserved = n + 1 + p
      BY <3>1, <3>2, <1>02 DEF Reserved
    <3>4. Reserved' = n + p
      BY <3>1, <3>2, <1>0 DEF Reserved, thread
    <3> QED
      BY <3>3, <3>4
  <2>3. items[queue] \in Seq(Messages)
    BY <2>1, <1>04
  <2>4. Len(items[queue]) \in Nat
    BY <2>3
  <2>5. backlog = Reserved + Len(items[queue]) + Sending(queue)
    BY <2>1 DEF Inv, Slots, Queues
  <2> QED
    BY <2>1, <2>2, <2>4, <2>5 DEF Sending
<1>06. \/ (queue = 0 \/ overflowed) /\ backlog' = Freed(1)
          /\ UNCHANGED <<items, unfinished, overflowed, closing>>
       \/ /\ queue # 0 /\ ~overflowed /\ Len(items[queue]) >= MaxOutbound
          /\ HandleOverflow(1) /\ overflowed' = TRUE
       \/ /\ queue # 0 /\ ~overflowed /\ ~(Len(items[queue]) >= MaxOutbound)
          /\ Put(m) /\ UNCHANGED <<slots, closing>>
  BY <1>0, <1>03 DEF EnqueueReserved
<1>07. queue # 0 => queue \in Queues /\ Len(items[queue]) \in Nat
  <2>1. queue # 0 => items[queue] \in Seq(Messages) /\ queue \in Queues
    BY <1>04 DEF Lines
  <2> QED
    BY <2>1
<1>1. /\ items' \in [Queues -> Seq(Messages)] /\ \A k \in Queues : Len(items'[k]) <= MaxOutbound
      /\ unfinished' \in [Queues -> Int] /\ overflowed' \in BOOLEAN /\ closing' \in Nat
      /\ backlog' \in -1 .. MaxOutbound
      /\ \A k \in Queues : unfinished'[k] = Len(items'[k]) + Sending(k)
      /\ \A k \in Queues : k # queue => items'[k] = items[k]
  <2>1. CASE (queue = 0 \/ overflowed) /\ backlog' = Freed(1)
             /\ UNCHANGED <<items, unfinished, overflowed, closing>>
    <3>1. backlog' \in -1 .. MaxOutbound
      BY <2>1, <1>01, FreedInRange
    <3> QED
      BY <2>1, <3>1, <1>01, <1>04 DEF Counted
  <2>2. CASE /\ queue # 0 /\ ~overflowed /\ Len(items[queue]) >= MaxOutbound
             /\ HandleOverflow(1) /\ overflowed' = TRUE
    BY <2>2, <1>01, OverflowAt
  <2>3. CASE /\ queue # 0 /\ ~overflowed /\ ~(Len(items[queue]) >= MaxOutbound)
             /\ Put(m) /\ UNCHANGED <<slots, closing>>
    <3>1. queue \in Queues /\ Len(items[queue]) \in Nat
      BY <2>3, <1>07
    <3>2. Len(items[queue]) < MaxOutbound
      BY <2>3, <3>1, BoundsAssumption
    <3>3. /\ items' = [items EXCEPT ![queue] = Append(@, m)]
          /\ unfinished' = [unfinished EXCEPT ![queue] = @ + 1]
      BY <2>3 DEF Put
    <3>4. /\ items' \in [Queues -> Seq(Messages)] /\ \A k \in Queues : Len(items'[k]) <= MaxOutbound
          /\ Len(items'[queue]) = Len(items[queue]) + 1
          /\ \A k \in Queues \ {queue} : items'[k] = items[k]
      BY <3>1, <3>2, <3>3, <1>01, PutAt
    <3>5. unfinished' \in [Queues -> Int] /\ unfinished'[queue] = unfinished[queue] + 1
          /\ \A k \in Queues \ {queue} : unfinished'[k] = unfinished[k]
      BY <3>1, <3>3, <1>04
    <3>6. \A k \in Queues \ {queue} : unfinished'[k] = Len(items'[k]) + Sending(k)
      BY <3>4, <3>5, <1>01 DEF Counted
    <3>7. unfinished'[queue] = Len(items'[queue]) + Sending(queue)
      <4>1. unfinished[queue] = Len(items[queue]) + Sending(queue)
        BY <3>1, <1>01 DEF Counted
      <4>2. Sending(queue) \in Nat
        BY DEF Sending
      <4> QED
        BY <3>1, <3>4, <3>5, <4>1, <4>2
    <3> QED
      BY <2>3, <3>4, <3>5, <3>6, <3>7, <1>04 DEF slots
  <2> QED
    BY <1>06, <2>1, <2>2, <2>3
<1>2. Types'
  BY <1>0, <1>1, <1>02 DEF Inv, Types, thread, senders, stops, client
<1>3. Counted'
  BY <1>0, <1>1 DEF Counted, Sending, senders
<1>4. Queued'
  BY <1>0 DEF Inv, Queued, Works, thread, senders, stops
<1>5. registered =>
        \/ /\ overflowed /\ backlog' = backlog - 1 /\ UNCHANGED <<items, overflowed>>
        \/ /\ ~overflowed /\ UNCHANGED <<backlog, overflowed>>
           /\ items' = [items EXCEPT ![queue] = Append(@, m)]
           /\ Len(items'[queue]) = Len(items[queue]) + 1
           /\ items'[queue] = Append(items[queue], m)
  <2> SUFFICES ASSUME registered
               PROVE \/ /\ overflowed /\ backlog' = backlog - 1 /\ UNCHANGED <<items, overflowed>>
                     \/ /\ ~overflowed /\ UNCHANGED <<backlog, overflowed>>
                        /\ items' = [items EXCEPT ![queue] = Append(@, m)]
                        /\ Len(items'[queue]) = Len(items[queue]) + 1
                        /\ items'[queue] = Append(items[queue], m)
    OBVIOUS
  <2>1. queue # 0 /\ 1 <= backlog /\ Len(items[queue]) < MaxOutbound
    BY <1>05, <1>04, BoundsAssumption DEF Queues
  <2>2. CASE (queue = 0 \/ overflowed) /\ backlog' = Freed(1)
             /\ UNCHANGED <<items, unfinished, overflowed, closing>>
    BY <2>1, <2>2, <1>01, FreedExactly
  <2>3. CASE Len(items[queue]) >= MaxOutbound
    BY <2>1, <2>3, <1>05, BoundsAssumption
  <2>4. CASE /\ queue # 0 /\ ~overflowed /\ ~(Len(items[queue]) >= MaxOutbound)
             /\ Put(m) /\ UNCHANGED <<slots, closing>>
    <3>1. items' = [items EXCEPT ![queue] = Append(@, m)]
      BY <2>4 DEF Put
    <3>2. Len(items'[queue]) = Len(items[queue]) + 1 /\ items'[queue] = Append(items[queue], m)
      BY <3>1, <2>1, <1>05, <1>01, PutAt
    <3> QED
      BY <3>1, <3>2, <2>4 DEF slots
  <2> QED
    BY <1>06, <2>2, <2>3, <2>4
<1>6. Plays'
  <2> SUFFICES ASSUME registered PROVE Plays'
    BY <1>0 DEF Plays, stops
  <2>1. \A i \in DOMAIN calls' :
           calls'[i].do # "stop" /\ (calls'[i].do = "overflow" => overflowed')
    BY <1>02, <1>5 DEF Inv, Plays
  <2>2. \A k \in Queues : k # queue => items'[k] = <<>>
    BY <1>1 DEF Inv, Plays
  <2> QED
    BY <1>0, <1>05, <1>5, <2>1, <2>2 DEF Inv, Plays, thread, senders, stops, Queues
<1>7. Slots'
  <2> SUFFICES ASSUME registered PROVE Slots'
    BY <1>0 DEF Slots, stops
  <2>1. backlog' = Reserved' + Len(items'[queue]) + Sending(queue)
    BY <1>05, <1>5
  <2> QED
    BY <2>1, <1>0 DEF Slots, Sending, senders
<1>8. Flows'
  <2> SUFFICES ASSUME registered PROVE Flows'
    BY <1>0 DEF Flows, stops
  <2>1. PICK a \in Messages, b \in Messages, c \in Messages, d \in Messages : Flow(a, b, c, d)
    BY DEF Inv, Flows
  <2>2. queue # 0 /\ (Failed' <=> Failed)
    BY <1>0, <1>05 DEF Failed, senders, Queues
  <2>3. CASE overflowed
    <3>1. InQueue(b, c) => InQueue(b, c)'
      BY <2>3, <1>0, <1>5 DEF InQueue
    <3>2. Left(c, d)'
      BY <2>3, <1>5 DEF Left
    <3>3. Flow(a, b, c, d)'
      BY <2>1, <2>2, <3>1, <3>2, <1>0 DEF Flow, InHand, senders, thread
    <3> QED
      BY <3>3 DEF Flows
  <2>4. CASE ~overflowed /\ ~Failed
    <3>1. /\ InTurn(items[queue], b, c) /\ InTurn(Numbers, c, d) /\ b <= c /\ c <= game.n
          /\ b \in Nat /\ c \in Nat /\ d \in Nat /\ Going \in {0, 1} /\ game.n = d + Going
      BY <2>1, <2>2, <2>4 DEF Flow, InQueue, Left, Messages, Going
    <3>2. Numbers \in Seq(Messages) /\ items[queue] \in Seq(Messages)
      BY <1>01, <1>04, <1>05, CallsFinite
    <3>3. Head(Numbers) = m /\ m # Snapshot
      BY <1>02, <1>03
    <3>4. m = c + 1 /\ c + 1 <= d /\ InTurn(Tail(Numbers), c + 1, d)
      BY <3>1, <3>2, <3>3, <1>02, NextTaken
    <3>5. InTurn(Append(items[queue], c + 1), b, c + 1)
      BY <3>1, <3>2, <3>4, NextInTurn
    <3>6. InQueue(b, m)'
      BY <3>4, <3>5, <2>2, <2>4, <1>0, <1>5 DEF InQueue
    <3>7. Left(m, d)'
      BY <3>4, <3>1, <1>02, <1>0 DEF Left, Going, thread
    <3>8. b <= m /\ m <= game.n
      BY <3>1, <3>4
    <3>9. Flow(a, b, m, d)'
      BY <2>1, <2>4, <3>6, <3>7, <3>8, <1>0 DEF Flow, InHand, senders, thread
    <3> QED
      BY <3>9 DEF Flows
  <2>5. CASE Failed
    <3>1. Flow(a, b, c, d)'
      BY <2>1, <2>2, <2>5, <1>0 DEF Flow, thread
    <3> QED
      BY <3>1 DEF Flows
  <2> QED
    BY <2>3, <2>4, <2>5
<1> QED
  BY <1>2, <1>3, <1>4, <1>6, <1>7, <1>8 DEF Inv

LEMMA OverflowFlows ==
  ASSUME NEW more \in Nat, NEW a, NEW b, NEW c, NEW d, Types, Counted, Flow(a, b, c, d),
         HandleOverflow(more), overflowed', b \in Nat, c \in Nat, queue \in Queues,
         UNCHANGED <<game, sent, queue, sender>>
  PROVE Flow(a, b, b, d)'
<1>1. items'[queue] = <<>>
  BY OverflowAt
<1>2. Failed' <=> Failed
  BY DEF Failed
<1>3. CASE Failed
  BY <1>2, <1>3 DEF Flow
<1>4. CASE ~Failed
  <2>1. b <= c /\ c <= game.n /\ InHand(a, b)
    BY <1>4 DEF Flow
  <2>2. b <= b /\ b <= game.n
    BY <2>1 DEF Types, Messages
  <2>3. InTurn(<<>>, b, b)
    BY NothingInTurn
  <2>4. InQueue(b, b)'
    BY <1>1, <2>3 DEF InQueue, Queues
  <2>5. Left(b, d)' /\ InHand(a, b)'
    BY <2>1 DEF Left, InHand
  <2> QED
    BY <2>2, <2>4, <2>5 DEF Flow
<1> QED
  BY <1>3, <1>4

LEMMA OverflowStep ==
  ASSUME Inv, RunOverflow PROVE Inv'
<1>0. /\ UNCHANGED <<thread, queue, overflowed, senders, stops, client, sent>>
      /\ calls # <<>> /\ Head(calls).do = "overflow" /\ calls' = Tail(calls)
      /\ HandleOverflow(0)
  BY DEF RunOverflow, Run
<1>01. calls \in Seq(Calls) /\ Types /\ Counted
  BY DEF Inv, Types
<1>02. /\ calls' \in Seq(Calls) /\ 1 \in DOMAIN calls /\ Head(calls) = calls[1]
       /\ \A i \in DOMAIN calls' : \E j \in DOMAIN calls : calls'[i] = calls[j]
       /\ Cardinality(Posted') \in Nat
       /\ Cardinality(Posted) = Cardinality(Posted') + 0
  BY <1>0, <1>01, CallTaken
<1>03. /\ items' \in [Queues -> Seq(Messages)] /\ \A k \in Queues : Len(items'[k]) <= MaxOutbound
       /\ unfinished' \in [Queues -> Int] /\ backlog' \in -1 .. MaxOutbound /\ closing' \in Nat
       /\ \A k \in Queues : items'[k] = (IF k = queue THEN <<>> ELSE items[k])
       /\ \A k \in Queues : unfinished'[k] = Len(items'[k]) + Sending(k)
       /\ queue \in Queues /\ 0 + Len(items[queue]) <= backlog =>
             backlog' = backlog - Len(items[queue]) - 0
  BY <1>0, <1>01, OverflowAt
<1>04. registered => queue \in Queues /\ overflowed /\ task \in {0, queue}
  BY <1>0, <1>02 DEF Inv, Plays, Types, Lines
<1>1. Types'
  BY <1>0, <1>02, <1>03 DEF Inv, Types, thread, senders, stops, client
<1>2. Counted'
  BY <1>0, <1>03 DEF Counted, Sending, senders
<1>3. Queued'
  BY <1>0 DEF Inv, Queued, Works, thread, senders, stops
<1>4. Plays'
  <2> SUFFICES ASSUME registered PROVE Plays'
    BY <1>0 DEF Plays, stops
  <2>1. \A i \in DOMAIN calls' : calls'[i].do # "stop"
    BY <1>02 DEF Inv, Plays
  <2>2. \A k \in Queues : k # queue => items'[k] = <<>>
    BY <1>03 DEF Inv, Plays
  <2> QED
    BY <1>0, <1>04, <2>1, <2>2 DEF Inv, Plays, thread, senders, stops, Queues
<1>5. Slots'
  <2> SUFFICES ASSUME registered PROVE Slots'
    BY <1>0 DEF Slots, stops
  <2>1. PICK n \in Nat : n = Len(items[queue])
    <3>1. items[queue] \in Seq(Messages)
      BY <1>04 DEF Inv, Types
    <3> QED
      BY <3>1
  <2>2. Reserved' = Reserved /\ Reserved \in Nat
    BY <1>0, <1>02 DEF Reserved, thread
  <2>3. backlog = Reserved + n + Sending(queue) /\ Sending(queue) \in Nat
    BY <1>04, <2>1 DEF Inv, Slots, Sending, Queues
  <2>4. backlog' = backlog - n - 0
    BY <1>03, <1>04, <2>1, <2>2, <2>3
  <2>5. Len(items'[queue]) = 0
    BY <1>03, <1>04
  <2>6. backlog' = Reserved' + Len(items'[queue]) + Sending(queue)
    BY <2>2, <2>3, <2>4, <2>5
  <2> QED
    BY <2>6, <1>0 DEF Slots, Sending, senders
<1>6. Flows'
  <2> SUFFICES ASSUME registered PROVE Flows'
    BY <1>0 DEF Flows, stops
  <2>1. PICK a \in Messages, b \in Messages, c \in Messages, d \in Messages : Flow(a, b, c, d)
    BY DEF Inv, Flows
  <2>2. b \in Nat /\ c \in Nat
    BY DEF Messages
  <2>3. UNCHANGED <<game, sent, queue, sender>> /\ overflowed'
    BY <1>0, <1>04 DEF thread, senders
  <2>4. Flow(a, b, b, d)'
    BY <2>1, <2>2, <2>3, <1>0, <1>01, <1>04, OverflowFlows
  <2> QED
    BY <2>4 DEF Flows
<1> QED
  BY <1>1, <1>2, <1>3, <1>4, <1>5, <1>6 DEF Inv

LEMMA StopStep ==
  ASSUME Inv, RunStop PROVE Inv'
<1> DEFINE q == Head(calls).arg.queue
           t == Head(calls).arg.task
           cut == t # 0 /\ sender[t].pc = "sending"
<1>0. /\ UNCHANGED <<thread, queue, task, overflowed, closing, stops, client, sent>>
      /\ calls # <<>> /\ Head(calls).do = "stop" /\ calls' = Tail(calls)
      /\ items' = [k \in Queues |-> IF k = q THEN <<>> ELSE items[k]]
      /\ unfinished' = [k \in Queues |-> unfinished[k] - (IF k = q THEN Len(items[k]) ELSE 0)
                                                       - (IF k = t /\ cut THEN 1 ELSE 0)]
      /\ sender' = [k \in Queues |-> IF k = t THEN [Idle EXCEPT !.pc = "done"] ELSE sender[k]]
      /\ backlog' = IF cut THEN Freed(1) ELSE backlog
  BY DEF RunStop, Run
<1>01. calls \in Seq(Calls) /\ Types
  BY DEF Inv, Types
<1>02. calls' \in Seq(Calls) /\ 1 \in DOMAIN calls /\ Head(calls) = calls[1]
  BY <1>0, <1>01, CallTaken
<1>03. ~registered
  BY <1>0, <1>02 DEF Inv, Plays
<1>04. /\ items \in [Queues -> Seq(Messages)] /\ \A k \in Queues : Len(items[k]) <= MaxOutbound
       /\ unfinished \in [Queues -> Int] /\ sender \in [Queues -> Senders]
       /\ backlog \in -1 .. MaxOutbound
  BY DEF Inv, Types
<1>05. ASSUME NEW k \in Queues PROVE Len(items[k]) \in Nat
  <2>1. items[k] \in Seq(Messages)
    BY <1>04
  <2> QED
    BY <2>1
<1>1. Types'
  <2>1. items' \in [Queues -> Seq(Messages)] /\ \A k \in Queues : Len(items'[k]) <= MaxOutbound
    <3>1. <<>> \in Seq(Messages) /\ Len(<<>>) = 0
      OBVIOUS
    <3> QED
      BY <3>1, <1>0, <1>04, BoundsAssumption
  <2>2. unfinished' \in [Queues -> Int]
    <3> SUFFICES ASSUME NEW k \in Queues
                 PROVE unfinished[k] - (IF k = q THEN Len(items[k]) ELSE 0)
                                     - (IF k = t /\ cut THEN 1 ELSE 0) \in Int
      BY <1>0
    <3>1. unfinished[k] \in Int /\ Len(items[k]) \in Nat
      BY <1>04, <1>05
    <3> QED
      BY <3>1
  <2>3. sender' \in [Queues -> Senders]
    <3>1. [Idle EXCEPT !.pc = "done"] \in Senders
      BY BoundsAssumption DEF Idle, Senders, Snapshot, Messages
    <3> QED
      BY <3>1, <1>0, <1>04
  <2>4. backlog' \in -1 .. MaxOutbound
    BY <1>0, <1>04, <1>01, FreedInRange
  <2> QED
    BY <2>1, <2>2, <2>3, <2>4, <1>0, <1>02 DEF Inv, Types, thread, stops, client
<1>2. Counted'
  <2> SUFFICES ASSUME NEW k \in Queues PROVE (unfinished[k] = Len(items[k]) + Sending(k))'
    BY DEF Counted
  <2>1. PICK n \in Nat : n = Len(items[k])
    BY <1>05
  <2>2. unfinished[k] = n + Sending(k) /\ Sending(k) \in Nat
    BY <2>1 DEF Inv, Counted, Sending
  <2>3. PICK u \in Nat : u = IF k = q THEN n ELSE 0
    OBVIOUS
  <2>4. PICK v \in Nat : v = IF k = t /\ cut THEN 1 ELSE 0
    OBVIOUS
  <2>5. unfinished'[k] = unfinished[k] - u - v
    BY <1>0, <2>1, <2>3, <2>4
  <2>6. Len(items'[k]) = n - u
    BY <1>0, <2>1, <2>3
  <2>7. Sending(k)' = Sending(k) - v
    <3>1. k = t => sender'[k].pc = "done"
      BY <1>0 DEF Idle
    <3>2. k # t => sender'[k] = sender[k]
      BY <1>0
    <3>3. k # 0
      BY DEF Queues
    <3> QED
      BY <3>1, <3>2, <3>3, <2>4 DEF Sending
  <2> QED
    BY <2>2, <2>5, <2>6, <2>7
<1>3. Queued'
  <2>1. \A k \in Queues : sender'[k] = sender[k] \/ sender'[k].pc = "done"
    BY <1>0 DEF Idle
  <2>2. \A k \in Queues : Works(k)' => Works(k)
    BY <2>1 DEF Works
  <2>3. queue \in Queues => (Works(queue)' => Works(queue))
    BY <2>2, <1>0 DEF Works
  <2>4. queue = 0 \/ queue \in Queues
    BY DEF Inv, Types, Lines
  <2> QED
    BY <2>2, <2>3, <2>4, <1>0 DEF Inv, Queued, thread, stops
<1>4. Plays' /\ Slots' /\ Flows'
  BY <1>0, <1>03 DEF Plays, Slots, Flows, stops
<1> QED
  BY <1>1, <1>2, <1>3, <1>4 DEF Inv

LEMMA GetStep ==
  ASSUME Inv, NEW k \in Queues, Get(k) PROVE Inv'
<1>0. /\ UNCHANGED <<thread, queue, unfinished, task, slots, calls, closing, stops, client, sent>>
      /\ sender[k].pc = "get" /\ items[k] # <<>>
      /\ sender' = [sender EXCEPT ![k] = [pc |-> "sending", m |-> Head(items[k])]]
      /\ items' = [items EXCEPT ![k] = Tail(@)]
  BY DEF Get
<1>01. /\ items \in [Queues -> Seq(Messages)] /\ \A j \in Queues : Len(items[j]) <= MaxOutbound
       /\ sender \in [Queues -> Senders]
  BY DEF Inv, Types
<1>02. PICK s \in Seq(Messages) : s = items[k] /\ s # <<>>
  BY <1>0, <1>01
<1>03. PICK n \in Nat : n = Len(s)
  BY <1>02
<1>04. Tail(s) \in Seq(Messages) /\ Head(s) \in Messages /\ Len(Tail(s)) = n - 1 /\ n >= 1
  BY <1>02, <1>03, TailAt
<1>05. items'[k] = Tail(s) /\ \A j \in Queues \ {k} : items'[j] = items[j]
  BY <1>0, <1>01, <1>02
<1>06. /\ sender'[k] = [pc |-> "sending", m |-> Head(s)]
       /\ \A j \in Queues \ {k} : sender'[j] = sender[j]
  BY <1>0, <1>01, <1>02
<1>1. Types'
  <2>1. items' \in [Queues -> Seq(Messages)]
    BY <1>0, <1>01, <1>02, <1>04
  <2>2. \A j \in Queues : Len(items'[j]) <= MaxOutbound
    <3> SUFFICES ASSUME NEW j \in Queues PROVE Len(items'[j]) <= MaxOutbound
      OBVIOUS
    <3>1. CASE j = k
      BY <3>1, <1>01, <1>02, <1>03, <1>04, <1>05, BoundsAssumption
    <3>2. CASE j # k
      BY <3>2, <1>01, <1>05
    <3> QED
      BY <3>1, <3>2
  <2>3. sender' \in [Queues -> Senders]
    <3>1. [pc |-> "sending", m |-> Head(s)] \in Senders
      BY <1>04 DEF Senders
    <3> QED
      BY <3>1, <1>0, <1>01, <1>02
  <2> QED
    BY <2>1, <2>2, <2>3, <1>0 DEF Inv, Types, thread, slots, stops, client
<1>2. Counted'
  <2> SUFFICES ASSUME NEW j \in Queues PROVE (unfinished[j] = Len(items[j]) + Sending(j))'
    BY DEF Counted
  <2>1. unfinished[j] = Len(items[j]) + Sending(j) /\ unfinished' = unfinished
    BY <1>0 DEF Inv, Counted
  <2>2. CASE j = k
    <3>1. Sending(k) = 0 /\ Sending(k)' = 1
      BY <1>0, <1>06 DEF Sending
    <3>2. unfinished[k] = n + 0 /\ Len(items'[k]) = n - 1
      BY <2>1, <2>2, <3>1, <1>02, <1>03, <1>04, <1>05
    <3> QED
      BY <2>1, <2>2, <3>1, <3>2
  <2>3. CASE j # k
    BY <2>1, <2>3, <1>05, <1>06 DEF Sending
  <2> QED
    BY <2>2, <2>3
<1>3. Queued'
  <2>1. \A j \in Queues : Works(j)' <=> Works(j)
    BY <1>0, <1>06 DEF Works
  <2>2. queue = 0 \/ queue \in Queues
    BY DEF Inv, Types, Lines
  <2>3. queue \in Queues => (Works(queue)' => Works(queue))
    BY <2>1, <1>0 DEF Works
  <2> QED
    BY <2>1, <2>2, <2>3, <1>0 DEF Inv, Queued, thread, stops
<1>4. registered => k = queue /\ k = task
  BY <1>0 DEF Inv, Plays, Queues
<1>5. Plays'
  BY <1>0, <1>4, <1>05, <1>06 DEF Inv, Plays, thread, slots, stops
<1>6. Slots'
  <2> SUFFICES ASSUME registered PROVE Slots'
    BY <1>0 DEF Slots, stops
  <2>1. Reserved' = Reserved
    BY <1>0 DEF Reserved, Posted, thread
  <2>2. Len(items[k]) + Sending(k) = Len(items'[k]) + Sending(k)'
    BY <1>0, <1>2 DEF Inv, Counted
  <2>3. items[k] \in Seq(Messages) /\ items'[k] \in Seq(Messages)
    BY <1>02, <1>04, <1>05
  <2>4. backlog = Reserved + Len(items[k]) + Sending(k)
    BY <1>4 DEF Inv, Slots, Queues
  <2>5. Reserved \in Nat
    <3>1. Cardinality(Posted) \in Nat
      BY CallsFinite DEF Inv, Types
    <3> QED
      BY <3>1 DEF Reserved
  <2>6. Len(items[k]) \in Nat /\ Len(items'[k]) \in Nat /\ Sending(k) \in Nat /\ Sending(k)' \in Nat
    BY <2>3 DEF Sending
  <2>7. backlog = Reserved + Len(items'[k]) + Sending(k)'
    <3>1. PICK u \in Nat, v \in Nat, w \in Nat :
             u = Len(items[k]) /\ v = Len(items'[k]) /\ w = Reserved
      BY <2>5, <2>6
    <3>2. PICK x \in Nat, y \in Nat : x = Sending(k) /\ y = Sending(k)'
      BY <2>6
    <3>3. u + x = v + y /\ backlog = w + u + x
      BY <2>2, <2>4, <3>1, <3>2
    <3>4. backlog = w + v + y
      BY <3>3
    <3> QED
      BY <3>1, <3>2, <3>4
  <2>8. Sending(queue)' = Sending(k)'
    BY <1>0, <1>4 DEF Sending
  <2> QED
    BY <2>1, <2>7, <2>8, <1>0, <1>4 DEF Slots, slots
<1>7. Flows'
  <2> SUFFICES ASSUME registered PROVE Flows'
    BY <1>0 DEF Flows, stops
  <2>1. PICK a \in Messages, b \in Messages, c \in Messages, d \in Messages : Flow(a, b, c, d)
    BY DEF Inv, Flows
  <2>2. queue = k /\ queue # 0 /\ ~Failed /\ ~Failed'
    BY <1>0, <1>4, <1>06 DEF Failed, Queues
  <2>3. /\ InTurn(s, b, c) /\ b = a /\ b <= c /\ c <= game.n /\ b \in Nat /\ c \in Nat /\ Left(c, d)
        /\ c \in Messages
    BY <2>1, <2>2, <1>0, <1>02 DEF Flow, InHand, InQueue, Messages
  <2>4. Left(c, d)'
    BY <2>3, <1>0 DEF Left, Numbers, Going, slots, thread
  <2>5. CASE Head(s) = Snapshot
    <3>1. InTurn(Tail(s), b, c)
      BY <2>3, <2>5, <1>02, SnapshotTaken
    <3>2. InHand(a, b)'
      BY <2>2, <2>3, <2>5, <1>0, <1>06 DEF InHand
    <3>3. InTurn(items'[k], b, c)
      BY <3>1, <1>05
    <3>4. InQueue(b, c)'
      BY <2>2, <1>0, <3>3 DEF InQueue
    <3>5. Flow(a, b, c, d)'
      BY <2>1, <2>2, <2>3, <2>4, <3>2, <3>4, <1>0 DEF Flow, thread
    <3> QED
      BY <3>5 DEF Flows
  <2>6. CASE Head(s) # Snapshot
    <3>1. Head(s) = b + 1 /\ b + 1 <= c /\ InTurn(Tail(s), b + 1, c)
      BY <2>3, <2>6, <1>02, NextTaken
    <3>2. PICK e \in Messages : e = b + 1
      BY <3>1, <1>04
    <3>3. InHand(a, e)'
      BY <2>2, <2>3, <2>6, <3>1, <3>2, <1>0, <1>06 DEF InHand
    <3>4. InTurn(items'[k], e, c)
      BY <3>1, <3>2, <1>05
    <3>5. InQueue(e, c)'
      BY <2>2, <1>0, <3>4 DEF InQueue
    <3>6. Flow(a, e, c, d)'
      BY <2>1, <2>2, <2>3, <2>4, <3>1, <3>2, <3>3, <3>5, <1>0 DEF Flow, thread
    <3> QED
      BY <3>6 DEF Flows
  <2> QED
    BY <2>5, <2>6
<1> QED
  BY <1>1, <1>2, <1>3, <1>5, <1>6, <1>7 DEF Inv

LEMMA SendStep ==
  ASSUME Inv, NEW k \in Queues, Sends(k) \/ SendFails(k) PROVE Inv'
<1>0. /\ UNCHANGED <<thread, queue, items, task, overflowed, calls, closing, stops, client>>
      /\ sender[k].pc = "sending"
      /\ \/ /\ sent' = Append(sent, sender[k].m)
            /\ sender' = [sender EXCEPT ![k] = [Idle EXCEPT !.pc = "get"]]
         \/ sent' = sent /\ sender' = [sender EXCEPT ![k] = [Idle EXCEPT !.pc = "failed"]]
      /\ unfinished' = [unfinished EXCEPT ![k] = @ - 1] /\ backlog' = Freed(1)
  BY DEF Sends, SendFails
<1>01. /\ items \in [Queues -> Seq(Messages)] /\ sender \in [Queues -> Senders]
       /\ unfinished \in [Queues -> Int] /\ sent \in Seq(Messages) /\ Types
       /\ sender[k].m \in Messages
  BY DEF Inv, Types, Senders
<1>02. PICK r \in Senders : /\ r.pc \in {"get", "failed"} /\ sender' = [sender EXCEPT ![k] = r]
                            /\ \/ r.pc = "get" /\ sent' = Append(sent, sender[k].m)
                               \/ r.pc = "failed" /\ sent' = sent
  <2>1. \A p \in {"get", "failed"} :
           [Idle EXCEPT !.pc = p] \in Senders /\ [Idle EXCEPT !.pc = p].pc = p
    BY BoundsAssumption DEF Idle, Senders, Snapshot, Messages
  <2> QED
    BY <2>1, <1>0
<1>03. sender'[k] = r /\ \A j \in Queues \ {k} : sender'[j] = sender[j]
  BY <1>01, <1>02
<1>1. Types'
  <2>1. sender' \in [Queues -> Senders]
    BY <1>01, <1>02
  <2>2. unfinished' \in [Queues -> Int]
    BY <1>0, <1>01
  <2>3. backlog' \in -1 .. MaxOutbound
    BY <1>0, <1>01, FreedInRange
  <2>4. sent' \in Seq(Messages)
    <3>1. Append(sent, sender[k].m) \in Seq(Messages)
      BY <1>01, AppendAt
    <3> QED
      BY <3>1, <1>01, <1>02
  <2> QED
    BY <2>1, <2>2, <2>3, <2>4, <1>0 DEF Inv, Types, thread, stops, client
<1>2. Counted'
  <2> SUFFICES ASSUME NEW j \in Queues PROVE (unfinished[j] = Len(items[j]) + Sending(j))'
    BY DEF Counted
  <2>1. unfinished[j] = Len(items[j]) + Sending(j)
    BY DEF Inv, Counted
  <2>2. PICK n \in Nat : n = Len(items[j])
    <3>1. items[j] \in Seq(Messages)
      BY <1>01
    <3> QED
      BY <3>1
  <2>3. CASE j = k
    <3>1. Sending(k) = 1 /\ Sending(k)' = 0
      BY <1>0, <1>02, <1>03 DEF Sending
    <3>2. unfinished[k] = n + 1 /\ unfinished'[k] = unfinished[k] - 1
      BY <2>1, <2>2, <2>3, <3>1, <1>0, <1>01
    <3> QED
      BY <2>2, <2>3, <3>1, <3>2, <1>0
  <2>4. CASE j # k
    BY <2>1, <2>4, <1>0, <1>01, <1>03 DEF Sending
  <2> QED
    BY <2>3, <2>4
<1>3. Queued'
  <2>1. \A j \in Queues : Works(j)' => Works(j)
    BY <1>0, <1>03 DEF Works
  <2>2. queue = 0 \/ queue \in Queues
    BY DEF Inv, Types, Lines
  <2>3. queue \in Queues => (Works(queue)' => Works(queue))
    BY <2>1, <1>0 DEF Works
  <2> QED
    BY <2>1, <2>2, <2>3, <1>0 DEF Inv, Queued, thread, stops
<1>4. registered => k = queue /\ k = task
  BY <1>0 DEF Inv, Plays, Queues
<1>5. Plays'
  BY <1>0, <1>4, <1>03 DEF Inv, Plays, thread, stops
<1>6. Slots'
  <2> SUFFICES ASSUME registered PROVE Slots'
    BY <1>0 DEF Slots, stops
  <2>1. Reserved' = Reserved
    BY <1>0 DEF Reserved, Posted, thread
  <2>2. PICK n \in Nat : n = Len(items[k])
    <3>1. items[k] \in Seq(Messages)
      BY <1>01
    <3> QED
      BY <3>1
  <2>3. PICK u \in Nat : u = Reserved
    <3>1. Cardinality(Posted) \in Nat
      BY CallsFinite DEF Inv, Types
    <3> QED
      BY <3>1 DEF Reserved
  <2>4. Sending(k) = 1 /\ Sending(k)' = 0
    BY <1>0, <1>02, <1>03 DEF Sending
  <2>5. backlog = u + n + 1
    BY <1>4, <2>2, <2>3, <2>4 DEF Inv, Slots, Queues
  <2>6. backlog' = backlog - 1
    <3>1. 1 \in Nat /\ 1 <= backlog
      BY <2>5
    <3>2. Freed(1) = backlog - 1
      BY <3>1, <1>01, FreedExactly
    <3> QED
      BY <3>2, <1>0
  <2>7. backlog' = u + n + 0
    BY <2>5, <2>6
  <2>8. Sending(queue)' = 0
    BY <1>0, <1>4, <2>4 DEF Sending
  <2> QED
    BY <2>1, <2>2, <2>3, <2>7, <2>8, <1>0, <1>4 DEF Slots
<1>7. Flows'
  <2> SUFFICES ASSUME registered PROVE Flows'
    BY <1>0 DEF Flows, stops
  <2>1. PICK a \in Messages, b \in Messages, c \in Messages, d \in Messages : Flow(a, b, c, d)
    BY DEF Inv, Flows
  <2>2. queue = k /\ queue # 0 /\ ~Failed
    BY <1>0, <1>4 DEF Failed, Queues
  <2>3. /\ InTurn(sent, 0, a) /\ a <= game.n /\ InHand(a, b) /\ InQueue(b, c) /\ Left(c, d)
        /\ b <= c /\ c <= game.n /\ game.n \in Nat /\ a \in Nat /\ b \in Nat /\ c \in Nat
    BY <2>1, <2>2, <1>01 DEF Flow, Types, Messages
  <2>4. CASE r.pc = "failed"
    <3>1. Failed' /\ sent' = sent
      BY <2>2, <2>4, <1>0, <1>02, <1>03 DEF Failed
    <3>2. Flow(a, b, c, d)'
      BY <2>1, <3>1, <1>0 DEF Flow, thread
    <3> QED
      BY <3>2 DEF Flows
  <2>5. CASE r.pc = "get" /\ sent' = Append(sent, sender[k].m)
    <3>1. InTurn(Append(sent, sender[k].m), 0, b)
      <4>1. CASE sender[k].m = Snapshot
        <5>1. b = a
          BY <2>2, <2>3, <4>1, <1>0 DEF InHand
        <5> QED
          BY <2>3, <4>1, <5>1, <1>01, SnapshotInTurn
      <4>2. CASE sender[k].m # Snapshot
        <5>1. b = a + 1 /\ sender[k].m = b
          BY <2>2, <2>3, <4>2, <1>0 DEF InHand
        <5>2. 0 \in Nat /\ 0 <= a /\ a + 1 \in Messages
          BY <2>3, <5>1
        <5>3. InTurn(Append(sent, a + 1), 0, a + 1)
          BY <2>3, <5>2, <1>01, NextInTurn
        <5> QED
          BY <5>1, <5>3
      <4> QED
        BY <4>1, <4>2
    <3>2. ~Failed' /\ InHand(b, b)' /\ InQueue(b, c)'
      BY <2>2, <2>3, <2>5, <1>0, <1>03 DEF Failed, InHand, InQueue
    <3>3. Left(c, d)'
      BY <2>3, <1>0 DEF Left, Numbers, Going, thread
    <3>4. b <= game.n
      BY <2>3
    <3>5. Flow(b, b, c, d)'
      BY <2>3, <2>5, <3>1, <3>2, <3>3, <3>4, <1>0 DEF Flow, thread
    <3> QED
      BY <3>5 DEF Flows
  <2> QED
    BY <2>4, <2>5, <1>02
<1> QED
  BY <1>1, <1>2, <1>3, <1>5, <1>6, <1>7 DEF Inv

(* The handler's own answer. *)
LEMMA AnswerStep ==
  ASSUME Inv, Answers PROVE Inv'
<1> DEFINE fresh == IF queue = 0 THEN made + 1 ELSE queue
           used == IF queue = 0 THEN 0 ELSE backlog
<1>0. /\ UNCHANGED <<game, calls, stops, socket, sent>>
      /\ registered /\ handler' = [pc |-> "wait", on |-> fresh]
      /\ queue' = fresh /\ made' = IF queue = 0 THEN fresh ELSE made
      /\ StartTask(fresh)
      /\ \/ overflowed /\ UNCHANGED <<items, unfinished, slots, closing>>
         \/ ~overflowed /\ Full(used) /\ overflowed' = TRUE /\ HandleOverflow(0)
         \/ /\ ~overflowed /\ ~Full(used) /\ backlog' = used + 1
            /\ items' = [items EXCEPT ![fresh] = Append(@, Snapshot)]
            /\ unfinished' = [unfinished EXCEPT ![fresh] = @ + 1]
            /\ UNCHANGED <<overflowed, closing>>
  BY Zenon DEF Answers
<1>01. /\ items \in [Queues -> Seq(Messages)] /\ \A j \in Queues : Len(items[j]) <= MaxOutbound
       /\ sender \in [Queues -> Senders] /\ unfinished \in [Queues -> Int] /\ Types /\ Counted
       /\ queue \in Lines /\ made \in Lines /\ task \in Lines /\ backlog \in -1 .. MaxOutbound
       /\ overflowed \in BOOLEAN
  BY DEF Inv, Types
<1>02. PICK q \in Queues : /\ q = fresh /\ queue \in {0, q} /\ queue' = q /\ made' = q /\ q <= 1
                           /\ task \in {0, queue}
  <2>1. made = queue /\ made <= 1 /\ task \in {0, queue}
    BY <1>0 DEF Inv, Queued, Plays
  <2>2. fresh \in Queues /\ fresh <= 1
    BY <2>1, <1>01 DEF Lines, Queues
  <2> QED
    BY <1>0, <2>1, <2>2
<1>03. /\ task' = q
       /\ \/ task = q /\ sender' = sender
          \/ /\ task = 0 /\ sender[q].pc = "idle"
             /\ sender' = [sender EXCEPT ![q] = [pc |-> "get", m |-> Snapshot]]
  <2>1. q # 0
    BY DEF Queues
  <2>2. CASE task = 0
    <3>1. sender[q].pc = "idle"
      BY <1>0, <2>1, <2>2 DEF Inv, Plays
    <3> QED
      BY <1>0, <1>02, <2>1, <2>2, <3>1 DEF StartTask, Idle
  <2>3. CASE task # 0
    BY <1>0, <1>02, <2>1, <2>3 DEF StartTask, senders
  <2> QED
    BY <2>2, <2>3
<1>04. /\ sender' \in [Queues -> Senders] /\ \A k \in Queues : Sending(k)' = Sending(k)
       /\ \A k \in Queues \ {q} : sender'[k] = sender[k]
  <2>1. [pc |-> "get", m |-> Snapshot] \in Senders
    BY BoundsAssumption DEF Senders, Messages, Snapshot
  <2>2. CASE sender' = sender
    BY <2>2, <1>01 DEF Sending
  <2>3. CASE /\ sender[q].pc = "idle"
             /\ sender' = [sender EXCEPT ![q] = [pc |-> "get", m |-> Snapshot]]
    <3>1. sender' \in [Queues -> Senders]
      BY <2>1, <2>3, <1>01
    <3>2. \A k \in Queues \ {q} : sender'[k] = sender[k]
      BY <2>3, <1>01
    <3>3. sender'[q].pc = "get"
      BY <2>3, <1>01
    <3>4. \A k \in Queues : Sending(k)' = Sending(k)
      BY <2>3, <3>2, <3>3 DEF Sending
    <3> QED
      BY <3>1, <3>2, <3>4
  <2> QED
    BY <1>03, <2>2, <2>3
<1>05. PICK u \in Nat, n \in Nat, w \in Nat :
          u = Reserved /\ n = Len(items[q]) /\ w = Sending(q) /\ (Reserved' = Reserved)
  <2>1. Cardinality(Posted) \in Nat
    BY CallsFinite DEF Inv, Types
  <2>2. Reserved \in Nat
    BY <2>1 DEF Reserved
  <2>3. items[q] \in Seq(Messages)
    BY <1>01
  <2>4. Len(items[q]) \in Nat
    BY <2>3
  <2>5. Sending(q) \in Nat /\ Reserved' = Reserved
    BY <1>0 DEF Sending, Reserved, Posted
  <2> QED
    BY <2>2, <2>4, <2>5
<1>06. /\ queue # 0 => backlog = u + n + w
       /\ queue = 0 => u = 0 /\ n = 0 /\ w = 0 /\ ~overflowed
       /\ used = u + n + w
  <2>1. CASE queue # 0
    BY <2>1, <1>0, <1>02, <1>05 DEF Inv, Slots
  <2>2. CASE queue = 0
    <3>1. /\ calls = <<>> /\ game.pc \in {"idle", "ensure"} /\ ~overflowed /\ items[q] = <<>>
          /\ sender[q].pc = "idle"
      BY <1>0, <1>02, <2>2 DEF Inv, Plays, Queues
    <3>2. Posted = {}
      BY <3>1 DEF Posted
    <3>3. Cardinality(Posted) = 0
      BY <3>2, FS_EmptySet, Zenon
    <3>4. u = 0
      BY <1>05, <3>1, <3>3 DEF Reserved
    <3>5. n = 0 /\ w = 0
      BY <1>05, <3>1 DEF Sending
    <3> QED
      BY <2>2, <3>1, <3>4, <3>5
  <2> QED
    BY <2>1, <2>2
<1>07. \/ overflowed /\ UNCHANGED <<items, unfinished, backlog, overflowed, closing>>
       \/ queue = q /\ overflowed' /\ HandleOverflow(0)
       \/ /\ ~overflowed /\ used < MaxOutbound /\ backlog' = used + 1
          /\ items' = [items EXCEPT ![q] = Append(@, Snapshot)]
          /\ unfinished' = [unfinished EXCEPT ![q] = @ + 1]
          /\ UNCHANGED <<overflowed, closing>>
  <2>1. MaxOutbound \in Nat /\ MaxOutbound > 0 /\ used \in Nat
    BY BoundsAssumption, <1>06
  <2>2. Full(used) => queue = q
    BY <2>1, <1>02 DEF Full
  <2>3. ~Full(used) => used < MaxOutbound
    BY <2>1 DEF Full
  <2> QED
    BY <1>0, <1>02, <2>2, <2>3 DEF slots
<1>08. /\ items' \in [Queues -> Seq(Messages)] /\ \A k \in Queues : Len(items'[k]) <= MaxOutbound
       /\ unfinished' \in [Queues -> Int] /\ overflowed' \in BOOLEAN /\ closing' \in Nat
       /\ backlog' \in -1 .. MaxOutbound
       /\ \A k \in Queues : unfinished'[k] = Len(items'[k]) + Sending(k)
       /\ \A k \in Queues \ {q} : items'[k] = items[k]
       /\ backlog' = u + Len(items'[q]) + w
       /\ \/ overflowed' /\ UNCHANGED <<overflowed, items>>
          \/ queue = q /\ overflowed' /\ HandleOverflow(0)
          \/ ~overflowed /\ ~overflowed' /\ items'[q] = Append(items[q], Snapshot)
  <2>1. CASE overflowed /\ UNCHANGED <<items, unfinished, backlog, overflowed, closing>>
    <3>1. queue # 0
      BY <2>1, <1>06
    <3>2. backlog' = u + Len(items'[q]) + w
      BY <2>1, <3>1, <1>05, <1>06
    <3>3. \A k \in Queues : unfinished'[k] = Len(items'[k]) + Sending(k)
      BY <2>1, <1>01 DEF Counted
    <3>4. closing' \in Nat
      BY <2>1, <1>01 DEF Types
    <3> QED
      BY <2>1, <3>2, <3>3, <3>4, <1>01
  <2>2. CASE queue = q /\ overflowed' /\ HandleOverflow(0)
    <3>1. /\ items' \in [Queues -> Seq(Messages)] /\ \A k \in Queues : Len(items'[k]) <= MaxOutbound
          /\ unfinished' \in [Queues -> Int] /\ backlog' \in -1 .. MaxOutbound /\ closing' \in Nat
          /\ \A k \in Queues : items'[k] = (IF k = queue THEN <<>> ELSE items[k])
          /\ \A k \in Queues : unfinished'[k] = Len(items'[k]) + Sending(k)
          /\ queue \in Queues /\ 0 + Len(items[queue]) <= backlog =>
                backlog' = backlog - Len(items[queue]) - 0
      BY <2>2, <1>01, OverflowAt
    <3>2. backlog = u + n + w
      BY <2>2, <1>06 DEF Queues
    <3>3. backlog' = backlog - n - 0
      BY <2>2, <3>1, <3>2, <1>05
    <3>4. items'[q] = <<>>
      BY <2>2, <3>1
    <3>5. backlog' = u + 0 + w
      BY <3>2, <3>3
    <3>6. Len(items'[q]) = 0
      BY <3>4
    <3>7. overflowed' \in BOOLEAN
      BY <1>07, <1>01, <2>2, <1>0
    <3> QED
      BY <2>2, <3>1, <3>5, <3>6, <3>7
  <2>3. CASE /\ ~overflowed /\ used < MaxOutbound /\ backlog' = used + 1
             /\ items' = [items EXCEPT ![q] = Append(@, Snapshot)]
             /\ unfinished' = [unfinished EXCEPT ![q] = @ + 1]
             /\ UNCHANGED <<overflowed, closing>>
    <3>1. n < MaxOutbound /\ Snapshot \in Messages
      BY <2>3, <1>06, BoundsAssumption DEF Snapshot, Messages
    <3>2. /\ items' \in [Queues -> Seq(Messages)] /\ \A k \in Queues : Len(items'[k]) <= MaxOutbound
          /\ items'[q] = Append(items[q], Snapshot) /\ Len(items'[q]) = Len(items[q]) + 1
          /\ \A k \in Queues \ {q} : items'[k] = items[k]
      BY <2>3, <3>1, <1>05, <1>01, PutAt
    <3>3. unfinished' \in [Queues -> Int] /\ unfinished'[q] = unfinished[q] + 1
          /\ \A k \in Queues \ {q} : unfinished'[k] = unfinished[k]
      BY <2>3, <1>01
    <3>4. \A k \in Queues \ {q} : unfinished'[k] = Len(items'[k]) + Sending(k)
      BY <3>2, <3>3, <1>01 DEF Counted
    <3>5. unfinished[q] = n + w
      BY <1>01, <1>05 DEF Counted
    <3>6. unfinished'[q] = Len(items'[q]) + Sending(q)
      BY <3>2, <3>3, <3>5, <1>05
    <3>7. backlog' = u + Len(items'[q]) + w
      BY <2>3, <3>2, <1>05, <1>06
    <3>8. backlog' \in -1 .. MaxOutbound
      BY <2>3, <1>06, BoundsAssumption
    <3>9. closing' \in Nat
      BY <2>3, <1>01 DEF Types
    <3> QED
      BY <2>3, <3>2, <3>3, <3>4, <3>6, <3>7, <3>8, <3>9, <1>01
  <2> QED
    BY <1>07, <2>1, <2>2, <2>3
<1>1. Types'
  <2>1. handler' \in [pc : {"loop", "wait", "gone"}, on : Lines]
    BY <1>0, <1>02 DEF Lines
  <2>2. made' \in Lines /\ queue' \in Lines /\ task' \in Lines
    BY <1>02, <1>03 DEF Lines
  <2> QED
    BY <2>1, <2>2, <1>0, <1>04, <1>08 DEF Inv, Types, stops
<1>2. Counted'
  BY <1>04, <1>08 DEF Counted
<1>3. Queued'
  <2>1. \A k \in Queues : k > q => ~Works(k)'
    <3> SUFFICES ASSUME NEW k \in Queues, k > q PROVE ~Works(k)'
      OBVIOUS
    <3>1. k # q /\ k # task
      BY <1>02 DEF Queues
    <3>2. sender[k].pc = "idle"
      BY <3>1, <1>0 DEF Inv, Plays
    <3> QED
      BY <3>1, <3>2, <1>04 DEF Works
  <2>2. q <= q /\ q # 0 /\ stopping = "no"
    BY <1>0 DEF Queues, Inv, Plays
  <2> QED
    BY <2>1, <2>2, <1>0, <1>02, <1>03 DEF Queued, stops
<1>4. Plays'
  <2>1. \A k \in Queues : k # q => items'[k] = <<>>
    BY <1>0, <1>02, <1>08 DEF Inv, Plays, Queues
  <2>2. \A k \in Queues : k # q => sender'[k].pc = "idle"
    BY <1>0, <1>02, <1>04 DEF Inv, Plays, Queues
  <2>3. overflowed => overflowed'
    BY <1>08
  <2>4. q # 0 /\ stopping' = "no" /\ calls' = calls /\ game' = game
    BY <1>0 DEF Inv, Plays, Queues, stops
  <2>5. \A i \in DOMAIN calls : calls[i].do # "stop" /\ (calls[i].do = "overflow" => overflowed)
    BY <1>0 DEF Inv, Plays
  <2>6. game.pc = "overflow" => overflowed
    BY <1>0 DEF Inv, Plays
  <2> QED
    BY <2>1, <2>2, <2>3, <2>4, <2>5, <2>6, <1>02, <1>03 DEF Plays
<1>5. Slots'
  BY <1>02, <1>04, <1>05, <1>08 DEF Slots
<1>6. Flows'
  <2>1. PICK a \in Messages, b \in Messages, c \in Messages, d \in Messages : Flow(a, b, c, d)
    BY <1>0 DEF Inv, Flows
  <2>2. a \in Nat /\ b \in Nat /\ c \in Nat /\ d \in Nat
    BY DEF Messages
  <2>3. q # 0 /\ (Failed' <=> Failed) /\ (InHand(a, b) => InHand(a, b)')
    <3>1. CASE queue = q
      BY <3>1, <1>02, <1>03, <1>01 DEF Failed, InHand, Queues
    <3>2. CASE queue = 0
      <4>1. task = 0 /\ sender'[q].pc = "get"
        BY <3>2, <1>01, <1>02, <1>03 DEF Queues
      <4> QED
        BY <3>2, <4>1, <1>02 DEF Failed, InHand, Queues
    <3> QED
      BY <3>1, <3>2, <1>02
  <2>4. InQueue(b, c) => InTurn(items[q], b, c)
    <3>1. CASE queue = q
      BY <3>1, <2>3 DEF InQueue
    <3>2. CASE queue = 0
      <4>1. items[q] = <<>>
        BY <3>2, <1>0, <2>3 DEF Inv, Plays
      <4> QED
        BY <3>2, <4>1, <2>2, NothingInTurn DEF InQueue
    <3> QED
      BY <3>1, <3>2, <1>02
  <2>5. CASE overflowed' /\ UNCHANGED <<overflowed, items>>
    <3>1. InQueue(b, c) => InQueue(b, c)'
      BY <2>3, <2>4, <2>5, <1>02 DEF InQueue
    <3>2. Left(c, d)'
      BY <2>5 DEF Left
    <3>3. Flow(a, b, c, d)'
      BY <2>1, <2>3, <3>1, <3>2, <1>0 DEF Flow
    <3> QED
      BY <3>3 DEF Flows
  <2>6. CASE queue = q /\ overflowed' /\ HandleOverflow(0)
    <3>1. items'[q] = <<>>
      BY <2>6, <1>01, OverflowAt
    <3>2. InQueue(b, b)'
      BY <3>1, <2>2, <2>3, <1>02, NothingInTurn DEF InQueue
    <3>3. Left(b, d)'
      BY <2>6 DEF Left
    <3>4. b <= b /\ (b <= c /\ c <= game.n => b <= game.n)
      BY <2>2, <1>01 DEF Types, Messages
    <3>5. Flow(a, b, b, d)'
      BY <2>1, <2>3, <3>2, <3>3, <3>4, <1>0 DEF Flow
    <3> QED
      BY <3>5 DEF Flows
  <2>7. CASE ~overflowed /\ ~overflowed' /\ items'[q] = Append(items[q], Snapshot)
    <3>1. InTurn(items[q], b, c) => InTurn(Append(items[q], Snapshot), b, c)
      BY <2>2, <1>01, SnapshotInTurn
    <3>2. InQueue(b, c) => InQueue(b, c)'
      BY <2>3, <2>4, <2>7, <3>1, <1>02 DEF InQueue
    <3>3. Left(c, d) => Left(c, d)'
      BY <2>7, <1>0 DEF Left, Numbers, Going
    <3>4. Flow(a, b, c, d)'
      BY <2>1, <2>3, <3>2, <3>3, <1>0 DEF Flow
    <3> QED
      BY <3>4 DEF Flows
  <2> QED
    BY <1>08, <2>5, <2>6, <2>7
<1> QED
  BY <1>1, <1>2, <1>3, <1>4, <1>5, <1>6 DEF Inv

(* _stop_sender. *)
LEMMA StopSenderStep ==
  ASSUME Inv, StopQueue \/ StopTask \/ StopSlots PROVE Inv'
<1>0. /\ UNCHANGED <<thread, items, unfinished, sender, closing, registered, client, sent>>
      /\ stopping # "no"
  BY DEF StopQueue, StopTask, StopSlots, lists, senders
<1>01. ~registered
  BY <1>0 DEF Inv, Plays
<1>02. calls \in Seq(Calls) /\ taken \in [queue : Lines, task : Lines]
  BY DEF Inv, Types
<1>1. CASE StopQueue
  <2>0. /\ stopping = "queue" /\ stopping' = "task" /\ taken' = [taken EXCEPT !.queue = queue]
        /\ queue' = 0 /\ UNCHANGED <<senders, slots, calls>>
    BY <1>1 DEF StopQueue
  <2>1. taken' \in [queue : Lines, task : Lines] /\ queue' \in Lines
    BY <2>0, <1>02 DEF Inv, Types, Lines
  <2>2. Types'
    BY <2>0, <2>1, <1>0 DEF Inv, Types, thread, senders, slots, client
  <2>3. Queued'
    BY <2>0, <1>0, <1>01 DEF Inv, Queued, Works, thread, Types, Lines, Queues
  <2> QED
    BY <2>2, <2>3, <1>0, <1>01, CountedStays DEF Inv, Plays, Slots, Flows
<1>2. CASE StopTask
  <2>0. /\ stopping = "task" /\ stopping' = "slots" /\ taken' = [taken EXCEPT !.task = task]
        /\ task' = 0 /\ UNCHANGED <<lists, sender, slots, calls>>
    BY <1>2 DEF StopTask
  <2>1. taken' \in [queue : Lines, task : Lines] /\ task' \in Lines
    BY <2>0, <1>02 DEF Inv, Types, Lines
  <2>2. Types'
    BY <2>0, <2>1, <1>0 DEF Inv, Types, thread, lists, slots, client
  <2>3. Queued'
    BY <2>0, <1>0, <1>01 DEF Inv, Queued, Works, thread, lists
  <2> QED
    BY <2>2, <2>3, <1>0, <1>01, CountedStays DEF Inv, Plays, Slots, Flows
<1>3. CASE StopSlots
  <2>0. /\ stopping = "slots" /\ stopping' = "no" /\ backlog' = -1 /\ overflowed' = FALSE
        /\ calls' = Append(calls, [do |-> "stop", arg |-> taken])
        /\ UNCHANGED <<lists, senders, taken>>
    BY <1>3 DEF StopSlots
  <2>1. PICK x \in Calls : x = [do |-> "stop", arg |-> taken]
    BY <1>02 DEF Calls
  <2>2. calls' \in Seq(Calls)
    BY <2>0, <2>1, <1>02, CallLeft
  <2>3. -1 \in -1 .. MaxOutbound
    BY BoundsAssumption
  <2>4. Types'
    BY <2>0, <2>2, <2>3, <1>0 DEF Inv, Types, thread, lists, senders, client
  <2>5. Queued'
    BY <2>0, <1>0, <1>01 DEF Inv, Queued, Works, thread, lists, senders
  <2> QED
    BY <2>4, <2>5, <1>0, <1>01, CountedStays DEF Inv, Plays, Slots, Flows
<1> QED
  BY <1>1, <1>2, <1>3

-----------------------------------------------------------------------------
(* The invariant, and what it shows. *)

LEMMA InitInv == Init => Inv
<1> SUFFICES ASSUME Init PROVE Inv
  OBVIOUS
<1>0. /\ game = [pc |-> "idle", n |-> 0] /\ made = 0 /\ queue = 0 /\ task = 0
      /\ items = [k \in Queues |-> <<>>] /\ unfinished = [k \in Queues |-> 0]
      /\ sender = [k \in Queues |-> Idle] /\ backlog = -1 /\ overflowed = FALSE /\ calls = <<>>
      /\ closing = 0 /\ registered = TRUE /\ stopping = "no"
      /\ taken = [queue |-> 0, task |-> 0] /\ handler = [pc |-> "loop", on |-> 0]
      /\ socket = "reads" /\ sent = <<>>
  BY DEF Init
<1>01. MaxOutbound \in Nat /\ MaxMessages \in Nat /\ 0 \in Messages
  BY BoundsAssumption DEF Messages
<1>02. Idle \in Senders /\ Idle.pc = "idle"
  BY <1>01 DEF Idle, Senders, Snapshot
<1>1. Types
  <2>1. items \in [Queues -> Seq(Messages)] /\ \A k \in Queues : Len(items[k]) <= MaxOutbound
    BY <1>0, <1>01
  <2>2. calls \in Seq(Calls) /\ sent \in Seq(Messages)
    BY <1>0
  <2>3. sender \in [Queues -> Senders] /\ unfinished \in [Queues -> Int]
    BY <1>0, <1>02
  <2>4. /\ game \in [pc : {"idle", "ensure", "task", "reserve", "post", "overflow"}, n : Messages]
        /\ game.pc = "idle"
    BY <1>0, <1>01
  <2>5. taken \in [queue : Lines, task : Lines]
        /\ handler \in [pc : {"loop", "wait", "gone"}, on : Lines]
    BY <1>0 DEF Lines
  <2>6. backlog \in -1 .. MaxOutbound
    BY <1>0, <1>01
  <2> QED
    BY <1>0, <2>1, <2>2, <2>3, <2>4, <2>5, <2>6 DEF Types, Lines
<1>2. Counted
  BY <1>0, <1>02 DEF Counted, Sending
<1>3. Queued
  BY <1>0, <1>02 DEF Queued, Works
<1>4. Plays
  BY <1>0, <1>02 DEF Plays
<1>5. Slots
  BY <1>0 DEF Slots
<1>6. Flows
  <2>1. InTurn(sent, 0, 0) /\ 0 <= game.n
    BY <1>0, NothingInTurn
  <2>2. InHand(0, 0) /\ InQueue(0, 0)
    BY <1>0 DEF InHand, InQueue
  <2>3. InTurn(Numbers, 0, 0)
    <3>1. DOMAIN Numbers = {} /\ 0 + 1 .. 0 = {}
      BY <1>0 DEF Numbers
    <3> QED
      BY <3>1 DEF InTurn
  <2>4. Left(0, 0)
    BY <1>0, <2>3 DEF Left, Going
  <2>5. Flow(0, 0, 0, 0)
    BY <2>1, <2>2, <2>4, <1>0 DEF Flow
  <2> QED
    BY <2>5, <1>01 DEF Flows
<1> QED
  BY <1>1, <1>2, <1>3, <1>4, <1>5, <1>6 DEF Inv

LEMMA StepInv == Inv /\ [Next]_vars => Inv'
<1> SUFFICES ASSUME Inv, [Next]_vars PROVE Inv'
  OBVIOUS
<1>1. CASE GameBroadcasts
  BY <1>1, BroadcastStep
<1>2. CASE GameSends
  BY <1>2, EnsureStep, TaskStep, ReserveStep, PostStep DEF GameSends
<1>3. CASE RunCall
  BY <1>3, StartStep, EnqueueStep, OverflowStep, StopStep DEF RunCall
<1>4. CASE CloseSlowClient \/ Joined \/ Stalls \/ ReadsAgain \/ Dies
  BY <1>4, ClientStep
<1>5. CASE HandlerEnds \/ Replaced
  BY <1>5, LeaveStep
<1>6. CASE StopQueue \/ StopTask \/ StopSlots
  BY <1>6, StopSenderStep
<1>7. CASE Answers
  BY <1>7, AnswerStep
<1>8. CASE \E k \in Queues : SendLoop(k)
  <2>1. PICK k \in Queues : Get(k) \/ Sends(k) \/ SendFails(k)
    BY <1>8 DEF SendLoop
  <2> QED
    BY <2>1, GetStep, SendStep
<1>9. CASE UNCHANGED vars
  BY <1>9, HandOver DEF vars, stops, client, Inv, Types
<1> QED
  BY <1>1, <1>2, <1>3, <1>4, <1>5, <1>6, <1>7, <1>8, <1>9 DEF Next, Handle

LEMMA Invariance == Spec => []Inv
<1> QED
  BY InitInv, StepInv, PTL DEF Spec

(* _send_backlog, with _release_outbound_slot in each of its callers: while *)
(* the socket plays, the slots in use are the messages the game thread has  *)
(* reserved, those in the queue and the one being sent, whatever the client *)
(* does; and no queue holds more than its maximum.                          *)
THEOREM SlotsExactHolds == Spec => []SlotsExact
<1>1. Inv => SlotsExact
  <2> SUFFICES ASSUME Inv PROVE SlotsExact
    OBVIOUS
  <2>1. Types /\ Counted /\ Slots
    BY DEF Inv
  <2>2. unfinished \in [Queues -> Nat]
    <3> SUFFICES ASSUME NEW k \in Queues PROVE unfinished[k] \in Nat
      BY <2>1 DEF Types
    <3>1. items[k] \in Seq(Messages) /\ unfinished[k] = Len(items[k]) + Sending(k)
      BY <2>1 DEF Types, Counted
    <3>2. Len(items[k]) \in Nat /\ Sending(k) \in Nat
      BY <3>1 DEF Sending
    <3> QED
      BY <3>1, <3>2
  <2>3. TypeOK
    BY <2>1, <2>2 DEF Types, TypeOK, Lines, Senders
  <2> QED
    BY <2>1, <2>3 DEF Slots, SlotsExact
<1> QED
  BY <1>1, Invariance, PTL

(* _send_loop and _enqueue_reserved, "one client observes engine order":    *)
(* while the socket plays, what the client has received of the game is a    *)
(* beginning of what was broadcast, each message once, in turn and without  *)
(* a gap, also when it overflowed or a send to it failed.                   *)
THEOREM InOrderHolds == Spec => []InOrder
<1>1. Inv => InOrder
  <2> SUFFICES ASSUME Inv, registered PROVE \E n \in 0 .. game.n : InTurn(sent, 0, n)
    BY DEF InOrder
  <2>1. PICK a \in Messages, b \in Messages, c \in Messages, d \in Messages : Flow(a, b, c, d)
    BY DEF Inv, Flows
  <2>2. InTurn(sent, 0, a) /\ a <= game.n
    BY <2>1 DEF Flow
  <2>3. a \in 0 .. game.n
    BY <2>2 DEF Inv, Types, Messages
  <2> QED
    BY <2>2, <2>3
<1> QED
  BY <1>1, Invariance, PTL

=============================================================================
