--------------------------- MODULE TurnStreamProofs ---------------------------
(***************************************************************************)
(* Theorems about TurnStream, for any number of subscribers: what was      *)
(* received and what waits is what was published, and no browser ever sees *)
(* events out of order.                                                    *)
(***************************************************************************)
EXTENDS TurnStream, SequenceTheorems, TLAPS

(* The bus holds the whole log until the clean-up drops it; it is closed   *)
(* when the turn is over.                                                  *)
BusOK ==
    /\ turn # "over" <=> cleaner = "none"
    /\ \/ /\ bus.buffer = log
          /\ bus.closed <=> turn = "over"
       \/ /\ cleaner = "done"
          /\ bus.buffer = <<>>
          /\ ~bus.closed

(* A subscription either has the whole log before it, or was opened on a   *)
(* turn that had been cleaned up, and waits for nothing.                   *)
Complete(c) == got[c] \o queue[c] = log \o Sentinel
Empty(c) == cleaner = "done" /\ got[c] = <<>> /\ queue[c] = <<>>

(* got[c] is a beginning of the log, element by element.                   *)
Began(c) ==
    /\ Len(got[c]) <= Len(log)
    /\ \A i \in 1..Len(got[c]) : got[c][i] = log[i]

StreamsOK ==
    \A c \in Client :
       /\ Began(c)
       /\ handler[c] = "none" => got[c] = <<>> /\ busy[c] /\ c \notin bus.subs
       /\ handler[c] = "streaming" => c \in bus.subs
       /\ c \in bus.subs => \/ Complete(c) /\ bus.buffer = log
                            \/ Empty(c)

TypesOK ==
    /\ bus \in [there : BOOLEAN, closed : BOOLEAN, buffer : Seq(Item), subs : SUBSET Client]
    /\ log \in Seq(Item)
    /\ turn \in {"created", "running", "closing", "over"}
    /\ cleaner \in {"none", "sleeping", "done"}
    /\ handler \in [Client -> {"none", "streaming", "returned", "exhausted", "ended"}]
    /\ queue \in [Client -> Seq(Item \cup {End})]
    /\ got \in [Client -> Seq(Item)]
    /\ busy \in [Client -> BOOLEAN]

Pages ==
    /\ \A c \in Client : ~busy[c] => handler[c] # "streaming"
    /\ \A c \in bus.subs : handler[c] \in {"streaming", "returned"}

IInv == TypesOK /\ Pages /\ BusOK /\ StreamsOK

-----------------------------------------------------------------------------
(* Sequences.                                                              *)

LEMMA EndIsNoItem == End \notin Item
BY DEF End, Item, Finals

LEMMA SentinelIsPutOn == Sentinel \in Seq(Item \cup {End})
<1>1. <<>> \in Seq(Item \cup {End}) /\ <<End>> \in Seq(Item \cup {End})
  BY EmptySeq
<1>. QED BY <1>1 DEF Sentinel

LEMMA ItemsArePutOn ==
  ASSUME NEW s \in Seq(Item)
  PROVE  s \in Seq(Item \cup {End})
BY SeqMonotonic

(* What is put on the queue is put behind everything received and waiting. *)
LEMMA PutBehind ==
  ASSUME NEW g \in Seq(Item \cup {End}), NEW q \in Seq(Item \cup {End}),
         NEW x \in Item \cup {End}
  PROVE  g \o Append(q, x) = Append(g \o q, x)
<1> DEFINE S == Item \cup {End}
<1>0. g \in Seq(S) /\ q \in Seq(S) /\ x \in S
  OBVIOUS
<1> HIDE DEF S
<1>1. /\ Append(q, x) = q \o <<x>> /\ <<x>> \in Seq(S)
      /\ Append(g \o q, x) = (g \o q) \o <<x>>
  BY <1>0, AppendIsConcat, ConcatProperties
<1>2. g \o (q \o <<x>>) = (g \o q) \o <<x>>
  BY <1>0, <1>1, ConcatAssociative
<1>. QED BY <1>1, <1>2

(* The head of the queue comes right after what was received.              *)
LEMMA NextInLine ==
  ASSUME NEW S, NEW g \in Seq(S), NEW q \in Seq(S), q # <<>>
  PROVE  (g \o q)[Len(g) + 1] = Head(q) /\ Len(g) + 1 <= Len(g \o q)
<1>1. Len(g) \in Nat /\ Len(q) \in Nat \ {0} /\ Head(q) = q[1]
  BY EmptySeq
<1>2. PICK n \in Nat : n = Len(g)
  BY <1>1
<1>3. PICK m \in Nat \ {0} : m = Len(q)
  BY <1>1
<1>4. n + 1 \in 1..n + m /\ ~(n + 1 <= n) /\ (n + 1) - n = 1
  BY <1>2, <1>3
<1>5. /\ Len(g \o q) = n + m
      /\ \A i \in 1..n + m : (g \o q)[i] = IF i <= n THEN g[i] ELSE q[i - n]
  BY <1>2, <1>3, ConcatProperties
<1>6. (g \o q)[n + 1] = q[(n + 1) - n]
  BY <1>4, <1>5
<1>. QED BY <1>1, <1>2, <1>4, <1>5, <1>6

(* Taking the head of the queue leaves the whole as it is.                 *)
LEMMA TakeHead ==
  ASSUME NEW S, NEW g \in Seq(S), NEW q \in Seq(S), q # <<>>
  PROVE  /\ Append(g, Head(q)) \o Tail(q) = g \o q
         /\ Append(g, Head(q)) \in Seq(S) /\ Tail(q) \in Seq(S)
<1>1. Head(q) \in S /\ Tail(q) \in Seq(S)
  BY HeadTailProperties
<1>2. <<Head(q)>> \o Tail(q) = q
  BY <1>1
<1>3. Append(g, Head(q)) = g \o <<Head(q)>> /\ <<Head(q)>> \in Seq(S)
  BY <1>1, AppendIsConcat
<1>4. (g \o <<Head(q)>>) \o Tail(q) = g \o (<<Head(q)>> \o Tail(q))
  BY <1>1, <1>3, ConcatAssociative
<1>. QED BY <1>1, <1>2, <1>3, <1>4, AppendProperties

(* A beginning, element by element, is a prefix.                           *)
LEMMA BeganIsPrefix ==
  ASSUME TypesOK, NEW c \in Client, Began(c)
  PROVE  IsPrefix(got[c], log)
<1>1. got[c] \in Seq(Item) /\ log \in Seq(Item)
  BY DEF TypesOK
<1>2. Len(got[c]) \in Nat /\ Len(log) \in Nat /\ Len(got[c]) <= Len(log)
  BY <1>1 DEF Began
<1>3. \A i \in 1..Len(got[c]) : got[c][i] \in Item /\ log[i] \in Item
  BY <1>1, <1>2, ElementOfSeq
<1>4. /\ SubSeq(got[c], 1, Len(got[c])) \in Seq(Item)
      /\ Len(SubSeq(got[c], 1, Len(got[c]))) = Len(got[c])
      /\ \A i \in 1..Len(got[c]) : SubSeq(got[c], 1, Len(got[c]))[i] = got[c][i]
  BY <1>1, <1>2, <1>3, SubSeqProperties
<1>5. /\ SubSeq(log, 1, Len(got[c])) \in Seq(Item)
      /\ Len(SubSeq(log, 1, Len(got[c]))) = Len(got[c])
      /\ \A i \in 1..Len(got[c]) : SubSeq(log, 1, Len(got[c]))[i] = log[i]
  BY <1>1, <1>2, <1>3, SubSeqProperties
<1>6. SubSeq(got[c], 1, Len(got[c])) = SubSeq(log, 1, Len(got[c]))
  <2>1. \A i \in 1..Len(got[c]) : got[c][i] = log[i]
    BY DEF Began
  <2>. QED BY <1>2, <1>4, <1>5, <2>1, SeqEqual
<1>. QED BY <1>2, <1>6 DEF IsPrefix

-----------------------------------------------------------------------------
LEMMA TypesTypeOK == TypesOK /\ Pages <=> TypeOK
BY DEF TypesOK, Pages, TypeOK

LEMMA InitIsFine == Init => IInv
<1> SUFFICES ASSUME Init PROVE IInv
  OBVIOUS
<1>1. <<>> \in Seq(Item) /\ <<>> \in Seq(Item \cup {End}) /\ Len(<<>>) = 0
  BY EmptySeq
<1>2. TypesOK /\ Pages
  BY <1>1 DEF Init, NoState, TypesOK, Pages
<1>3. BusOK
  BY DEF Init, NoState, BusOK
<1>4. StreamsOK
  BY <1>1 DEF Init, NoState, StreamsOK, Began
<1>. QED BY <1>2, <1>3, <1>4 DEF IInv

(* A longer log still begins with what was received.                       *)
LEMMA LongerLog ==
  ASSUME TypesOK, NEW c \in Client, Began(c), NEW item \in Item,
         log' = Append(log, item), got'[c] = got[c]
  PROVE  Began(c)'
<1>1. got[c] \in Seq(Item) /\ log \in Seq(Item)
  BY DEF TypesOK
<1>2. Len(got[c]) \in Nat /\ Len(log) \in Nat
  BY <1>1
<1>3. Len(log') = Len(log) + 1 /\ \A i \in 1..Len(log) : log'[i] = log[i]
  BY <1>1, AppendProperties
<1>. QED BY <1>2, <1>3 DEF Began

(* The bus publishes an event before the turn is over.                     *)
LEMMA PublishKeeps ==
  ASSUME IInv, NEW item \in Item, Publish(item),
         turn \in {"created", "running"}, turn' \in {"running", "closing"}
  PROVE  IInv'
<1>1. cleaner = "none" /\ bus.buffer = log /\ ~bus.closed /\ turn' # "over"
  BY DEF IInv, BusOK
<1>2. item \in Item \cup {End} /\ log \in Seq(Item) /\ bus.buffer \in Seq(Item)
      /\ bus \in [there : BOOLEAN, closed : BOOLEAN, buffer : Seq(Item), subs : SUBSET Client]
  BY DEF IInv, TypesOK
<1>3. /\ log' = Append(log, item) /\ bus'.buffer = Append(log, item)
      /\ ~bus'.closed /\ bus'.subs = bus.subs
      /\ cleaner' = "none" /\ handler' = handler /\ got' = got /\ busy' = busy
  BY <1>1, <1>2 DEF Publish
<1>4. TypesOK'
  <2>1. Append(log, item) \in Seq(Item)
    BY <1>2, AppendProperties
  <2>2. bus' \in [there : BOOLEAN, closed : BOOLEAN, buffer : Seq(Item), subs : SUBSET Client]
    BY <1>1, <1>2, <2>1 DEF Publish
  <2>3. queue' \in [Client -> Seq(Item \cup {End})]
    BY <1>2, AppendProperties DEF IInv, TypesOK, Publish, ToSubscribers
  <2>. QED BY <1>3, <2>1, <2>2, <2>3 DEF IInv, TypesOK
<1>5. Pages' /\ BusOK'
  BY <1>1, <1>3 DEF IInv, Pages, BusOK
<1>6. ASSUME NEW c \in Client PROVE Began(c)'
  BY <1>3, LongerLog DEF IInv, StreamsOK
<1>7. ASSUME NEW c \in bus.subs PROVE Complete(c)'
  <2>1. c \in Client /\ queue'[c] = Append(queue[c], item)
    BY <1>2 DEF Publish, ToSubscribers
  <2>2. Complete(c)
    BY <1>1, <2>1 DEF IInv, StreamsOK, Empty
  <2>3. got[c] \in Seq(Item \cup {End}) /\ queue[c] \in Seq(Item \cup {End})
        /\ log \in Seq(Item \cup {End})
    BY <1>2, <2>1, ItemsArePutOn DEF IInv, TypesOK
  <2>4. got[c] \o queue[c] = log
    BY <1>1, <2>2, <2>3, ConcatEmptySeq DEF Complete, Sentinel
  <2>5. got[c] \o Append(queue[c], item) = Append(log, item)
    <3>1. got[c] \o Append(queue[c], item) = Append(got[c] \o queue[c], item)
      BY <1>2, <2>3, PutBehind
    <3>. QED BY <2>4, <3>1
  <2>6. Append(log, item) \o <<>> = Append(log, item)
    BY <1>2, AppendProperties, ConcatEmptySeq
  <2>. QED BY <1>3, <2>1, <2>5, <2>6 DEF Complete, Sentinel
<1>8. StreamsOK'
  BY <1>1, <1>3, <1>6, <1>7 DEF IInv, StreamsOK
<1>. QED BY <1>4, <1>5, <1>8 DEF IInv

(* close() puts the sentinel behind everything.                            *)
LEMMA CloseKeeps == ASSUME IInv, Close PROVE IInv'
<1>1. cleaner = "none" /\ bus.buffer = log /\ ~bus.closed
  BY DEF IInv, BusOK, Close
<1>2. log \in Seq(Item) /\ End \in Item \cup {End}
      /\ bus \in [there : BOOLEAN, closed : BOOLEAN, buffer : Seq(Item), subs : SUBSET Client]
  BY DEF IInv, TypesOK
<1>3. /\ bus'.buffer = log /\ bus'.closed /\ bus'.subs = bus.subs
      /\ turn' = "over" /\ cleaner' = "sleeping"
      /\ log' = log /\ handler' = handler /\ got' = got /\ busy' = busy
  BY <1>1, <1>2 DEF Close
<1>4. TypesOK'
  <2>1. bus' \in [there : BOOLEAN, closed : BOOLEAN, buffer : Seq(Item), subs : SUBSET Client]
    BY <1>2 DEF Close
  <2>2. queue' \in [Client -> Seq(Item \cup {End})]
    BY <1>2, AppendProperties DEF IInv, TypesOK, Close, ToSubscribers
  <2>. QED BY <1>3, <2>1, <2>2 DEF IInv, TypesOK
<1>5. Pages' /\ BusOK'
  BY <1>1, <1>3 DEF IInv, Pages, BusOK
<1>6. ASSUME NEW c \in bus.subs PROVE Complete(c)'
  <2>1. c \in Client /\ queue'[c] = Append(queue[c], End)
    BY <1>2 DEF Close, ToSubscribers
  <2>2. Complete(c)
    BY <1>1, <2>1 DEF IInv, StreamsOK, Empty
  <2>3. got[c] \in Seq(Item \cup {End}) /\ queue[c] \in Seq(Item \cup {End})
        /\ log \in Seq(Item \cup {End})
    BY <1>2, <2>1, ItemsArePutOn DEF IInv, TypesOK
  <2>4. got[c] \o queue[c] = log
    BY <1>1, <2>2, <2>3, ConcatEmptySeq DEF Complete, Sentinel
  <2>5. got[c] \o Append(queue[c], End) = Append(log, End)
    <3>1. got[c] \o Append(queue[c], End) = Append(got[c] \o queue[c], End)
      BY <1>2, <2>3, PutBehind
    <3>. QED BY <2>4, <3>1
  <2>6. Append(log, End) = log \o <<End>>
    BY <1>2, <2>3, AppendIsConcat
  <2>. QED BY <1>3, <2>1, <2>5, <2>6 DEF Complete, Sentinel
<1>7. StreamsOK'
  BY <1>3, <1>6 DEF IInv, StreamsOK, Began
<1>. QED BY <1>4, <1>5, <1>7 DEF IInv

LEMMA CleanupKeeps == ASSUME IInv, Cleanup PROVE IInv'
<1>1. turn = "over" /\ bus.buffer = log /\ bus.closed
  BY DEF IInv, BusOK, Cleanup
<1>2. TypesOK'
  BY EmptySeq DEF IInv, TypesOK, Cleanup, NoState
<1>3. Pages' /\ BusOK'
  BY <1>1 DEF IInv, Pages, BusOK, Cleanup, NoState
<1>4. StreamsOK'
  <2>1. CASE bus.subs = {}
    BY <2>1 DEF IInv, StreamsOK, Cleanup, NoState, Began
  <2>2. CASE bus.subs # {}
    <3>1. bus' = bus /\ cleaner' = "done"
          /\ UNCHANGED <<log, turn, handler, queue, got, busy>>
      BY <2>2 DEF Cleanup
    <3>. QED BY <3>1 DEF IInv, StreamsOK, Began, Complete, Sentinel, Empty
  <2>. QED BY <2>1, <2>2
<1>. QED BY <1>2, <1>3, <1>4 DEF IInv

(* The replay is everything so far.                                        *)
LEMMA SubscribeKeeps == ASSUME IInv, NEW c \in Client, Subscribe(c) PROVE IInv'
<1>1. /\ bus \in [there : BOOLEAN, closed : BOOLEAN, buffer : Seq(Item), subs : SUBSET Client]
      /\ log \in Seq(Item) /\ got[c] = <<>>
      /\ bus.buffer \in Seq(Item \cup {End}) /\ log \in Seq(Item \cup {End})
      /\ Sentinel \in Seq(Item \cup {End})
  BY ItemsArePutOn, SentinelIsPutOn DEF IInv, TypesOK, StreamsOK, Subscribe
<1>2. /\ bus'.buffer = bus.buffer /\ bus'.closed = bus.closed
      /\ bus'.subs = bus.subs \cup {c} /\ Sentinel' = Sentinel
      /\ log' = log /\ turn' = turn /\ cleaner' = cleaner /\ got' = got /\ busy' = busy
      /\ handler' = [handler EXCEPT ![c] = "streaming"]
      /\ queue' = [queue EXCEPT ![c] = bus.buffer \o Sentinel]
  BY <1>1 DEF Subscribe, Sentinel
<1>3. bus.buffer \o Sentinel \in Seq(Item \cup {End})
  BY <1>1, ConcatProperties
<1>4. TypesOK'
  <2>1. bus' \in [there : BOOLEAN, closed : BOOLEAN, buffer : Seq(Item), subs : SUBSET Client]
    BY <1>1 DEF Subscribe
  <2>. QED BY <1>2, <1>3, <2>1 DEF IInv, TypesOK
<1>5. Pages' /\ BusOK'
  <2>1. busy[c]
    BY DEF IInv, StreamsOK, Subscribe
  <2>. QED BY <1>2, <2>1 DEF IInv, TypesOK, Pages, BusOK
<1>6. \/ Complete(c)' /\ (bus.buffer = log)'
      \/ Empty(c)'
  <2>1. queue'[c] = bus.buffer \o Sentinel /\ got'[c] = <<>>
    BY <1>1, <1>2 DEF IInv, TypesOK
  <2>2. CASE bus.buffer = log
    <3>1. <<>> \o (log \o Sentinel) = log \o Sentinel
      BY <1>3, <2>2, ConcatEmptySeq
    <3>. QED BY <1>2, <2>1, <2>2, <3>1 DEF Complete
  <2>3. CASE bus.buffer # log
    <3>1. cleaner = "done" /\ bus.buffer = <<>> /\ ~bus.closed
      BY <2>3 DEF IInv, BusOK
    <3>2. <<>> \o <<>> = <<>>
      BY EmptySeq, ConcatEmptySeq
    <3>. QED BY <1>2, <2>1, <3>1, <3>2 DEF Empty, Sentinel
  <2>. QED BY <2>2, <2>3
<1>7. ASSUME NEW d \in Client, d # c
      PROVE  queue'[d] = queue[d] /\ handler'[d] = handler[d]
  BY <1>2, <1>7 DEF IInv, TypesOK
<1>8. handler'[c] = "streaming"
  BY <1>2 DEF IInv, TypesOK
<1>9. StreamsOK'
  <2>1. got'[c] = <<>> /\ Began(c)'
    BY <1>1, <1>2, EmptySeq DEF Began
  <2>2. ASSUME NEW d \in Client, d # c
        PROVE  /\ Began(d)' <=> Began(d)
               /\ Complete(d)' <=> Complete(d)
               /\ Empty(d)' <=> Empty(d)
    BY <1>2, <1>7, <2>2 DEF IInv, TypesOK, Began, Complete, Empty
  <2>. QED BY <1>2, <1>6, <1>7, <1>8, <2>1, <2>2 DEF IInv, StreamsOK
<1>. QED BY <1>4, <1>5, <1>9 DEF IInv

(* What is delivered is the next event of the log.                         *)
LEMMA DeliverKeeps == ASSUME IInv, NEW c \in Client, Deliver(c) PROVE IInv'
<1> DEFINE S == Item \cup {End}
<1>1. /\ got[c] \in Seq(Item) /\ got[c] \in Seq(S) /\ queue[c] \in Seq(S)
      /\ queue[c] # <<>> /\ log \in Seq(Item) /\ log \in Seq(S)
      /\ Sentinel \in Seq(S) /\ Head(queue[c]) \in Item
  <2>1. queue[c] \in Seq(S) /\ queue[c] # <<>> /\ Head(queue[c]) # End
    BY DEF IInv, TypesOK, Deliver
  <2>2. Head(queue[c]) \in S
    BY <2>1, HeadTailProperties
  <2>3. got[c] \in Seq(Item) /\ log \in Seq(Item)
    BY DEF IInv, TypesOK
  <2>4. got[c] \in Seq(S) /\ log \in Seq(S)
    BY <2>3, ItemsArePutOn
  <2>. QED BY <2>1, <2>2, <2>3, <2>4, SentinelIsPutOn
<1>2. /\ got' = [got EXCEPT ![c] = Append(got[c], Head(queue[c]))]
      /\ queue' = [queue EXCEPT ![c] = Tail(queue[c])]
      /\ bus' = bus /\ log' = log /\ turn' = turn /\ cleaner' = cleaner /\ Sentinel' = Sentinel
      /\ c \in bus.subs /\ handler[c] = "streaming"
  BY DEF Deliver, IInv, StreamsOK, Sentinel
<1>3. \/ handler' = [handler EXCEPT ![c] = "returned"] /\ busy' = [busy EXCEPT ![c] = FALSE]
      \/ handler' = handler /\ busy' = busy
  BY DEF Deliver
<1>4. /\ Append(got[c], Head(queue[c])) \o Tail(queue[c]) = got[c] \o queue[c]
      /\ Tail(queue[c]) \in Seq(S)
      /\ Append(got[c], Head(queue[c])) \in Seq(Item)
  <2>1. PICK g, q, h : g = got[c] /\ q = queue[c] /\ h = Head(queue[c])
    OBVIOUS
  <2>2. g \in Seq(S) /\ g \in Seq(Item) /\ q \in Seq(S) /\ q # <<>> /\ h \in Item
    BY <1>1, <2>1
  <2> HIDE DEF S
  <2>3. Append(g, Head(q)) \o Tail(q) = g \o q /\ Tail(q) \in Seq(S)
    BY <2>2, TakeHead, Zenon
  <2>4. Append(g, h) \in Seq(Item)
    BY <2>2, AppendProperties, Zenon
  <2>. QED BY <2>1, <2>3, <2>4
<1>5. TypesOK'
  BY <1>2, <1>3, <1>4 DEF IInv, TypesOK
<1>6. Pages' /\ BusOK'
  BY <1>2, <1>3 DEF IInv, TypesOK, Pages, BusOK
<1>7. Complete(c) /\ bus.buffer = log
  BY <1>1, <1>2 DEF IInv, StreamsOK, Empty
<1>8. got'[c] = Append(got[c], Head(queue[c])) /\ queue'[c] = Tail(queue[c])
  BY <1>2 DEF IInv, TypesOK
<1>9. Complete(c)'
  BY <1>2, <1>4, <1>7, <1>8 DEF Complete
<1>10. Began(c)'
  <2> DEFINE n == Len(got[c])
             x == Head(queue[c])
  <2>1. n \in Nat /\ Len(log) \in Nat /\ n <= Len(log)
    BY <1>1 DEF IInv, StreamsOK, Began
  <2>2. Len(got'[c]) = n + 1 /\ got'[c][n+1] = x /\ \A i \in 1..n : got'[c][i] = got[c][i]
    BY <1>1, <1>8, AppendProperties
  <2>3. (got[c] \o queue[c])[n+1] = x /\ n+1 <= Len(got[c] \o queue[c])
    BY <1>1, NextInLine
  <2>4. n+1 <= Len(log) /\ log[n+1] = x
    <3>1. Sentinel = <<>> \/ Sentinel = <<End>>
      BY DEF Sentinel
    <3>2. CASE Sentinel = <<>>
      BY <1>1, <1>7, <2>1, <2>3, <3>2, ConcatEmptySeq DEF Complete
    <3>3. CASE Sentinel = <<End>>
      <4>1. /\ Len(log \o Sentinel) = Len(log) + 1
            /\ \A i \in 1..Len(log)+1 : (log \o Sentinel)[i] = IF i <= Len(log) THEN log[i] ELSE <<End>>[i - Len(log)]
        BY <1>1, <3>3, ConcatProperties
      <4>2. (log \o Sentinel)[Len(log)+1] = End
        BY <2>1, <4>1
      <4>3. x # End
        BY DEF Deliver
      <4>. QED BY <1>7, <2>1, <2>3, <4>1, <4>2, <4>3 DEF Complete
    <3>. QED BY <3>1, <3>2, <3>3
  <2>5. \A i \in 1..n : got[c][i] = log[i]
    BY DEF IInv, StreamsOK, Began
  <2> HIDE DEF n, x
  <2>. QED BY <1>2, <2>1, <2>2, <2>4, <2>5 DEF Began
<1>11. ASSUME NEW d \in Client, d # c
       PROVE  got'[d] = got[d] /\ queue'[d] = queue[d] /\ handler'[d] = handler[d]
  BY <1>2, <1>3, <1>11 DEF IInv, TypesOK
<1>12. handler'[c] # "none"
  BY <1>2, <1>3 DEF IInv, TypesOK
<1>13. StreamsOK'
  <2>1. ASSUME NEW d \in Client, d # c
        PROVE  /\ Began(d)'
               /\ handler'[d] = "none" => got'[d] = <<>> /\ busy'[d] /\ d \notin bus'.subs
               /\ handler'[d] = "streaming" => d \in bus'.subs
               /\ d \in bus'.subs => \/ Complete(d)' /\ (bus.buffer = log)'
                                     \/ Empty(d)'
    <3>1. busy'[d] = busy[d]
      BY <1>3, <2>1 DEF IInv, TypesOK
    <3>2. got'[d] = got[d] /\ queue'[d] = queue[d] /\ handler'[d] = handler[d]
      BY <1>11, <2>1
    <3>3. /\ Began(d)' <=> Began(d)
          /\ Complete(d)' <=> Complete(d)
          /\ Empty(d)' <=> Empty(d)
      BY <1>2, <3>2 DEF Began, Complete, Empty
    <3>. QED BY <1>2, <3>1, <3>2, <3>3 DEF IInv, StreamsOK
  <2>. QED BY <1>2, <1>7, <1>9, <1>10, <1>12, <2>1 DEF StreamsOK
<1>. QED BY <1>5, <1>6, <1>13 DEF IInv

LEMMA UnsubscribeKeeps ==
  ASSUME IInv, NEW c \in Client, NEW next \in {"exhausted", "ended"},
         Unsubscribe(c, next)
  PROVE  IInv'
<1>1. /\ bus \in [there : BOOLEAN, closed : BOOLEAN, buffer : Seq(Item), subs : SUBSET Client]
      /\ handler \in [Client -> {"none", "streaming", "returned", "exhausted", "ended"}]
  BY DEF IInv, TypesOK
<1>2. /\ bus' \in [there : BOOLEAN, closed : BOOLEAN, buffer : Seq(Item), subs : SUBSET Client]
      /\ bus'.buffer = bus.buffer /\ bus'.closed = bus.closed /\ bus'.subs = bus.subs \ {c}
      /\ Sentinel' = Sentinel
      /\ handler'[c] = next /\ \A d \in Client \ {c} : handler'[d] = handler[d]
      /\ UNCHANGED <<log, turn, cleaner, queue, got, busy>>
  BY <1>1 DEF Unsubscribe, Sentinel
<1>3. TypesOK'
  BY <1>1, <1>2 DEF IInv, TypesOK, Unsubscribe
<1>4. Pages' /\ BusOK'
  BY <1>2 DEF IInv, Pages, BusOK
<1>5. StreamsOK'
  <2>1. ASSUME NEW d \in Client
        PROVE  /\ Began(d)' <=> Began(d)
               /\ Complete(d)' <=> Complete(d)
               /\ Empty(d)' <=> Empty(d)
    BY <1>2 DEF Began, Complete, Empty
  <2>. QED BY <1>2, <2>1 DEF IInv, StreamsOK
<1>. QED BY <1>3, <1>4, <1>5 DEF IInv

LEMMA StreamsInductive == IInv /\ [Next]_vars => IInv'
<1> SUFFICES ASSUME IInv, [Next]_vars PROVE IInv'
  OBVIOUS
<1>1. CASE TurnStart
  BY <1>1, PublishKeeps DEF TurnStart, Item
<1>2. CASE TurnEnd
  BY <1>2, PublishKeeps DEF TurnEnd, Item
<1>3. CASE Close
  BY <1>3, CloseKeeps
<1>4. CASE TurnRaise
  BY <1>4 DEF TurnRaise, IInv, TypesOK, Pages, BusOK, StreamsOK, Began, Complete, Empty, Sentinel
<1>5. CASE Cleanup
  BY <1>5, CleanupKeeps
<1>6. ASSUME NEW c \in Client, Stream(c) \/ Disconnect(c) PROVE IInv'
  <2>1. CASE Subscribe(c)
    BY <2>1, SubscribeKeeps
  <2>2. CASE Deliver(c)
    BY <2>2, DeliverKeeps
  <2>3. CASE EndOfStream(c) \/ Finalize(c) \/ Heartbeat(c) \/ Disconnect(c)
    BY <2>3, UnsubscribeKeeps DEF EndOfStream, Finalize, Heartbeat, Disconnect
  <2>4. CASE Exhausted(c)
    <3>1. bus' = bus /\ c \notin bus.subs /\ handler' = [handler EXCEPT ![c] = "ended"]
          /\ UNCHANGED <<log, turn, cleaner, queue, got, busy>>
      BY <2>4 DEF Exhausted, IInv, Pages
    <3>2. TypesOK' /\ Pages' /\ BusOK'
      BY <3>1 DEF IInv, TypesOK, Pages, BusOK
    <3>3. StreamsOK'
      BY <3>1 DEF IInv, TypesOK, StreamsOK, Began, Complete, Empty, Sentinel
    <3>. QED BY <3>2, <3>3 DEF IInv
  <2>. QED BY <1>6, <2>1, <2>2, <2>3, <2>4 DEF Stream
<1>7. CASE Over \/ UNCHANGED vars
  <2>1. UNCHANGED <<bus, log, turn, cleaner, handler, queue, got, busy>>
    BY <1>7 DEF Over, vars
  <2>2. TypesOK' /\ Pages' /\ BusOK'
    BY <2>1 DEF IInv, TypesOK, Pages, BusOK
  <2>3. StreamsOK'
    BY <2>1 DEF IInv, StreamsOK, Began, Complete, Empty, Sentinel
  <2>. QED BY <2>2, <2>3 DEF IInv
<1>. QED BY <1>1, <1>2, <1>3, <1>4, <1>5, <1>6, <1>7 DEF Next, Worker

-----------------------------------------------------------------------------
(* Whenever a client subscribes, and however its events and the            *)
(* heartbeats interleave with the turn: what it received and what waits    *)
(* for it is what the turn published, until the turn is cleaned up.        *)
THEOREM NothingIsMissed == Spec => []SubscribersMissNothing
<1>1. IInv => SubscribersMissNothing
  BY DEF IInv, TypesOK, StreamsOK, Complete, Empty, SubscribersMissNothing
<1>. QED BY <1>1, InitIsFine, StreamsInductive, PTL DEF Spec

(* No browser ever sees an event out of order, or twice, also after the    *)
(* clean-up; and the state is well typed.                                  *)
THEOREM OrderIsKept == Spec => []ReceivedInOrder
<1>1. IInv => ReceivedInOrder
  BY TypesTypeOK, BeganIsPrefix DEF IInv, StreamsOK, ReceivedInOrder
<1>. QED BY <1>1, InitIsFine, StreamsInductive, PTL DEF Spec
=============================================================================
