---------------------------- MODULE GetPinsProofs ----------------------------
(***************************************************************************)
(* Proofs on the lists of pins, for any cids, sizes of a request and of a  *)
(* chunk, and however the pins change, and the replicas lag, while the     *)
(* chunks are read: each cid is in a chunk; what a read found of a cid was *)
(* its status in the table or a replica at that time; and a row is made of *)
(* what one of the reads found.                                            *)
(***************************************************************************)
EXTENDS GetPins, TLAPS, WellFoundedInduction

\* What read k found was so when it looked.
ReadIsTrue(k) ==
  /\ \A item \in reads[k].items : item.status \in seen[item.cid]
  /\ \A c \in ToSet(Chunk(k)) :
       (\E item \in reads[k].items : item.cid = c) \/ "unknown" \in seen[c]

ReadInv ==
  /\ DOMAIN reads # {} => asked # <<>>
  /\ asked # <<>> /\ answer = NoAnswer =>
       \A c \in Cids : Reads(c) \subseteq seen[c]
  /\ ~MayThrottle /\ answer = NoAnswer =>
       \A k \in DOMAIN reads : reads[k].done => ReadIsTrue(k)

ListInv == GetPinsTypeOK /\ ReadInv /\ (~MayThrottle => RowsAreTrue)

-----------------------------------------------------------------------------
LEMMA DivBounds ==
  ASSUME NEW a \in Nat, NEW b \in Nat \ {0}
  PROVE  /\ a \div b \in Nat
         /\ (a \div b) * b <= a
         /\ a < (a \div b) * b + b
BY Z3

\* The bounded sequences, as sequences.
LEMMA BoundedSeqs ==
  ASSUME NEW S, NEW n \in Nat, NEW s
  PROVE  s \in BoundedSeq(S, n) <=> s \in Seq(S) /\ Len(s) <= n
<1>1. BoundedSeq(S, n) = UNION {[1 .. m -> S] : m \in 0 .. n}
  BY DEF BoundedSeq, SeqOf
<1>2. ASSUME s \in BoundedSeq(S, n)
      PROVE  s \in Seq(S) /\ Len(s) <= n
  <2>1. PICK m \in 0 .. n : s \in [1 .. m -> S]
    BY <1>1, <1>2
  <2> QED
    BY <2>1
<1>3. ASSUME s \in Seq(S), Len(s) <= n
      PROVE  s \in BoundedSeq(S, n)
  <2>1. s \in [1 .. Len(s) -> S] /\ Len(s) \in 0 .. n
    BY <1>3
  <2> QED
    BY <2>1, <1>1
<1> QED
  BY <1>2, <1>3

LEMMA EmptyList ==
  ASSUME NEW S, NEW n \in Nat
  PROVE  <<>> \in BoundedSeq(S, n)
<1>1. <<>> \in Seq(S) /\ Len(<<>>) <= n
  OBVIOUS
<1> QED
  BY <1>1, BoundedSeqs, Zenon

\* A part of a sequence, element by element.
LEMMA Part ==
  ASSUME NEW S, NEW s \in Seq(S), NEW m \in 1 .. Len(s), NEW n \in m .. Len(s)
  PROVE  /\ SubSeq(s, m, n) \in Seq(S)
         /\ Len(SubSeq(s, m, n)) = n - m + 1
         /\ \A j \in 1 .. n - m + 1 : SubSeq(s, m, n)[j] = s[m + j - 1]
OBVIOUS

LEMMA ElementsOf ==
  ASSUME NEW S, NEW s \in Seq(S)
  PROVE  \A i \in DOMAIN s : s[i] \in S
<1>1. DOMAIN s = 1 .. Len(s) /\ \A i \in 1 .. Len(s) : s[i] \in S
  OBVIOUS
<1> QED
  BY <1>1

LEMMA ProductIsNat ==
  ASSUME NEW a \in Nat, NEW b \in Nat
  PROVE  a * b \in Nat
OBVIOUS

\* Each cid of the request is in one of the chunks.
LEMMA InAChunk ==
  ASSUME GetPinsTypeOK, NEW i \in DOMAIN asked
  PROVE  \E k \in DOMAIN reads : asked[i] \in ToSet(Chunk(k))
<1>. DEFINE B == BatchItemCount
            L == Len(asked)
            q == (i - 1) \div B
            first == q * B + 1
            final == IF (q + 1) * B < L THEN (q + 1) * B ELSE L
<1>1. /\ B \in Nat \ {0} /\ MaxAsked \in Nat
      /\ asked \in Seq(Cids)
      /\ L \in Nat /\ i \in 1 .. L
  BY GetPinsConstants, BoundedSeqs DEF GetPinsTypeOK
<1>2. /\ q \in Nat
      /\ q * B <= i - 1
      /\ i - 1 < q * B + B
  BY <1>1, DivBounds
<1>3. q + 1 \in DOMAIN reads
  <2>. DEFINE n == (L + B - 1) \div B
  <2>1. n \in Nat /\ L + B - 1 < n * B + B
    <3>1. L + B - 1 \in Nat
      BY <1>1
    <3> QED
      BY <3>1, <1>1, DivBounds
  <2>2. q * B < n * B
    <3>1. q * B \in Nat /\ n * B \in Nat
      <4>. HIDE DEF q, n
      <4> QED
        BY <1>1, <1>2, <2>1, ProductIsNat
    <3> QED
      BY <3>1, <1>1, <1>2, <2>1
  <2>3. q < n
    <3>. HIDE DEF q, n
    <3> QED
      BY <2>1, <2>2, <1>1, <1>2
  <2>4. q + 1 \in 1 .. n
    BY <2>1, <2>3, <1>2
  <2> QED
    BY <2>4, <1>1 DEF GetPinsTypeOK, ChunkCount
<1>4. (q + 1) * B = q * B + B /\ q * B \in Nat
  BY <1>1, <1>2
<1>5. /\ first \in Int /\ final \in Int
      /\ first >= 1 /\ final <= L
      /\ i \in first .. final
  <2>. DEFINE m == q * B
  <2>1. first = m + 1 /\ final = IF m + B < L THEN m + B ELSE L
    BY <1>4
  <2>2. m \in Nat /\ m <= i - 1 /\ i - 1 < m + B
    BY <1>2, <1>4
  <2>. HIDE DEF m, first, final
  <2> QED
    BY <1>1, <2>1, <2>2
<1>6. Chunk(q + 1) = SubSeq(asked, first, final)
  <2>1. (q + 1) * B - B + 1 = first
    BY <1>4, <1>1
  <2> QED
    BY <2>1 DEF Chunk
<1>. HIDE DEF q, first, final
<1>7. /\ Chunk(q + 1) \in Seq(Cids)
      /\ Len(Chunk(q + 1)) = final - first + 1
      /\ \A j \in 1 .. final - first + 1 :
           Chunk(q + 1)[j] = asked[first + j - 1]
  <2>1. first \in 1 .. Len(asked) /\ final \in first .. Len(asked)
    BY <1>1, <1>5
  <2> QED
    BY <1>1, <1>6, <2>1, Part
<1>8. /\ i - first + 1 \in 1 .. final - first + 1
      /\ first + (i - first + 1) - 1 = i
  BY <1>1, <1>5
<1>9. /\ i - first + 1 \in DOMAIN Chunk(q + 1)
      /\ Chunk(q + 1)[i - first + 1] = asked[i]
  BY <1>7, <1>8
<1> QED
  BY <1>3, <1>9 DEF ToSet

\* There are only cids of the request in a chunk.
LEMMA ChunkOfCids ==
  ASSUME GetPinsTypeOK, NEW k \in DOMAIN reads
  PROVE  ToSet(Chunk(k)) \subseteq Cids
<1>. DEFINE first == k * BatchItemCount - BatchItemCount + 1
            final == IF k * BatchItemCount < Len(asked) THEN k * BatchItemCount
                                                        ELSE Len(asked)
<1>1. /\ BatchItemCount \in Nat \ {0}
      /\ asked \in Seq(Cids) /\ Len(asked) \in Nat
      /\ k \in Nat \ {0}
  BY GetPinsConstants, BoundedSeqs DEF GetPinsTypeOK
<1>2. k * BatchItemCount \in Nat /\ k * BatchItemCount >= BatchItemCount
  BY <1>1
<1>3. first \in Nat \ {0} /\ final \in Nat /\ final <= Len(asked)
  <2>. DEFINE last == k * BatchItemCount
  <2>. HIDE DEF last
  <2>1. last \in Nat /\ last >= BatchItemCount
    BY <1>2 DEF last
  <2>2. /\ last - BatchItemCount + 1 \in Nat \ {0}
        /\ (IF last < Len(asked) THEN last ELSE Len(asked)) \in 0 .. Len(asked)
    BY <1>1, <2>1
  <2> QED
    BY <1>1, <2>2 DEF last
<1>4. Chunk(k) = SubSeq(asked, first, final)
  BY DEF Chunk
<1>. HIDE DEF first, final
<1>5. SubSeq(asked, first, final) \in Seq(Cids)
  BY <1>1, <1>3
<1> QED
  <2>1. \A j \in DOMAIN Chunk(k) : Chunk(k)[j] \in Cids
    BY <1>4, <1>5
  <2> QED
    BY <2>1, Zenon DEF ToSet

\* A set of numbers up to n has the greatest of them.
LEMMA MaxIsMember ==
  ASSUME NEW n \in Nat, NEW S \in SUBSET (1 .. n), S # {}
  PROVE  Max(S) \in S
<1>. DEFINE T == {k \in Nat : n - k \in S}
<1>1. T \subseteq Nat /\ T # {}
  <2>1. PICK k \in S : k \in 1 .. n
    OBVIOUS
  <2>2. n - k \in Nat /\ n - (n - k) = k
    BY <2>1
  <2> QED
    BY <2>2
<1>2. PICK x \in T : \A y \in T : ~(<<y, x>> \in OpToRel(<, Nat))
  BY <1>1, NatLessThanWellFounded, WFMin, Zenon
<1>3. \A y \in T : ~(y < x)
  BY <1>1, <1>2, Zenon DEF OpToRel
<1>4. ASSUME NEW j \in S
      PROVE  n - x >= j
  <2>1. j \in 1 .. n /\ x \in Nat
    BY <1>2
  <2>2. n - j \in Nat /\ n - (n - j) = j
    BY <2>1
  <2>3. ~(n - j < x)
    BY <1>3, <2>2
  <2> QED
    BY <2>1, <2>2, <2>3
<1> QED
  BY <1>2, <1>4 DEF Max

-----------------------------------------------------------------------------
\* No cids are in no chunk.
LEMMA NoChunks == ChunkCount(<<>>) = 0
<1>1. BatchItemCount \in Nat \ {0}
  BY GetPinsConstants
<1>2. 0 + BatchItemCount - 1 \in Nat
  BY <1>1
<1>. DEFINE n == (BatchItemCount - 1) \div BatchItemCount
<1>3. n \in Nat /\ n * BatchItemCount <= BatchItemCount - 1
  BY <1>1, DivBounds
<1>4. n = 0
  <2>. HIDE DEF n
  <2>1. CASE n >= 1
    <3>1. n * BatchItemCount >= BatchItemCount
      BY <1>1, <1>3, <2>1
    <3> QED
      BY <1>1, <1>3, <3>1
  <2> QED
    BY <1>3, <2>1
<1>5. ChunkCount(<<>>) = n
  BY <1>1 DEF ChunkCount
<1> QED
  BY <1>4, <1>5

LEMMA InitList ==
  ASSUME Init
  PROVE  ListInv
<1>1. BatchItemCount \in Nat \ {0} /\ MaxAsked \in Nat
  BY GetPinsConstants
<1>2. ChunkCount(<<>>) = 0
  BY NoChunks
<1>3. asked \in BoundedSeq(Cids, MaxAsked)
  BY <1>1, EmptyList DEF Init
<1>4. answer.rows \in BoundedSeq([cid : Cids, status : TrackerStatus], MaxAsked)
  <2>1. answer.rows = <<>>
    BY DEF Init, NoAnswer
  <2> QED
    BY <1>1, <2>1, EmptyList
<1>5. DOMAIN reads = 1 .. ChunkCount(asked) /\ DOMAIN reads = {}
  BY <1>2 DEF Init
<1>6. reads \in [1 .. ChunkCount(asked) -> [done : BOOLEAN, items : SUBSET Item]]
  BY <1>2 DEF Init
<1>7. GetPinsTypeOK
  BY <1>3, <1>4, <1>6 DEF Init, GetPinsTypeOK, Lifecycle!Init, NoAnswer,
    PinStatus
<1>8. ReadInv /\ RowsAreTrue
  BY <1>5 DEF Init, ReadInv, RowsAreTrue, NoAnswer
<1> QED
  BY <1>7, <1>8 DEF ListInv

\* A refusal ends the request.
LEMMA RefusalInv ==
  ASSUME ListInv, NEW code \in {400, 401, 500}, Refuse(code),
         UNCHANGED <<lifecycleVars, replica>>
  PROVE  ListInv'
<1>1. /\ <<>> \in BoundedSeq(Cids, MaxAsked)
      /\ <<>> \in BoundedSeq([cid : Cids, status : TrackerStatus], MaxAsked)
  BY GetPinsConstants, EmptyList
<1>2. DOMAIN reads' = {} /\ reads' = <<>> /\ asked' = <<>>
  BY DEF Refuse
<1>3. reads' \in [1 .. ChunkCount(asked)' ->
                    [done : BOOLEAN, items : SUBSET Item]]
  BY <1>2, NoChunks DEF ChunkCount
<1>4. GetPinsTypeOK'
  BY <1>1, <1>2, <1>3
  DEF Refuse, ListInv, GetPinsTypeOK, lifecycleVars, ChunkCount
<1>5. ReadInv' /\ RowsAreTrue'
  BY <1>2 DEF Refuse, ReadInv, RowsAreTrue
<1> QED
  BY <1>4, <1>5 DEF ListInv

\* The reads of a request begin with nothing found, and what the pins are
\* then has been seen.
LEMMA AskInv ==
  ASSUME ListInv, AskPins
  PROVE  ListInv'
<1>1. PICK list \in Requests :
        \/ Refuse(400)
        \/ /\ InvalidCid \notin ToSet(list)
           /\ asked' = list
           /\ reads' = [k \in 1 .. ChunkCount(list) |-> Reading]
           /\ seen' = [c \in Cids |-> Reads(c)]
           /\ UNCHANGED answer
  BY DEF AskPins
<1>2. answer = NoAnswer /\ UNCHANGED <<lifecycleVars, replica>>
  BY DEF AskPins
<1>3. CASE Refuse(400)
  BY <1>2, <1>3, RefusalInv
<1>4. CASE /\ InvalidCid \notin ToSet(list)
           /\ asked' = list
           /\ reads' = [k \in 1 .. ChunkCount(list) |-> Reading]
           /\ seen' = [c \in Cids |-> Reads(c)]
           /\ UNCHANGED answer
  <2>1. /\ list \in Seq(Cids \cup {InvalidCid}) /\ Len(list) <= MaxAsked
        /\ list # <<>>
    BY GetPinsConstants, BoundedSeqs DEF Requests
  <2>2. \A i \in 1 .. Len(list) : list[i] # InvalidCid
    BY <1>4, <2>1 DEF ToSet
  <2>3. list \in Seq(Cids)
    BY <2>1, <2>2
  <2>4. asked' \in BoundedSeq(Cids, MaxAsked)
    BY <1>4, <2>1, <2>3, GetPinsConstants, BoundedSeqs
  <2>5. ChunkCount(asked)' = ChunkCount(list)
    BY <1>4 DEF ChunkCount
  <2>6. Reading \in [done : BOOLEAN, items : SUBSET Item] /\ ~Reading.done
    BY DEF Reading
  <2>7. reads' \in
          [1 .. ChunkCount(list) -> [done : BOOLEAN, items : SUBSET Item]]
    BY <1>4, <2>6
  <2>8. \A c \in Cids : Reads(c) \in SUBSET PinStatus /\ Reads(c)' = Reads(c)
    BY <1>2 DEF ListInv, GetPinsTypeOK, Reads, lifecycleVars
  <2>9. seen' \in [Cids -> SUBSET PinStatus]
    BY <1>4, <2>8
  <2>10. GetPinsTypeOK'
    BY <1>2, <1>4, <2>4, <2>5, <2>7, <2>9
    DEF ListInv, GetPinsTypeOK, lifecycleVars, ChunkCount
  <2>11. ReadInv'
    BY <1>2, <1>4, <2>1, <2>6, <2>8 DEF ReadInv
  <2>12. RowsAreTrue'
    BY <1>2, <1>4 DEF RowsAreTrue, NoAnswer
  <2> QED
    BY <2>10, <2>11, <2>12 DEF ListInv
<1> QED
  BY <1>1, <1>3, <1>4

\* A chunk is read: what is found of its keys, but those left out.
LEMMA ReadChunkEffect ==
  ASSUME GetPinsTypeOK, NEW k, ReadChunk(k)
  PROVE  /\ UNCHANGED <<status, stored, replica, asked, answer, seen>>
         /\ answer = NoAnswer /\ k \in DOMAIN reads
         /\ ToSet(Chunk(k)) \subseteq Cids
         /\ \E items \in SUBSET Item :
              /\ reads' = [reads EXCEPT ![k] = [done |-> TRUE, items |-> items]]
              /\ \A item \in items :
                   item.cid \in Cids /\ item.status \in Reads(item.cid)
              /\ ~MayThrottle => \A c \in ToSet(Chunk(k)) :
                   (\E item \in items : item.cid = c) \/ "unknown" \in Reads(c)
<1>. DEFINE keys == ToSet(Chunk(k))
            Found(left, read) ==
              {[cid |-> c, status |-> read[c]] :
                 c \in {d \in keys \ left : read[d] # "unknown"}}
<1>1. /\ UNCHANGED <<status, stored, replica, asked, answer, seen>>
      /\ answer = NoAnswer /\ k \in DOMAIN reads
  BY DEF ReadChunk, Pending, lifecycleVars
<1>2. keys \subseteq Cids
  BY <1>1, ChunkOfCids
<1>3. PICK left \in SUBSET keys :
         /\ ~MayThrottle => left = {}
         /\ \E read \in [keys \ left -> PinStatus] :
              /\ \A c \in keys \ left : read[c] \in Reads(c)
              /\ reads' = [reads EXCEPT ![k] =
                   [done |-> TRUE, items |-> Found(left, read)]]
  BY DEF ReadChunk
<1>4. PICK read \in [keys \ left -> PinStatus] :
        /\ \A c \in keys \ left : read[c] \in Reads(c)
        /\ reads' = [reads EXCEPT ![k] =
             [done |-> TRUE, items |-> Found(left, read)]]
  BY <1>3
<1>. DEFINE items == Found(left, read)
<1>5. \A item \in items : item \in Item /\ item.status \in Reads(item.cid)
  BY <1>2, <1>4 DEF Item, PinStatus
<1>6. ASSUME ~MayThrottle, NEW c \in keys
      PROVE  (\E item \in items : item.cid = c) \/ "unknown" \in Reads(c)
  <2>1. CASE read[c] = "unknown"
    BY <1>3, <1>4, <1>6, <2>1
  <2>2. CASE read[c] # "unknown"
    <3>1. [cid |-> c, status |-> read[c]] \in items
      BY <1>3, <1>4, <1>6, <2>2
    <3> QED
      BY <3>1
  <2> QED
    BY <2>1, <2>2
<1>7. \A item \in items : item.cid \in Cids
  BY <1>5 DEF Item
<1>. HIDE DEF items
<1>8. reads' = [reads EXCEPT ![k] = [done |-> TRUE, items |-> items]]
  BY <1>4 DEF items
<1> QED
  BY <1>1, <1>2, <1>5, <1>6, <1>7, <1>8

\* A read finds what the pins are, in the table or in a replica, and that has
\* been seen.
LEMMA ReadChunkInv ==
  ASSUME ListInv, NEW k, ReadChunk(k)
  PROVE  ListInv'
<1>1. /\ UNCHANGED <<status, stored, replica, asked, answer, seen>>
      /\ answer = NoAnswer /\ k \in DOMAIN reads
      /\ ToSet(Chunk(k)) \subseteq Cids
  BY ReadChunkEffect DEF ListInv
<1>2. PICK read \in SUBSET Item :
        /\ reads' = [reads EXCEPT ![k] = [done |-> TRUE, items |-> read]]
        /\ \A item \in read :
             item.cid \in Cids /\ item.status \in Reads(item.cid)
        /\ ~MayThrottle => \A c \in ToSet(Chunk(k)) :
             (\E item \in read : item.cid = c) \/ "unknown" \in Reads(c)
  BY ReadChunkEffect DEF ListInv
<1>3. reads \in [1 .. ChunkCount(asked) -> [done : BOOLEAN, items : SUBSET Item]]
  BY DEF ListInv, GetPinsTypeOK
<1>4. /\ reads' \in [1 .. ChunkCount(asked) -> [done : BOOLEAN, items : SUBSET Item]]
      /\ DOMAIN reads' = DOMAIN reads
      /\ reads'[k].items = read
      /\ \A j \in DOMAIN reads \ {k} : reads'[j] = reads[j]
  BY <1>1, <1>2, <1>3
<1>5. GetPinsTypeOK'
  BY <1>1, <1>4 DEF ListInv, GetPinsTypeOK, ChunkCount
<1>6. \A j : Chunk(j)' = Chunk(j)
  BY <1>1 DEF Chunk
<1>7. asked # <<>> /\ \A c \in Cids : Reads(c) \subseteq seen[c]
  BY <1>1 DEF ListInv, ReadInv
<1>8. ASSUME ~MayThrottle
       PROVE  ReadIsTrue(k)'
  BY <1>1, <1>2, <1>4, <1>6, <1>7, <1>8 DEF ReadIsTrue
<1>9. ASSUME ~MayThrottle, NEW j \in DOMAIN reads \ {k}, reads[j].done
       PROVE  ReadIsTrue(j)'
  <2>1. ReadIsTrue(j)
    BY <1>1, <1>9 DEF ListInv, ReadInv
  <2> QED
    BY <1>1, <1>4, <1>6, <2>1 DEF ReadIsTrue
<1>10. ReadInv'
  BY <1>1, <1>4, <1>7, <1>8, <1>9 DEF ReadInv, Reads
<1>11. RowsAreTrue'
  BY <1>1 DEF RowsAreTrue, NoAnswer
<1> QED
  BY <1>5, <1>10, <1>11 DEF ListInv

LEMMA FoundIsRead ==
  ASSUME GetPinsTypeOK, NEW c, FoundIn(c) # {}
  PROVE  /\ Max(FoundIn(c)) \in DOMAIN reads
         /\ \E item \in reads[Max(FoundIn(c))].items : item.cid = c
<1>1. DOMAIN reads = 1 .. ChunkCount(asked)
  BY DEF GetPinsTypeOK
<1>2. ChunkCount(asked) \in Nat
  <2>1. Len(asked) + BatchItemCount - 1 \in Nat
    BY GetPinsConstants, BoundedSeqs DEF GetPinsTypeOK
  <2> QED
    BY <2>1, GetPinsConstants, DivBounds DEF ChunkCount
<1>3. Max(FoundIn(c)) \in FoundIn(c)
  BY <1>1, <1>2, MaxIsMember DEF FoundIn
<1> QED
  BY <1>3 DEF FoundIn

LEMMA LastStatusType ==
  ASSUME GetPinsTypeOK, NEW c
  PROVE  LastStatus(c) \in PinStatus
<1>1. CASE FoundIn(c) = {}
  BY <1>1 DEF LastStatus, PinStatus
<1>2. CASE FoundIn(c) # {}
  <2>. DEFINE k == Max(FoundIn(c))
  <2>1. k \in DOMAIN reads /\ \E item \in reads[k].items : item.cid = c
    BY <1>2, FoundIsRead
  <2>2. reads[k].items \subseteq Item
    BY <2>1 DEF GetPinsTypeOK
  <2>3. StatusIn(k, c) \in {"queued", "pinned", "failed"}
    BY <2>1, <2>2 DEF StatusIn, Item
  <2> QED
    BY <1>2, <2>3 DEF LastStatus, PinStatus
<1> QED
  BY <1>1, <1>2

\* A cid's row is made of what a read found of it, or of no read having
\* found it: then the read of its chunk, too, saw that it was not there.
LEMMA LastStatusIsTrue ==
  ASSUME GetPinsTypeOK, \A k \in DOMAIN reads : ReadIsTrue(k),
         NEW i \in DOMAIN asked
  PROVE  LastStatus(asked[i]) \in seen[asked[i]]
<1>. DEFINE c == asked[i]
<1>1. CASE FoundIn(c) = {}
  <2>1. PICK k \in DOMAIN reads : c \in ToSet(Chunk(k))
    BY InAChunk
  <2>2. "unknown" \in seen[c]
    BY <1>1, <2>1 DEF ReadIsTrue, FoundIn
  <2> QED
    BY <1>1, <2>2 DEF LastStatus
<1>2. CASE FoundIn(c) # {}
  <2>. DEFINE k == Max(FoundIn(c))
  <2>1. k \in DOMAIN reads /\ \E item \in reads[k].items : item.cid = c
    BY <1>2, FoundIsRead
  <2>2. StatusIn(k, c) \in seen[c]
    BY <2>1 DEF StatusIn, ReadIsTrue
  <2> QED
    BY <1>2, <2>2 DEF LastStatus
<1> QED
  BY <1>1, <1>2

\* An answer of the statuses that were found is one of statuses the pins had.
LEMMA RespondInv ==
  ASSUME ListInv, Respond
  PROVE  ListInv'
<1>1. /\ answer' = [code |-> 200,
           rows |-> [i \in DOMAIN asked |->
                       ToGetPinResponse(asked[i], LastStatus(asked[i]))]]
      /\ UNCHANGED <<status, replica, asked, reads, seen>>
      /\ answer = NoAnswer
      /\ \A k \in DOMAIN reads : reads[k].done
  BY DEF Respond, AllRead, lifecycleVars
<1>2. \A i \in DOMAIN asked :
        LastStatus(asked[i]) \in PinStatus
  BY LastStatusType DEF ListInv
<1>3. \A st \in PinStatus :
        ToTrackerStatus(st) \in TrackerStatus
  BY DEF ToTrackerStatus, TrackerStatus, PinStatus
<1>4. asked \in Seq(Cids) /\ Len(asked) <= MaxAsked /\ MaxAsked \in Nat
  BY GetPinsConstants, BoundedSeqs DEF ListInv, GetPinsTypeOK
<1>5. /\ answer'.code = 200
      /\ answer'.rows \in Seq([cid : Cids, status : TrackerStatus])
      /\ Len(answer'.rows) = Len(asked)
      /\ \A i \in DOMAIN asked :
           answer'.rows[i] = ToGetPinResponse(asked[i], LastStatus(asked[i]))
  <2>1. \A i \in DOMAIN asked :
          ToGetPinResponse(asked[i], LastStatus(asked[i]))
            \in [cid : Cids, status : TrackerStatus]
    BY <1>2, <1>3, <1>4 DEF ToGetPinResponse
  <2>2. DOMAIN asked = 1 .. Len(asked)
    BY <1>4
  <2> QED
    BY <1>1, <1>4, <2>1, <2>2
<1>6. answer'.rows \in BoundedSeq([cid : Cids, status : TrackerStatus], MaxAsked)
  BY <1>4, <1>5, BoundedSeqs, Zenon
<1>7. GetPinsTypeOK'
  BY <1>1, <1>5, <1>6 DEF ListInv, GetPinsTypeOK, ChunkCount
<1>8. ReadInv'
  BY <1>1, <1>5 DEF ListInv, ReadInv, NoAnswer
<1>9. ~MayThrottle => RowsAreTrue'
  <2>1. ASSUME ~MayThrottle, NEW i \in DOMAIN asked
        PROVE  LastStatus(asked[i]) \in seen[asked[i]]
    BY <1>1, <2>1, LastStatusIsTrue DEF ListInv, ReadInv
  <2> QED
    BY <1>1, <1>5, <2>1 DEF RowsAreTrue, GetPin
<1> QED
  BY <1>7, <1>8, <1>9 DEF ListInv

\* What becomes of the pins is seen, while there is a request.
LEMMA MoveInv ==
  ASSUME ListInv, PinsMove
  PROVE  ListInv'
<1>1. status' \in [Cids -> PinStatus]
  BY DEF ListInv, GetPinsTypeOK, PinsMove, Lifecycle!Next, Lifecycle!Ask,
    Lifecycle!Store, Lifecycle!Pin, Lifecycle!Fail, Lifecycle!Become, PinStatus
<1>2. /\ UNCHANGED <<replica, asked, reads, answer>> /\ answer = NoAnswer
      /\ seen' = [c \in Cids |->
           IF asked # <<>> THEN seen[c] \cup {status'[c]} ELSE seen[c]]
  BY DEF PinsMove, readVars, ReadsToCome
<1>3. seen \in [Cids -> SUBSET PinStatus]
  BY DEF ListInv, GetPinsTypeOK
<1>4. seen' \in [Cids -> SUBSET PinStatus]
  BY <1>1, <1>2, <1>3
<1>5. GetPinsTypeOK'
  BY <1>1, <1>2, <1>4 DEF ListInv, GetPinsTypeOK, ChunkCount
<1>6. \A c \in Cids : seen[c] \subseteq seen'[c]
  BY <1>2
<1>7. ASSUME NEW k \in DOMAIN reads, ReadIsTrue(k)
      PROVE  ReadIsTrue(k)'
  <2>1. Chunk(k)' = Chunk(k)
    BY <1>2 DEF Chunk
  <2>2. ToSet(Chunk(k)) \subseteq Cids
    BY ChunkOfCids DEF ListInv
  <2>3. reads[k].items \subseteq Item
    BY DEF ListInv, GetPinsTypeOK
  <2> QED
    BY <1>2, <1>6, <1>7, <2>1, <2>2, <2>3 DEF ReadIsTrue, Item
<1>8. ReadInv'
  BY <1>2, <1>6, <1>7 DEF ListInv, ReadInv, Reads
<1>9. RowsAreTrue'
  BY <1>2 DEF RowsAreTrue, NoAnswer
<1> QED
  BY <1>5, <1>8, <1>9 DEF ListInv

\* What a replica catches up with has been seen.
LEMMA SyncInv ==
  ASSUME ListInv, NEW c \in Cids, Sync(c)
  PROVE  ListInv'
<1>1. /\ UNCHANGED <<status, stored, asked, reads, answer, seen>>
      /\ replica' = [replica EXCEPT ![c] = status[c]]
  BY DEF Sync, lifecycleVars, readVars
<1>2. GetPinsTypeOK'
  BY <1>1 DEF ListInv, GetPinsTypeOK, ChunkCount
<1>3. \A d \in Cids : Reads(d)' \subseteq Reads(d)
  BY <1>1 DEF Reads, ListInv, GetPinsTypeOK
<1>4. ReadInv' /\ (~MayThrottle => RowsAreTrue')
  BY <1>1, <1>3 DEF ListInv, ReadInv, ReadIsTrue, RowsAreTrue, Chunk
<1> QED
  BY <1>2, <1>4 DEF ListInv

LEMMA NextList ==
  ASSUME ListInv, [Next]_getPinsVars
  PROVE  ListInv'
<1>1. CASE AskPins
  BY <1>1, AskInv
<1>2. CASE RefuseRequest
  BY <1>2, RefusalInv DEF RefuseRequest
<1>3. ASSUME NEW k \in 1 .. MaxAsked, ReadChunk(k)
      PROVE  ListInv'
  BY <1>3, ReadChunkInv
<1>4. ASSUME NEW k \in 1 .. MaxAsked, ReadFails(k)
      PROVE  ListInv'
  BY <1>4, RefusalInv DEF ReadFails
<1>5. CASE Respond
  BY <1>5, RespondInv
<1>6. CASE PinsMove
  BY <1>6, MoveInv
<1>7. ASSUME NEW c \in Cids, Sync(c)
      PROVE  ListInv'
  BY <1>7, SyncInv
<1>8. CASE UNCHANGED getPinsVars
  BY <1>8 DEF getPinsVars, lifecycleVars, readVars, ListInv, GetPinsTypeOK,
    ReadInv, ReadIsTrue, RowsAreTrue, Reads, Chunk, ChunkCount
<1> QED
  BY <1>1, <1>2, <1>3, <1>4, <1>5, <1>6, <1>7, <1>8 DEF Next, Rest

-----------------------------------------------------------------------------
LEMMA Lists == Spec => []ListInv
<1>1. Init => ListInv
  BY InitList
<1>2. ListInv /\ [Next]_getPinsVars => ListInv'
  BY NextList
<1> QED
  BY <1>1, <1>2, PTL DEF Spec

\* The type invariant of the reads of lists (getPins of get-pins.ts).
THEOREM GetPinsTypes == Spec => []GetPinsTypeOK
<1>1. ListInv => GetPinsTypeOK
  BY DEF ListInv
<1> QED
  BY Lists, <1>1, PTL

\* Unless DynamoDB leaves keys unprocessed, each row of a list that getPins
\* answers is what getPin could have answered in the meantime, however far
\* behind the replicas are.
THEOREM ListedRowsAreTrue == ~MayThrottle /\ Spec => []RowsAreTrue
<1>1. ASSUME ~MayThrottle
      PROVE  ListInv => RowsAreTrue
  BY <1>1 DEF ListInv
<1>2. CASE ~MayThrottle
  BY Lists, <1>1, <1>2, PTL
<1> QED
  BY <1>2

-----------------------------------------------------------------------------
\* What is pinned, in the table or in a replica, has been read as pinned, or
\* was answered as pinned, is stored: it was so before, and CARs stay in the
\* destination bucket.
StoredInv ==
  /\ \A c \in Cids : "pinned" \in Reads(c) => stored[c]
  /\ \A k \in DOMAIN reads : \A item \in reads[k].items :
       item.status = "pinned" => stored[item.cid]
  /\ PinnedRowIsStored

\* Pins only move to "pinned" when their CAR is stored, and CARs stay.
LEMMA PinsKeepStored ==
  ASSUME GetPinsTypeOK, StoredInv, stored \in [Cids -> BOOLEAN], Lifecycle!Next
  PROVE  /\ stored' \in [Cids -> BOOLEAN]
         /\ \A c \in Cids : stored[c] => stored'[c]
         /\ \A c \in Cids : status'[c] = "pinned" => stored'[c]
<1>1. PICK c \in Cids :
        Lifecycle!Ask(c) \/ Lifecycle!Store(c) \/ Lifecycle!Pin(c)
          \/ Lifecycle!Fail(c)
  BY DEF Lifecycle!Next
<1>2. status \in [Cids -> PinStatus]
  BY DEF GetPinsTypeOK
<1>3. \A d \in Cids : status[d] = "pinned" => stored[d]
  BY DEF StoredInv, Reads
<1>4. CASE Lifecycle!Store(c)
  BY <1>3, <1>4 DEF Lifecycle!Store
<1>5. CASE Lifecycle!Ask(c) \/ Lifecycle!Fail(c)
  BY <1>2, <1>3, <1>5 DEF Lifecycle!Ask, Lifecycle!Fail, Lifecycle!Become
<1>6. CASE Lifecycle!Pin(c)
  BY <1>2, <1>3, <1>6 DEF Lifecycle!Pin, Lifecycle!Become
<1> QED
  BY <1>1, <1>4, <1>5, <1>6

LEMMA ListedCids ==
  ASSUME GetPinsTypeOK
  PROVE  /\ \A k \in DOMAIN reads : \A item \in reads[k].items :
              item.cid \in Cids
         /\ \A i \in DOMAIN answer.rows : answer.rows[i].cid \in Cids
<1>. DEFINE Row == [cid : Cids, status : TrackerStatus]
<1>1. \A k \in DOMAIN reads : \A item \in reads[k].items : item.cid \in Cids
  BY DEF GetPinsTypeOK, Item
<1>2. answer.rows \in BoundedSeq(Row, MaxAsked) /\ MaxAsked \in Nat
  BY GetPinsConstants DEF GetPinsTypeOK
<1>3. answer.rows \in Seq(Row)
  BY <1>2, BoundedSeqs, Zenon
<1>4. \A i \in DOMAIN answer.rows : answer.rows[i] \in Row
  BY <1>3, ElementsOf
<1> QED
  BY <1>1, <1>4

\* A read finds a pin "pinned" only if it is or was, and a row says so only if
\* a read found it.
LEMMA NextStored ==
  ASSUME GetPinsTypeOK, GetPinsTypeOK', StoredInv, stored \in [Cids -> BOOLEAN],
         [Next]_getPinsVars
  PROVE  StoredInv' /\ stored' \in [Cids -> BOOLEAN]
<1>1. CASE UNCHANGED <<lifecycleVars, replica, reads, answer>>
  BY <1>1 DEF StoredInv, PinnedRowIsStored, lifecycleVars, Reads
<1>2. ASSUME NEW code, Refuse(code), UNCHANGED <<lifecycleVars, replica>>
      PROVE  StoredInv' /\ stored' \in [Cids -> BOOLEAN]
  <2>1. DOMAIN reads' = {} /\ DOMAIN answer'.rows = {}
    BY <1>2 DEF Refuse
  <2> QED
    BY <1>2, <2>1 DEF StoredInv, PinnedRowIsStored, lifecycleVars, Reads
<1>3. CASE /\ UNCHANGED <<lifecycleVars, replica, answer>>
           /\ \E n : reads' = [k \in 1 .. n |-> Reading]
  BY <1>3 DEF StoredInv, PinnedRowIsStored, lifecycleVars, Reads, Reading
<1>4. ASSUME NEW k, ReadChunk(k)
      PROVE  StoredInv' /\ stored' \in [Cids -> BOOLEAN]
  <2>1. PICK items \in SUBSET Item :
          /\ reads' = [reads EXCEPT ![k] = [done |-> TRUE, items |-> items]]
          /\ \A item \in items :
               item.cid \in Cids /\ item.status \in Reads(item.cid)
    BY <1>4, ReadChunkEffect
  <2>2. UNCHANGED <<status, stored, replica, answer>> /\ k \in DOMAIN reads
    BY <1>4, ReadChunkEffect
  <2>3. /\ DOMAIN reads' = DOMAIN reads /\ reads'[k].items = items
        /\ \A j \in DOMAIN reads \ {k} : reads'[j] = reads[j]
    BY <2>1, <2>2 DEF GetPinsTypeOK
  <2>4. \A item \in items : item.status = "pinned" => stored[item.cid]
    BY <2>1 DEF StoredInv
  <2>5. \A j \in DOMAIN reads' : \A item \in reads'[j].items :
          item.status = "pinned" => stored[item.cid]
    BY <2>3, <2>4 DEF StoredInv
  <2> QED
    BY <2>2, <2>5 DEF StoredInv, PinnedRowIsStored, Reads
<1>5. CASE Respond
  <2>1. /\ UNCHANGED <<status, stored, replica, reads>>
        /\ answer'.rows = [i \in DOMAIN asked |->
             ToGetPinResponse(asked[i], LastStatus(asked[i]))]
    BY <1>5 DEF Respond, lifecycleVars
  <2>2. ASSUME NEW i \in DOMAIN asked,
               ToTrackerStatus(LastStatus(asked[i])) = "pinned"
        PROVE  stored[asked[i]]
    <3>. DEFINE c == asked[i]
                last == Max(FoundIn(c))
    <3>1. LastStatus(c) = "pinned"
      BY <2>2, LastStatusType DEF ToTrackerStatus, PinStatus
    <3>2. FoundIn(c) # {} /\ StatusIn(last, c) = "pinned"
      BY <3>1 DEF LastStatus
    <3>3. last \in DOMAIN reads /\ \E item \in reads[last].items : item.cid = c
      BY <3>2, FoundIsRead
    <3>4. PICK item \in reads[last].items : item.cid = c /\ item.status = "pinned"
      BY <3>2, <3>3 DEF StatusIn
    <3> QED
      BY <3>3, <3>4 DEF StoredInv
  <2>3. PinnedRowIsStored'
    BY <2>1, <2>2 DEF PinnedRowIsStored, ToGetPinResponse
  <2> QED
    BY <2>1, <2>3 DEF StoredInv, Reads
<1>6. CASE PinsMove
  <2>1. UNCHANGED <<replica, reads, answer>> /\ Lifecycle!Next
    BY <1>6 DEF PinsMove, readVars
  <2>2. /\ stored' \in [Cids -> BOOLEAN]
        /\ \A c \in Cids : stored[c] => stored'[c]
        /\ \A c \in Cids : status'[c] = "pinned" => stored'[c]
    BY <2>1, PinsKeepStored
  <2>3. \A c \in Cids : "pinned" \in Reads(c)' => stored'[c]
    BY <2>1, <2>2 DEF StoredInv, Reads
  <2>4. \A k \in DOMAIN reads' : \A item \in reads'[k].items :
          item.status = "pinned" => stored'[item.cid]
    BY <2>1, <2>2, ListedCids DEF StoredInv
  <2>5. PinnedRowIsStored'
    BY <2>1, <2>2, ListedCids DEF StoredInv, PinnedRowIsStored
  <2> QED
    BY <2>2, <2>3, <2>4, <2>5 DEF StoredInv
<1>7. ASSUME NEW c \in Cids, Sync(c)
      PROVE  StoredInv' /\ stored' \in [Cids -> BOOLEAN]
  <2>1. /\ UNCHANGED <<status, stored, reads, answer>>
        /\ replica' = [replica EXCEPT ![c] = status[c]]
    BY <1>7 DEF Sync, lifecycleVars, readVars
  <2>2. \A d \in Cids : Reads(d)' \subseteq Reads(d)
    BY <2>1 DEF Reads, GetPinsTypeOK
  <2> QED
    BY <2>1, <2>2 DEF StoredInv, PinnedRowIsStored
<1>8. CASE AskPins
  BY <1>8, <1>2, <1>3 DEF AskPins
<1>9. CASE RefuseRequest
  BY <1>9, <1>2 DEF RefuseRequest
<1>10. ASSUME NEW k, ReadFails(k)
       PROVE  StoredInv' /\ stored' \in [Cids -> BOOLEAN]
  BY <1>10, <1>2 DEF ReadFails
<1> QED
  BY <1>1, <1>4, <1>5, <1>6, <1>7, <1>8, <1>9, <1>10
  DEF Next, Rest, getPinsVars, readVars

\* A row that says "pinned" is of a cid whose CAR is in the destination bucket,
\* whatever the reads of getPins left out, in whatever order they were made and
\* however far behind the replicas were.
THEOREM PinnedRowsAreStored == Spec => []PinnedRowIsStored
<1>. DEFINE Inv == StoredInv /\ stored \in [Cids -> BOOLEAN]
<1>1. Init => Inv
  <2>. SUFFICES ASSUME Init PROVE Inv
    OBVIOUS
  <2>1. reads = <<>> /\ answer.rows = <<>> /\ Lifecycle!Init
        /\ replica = status
    BY DEF Init, NoAnswer
  <2> QED
    BY <2>1 DEF StoredInv, PinnedRowIsStored, Lifecycle!Init, Reads
<1>2. GetPinsTypeOK /\ GetPinsTypeOK' /\ Inv /\ [Next]_getPinsVars => Inv'
  BY NextStored
<1>3. Inv => PinnedRowIsStored
  BY DEF StoredInv
<1> QED
  BY GetPinsTypes, <1>1, <1>2, <1>3, PTL DEF Spec
=============================================================================
