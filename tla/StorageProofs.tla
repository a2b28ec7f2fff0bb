---------------------------- MODULE StorageProofs ----------------------------
(***************************************************************************)
(* Proofs about Storage, for any clients, servers, sizes of object and     *)
(* block, and programs: the items and commands of an object are whole      *)
(* blocks of it; where commands are answered an object key has at most one *)
(* owner, through any order of allocations and deletions; and if no two    *)
(* clients put words of one block, what is read is what was put, and what  *)
(* was put is there when everything has come to rest.                      *)
(***************************************************************************)
EXTENDS Storage, FiniteSetTheorems, SequenceTheorems, TLAPS

(***************************************************************************)
(* Types.                                                                  *)
(***************************************************************************)

\* The items of an object with u words in a block, and the commands for them.
Info == {Absent, <<Size>>}
Item(u) == [0 .. u - 1 -> Nat] \cup {Absent}
Order(u) == [add : BOOLEAN, key : Key \ {InfoKey}, val : Item(u)] \cup [add : BOOLEAN, key : {InfoKey}, val : Info]
Activity == {"idle", "put", "merge", "read", "alloc", "del", "aborted"}

\* Word i is the first one of a block.
Aligned(i) == \E a \in Nat : i = a * Unit

\* What a client is doing: a put goes from block to block of its chunk, and has
\* a whole block in its buffer when it merges.
Doing(c) ==
  /\ KTail(range[c]) <= Size
  /\ pc[c] = "merge" => buf[c] \in [0 .. Unit - 1 -> Nat] /\ at[c] < KTail(range[c])
  /\ pc[c] \in {"put", "merge"} =>
       range[c][1] <= at[c] /\ (at[c] = range[c][1] \/ Aligned(at[c]) \/ at[c] = KTail(range[c]))

TypeInv ==
  /\ coarse \in BOOLEAN /\ reply \in BOOLEAN
  /\ store \in [Key -> Item(Unit) \cup Info] /\ store[InfoKey] \in Info
  /\ \A k \in Key \ {InfoKey} : store[k] \in Item(Unit)
  /\ pend \in [Client -> [Server -> Seq(Order(Unit))]]
  /\ pc \in [Client -> Activity] /\ at \in [Client -> Nat] /\ range \in [Client -> Nat \X Nat]
  /\ buf = [c \in Client |-> buf[c]]
  /\ \A c \in Client : Doing(c)
  /\ creators \subseteq Client
  /\ begun \in [Word -> Nat]

\* The numbers of the model.
LEMMA Numbers == Size \in Nat \ {0} /\ BlockSize \in Nat \ {0} /\ InfoKey \in Key /\ InfoKey = Size
BY SizeAssumption DEF InfoKey, Key

\* Blocks have a word at least.
LEMMA Words ==
  ASSUME TypeInv
  PROVE  Unit \in Nat \ {0}
BY Numbers DEF TypeInv, Unit

\* The item of a word is not the ObjectInfo.
LEMMA WordKey ==
  ASSUME NEW u \in Nat \ {0}, NEW i \in Nat, i < Size
  PROVE  i \div u \in Key \ {InfoKey} /\ i \div u \in Nat
<1>1. i \div u \in Nat /\ i \div u <= i
  OBVIOUS
<1>2. Size \in Nat
  BY Numbers
<1> QED BY <1>1, <1>2 DEF Key, InfoKey

\* Nor one of the items that a deletion counts.
LEMMA CountKey ==
  ASSUME NEW u \in Nat \ {0}, NEW i \in Nat, i < CeilDiv(Size, u)
  PROVE  i \in Key \ {InfoKey}
<1>1. Size \in Nat \ {0}
  BY Numbers
<1>2. CeilDiv(Size, u) <= Size /\ CeilDiv(Size, u) \in Nat
  <2>1. Size \div u \in Nat /\ Size \div u <= Size
    BY <1>1
  <2>2. CASE Size % u = 0
    BY <2>1, <2>2 DEF CeilDiv
  <2>3. CASE Size % u # 0
    <3>1. PICK q \in Nat : q = Size \div u
      BY <2>1
    <3>2. PICK r \in Nat : r = Size % u /\ r < u /\ Size = u * q + r
      BY <1>1, <3>1
    <3>3. r >= 1 /\ u >= 2
      BY <2>3, <3>2
    <3>4. u * q >= q
      BY <3>1, <3>3
    <3>5. q + 1 <= Size
      <4>1. PICK p \in Nat : p = u * q
        BY <3>1
      <4> QED BY <1>1, <3>1, <3>2, <3>3, <3>4, <4>1
    <3> QED BY <2>3, <3>1, <3>5 DEF CeilDiv
  <2> QED BY <2>2, <2>3
<1> QED BY <1>1, <1>2 DEF Key, InfoKey

(***************************************************************************)
(* The connections.                                                        *)
(***************************************************************************)

\* Entry i of client c's connection to server s is about the ObjectInfo.
Deletes(c, s, i) == i \in 1 .. Len(pend[c][s]) /\ pend[c][s][i].key = InfoKey

\* Nothing in the connections is.
NoDeletes == \A c \in Client, s \in Server, i \in Nat : ~Deletes(c, s, i)

\* A connection that gets longer.
LEMMA AppendEntries ==
  ASSUME NEW S, NEW q \in Seq(S), NEW m \in S
  PROVE  /\ Append(q, m) \in Seq(S)
         /\ \A i \in Nat : i \in 1 .. Len(Append(q, m)) <=> i \in 1 .. Len(q) \/ i = Len(q) + 1
         /\ \A i \in 1 .. Len(q) : Append(q, m)[i] = q[i]
         /\ Append(q, m)[Len(q) + 1] = m /\ Len(q) \in Nat
<1>1. Append(q, m) \in Seq(S) /\ Len(Append(q, m)) = Len(q) + 1 /\ Len(q) \in Nat
  OBVIOUS
<1>2. \A i \in Nat : i \in 1 .. Len(q) + 1 <=> i \in 1 .. Len(q) \/ i = Len(q) + 1
  BY <1>1
<1>3. \A i \in 1 .. Len(q) : Append(q, m)[i] = q[i]
  OBVIOUS
<1>4. Append(q, m)[Len(q) + 1] = m
  OBVIOUS
<1> QED BY <1>1, <1>2, <1>3, <1>4

\* A connection that gets shorter.
LEMMA TailEntries ==
  ASSUME NEW S, NEW q \in Seq(S), q # <<>>
  PROVE  /\ Tail(q) \in Seq(S) /\ Head(q) \in S /\ Head(q) = q[1] /\ 1 \in 1 .. Len(q)
         /\ \A i \in 1 .. Len(Tail(q)) : i + 1 \in 1 .. Len(q) /\ Tail(q)[i] = q[i + 1] /\ i \in Nat
<1>1. Len(q) \in Nat /\ Len(q) # 0 /\ Tail(q) \in Seq(S) /\ Len(Tail(q)) = Len(q) - 1
  OBVIOUS
<1>2. Head(q) \in S /\ Head(q) = q[1]
  OBVIOUS
<1>3. ASSUME NEW i \in 1 .. Len(Tail(q)) PROVE i + 1 \in 1 .. Len(q) /\ Tail(q)[i] = q[i + 1] /\ i \in Nat
  <2>1. i \in 1 .. Len(q) - 1
    BY <1>1
  <2>2. Tail(q)[i] = q[i + 1]
    BY <1>1, <2>1
  <2> QED BY <1>1, <2>1, <2>2
<1> QED BY <1>1, <1>2, <1>3

\* The key of a command has a server.
LEMMA KeyServer ==
  ASSUME NEW u, NEW m \in Order(u)
  PROVE  m.key \in Key /\ ServerOf[m.key] \in Server
<1>1. m.key \in Key
  BY Numbers DEF Order
<1> QED BY <1>1, ServerAssumption

\* A command is sent.
LEMMA SendEffect ==
  ASSUME TypeInv, NEW c \in Client, NEW m \in Order(Unit), Send(c, m)
  PROVE  /\ pend' \in [Client -> [Server -> Seq(Order(Unit))]]
         /\ \A d \in Client, s \in Server, i \in Nat :
              LET q == pend[c][ServerOf[m.key]] IN
              IF d = c /\ s = ServerOf[m.key] /\ i = Len(q) + 1
              THEN Deletes(d, s, i)' <=> m.key = InfoKey
              ELSE Deletes(d, s, i)' <=> Deletes(d, s, i)
<1>1. PICK z \in Server : z = ServerOf[m.key]
  BY KeyServer
<1>2. PICK S : S = Order(Unit)
  OBVIOUS
<1>3. PICK q \in Seq(S) : q = pend[c][z]
  BY <1>1, <1>2 DEF TypeInv
<1>4. PICK a : a = Append(q, m)
  OBVIOUS
<1>5. /\ a \in Seq(S)
      /\ \A i \in Nat : i \in 1 .. Len(a) <=> i \in 1 .. Len(q) \/ i = Len(q) + 1
      /\ \A i \in 1 .. Len(q) : a[i] = q[i]
      /\ a[Len(q) + 1] = m /\ Len(q) \in Nat
  BY <1>2, <1>4, AppendEntries
<1>6. pend' = [pend EXCEPT ![c] = [pend[c] EXCEPT ![z] = a]]
  BY <1>1, <1>3, <1>4 DEF Send
<1>7. pend \in [Client -> [Server -> Seq(S)]]
  BY <1>2 DEF TypeInv
<1>8. /\ pend'[c][z] = a
      /\ \A d \in Client, s \in Server : ~(d = c /\ s = z) => pend'[d][s] = pend[d][s]
  BY <1>6, <1>7
<1>9. pend' \in [Client -> [Server -> Seq(S)]]
  <2>1. [pend[c] EXCEPT ![z] = a] \in [Server -> Seq(S)]
    BY <1>5, <1>7
  <2> QED BY <1>6, <1>7, <2>1
<1>10. ASSUME NEW d \in Client, NEW s \in Server, NEW i \in Nat
       PROVE  IF d = c /\ s = z /\ i = Len(q) + 1
              THEN Deletes(d, s, i)' <=> m.key = InfoKey
              ELSE Deletes(d, s, i)' <=> Deletes(d, s, i)
  <2>1. CASE ~(d = c /\ s = z)
    BY <1>8, <2>1 DEF Deletes
  <2>2. CASE d = c /\ s = z /\ i = Len(q) + 1
    <3>1. pend'[d][s] = a /\ i \in 1 .. Len(a) /\ a[i] = m
      BY <1>5, <1>8, <2>2
    <3> QED BY <2>2, <3>1 DEF Deletes
  <2>3. CASE d = c /\ s = z /\ i # Len(q) + 1
    <3>1. pend'[d][s] = a /\ pend[d][s] = q
      BY <1>3, <1>8, <2>3
    <3>2. i \in 1 .. Len(a) <=> i \in 1 .. Len(q)
      BY <1>5, <2>3
    <3>3. i \in 1 .. Len(q) => a[i] = q[i]
      BY <1>5
    <3> QED BY <2>3, <3>1, <3>2, <3>3 DEF Deletes
  <2> QED BY <2>1, <2>2, <2>3
<1> QED BY <1>1, <1>2, <1>3, <1>9, <1>10

\* A server takes a command.
LEMMA ServeEffect ==
  ASSUME TypeInv, NEW c \in Client, NEW s \in Server, Serve(c, s)
  PROVE  \E m \in Order(Unit) :
         /\ pend' \in [Client -> [Server -> Seq(Order(Unit))]]
         /\ store' = [store EXCEPT ![m.key] = m.val] \/ store' = store
         /\ m.key = InfoKey <=> Deletes(c, s, 1)
         /\ \A i \in Nat : Deletes(c, s, i)' => i + 1 \in Nat /\ i # 0 /\ Deletes(c, s, i + 1)
         /\ \A d \in Client, z \in Server, i \in Nat : ~(d = c /\ z = s) => (Deletes(d, z, i)' <=> Deletes(d, z, i))
<1>1. PICK S : S = Order(Unit)
  OBVIOUS
<1>2. PICK q \in Seq(S) : q = pend[c][s]
  BY <1>1 DEF TypeInv
<1>3. PICK a, m : a = Tail(q) /\ m = Head(q)
  OBVIOUS
<1>4. /\ a \in Seq(S) /\ m \in S /\ m = q[1] /\ 1 \in 1 .. Len(q)
      /\ \A i \in 1 .. Len(a) : i + 1 \in 1 .. Len(q) /\ a[i] = q[i + 1] /\ i \in Nat
  BY <1>2, <1>3, TailEntries DEF Serve
<1>5. pend \in [Client -> [Server -> Seq(S)]]
  BY <1>1 DEF TypeInv
<1>6. pend' = [pend EXCEPT ![c] = [pend[c] EXCEPT ![s] = a]]
  BY <1>2, <1>3 DEF Serve
<1>7. /\ pend'[c][s] = a
      /\ \A d \in Client, z \in Server : ~(d = c /\ z = s) => pend'[d][z] = pend[d][z]
  BY <1>5, <1>6
<1>8. pend' \in [Client -> [Server -> Seq(S)]]
  <2>1. [pend[c] EXCEPT ![s] = a] \in [Server -> Seq(S)]
    BY <1>4, <1>5
  <2> QED BY <1>5, <1>6, <2>1
<1>9. store' = [store EXCEPT ![m.key] = m.val] \/ store' = store
  BY <1>2, <1>3 DEF Serve, Applied
<1>10. m.key = InfoKey <=> Deletes(c, s, 1)
  BY <1>2, <1>4 DEF Deletes
<1>11. ASSUME NEW i \in Nat, Deletes(c, s, i)' PROVE i + 1 \in Nat /\ i # 0 /\ Deletes(c, s, i + 1)
  <2>1. i \in 1 .. Len(a) /\ a[i].key = InfoKey
    BY <1>7, <1>11 DEF Deletes
  <2>2. i + 1 \in 1 .. Len(q) /\ a[i] = q[i + 1]
    BY <1>4, <2>1
  <2>3. i # 0
    <3>1. Len(a) \in Nat
      BY <1>4
    <3> QED BY <2>1, <3>1
  <2> QED BY <1>2, <2>1, <2>2, <2>3 DEF Deletes
<1>12. \A d \in Client, z \in Server, i \in Nat : ~(d = c /\ z = s) => (Deletes(d, z, i)' <=> Deletes(d, z, i))
  BY <1>7 DEF Deletes
<1> QED BY <1>1, <1>4, <1>8, <1>9, <1>10, <1>11, <1>12

(***************************************************************************)
(* The pieces of a chunk.                                                  *)
(***************************************************************************)

\* Multiplication and division.
LEMMA Times ==
  ASSUME NEW a \in Nat, NEW t \in Nat, NEW u \in Nat, a <= t
  PROVE  a * u <= t * u
<1>1. PICK d \in Nat : t = a + d
  <2>1. t - a \in Nat /\ t = a + (t - a)
    OBVIOUS
  <2> QED BY <2>1
<1>2. t * u = a * u + d * u
  BY <1>1
<1>3. a * u \in Nat /\ d * u \in Nat
  OBVIOUS
<1> QED BY <1>2, <1>3

\* Quotient and remainder.
LEMMA Divided ==
  ASSUME NEW n \in Nat, NEW u \in Nat \ {0}
  PROVE  \E q \in Nat, m \in Nat : q = n \div u /\ m = n % u /\ n = q * u + m /\ m < u
<1>1. n \div u \in Nat /\ n % u \in Nat /\ n % u < u
  OBVIOUS
<1>2. n = u * (n \div u) + (n % u)
  OBVIOUS
<1> QED BY <1>1, <1>2

\* A piece of chunk r that begins at word i, the first of the chunk or of a
\* block, ends inside the chunk, at the end of it or of a block.
LEMMA PieceInside ==
  ASSUME TypeInv, NEW r \in Nat \X Nat, NEW i \in Nat, r[1] <= i, i < KTail(r), i = r[1] \/ Aligned(i)
  PROVE  LET p == Piece(r, i) IN p.end \in Nat /\ i < p.end /\ p.end <= KTail(r) /\ (Aligned(p.end) \/ p.end = KTail(r))
<1>1. PICK u \in Nat \ {0} : u = Unit
  BY Words
<1>2. PICK f \in Nat, t \in Nat : f = r[1] /\ t = KTail(r)
  BY DEF KTail
<1>3. PICK q \in Nat, m \in Nat : q = f \div u /\ m = f % u /\ f = q * u + m /\ m < u
  BY Divided
<1>4. PICK z \in Nat, y \in Nat : z = t \div u /\ y = t % u /\ t = z * u + y /\ y < u
  BY Divided
<1>5. PICK h : h = IF m # 0 THEN q * u + u ELSE f
  OBVIOUS
<1>6. KStart(r[1]) = h /\ KEnd(r) = z * u
  BY <1>1, <1>2, <1>3, <1>4, <1>5 DEF KStart, KEnd
<1>7. q * u \in Nat /\ z * u \in Nat /\ h \in Nat
  BY <1>2, <1>5
<1>8. CASE i < h
  <2>1. Piece(r, i).end = Least(h, t)
    BY <1>2, <1>6, <1>8 DEF Piece
  <2>2. m # 0 /\ h = q * u + u
    BY <1>2, <1>5, <1>8
  <2>3. h = (q + 1) * u /\ q + 1 \in Nat
    BY <2>2
  <2>4. Aligned(h)
    BY <1>1, <2>3 DEF Aligned
  <2>5. Piece(r, i).end = h \/ Piece(r, i).end = t
    BY <2>1 DEF Least
  <2>6. Piece(r, i).end <= t /\ i < Piece(r, i).end
    BY <1>2, <1>7, <1>8, <2>1 DEF Least
  <2> QED BY <1>2, <1>7, <2>4, <2>5, <2>6
<1>9. CASE ~(i < h) /\ i < z * u
  <2>1. Piece(r, i).end = i + u
    BY <1>1, <1>6, <1>9 DEF Piece
  <2>2. PICK a \in Nat : i = a * u
    <3>1. CASE i = f
      <4>1. m = 0
        BY <1>3, <1>5, <1>7, <1>9, <3>1
      <4>2. i = q * u
        BY <1>3, <1>7, <3>1, <4>1
      <4> QED BY <4>2
    <3>2. CASE Aligned(i)
      BY <1>1, <3>2 DEF Aligned
    <3> QED BY <1>2, <3>1, <3>2
  <2>3. a < z
    <3>1. z <= a => z * u <= a * u
      BY Times
    <3> QED BY <1>7, <1>9, <2>2, <3>1
  <2>4. (a + 1) * u <= z * u /\ a + 1 \in Nat
    BY <2>3, Times
  <2>5. i + u = (a + 1) * u
    BY <2>2
  <2>6. i + u <= t
    BY <1>4, <1>7, <2>4, <2>5
  <2>7. Aligned(i + u)
    BY <1>1, <2>4, <2>5 DEF Aligned
  <2> QED BY <1>1, <1>2, <2>1, <2>6, <2>7
<1>10. CASE ~(i < h) /\ ~(i < z * u)
  <2>1. Piece(r, i).end = t
    BY <1>2, <1>6, <1>10 DEF Piece
  <2> QED BY <1>2, <2>1
<1> QED BY <1>8, <1>9, <1>10

\* A block with new words is a block.
LEMMA MergedType ==
  ASSUME TypeInv, NEW old \in [0 .. Unit - 1 -> Nat], NEW i \in Nat, NEW e \in Nat, e <= Size
  PROVE  Merged(old, i, e) \in [0 .. Unit - 1 -> Nat]
<1>1. Size \in Nat
  BY Numbers
<1>2. \A w \in i .. e - 1 : w \in Word
  BY <1>1 DEF Word
<1>3. \A w \in i .. e - 1 : begun[w] \in Nat
  BY <1>2 DEF TypeInv
<1> QED BY <1>3 DEF Merged

(***************************************************************************)
(* Every step keeps the types.                                             *)
(***************************************************************************)

\* Client c takes a step of its own.
Local(c) ==
  /\ UNCHANGED mode
  /\ pc' \in [Client -> Activity] /\ at' \in [Client -> Nat] /\ range' \in [Client -> Nat \X Nat]
  /\ buf' = [d \in Client |-> buf'[d]]
  /\ \A d \in Client \ {c} : pc'[d] = pc[d] /\ at'[d] = at[d] /\ range'[d] = range[d] /\ buf'[d] = buf[d]

\* A step of client c keeps the types if it keeps those of what c is doing and
\* of what it shares.
LEMMA LocalType ==
  ASSUME TypeInv, NEW c \in Client, Local(c), Doing(c)',
         store' \in [Key -> Item(Unit) \cup Info], store'[InfoKey] \in Info,
         \A k \in Key \ {InfoKey} : store'[k] \in Item(Unit),
         pend' \in [Client -> [Server -> Seq(Order(Unit))]],
         creators' \subseteq Client, begun' \in [Word -> Nat]
  PROVE  TypeInv'
<1>1. coarse' = coarse /\ reply' = reply /\ Unit' = Unit
  BY DEF Local, mode, Unit
<1>2. ASSUME NEW d \in Client PROVE Doing(d)'
  <2>1. CASE d # c
    <3>1. pc'[d] = pc[d] /\ at'[d] = at[d] /\ range'[d] = range[d] /\ buf'[d] = buf[d] /\ Doing(d)
      BY <2>1 DEF Local, TypeInv
    <3> QED BY <1>1, <3>1 DEF Doing, Aligned, KTail
  <2> QED BY <2>1
<1> QED BY <1>1, <1>2 DEF TypeInv, Local

\* A client's chunk.
LEMMA ChunkType ==
  ASSUME NEW c \in Client, NEW r \in Puts[c] \cup Gets[c]
  PROVE  r \in Nat \X Nat /\ KTail(r) <= Size
<1>1. Size \in Nat
  BY Numbers
<1>2. r \in Word \X (1 .. Size) /\ r[1] + r[2] <= Size
  BY ProgramAssumption
<1> QED BY <1>1, <1>2 DEF Word, KTail

\* A command about words is sent.
LEMMA SendQuiet ==
  ASSUME TypeInv, NEW c \in Client, NEW m \in Order(Unit), m.key # InfoKey, Send(c, m)
  PROVE  /\ pend' \in [Client -> [Server -> Seq(Order(Unit))]]
         /\ \A d \in Client, s \in Server, i \in Nat : Deletes(d, s, i)' <=> Deletes(d, s, i)
<1>1. pend' \in [Client -> [Server -> Seq(Order(Unit))]]
  BY SendEffect
<1>2. ASSUME NEW d \in Client, NEW s \in Server, NEW i \in Nat PROVE Deletes(d, s, i)' <=> Deletes(d, s, i)
  <2>1. PICK q : q = pend[c][ServerOf[m.key]]
    OBVIOUS
  <2>2. IF d = c /\ s = ServerOf[m.key] /\ i = Len(q) + 1
        THEN Deletes(d, s, i)' <=> m.key = InfoKey
        ELSE Deletes(d, s, i)' <=> Deletes(d, s, i)
    BY <2>1, SendEffect
  <2>3. CASE d = c /\ s = ServerOf[m.key] /\ i = Len(q) + 1
    <3>1. Len(pend[c][s]) \in Nat
      BY DEF TypeInv
    <3>2. i \notin 1 .. Len(pend[d][s])
      BY <2>1, <2>3, <3>1
    <3> QED BY <2>2, <2>3, <3>2 DEF Deletes
  <2> QED BY <2>2, <2>3
<1> QED BY <1>1, <1>2

\* A step of putchunk, which is not about the ObjectInfo.
LEMMA PutType ==
  ASSUME TypeInv, NEW c \in Client, (\E r \in Puts[c] : StartPut(c, r)) \/ PutBlock(c) \/ PutRead(c) \/ PutMerged(c) \/ PutReturn(c)
  PROVE  /\ TypeInv' /\ UNCHANGED <<mode, store, creators>> /\ (\A d \in Client : pc[d] = "del" <=> pc'[d] = "del")
         /\ \A d \in Client, s \in Server, i \in Nat : Deletes(d, s, i)' <=> Deletes(d, s, i)
<1>1. /\ pc \in [Client -> Activity] /\ at \in [Client -> Nat] /\ range \in [Client -> Nat \X Nat]
      /\ buf = [d \in Client |-> buf[d]] /\ Doing(c) /\ begun \in [Word -> Nat] /\ creators \subseteq Client
      /\ store \in [Key -> Item(Unit) \cup Info] /\ store[InfoKey] \in Info
      /\ \A k \in Key \ {InfoKey} : store[k] \in Item(Unit)
      /\ pend \in [Client -> [Server -> Seq(Order(Unit))]]
  BY DEF TypeInv
<1>2. PICK u \in Nat \ {0} : u = Unit
  BY Words
<1>3. at[c] \in Nat /\ range[c] \in Nat \X Nat /\ KTail(range[c]) \in Nat /\ KTail(range[c]) <= Size /\ Size \in Nat
  BY <1>1, Numbers DEF Doing, KTail
<1>4. CASE \E r \in Puts[c] : StartPut(c, r)
  <2>1. PICK r \in Puts[c] : StartPut(c, r)
    BY <1>4
  <2>2. r \in Nat \X Nat /\ KTail(r) <= Size
    BY ChunkType
  <2>3. Local(c) /\ UNCHANGED <<mode, store, pend, creators>> /\ pc[c] = "idle" /\ pc'[c] = "put" /\ at'[c] = r[1] /\ range'[c] = r
    BY <1>1, <2>1, <2>2 DEF StartPut, Ready, mem, mode, Local, Activity
  <2>4. Doing(c)'
    <3>1. KTail(range[c])' = KTail(r)
      BY <2>3 DEF KTail
    <3>2. r[1] <= r[1]
      BY <2>2
    <3> QED BY <2>2, <2>3, <3>1, <3>2 DEF Doing
  <2>5. begun' \in [Word -> Nat]
    BY <1>1, <2>1 DEF StartPut
  <2>6. TypeInv'
    BY <1>1, <2>3, <2>4, <2>5, LocalType
  <2> QED BY <2>3, <2>6 DEF Deletes, Local
<1>5. CASE PutBlock(c)
  <2>1. PICK e : e = Piece(range[c], at[c]).end
    OBVIOUS
  <2>2. pc[c] = "put" /\ at[c] < KTail(range[c])
    BY <1>5 DEF PutBlock
  <2>3. range[c][1] <= at[c] /\ (at[c] = range[c][1] \/ Aligned(at[c]))
    BY <1>1, <1>3, <2>2 DEF Doing
  <2>4. e \in Nat /\ at[c] < e /\ e <= KTail(range[c]) /\ (Aligned(e) \/ e = KTail(range[c]))
    BY <1>3, <2>1, <2>2, <2>3, PieceInside
  <2>5. PICK m : m = Command(FALSE, at[c] \div u, Merged([j \in 0 .. Unit - 1 |-> 0], at[c], e))
    OBVIOUS
  <2>6. m \in Order(Unit) /\ m.key # InfoKey
    <3>1. at[c] \div u \in Key \ {InfoKey}
      BY <1>3, <2>2, WordKey
    <3>2. e <= Size
      BY <1>3, <2>4
    <3>3. Merged([j \in 0 .. Unit - 1 |-> 0], at[c], e) \in [0 .. Unit - 1 -> Nat]
      BY <1>3, <2>4, <3>2, MergedType
    <3> QED BY <2>5, <3>1, <3>3 DEF Order, Item, Command
  <2>7. Send(c, m)
    BY <1>2, <1>5, <2>1, <2>5 DEF PutBlock
  <2>8. /\ pend' \in [Client -> [Server -> Seq(Order(Unit))]]
        /\ \A d \in Client, s \in Server, i \in Nat : Deletes(d, s, i)' <=> Deletes(d, s, i)
    BY <2>6, <2>7, SendQuiet
  <2>9. Local(c) /\ UNCHANGED <<mode, store, creators, begun, pc, range>> /\ at'[c] = e
    BY <1>1, <1>5, <2>1, <2>4 DEF PutBlock, mode, hist, Local
  <2>10. Doing(c)'
    <3>1. Aligned(e)' <=> Aligned(e)
      BY <2>9 DEF Aligned, Unit, mode
    <3>2. range[c][1] <= e
      BY <1>3, <2>3, <2>4
    <3> QED BY <1>3, <2>2, <2>4, <2>9, <3>1, <3>2 DEF Doing, KTail, Aligned
  <2>11. TypeInv'
    BY <1>1, <2>8, <2>9, <2>10, LocalType
  <2> QED BY <2>8, <2>9, <2>11
<1>6. CASE PutRead(c)
  <2>1. pc[c] = "put" /\ at[c] < KTail(range[c])
    BY <1>6 DEF PutRead
  <2>2. PICK k \in Key \ {InfoKey} : k = at[c] \div u
    BY <1>3, <2>1, WordKey
  <2>3. Fetched(k) \in [0 .. Unit - 1 -> Nat]
    <3>1. store[k] \in Item(Unit)
      BY <1>1
    <3> QED BY <3>1 DEF Fetched, Item
  <2>4. /\ Local(c) /\ UNCHANGED <<mode, store, pend, creators, begun, at, range>> /\ pc'[c] = "merge"
        /\ buf'[c] = Fetched(k)
    <3>1. buf' = [buf EXCEPT ![c] = Fetched(k)] /\ pc' = [pc EXCEPT ![c] = "merge"]
      BY <1>2, <1>6, <2>2 DEF PutRead
    <3>2. UNCHANGED <<mode, store, pend, creators, begun, at, range>>
      BY <1>6 DEF PutRead, mem, hist
    <3> QED BY <1>1, <3>1, <3>2 DEF Local, Activity
  <2>5. Doing(c)'
    BY <1>1, <2>1, <2>3, <2>4 DEF Doing, KTail, Aligned, Unit, mode
  <2>6. TypeInv'
    BY <1>1, <2>4, <2>5, LocalType
  <2> QED BY <2>1, <2>4, <2>6 DEF Deletes, Local
<1>7. CASE PutMerged(c)
  <2>1. PICK e : e = Piece(range[c], at[c]).end
    OBVIOUS
  <2>2. pc[c] = "merge"
    BY <1>7 DEF PutMerged
  <2>3. /\ range[c][1] <= at[c] /\ (at[c] = range[c][1] \/ Aligned(at[c])) /\ at[c] < KTail(range[c])
        /\ buf[c] \in [0 .. Unit - 1 -> Nat]
    BY <1>1, <1>3, <2>2 DEF Doing
  <2>4. e \in Nat /\ at[c] < e /\ e <= KTail(range[c]) /\ (Aligned(e) \/ e = KTail(range[c]))
    BY <1>3, <2>1, <2>3, PieceInside
  <2>5. PICK m : m = Command(FALSE, at[c] \div u, Merged(buf[c], at[c], e))
    OBVIOUS
  <2>6. m \in Order(Unit) /\ m.key # InfoKey
    <3>1. at[c] \div u \in Key \ {InfoKey}
      BY <1>3, <2>3, WordKey
    <3>2. e <= Size
      BY <1>3, <2>4
    <3>3. Merged(buf[c], at[c], e) \in [0 .. Unit - 1 -> Nat]
      BY <1>3, <2>3, <2>4, <3>2, MergedType
    <3> QED BY <2>5, <3>1, <3>3 DEF Order, Item, Command
  <2>7. Send(c, m)
    BY <1>2, <1>7, <2>1, <2>5 DEF PutMerged
  <2>8. /\ pend' \in [Client -> [Server -> Seq(Order(Unit))]]
        /\ \A d \in Client, s \in Server, i \in Nat : Deletes(d, s, i)' <=> Deletes(d, s, i)
    BY <2>6, <2>7, SendQuiet
  <2>9. Local(c) /\ UNCHANGED <<mode, store, creators, begun, range>> /\ at'[c] = e /\ pc'[c] = "put"
    <3>1. at' = [at EXCEPT ![c] = e] /\ pc' = [pc EXCEPT ![c] = "put"] /\ buf' = [buf EXCEPT ![c] = <<>>]
      BY <1>7, <2>1 DEF PutMerged
    <3>2. UNCHANGED <<mode, store, creators, begun, range>>
      BY <1>7 DEF PutMerged, hist
    <3> QED BY <1>1, <2>4, <3>1, <3>2 DEF Local, Activity
  <2>10. Doing(c)'
    <3>1. Aligned(e)' <=> Aligned(e)
      BY <2>9 DEF Aligned, Unit, mode
    <3>2. range[c][1] <= e
      BY <1>3, <2>3, <2>4
    <3> QED BY <1>3, <2>4, <2>9, <3>1, <3>2 DEF Doing, KTail, Aligned
  <2>11. TypeInv'
    BY <1>1, <2>8, <2>9, <2>10, LocalType
  <2> QED BY <2>2, <2>8, <2>9, <2>11 DEF Local
<1>8. CASE PutReturn(c)
  <2>1. Local(c) /\ UNCHANGED <<mode, store, pend, creators, begun, range>> /\ pc[c] = "put" /\ pc'[c] = "idle"
    BY <1>1, <1>8 DEF PutReturn, mem, Local, Activity
  <2>2. Doing(c)'
    BY <1>1, <2>1 DEF Doing, KTail
  <2>3. TypeInv'
    BY <1>1, <2>1, <2>2, LocalType
  <2> QED BY <2>1, <2>3 DEF Deletes, Local
<1> QED BY <1>4, <1>5, <1>6, <1>7, <1>8

\* A step of getchunk.
LEMMA GetType ==
  ASSUME TypeInv, NEW c \in Client, (\E r \in Gets[c] : StartGet(c, r)) \/ GetBatch(c) \/ GetReturn(c)
  PROVE  /\ TypeInv' /\ UNCHANGED <<mode, store, pend, creators>> /\ (\A d \in Client : pc[d] = "del" <=> pc'[d] = "del")
<1>1. /\ pc \in [Client -> Activity] /\ at \in [Client -> Nat] /\ range \in [Client -> Nat \X Nat]
      /\ buf = [d \in Client |-> buf[d]] /\ Doing(c) /\ begun \in [Word -> Nat] /\ creators \subseteq Client
      /\ store \in [Key -> Item(Unit) \cup Info] /\ store[InfoKey] \in Info
      /\ \A k \in Key \ {InfoKey} : store[k] \in Item(Unit)
      /\ pend \in [Client -> [Server -> Seq(Order(Unit))]]
  BY DEF TypeInv
<1>2. CASE \E r \in Gets[c] : StartGet(c, r)
  <2>1. PICK r \in Gets[c] : StartGet(c, r)
    BY <1>2
  <2>2. r \in Nat \X Nat /\ KTail(r) <= Size
    BY ChunkType
  <2>3. Local(c) /\ UNCHANGED <<mode, store, pend, creators, begun>> /\ pc[c] = "idle" /\ pc'[c] = "read" /\ range'[c] = r
    BY <1>1, <2>1, <2>2 DEF StartGet, Ready, mem, mode, hist, Local, Activity
  <2>4. Doing(c)'
    BY <2>2, <2>3 DEF Doing, KTail
  <2>5. TypeInv'
    BY <1>1, <2>3, <2>4, LocalType
  <2> QED BY <2>3, <2>5 DEF Local
<1>3. CASE GetBatch(c)
  <2>1. PICK n : n = BatchLen(range[c], at[c])
    OBVIOUS
  <2>2. at[c] < KTail(range[c]) /\ pc[c] = "read" /\ at' = [at EXCEPT ![c] = at[c] + n]
    BY <1>3, <2>1 DEF GetBatch
  <2>3. at[c] + n \in Nat
    <3>1. at[c] \in Nat /\ KTail(range[c]) \in Nat /\ Batch \in Nat
      BY <1>1, SizeAssumption DEF KTail
    <3> QED BY <2>1, <2>2, <3>1 DEF BatchLen
  <2>4. PICK v : buf' = [buf EXCEPT ![c] = v]
    BY <1>3 DEF GetBatch
  <2>5. UNCHANGED <<mode, store, pend, creators, begun, range, pc>>
    BY <1>3 DEF GetBatch, mem, hist
  <2>6. Local(c)
    BY <1>1, <2>2, <2>3, <2>4, <2>5 DEF Local
  <2>7. Doing(c)'
    BY <1>1, <2>2, <2>5 DEF Doing, KTail
  <2>8. TypeInv'
    BY <1>1, <2>5, <2>6, <2>7, LocalType
  <2> QED BY <2>5, <2>8
<1>4. CASE GetReturn(c)
  <2>1. Local(c) /\ UNCHANGED <<mode, store, pend, creators, begun, range>> /\ pc[c] = "read" /\ pc'[c] = "idle"
    BY <1>1, <1>4 DEF GetReturn, mem, hist, Local, Activity
  <2>2. Doing(c)'
    BY <1>1, <2>1 DEF Doing, KTail
  <2>3. TypeInv'
    BY <1>1, <2>1, <2>2, LocalType
  <2> QED BY <2>1, <2>3 DEF Local
<1> QED BY <1>2, <1>3, <1>4

\* The ObjectInfo of an object that is there.
LEMMA InfoThere == <<Size>> # Absent /\ <<Size>> \in Info /\ Absent \in Info
<1>1. Len(<<Size>>) = 1 /\ Len(<<>>) = 0
  OBVIOUS
<1> QED BY <1>1 DEF Absent, Info

\* A step of AllocObjectId.  Where commands are answered, a key is only given
\* away when it is free.
LEMMA AllocType ==
  ASSUME TypeInv, NEW c \in Client, StartAlloc(c) \/ NewObj(c) \/ AllocAborts(c)
  PROVE  /\ TypeInv' /\ UNCHANGED mode /\ (\A d \in Client : pc[d] = "del" <=> pc'[d] = "del")
         /\ reply => /\ UNCHANGED pend
                     /\ \/ UNCHANGED <<store, creators>>
                        \/ /\ store[InfoKey] = Absent /\ store'[InfoKey] # Absent
                           /\ creators' = creators \cup {c}
<1>1. /\ pc \in [Client -> Activity] /\ at \in [Client -> Nat] /\ range \in [Client -> Nat \X Nat]
      /\ buf = [d \in Client |-> buf[d]] /\ Doing(c) /\ begun \in [Word -> Nat] /\ creators \subseteq Client
      /\ store \in [Key -> Item(Unit) \cup Info] /\ store[InfoKey] \in Info
      /\ \A k \in Key \ {InfoKey} : store[k] \in Item(Unit)
      /\ pend \in [Client -> [Server -> Seq(Order(Unit))]]
  BY DEF TypeInv
<1>2. CASE StartAlloc(c)
  <2>1. Local(c) /\ UNCHANGED <<mode, store, pend, creators, begun, range>> /\ pc[c] = "idle" /\ pc'[c] = "alloc"
    BY <1>1, <1>2 DEF StartAlloc, Ready, mem, hist, Local, Activity
  <2>2. Doing(c)'
    BY <1>1, <2>1 DEF Doing, KTail
  <2>3. TypeInv'
    BY <1>1, <2>1, <2>2, LocalType
  <2> QED BY <2>1, <2>3 DEF Local
<1>3. CASE AllocAborts(c)
  <2>1. Local(c) /\ UNCHANGED <<mode, store, pend, creators, begun, range>> /\ pc[c] = "alloc" /\ pc'[c] = "aborted"
    BY <1>1, <1>3 DEF AllocAborts, mem, hist, Local, Activity
  <2>2. Doing(c)'
    BY <1>1, <2>1 DEF Doing, KTail
  <2>3. TypeInv'
    BY <1>1, <2>1, <2>2, LocalType
  <2> QED BY <2>1, <2>3 DEF Local
<1>4. CASE NewObj(c)
  <2>1. pc[c] = "alloc"
    BY <1>4 DEF NewObj
  <2>2. ASSUME Created(c)
        PROVE  /\ Local(c) /\ UNCHANGED <<mode, begun>> /\ creators' \subseteq Client /\ Doing(c)'
               /\ \A d \in Client : pc[d] = "del" <=> pc'[d] = "del"
    <3>1. Local(c) /\ UNCHANGED <<mode, begun, range>> /\ pc'[c] = "idle" /\ creators' \subseteq Client
      BY <1>1, <2>2 DEF Created, hist, Local, Activity
    <3>2. Doing(c)'
      BY <1>1, <3>1 DEF Doing, KTail
    <3> QED BY <2>1, <3>1, <3>2 DEF Local
  <2>3. CASE ~reply /\ Send(c, Command(TRUE, InfoKey, <<Size>>)) /\ Created(c) /\ UNCHANGED store
    <3>1. PICK m : m = Command(TRUE, InfoKey, <<Size>>)
      OBVIOUS
    <3>2. m \in Order(Unit)
      BY <3>1, InfoThere DEF Order, Command
    <3>3. pend' \in [Client -> [Server -> Seq(Order(Unit))]]
      BY <2>3, <3>1, <3>2, SendEffect
    <3>4. TypeInv'
      BY <1>1, <2>2, <2>3, <3>3, LocalType
    <3> QED BY <2>2, <2>3, <3>4
  <2>4. CASE reply /\ KeyFree /\ store' = [store EXCEPT ![InfoKey] = <<Size>>] /\ Created(c) /\ UNCHANGED pend
    <3>1. /\ store' \in [Key -> Item(Unit) \cup Info] /\ store'[InfoKey] = <<Size>>
          /\ \A k \in Key \ {InfoKey} : store'[k] = store[k]
      BY <1>1, <2>4, Numbers, InfoThere
    <3>2. TypeInv'
      BY <1>1, <2>2, <2>4, <3>1, InfoThere, LocalType
    <3>3. store[InfoKey] = Absent /\ creators' = creators \cup {c}
      BY <2>4 DEF KeyFree, Created
    <3> QED BY <2>2, <2>4, <3>1, <3>2, <3>3, InfoThere
  <2>5. CASE reply /\ at' = [at EXCEPT ![c] = @ + 1] /\ UNCHANGED <<mode, mem, pc, range, buf, creators, hist, since, ops>>
    <3>1. Local(c) /\ UNCHANGED <<mode, store, pend, creators, begun, range, pc>>
      BY <1>1, <2>5 DEF mem, hist, Local
    <3>2. Doing(c)'
      BY <1>1, <2>1, <3>1 DEF Doing, KTail
    <3>3. TypeInv'
      BY <1>1, <3>1, <3>2, LocalType
    <3> QED BY <3>1, <3>3
  <2> QED BY <1>4, <2>3, <2>4, <2>5 DEF NewObj
<1> QED BY <1>2, <1>3, <1>4

\* del begins: its creator gives the object up.
LEMMA StartDelType ==
  ASSUME TypeInv, NEW c \in Client, StartDel(c)
  PROVE  /\ TypeInv' /\ UNCHANGED <<mode, store, pend>> /\ c \in creators /\ creators' = {} /\ store[InfoKey] # Absent
         /\ \A d \in Client : pc'[d] = "del" => d = c \/ pc[d] = "del"
<1>1. /\ pc \in [Client -> Activity] /\ at \in [Client -> Nat] /\ range \in [Client -> Nat \X Nat]
      /\ buf = [d \in Client |-> buf[d]] /\ Doing(c)
      /\ store \in [Key -> Item(Unit) \cup Info] /\ store[InfoKey] \in Info
      /\ \A k \in Key \ {InfoKey} : store[k] \in Item(Unit)
      /\ pend \in [Client -> [Server -> Seq(Order(Unit))]]
  BY DEF TypeInv
<1>2. Local(c) /\ UNCHANGED <<mode, store, pend, range>> /\ pc'[c] = "del" /\ creators' = {}
  BY <1>1 DEF StartDel, mem, Local, Activity
<1>3. Doing(c)'
  BY <1>1, <1>2 DEF Doing, KTail
<1>4. begun' \in [Word -> Nat]
  BY DEF StartDel
<1>5. TypeInv'
  BY <1>1, <1>2, <1>3, <1>4, LocalType
<1> QED BY <1>2, <1>5 DEF StartDel, Local

\* A step of del: a command about words, or the last one.
LEMMA DelType ==
  ASSUME TypeInv, NEW c \in Client, DelItem(c)
  PROVE  /\ TypeInv' /\ UNCHANGED <<mode, store, creators>> /\ pc[c] = "del"
         /\ \/ /\ UNCHANGED pc
               /\ \A d \in Client, s \in Server, i \in Nat : Deletes(d, s, i)' <=> Deletes(d, s, i)
            \/ /\ \A d \in Client : pc'[d] = "del" => d # c /\ pc[d] = "del"
               /\ \E z \in Server, n \in Nat : \A d \in Client, s \in Server, i \in Nat :
                    Deletes(d, s, i)' => Deletes(d, s, i) \/ (d = c /\ s = z /\ i = n)
<1>1. /\ pc \in [Client -> Activity] /\ at \in [Client -> Nat] /\ range \in [Client -> Nat \X Nat]
      /\ buf = [d \in Client |-> buf[d]] /\ Doing(c) /\ begun \in [Word -> Nat] /\ creators \subseteq Client
      /\ store \in [Key -> Item(Unit) \cup Info] /\ store[InfoKey] \in Info
      /\ \A k \in Key \ {InfoKey} : store[k] \in Item(Unit)
      /\ pend \in [Client -> [Server -> Seq(Order(Unit))]]
  BY DEF TypeInv
<1>2. pc[c] = "del" /\ UNCHANGED <<mode, store, range, buf, creators, begun>>
  BY DEF DelItem, hist
<1>3. CASE at[c] < ItemCount /\ Send(c, Command(FALSE, at[c], Absent)) /\ at' = [at EXCEPT ![c] = @ + 1] /\ UNCHANGED pc
  <2>1. PICK m : m = Command(FALSE, at[c], Absent)
    OBVIOUS
  <2>2. at[c] \in Key \ {InfoKey}
    <3>1. at[c] < CeilDiv(Size, Unit) /\ at[c] \in Nat
      BY <1>1, <1>3 DEF ItemCount
    <3>2. PICK u \in Nat \ {0} : u = Unit
      BY Words
    <3> QED BY <3>1, <3>2, CountKey
  <2>3. m \in Order(Unit) /\ m.key # InfoKey
    BY <2>1, <2>2 DEF Order, Item, Command
  <2>4. /\ pend' \in [Client -> [Server -> Seq(Order(Unit))]]
        /\ \A d \in Client, s \in Server, i \in Nat : Deletes(d, s, i)' <=> Deletes(d, s, i)
    BY <1>3, <2>1, <2>3, SendQuiet
  <2>5. Local(c)
    BY <1>1, <1>2, <1>3 DEF Local
  <2>6. Doing(c)'
    BY <1>1, <1>2, <1>3 DEF Doing, KTail
  <2>7. TypeInv'
    BY <1>1, <1>2, <2>4, <2>5, <2>6, LocalType
  <2> QED BY <1>2, <1>3, <2>4, <2>7
<1>4. CASE Send(c, Command(FALSE, InfoKey, Absent)) /\ pc' = [pc EXCEPT ![c] = "idle"] /\ UNCHANGED at
  <2>1. PICK m : m = Command(FALSE, InfoKey, Absent)
    OBVIOUS
  <2>2. m \in Order(Unit)
    BY <2>1, InfoThere DEF Order, Command
  <2>3. PICK q : q = pend[c][ServerOf[m.key]]
    OBVIOUS
  <2>4. /\ pend' \in [Client -> [Server -> Seq(Order(Unit))]]
        /\ \A d \in Client, s \in Server, i \in Nat :
             IF d = c /\ s = ServerOf[m.key] /\ i = Len(q) + 1
             THEN Deletes(d, s, i)' <=> m.key = InfoKey
             ELSE Deletes(d, s, i)' <=> Deletes(d, s, i)
    BY <1>4, <2>1, <2>2, <2>3, SendEffect
  <2>5. PICK z \in Server : z = ServerOf[m.key]
    BY <2>2, KeyServer
  <2>6. PICK n \in Nat : n = Len(q) + 1
    <3>1. q \in Seq(Order(Unit))
      BY <1>1, <2>3, <2>5
    <3>2. Len(q) \in Nat
      BY <3>1
    <3> QED BY <3>2
  <2>7. \A d \in Client, s \in Server, i \in Nat : Deletes(d, s, i)' => Deletes(d, s, i) \/ (d = c /\ s = z /\ i = n)
    BY <2>4, <2>5, <2>6
  <2>8. Local(c) /\ pc'[c] = "idle"
    BY <1>1, <1>2, <1>4 DEF Local, Activity
  <2>9. Doing(c)'
    BY <1>1, <1>2, <2>8 DEF Doing, KTail
  <2>10. TypeInv'
    BY <1>1, <1>2, <2>4, <2>8, <2>9, LocalType
  <2>11. \A d \in Client : pc'[d] = "del" => d # c /\ pc[d] = "del"
    BY <2>8 DEF Local
  <2> QED BY <1>2, <2>7, <2>10, <2>11
<1> QED BY <1>3, <1>4 DEF DelItem

\* A server's step.
LEMMA ServeType ==
  ASSUME TypeInv, NEW c \in Client, NEW s \in Server, Serve(c, s)
  PROVE  /\ TypeInv' /\ UNCHANGED <<mode, pc, creators>>
         /\ Deletes(c, s, 1) \/ store'[InfoKey] = store[InfoKey]
         /\ \A i \in Nat : Deletes(c, s, i)' => i + 1 \in Nat /\ i # 0 /\ Deletes(c, s, i + 1)
         /\ \A d \in Client, z \in Server, i \in Nat : ~(d = c /\ z = s) => (Deletes(d, z, i)' <=> Deletes(d, z, i))
<1>1. /\ pc \in [Client -> Activity] /\ at \in [Client -> Nat] /\ range \in [Client -> Nat \X Nat]
      /\ buf = [d \in Client |-> buf[d]] /\ Doing(c) /\ begun \in [Word -> Nat] /\ creators \subseteq Client
      /\ store \in [Key -> Item(Unit) \cup Info] /\ store[InfoKey] \in Info
      /\ \A k \in Key \ {InfoKey} : store[k] \in Item(Unit)
  BY DEF TypeInv
<1>2. PICK m \in Order(Unit) :
         /\ pend' \in [Client -> [Server -> Seq(Order(Unit))]]
         /\ store' = [store EXCEPT ![m.key] = m.val] \/ store' = store
         /\ m.key = InfoKey <=> Deletes(c, s, 1)
         /\ \A i \in Nat : Deletes(c, s, i)' => i + 1 \in Nat /\ i # 0 /\ Deletes(c, s, i + 1)
         /\ \A d \in Client, z \in Server, i \in Nat : ~(d = c /\ z = s) => (Deletes(d, z, i)' <=> Deletes(d, z, i))
  BY ServeEffect
<1>3. Local(c) /\ UNCHANGED <<mode, pc, at, range, buf, creators, begun>>
  BY <1>1 DEF Serve, hist, Local
<1>4. Doing(c)'
  BY <1>1, <1>3 DEF Doing, KTail, Aligned, Unit, mode
<1>5. m.key \in Key /\ m.val \in Item(Unit) \cup Info /\ (m.key = InfoKey => m.val \in Info) /\ (m.key # InfoKey => m.val \in Item(Unit))
  BY Numbers DEF Order
<1>6. /\ store' \in [Key -> Item(Unit) \cup Info] /\ store'[InfoKey] \in Info
      /\ \A k \in Key \ {InfoKey} : store'[k] \in Item(Unit)
      /\ m.key = InfoKey \/ store'[InfoKey] = store[InfoKey]
  <2>1. CASE store' = store
    BY <1>1, <2>1
  <2>2. CASE store' = [store EXCEPT ![m.key] = m.val]
    BY <1>1, <1>5, <2>2, Numbers
  <2> QED BY <1>2, <2>1, <2>2
<1>7. TypeInv'
  BY <1>1, <1>2, <1>3, <1>4, <1>6, LocalType
<1> QED BY <1>2, <1>3, <1>6, <1>7

(***************************************************************************)
(* One owner.                                                              *)
(***************************************************************************)

\* Where commands are answered, the object key is in one hand at a time: it
\* belongs to its creator, or to the client that deletes the object, or it is
\* in the connection with the command that deletes the ObjectInfo.  A free key
\* is in nobody's hand: that is what makes the add of newobj decide.
NoneDeleting == \A c \in Client : pc[c] # "del"
OneCreates == \A c, d \in creators : c = d
OneDeletes ==
  /\ \A c, d \in Client : pc[c] = "del" /\ pc[d] = "del" => c = d
  /\ \A c, d \in Client, s, z \in Server, i, j \in Nat : Deletes(c, s, i) /\ Deletes(d, z, j) => c = d /\ s = z /\ i = j
OneHand ==
  /\ creators # {} => NoneDeleting /\ NoDeletes
  /\ ~NoneDeleting => NoDeletes
  /\ store[InfoKey] = Absent => creators = {} /\ NoneDeleting /\ NoDeletes
OneUser == reply => OneCreates /\ OneDeletes /\ OneHand
UserInv == TypeInv /\ OneUser

\* Nothing that OneUser speaks of changes.
LEMMA SameUser ==
  ASSUME OneUser, UNCHANGED <<reply, creators>>, store'[InfoKey] = store[InfoKey],
         \A d \in Client : pc[d] = "del" <=> pc'[d] = "del",
         \A d \in Client, s \in Server, i \in Nat : Deletes(d, s, i)' <=> Deletes(d, s, i)
  PROVE  OneUser'
<1> SUFFICES ASSUME reply PROVE OneUser'
  BY DEF OneUser
<1>1. OneCreates /\ OneDeletes /\ OneHand
  BY DEF OneUser
<1>2. OneCreates'
  BY <1>1 DEF OneCreates
<1>3. OneDeletes'
  <2>1. \A c, d \in Client : pc'[c] = "del" /\ pc'[d] = "del" => c = d
    BY <1>1 DEF OneDeletes
  <2>2. ASSUME NEW c \in Client, NEW d \in Client, NEW s \in Server, NEW z \in Server, NEW i \in Nat, NEW j \in Nat,
               Deletes(c, s, i)', Deletes(d, z, j)'
        PROVE  c = d /\ s = z /\ i = j
    <3>1. Deletes(c, s, i) /\ Deletes(d, z, j)
      BY <2>2
    <3> QED BY <1>1, <3>1 DEF OneDeletes
  <2> QED BY <2>1, <2>2 DEF OneDeletes
<1>4. (NoneDeleting' <=> NoneDeleting) /\ (NoDeletes' <=> NoDeletes)
  BY Zenon DEF NoneDeleting, NoDeletes
<1>5. OneHand'
  BY <1>1, <1>4 DEF OneHand
<1> QED BY <1>2, <1>3, <1>5 DEF OneUser

\* The initial states.
LEMMA UserInit ==
  ASSUME Init
  PROVE  UserInv
<1>1. Size \in Nat \ {0} /\ InfoKey \in Key
  BY Numbers
<1>2. pend \in [Client -> [Server -> Seq(Order(Unit))]]
  <2>1. <<>> \in Seq(Order(Unit))
    OBVIOUS
  <2> QED BY <2>1 DEF Init
<1>3. /\ store \in [Key -> Item(Unit) \cup Info] /\ store[InfoKey] \in Info
      /\ \A k \in Key \ {InfoKey} : store[k] \in Item(Unit)
  BY <1>1 DEF Init, Item, Info
<1>4. \A c \in Client : Doing(c)
  <2>1. SUFFICES ASSUME NEW c \in Client PROVE Doing(c)
    OBVIOUS
  <2>2. pc[c] = "idle" /\ range[c] = <<0, 0>>
    BY DEF Init
  <2>3. KTail(range[c]) <= Size
    BY <1>1, <2>2 DEF KTail
  <2> QED BY <2>2, <2>3 DEF Doing
<1>5. begun \in [Word -> Nat] /\ creators \subseteq Client /\ coarse \in BOOLEAN /\ reply \in BOOLEAN
  BY DEF Init
<1>6. /\ pc \in [Client -> Activity] /\ at \in [Client -> Nat] /\ range \in [Client -> Nat \X Nat]
      /\ buf = [c \in Client |-> buf[c]]
  BY DEF Init, Activity
<1>7. TypeInv
  BY <1>2, <1>3, <1>4, <1>5, <1>6 DEF TypeInv
<1>8. NoDeletes
  <2>1. \A c \in Client, s \in Server : Len(pend[c][s]) = 0
    BY DEF Init
  <2> QED BY <2>1 DEF NoDeletes, Deletes
<1>9. creators = {} /\ NoneDeleting
  BY DEF Init, NoneDeleting
<1>10. OneCreates /\ OneHand
  BY <1>8, <1>9 DEF OneCreates, OneHand
<1>11. OneDeletes
  <2>1. \A c \in Client, s \in Server, i \in Nat : ~Deletes(c, s, i)
    BY <1>8 DEF NoDeletes
  <2>2. \A c \in Client : pc[c] # "del"
    BY <1>9 DEF NoneDeleting
  <2> QED BY <2>1, <2>2 DEF OneDeletes
<1> QED BY <1>7, <1>10, <1>11 DEF UserInv, OneUser

\* Every step.
LEMMA UserStep ==
  ASSUME UserInv, [Next]_vars
  PROVE  UserInv'
<1>1. TypeInv /\ OneUser
  BY DEF UserInv
<1>2. CASE UNCHANGED vars
  <2>1. UNCHANGED <<coarse, reply, store, pend, pc, range, at, buf, creators, begun>>
    BY <1>2 DEF vars, mode, mem, hist
  <2>2. TypeInv'
    BY <1>1, <2>1 DEF TypeInv, Unit, Doing, KTail, Aligned
  <2>3. OneUser'
    BY <1>1, <2>1, SameUser DEF Deletes
  <2> QED BY <2>2, <2>3 DEF UserInv
<1>3. ASSUME NEW c \in Client, NEW s \in Server, Serve(c, s) PROVE UserInv'
  <2>1. /\ TypeInv' /\ UNCHANGED <<mode, pc, creators>>
        /\ Deletes(c, s, 1) \/ store'[InfoKey] = store[InfoKey]
        /\ \A i \in Nat : Deletes(c, s, i)' => i + 1 \in Nat /\ i # 0 /\ Deletes(c, s, i + 1)
        /\ \A d \in Client, z \in Server, i \in Nat : ~(d = c /\ z = s) => (Deletes(d, z, i)' <=> Deletes(d, z, i))
    BY <1>1, <1>3, ServeType
  <2>2. reply' = reply
    BY <2>1 DEF mode
  <2>3. ASSUME reply PROVE OneCreates' /\ OneDeletes' /\ OneHand'
    <3>1. OneCreates /\ OneDeletes /\ OneHand
      BY <1>1, <2>3 DEF OneUser
    <3>2. OneCreates'
      BY <2>1, <3>1 DEF OneCreates
    <3>3. NoDeletes => NoDeletes'
      BY <2>1 DEF NoDeletes
    <3>4. NoneDeleting' <=> NoneDeleting
      BY <2>1 DEF NoneDeleting
    <3>5. CASE Deletes(c, s, 1)
      <4>1. creators = {} /\ NoneDeleting
        BY <3>1, <3>5 DEF OneHand, NoDeletes
      <4>2. NoDeletes'
        <5>1. SUFFICES ASSUME NEW d \in Client, NEW z \in Server, NEW i \in Nat, Deletes(d, z, i)' PROVE FALSE
          BY DEF NoDeletes
        <5>2. CASE d = c /\ z = s
          <6>1. i + 1 \in Nat /\ i # 0 /\ Deletes(c, s, i + 1)
            BY <2>1, <5>1, <5>2
          <6>2. i + 1 = 1
            BY <3>1, <3>5, <6>1 DEF OneDeletes
          <6> QED BY <6>1, <6>2
        <5>3. CASE ~(d = c /\ z = s)
          <6>1. Deletes(d, z, i)
            BY <2>1, <5>1, <5>3
          <6> QED BY <3>1, <3>5, <5>3, <6>1 DEF OneDeletes
        <5> QED BY <5>2, <5>3
      <4>3. OneHand'
        BY <2>1, <3>4, <4>1, <4>2 DEF OneHand
      <4>4. OneDeletes'
        <5>1. \A d \in Client, z \in Server, i \in Nat : ~Deletes(d, z, i)'
          BY <4>2 DEF NoDeletes
        <5>2. \A d \in Client : pc'[d] # "del"
          BY <3>4, <4>1 DEF NoneDeleting
        <5> QED BY <5>1, <5>2 DEF OneDeletes
      <4> QED BY <3>2, <4>3, <4>4
    <3>6. CASE store'[InfoKey] = store[InfoKey]
      <4>1. OneHand'
        BY <2>1, <3>1, <3>3, <3>4, <3>6 DEF OneHand
      <4>2. \A d, e \in Client : pc'[d] = "del" /\ pc'[e] = "del" => d = e
        BY <2>1, <3>1 DEF OneDeletes
      <4>3. ASSUME NEW d \in Client, NEW z \in Server, NEW i \in Nat, Deletes(d, z, i)'
            PROVE  \E k \in Nat : Deletes(d, z, k) /\ (IF d = c /\ z = s THEN k = i + 1 ELSE k = i)
        BY <2>1, <4>3
      <4>4. ASSUME NEW d \in Client, NEW z \in Server, NEW i \in Nat, Deletes(d, z, i)',
                   NEW e \in Client, NEW y \in Server, NEW j \in Nat, Deletes(e, y, j)'
            PROVE  d = e /\ z = y /\ i = j
        <5>1. PICK k \in Nat : Deletes(d, z, k) /\ (IF d = c /\ z = s THEN k = i + 1 ELSE k = i)
          BY <4>3, <4>4
        <5>2. PICK l \in Nat : Deletes(e, y, l) /\ (IF e = c /\ y = s THEN l = j + 1 ELSE l = j)
          BY <4>3, <4>4
        <5>3. d = e /\ z = y /\ k = l
          BY <3>1, <5>1, <5>2 DEF OneDeletes
        <5> QED BY <5>1, <5>2, <5>3
      <4>5. OneDeletes'
        BY <4>2, <4>4 DEF OneDeletes
      <4> QED BY <3>2, <4>1, <4>5
    <3> QED BY <2>1, <3>5, <3>6
  <2> QED BY <2>1, <2>2, <2>3 DEF UserInv, OneUser
<1>4. ASSUME NEW c \in Client,
             (\E r \in Puts[c] : StartPut(c, r)) \/ PutBlock(c) \/ PutRead(c) \/ PutMerged(c) \/ PutReturn(c)
      PROVE  UserInv'
  <2>1. /\ TypeInv' /\ UNCHANGED <<mode, store, creators>> /\ (\A d \in Client : pc[d] = "del" <=> pc'[d] = "del")
        /\ \A d \in Client, s \in Server, i \in Nat : Deletes(d, s, i)' <=> Deletes(d, s, i)
    BY <1>1, <1>4, PutType
  <2>2. UNCHANGED <<reply, creators>> /\ store'[InfoKey] = store[InfoKey]
    BY <2>1 DEF mode
  <2>3. OneUser'
    BY <1>1, <2>1, <2>2, SameUser
  <2> QED BY <2>1, <2>3 DEF UserInv
<1>5. ASSUME NEW c \in Client, (\E r \in Gets[c] : StartGet(c, r)) \/ GetBatch(c) \/ GetReturn(c)
      PROVE  UserInv'
  <2>1. TypeInv' /\ UNCHANGED <<mode, store, pend, creators>> /\ (\A d \in Client : pc[d] = "del" <=> pc'[d] = "del")
    BY <1>1, <1>5, GetType
  <2>2. UNCHANGED <<reply, creators>> /\ store'[InfoKey] = store[InfoKey]
    BY <2>1 DEF mode
  <2>3. \A d \in Client, s \in Server, i \in Nat : Deletes(d, s, i)' <=> Deletes(d, s, i)
    BY <2>1 DEF Deletes
  <2>4. OneUser'
    BY <1>1, <2>1, <2>2, <2>3, SameUser
  <2> QED BY <2>1, <2>4 DEF UserInv
<1>6. ASSUME NEW c \in Client, StartAlloc(c) \/ NewObj(c) \/ AllocAborts(c)
      PROVE  UserInv'
  <2>1. /\ TypeInv' /\ UNCHANGED mode /\ (\A d \in Client : pc[d] = "del" <=> pc'[d] = "del")
        /\ reply => /\ UNCHANGED pend
                    /\ \/ UNCHANGED <<store, creators>>
                       \/ /\ store[InfoKey] = Absent /\ store'[InfoKey] # Absent
                          /\ creators' = creators \cup {c}
    BY <1>1, <1>6, AllocType
  <2>2. reply' = reply
    BY <2>1 DEF mode
  <2>3. ASSUME reply PROVE OneUser'
    <3>1. \A d \in Client, s \in Server, i \in Nat : Deletes(d, s, i)' <=> Deletes(d, s, i)
      BY <2>1, <2>3 DEF Deletes
    <3>2. CASE UNCHANGED <<store, creators>>
      BY <1>1, <2>1, <2>2, <3>1, <3>2, SameUser
    <3>3. CASE store[InfoKey] = Absent /\ store'[InfoKey] # Absent /\ creators' = creators \cup {c}
      <4>1. creators = {} /\ NoneDeleting /\ NoDeletes
        BY <1>1, <2>3, <3>3 DEF OneUser, OneHand
      <4>2. creators' = {c}
        BY <3>3, <4>1
      <4>3. NoneDeleting' /\ NoDeletes'
        BY <2>1, <3>1, <4>1 DEF NoneDeleting, NoDeletes
      <4>4. OneCreates' /\ OneHand'
        BY <3>3, <4>2, <4>3 DEF OneCreates, OneHand
      <4>5. OneDeletes'
        <5>1. \A d \in Client, z \in Server, i \in Nat : ~Deletes(d, z, i)'
          BY <4>3 DEF NoDeletes
        <5>2. \A d \in Client : pc'[d] # "del"
          BY <4>3 DEF NoneDeleting
        <5> QED BY <5>1, <5>2 DEF OneDeletes
      <4> QED BY <4>4, <4>5 DEF OneUser
    <3> QED BY <2>1, <2>3, <3>2, <3>3
  <2>4. OneUser'
    BY <2>2, <2>3 DEF OneUser
  <2> QED BY <2>1, <2>4 DEF UserInv
<1>7. ASSUME NEW c \in Client, StartDel(c) PROVE UserInv'
  <2>1. /\ TypeInv' /\ UNCHANGED <<mode, store, pend>> /\ c \in creators /\ creators' = {} /\ store[InfoKey] # Absent
        /\ \A d \in Client : pc'[d] = "del" => d = c \/ pc[d] = "del"
    BY <1>1, <1>7, StartDelType
  <2>2. reply' = reply
    BY <2>1 DEF mode
  <2>3. ASSUME reply PROVE OneUser'
    <3>1. NoneDeleting /\ NoDeletes
      BY <1>1, <2>1, <2>3 DEF OneUser, OneHand
    <3>2. NoDeletes'
      BY <2>1, <3>1 DEF NoDeletes, Deletes
    <3>3. \A d \in Client : pc'[d] = "del" => d = c
      BY <2>1, <3>1 DEF NoneDeleting
    <3>4. OneCreates' /\ OneHand'
      BY <2>1, <3>2 DEF OneCreates, OneHand
    <3>5. OneDeletes'
      <4>1. \A d \in Client, z \in Server, i \in Nat : ~Deletes(d, z, i)'
        BY <3>2 DEF NoDeletes
      <4> QED BY <3>3, <4>1 DEF OneDeletes
    <3> QED BY <3>4, <3>5 DEF OneUser
  <2>4. OneUser'
    BY <2>2, <2>3 DEF OneUser
  <2> QED BY <2>1, <2>4 DEF UserInv
<1>8. ASSUME NEW c \in Client, DelItem(c) PROVE UserInv'
  <2>1. /\ TypeInv' /\ UNCHANGED <<mode, store, creators>> /\ pc[c] = "del"
        /\ \/ /\ UNCHANGED pc
              /\ \A d \in Client, s \in Server, i \in Nat : Deletes(d, s, i)' <=> Deletes(d, s, i)
           \/ /\ \A d \in Client : pc'[d] = "del" => d # c /\ pc[d] = "del"
              /\ \E z \in Server, n \in Nat : \A d \in Client, s \in Server, i \in Nat :
                   Deletes(d, s, i)' => Deletes(d, s, i) \/ (d = c /\ s = z /\ i = n)
    BY <1>1, <1>8, DelType
  <2>2. reply' = reply
    BY <2>1 DEF mode
  <2>3. ASSUME reply PROVE OneUser'
    <3>1. OneCreates /\ OneDeletes /\ OneHand
      BY <1>1, <2>3 DEF OneUser
    <3>2. ~NoneDeleting
      BY <2>1 DEF NoneDeleting
    <3>3. NoDeletes /\ creators = {} /\ store[InfoKey] # Absent
      BY <3>1, <3>2 DEF OneHand
    <3>4. CASE UNCHANGED pc /\ \A d \in Client, s \in Server, i \in Nat : Deletes(d, s, i)' <=> Deletes(d, s, i)
      BY <1>1, <2>1, <2>2, <3>4, SameUser
    <3>5. CASE /\ \A d \in Client : pc'[d] = "del" => d # c /\ pc[d] = "del"
               /\ \E z \in Server, n \in Nat : \A d \in Client, s \in Server, i \in Nat :
                    Deletes(d, s, i)' => Deletes(d, s, i) \/ (d = c /\ s = z /\ i = n)
      <4>1. PICK z \in Server, n \in Nat : \A d \in Client, s \in Server, i \in Nat :
              Deletes(d, s, i)' => Deletes(d, s, i) \/ (d = c /\ s = z /\ i = n)
        BY <3>5
      <4>2. \A d \in Client, s \in Server, i \in Nat : Deletes(d, s, i)' => d = c /\ s = z /\ i = n
        BY <3>3, <4>1 DEF NoDeletes
      <4>3. \A d \in Client : pc'[d] # "del"
        BY <2>1, <3>1, <3>5 DEF OneDeletes
      <4>4. NoneDeleting'
        BY <4>3 DEF NoneDeleting
      <4>5. OneDeletes'
        BY <4>2, <4>3 DEF OneDeletes
      <4>6. OneCreates' /\ OneHand'
        BY <2>1, <3>3, <4>4 DEF OneCreates, OneHand
      <4> QED BY <4>5, <4>6 DEF OneUser
    <3> QED BY <2>1, <3>4, <3>5
  <2>4. OneUser'
    BY <2>2, <2>3 DEF OneUser
  <2> QED BY <2>1, <2>4 DEF UserInv
<1> QED BY <1>2, <1>3, <1>4, <1>5, <1>6, <1>7, <1>8 DEF Next, ClientStep

\* Two threads that draw the same object key never both own the object
\* (AllocObjectId), where commands are answered: through any allocations,
\* attempts and deletions, also while the commands of a deletion are still in a
\* connection.
THEOREM OneCreatorHolds == Spec => []OneCreator
<1>1. Init => UserInv
  BY UserInit
<1>2. UserInv /\ [Next]_vars => UserInv'
  BY UserStep
<1>3. UserInv => OneCreator
  <2>1. SUFFICES ASSUME UserInv, reply PROVE Cardinality(creators) <= 1
    BY DEF OneCreator
  <2>2. \A c, d \in creators : c = d
    BY <2>1 DEF UserInv, OneUser, OneCreates
  <2>3. CASE creators = {}
    <3>1. Cardinality(creators) = 0
      BY <2>3, FS_EmptySet
    <3> QED BY <3>1
  <2>4. CASE creators # {}
    <3>1. PICK c : c \in creators
      BY <2>4
    <3>2. creators = {c}
      BY <2>2, <3>1
    <3>3. Cardinality(creators) = 1
      BY <3>2, FS_Singleton
    <3> QED BY <3>3
  <2> QED BY <2>3, <2>4
<1> QED BY <1>1, <1>2, <1>3, PTL DEF Spec

(***************************************************************************)
(* What is stored.                                                         *)
(***************************************************************************)

\* No two clients put words of the same block, and where commands are not
\* answered no object is deleted.
BlocksApart ==
  \A c, d \in Client : c # d =>
    \A x \in Owned(c), y \in Owned(d) : x # y /\ x \div BlockSize # y \div BlockSize
KeptUnanswered == FALSE \notin Churn

\* No client but c puts words of the block of w.
Free(c, w) == \A d \in Client \ {c} : \A x \in Owned(d) : x \div Unit # w \div Unit

\* Command i of client c to the server of item k is about k; it is the last one;
\* what it stores.
Sent(c, k, i) == i \in 1 .. Len(pend[c][ServerOf[k]]) /\ pend[c][ServerOf[k]][i].key = k
LastSent(c, k, i) == Sent(c, k, i) /\ \A j \in Nat : Sent(c, k, j) => j <= i
Val(c, k, i) == pend[c][ServerOf[k]][i].val

\* Client c finds v under key k when its commands have been taken.
Tip(c, k, v) ==
  \/ v = store[k] /\ \A i \in Nat : ~Sent(c, k, i)
  \/ \E i \in Nat : LastSent(c, k, i) /\ v = Val(c, k, i)

\* Word w in item v of its block.
At(v, w) == IF v = Absent THEN 0 ELSE v[w % Unit]

\* A put of client c has word w in its chunk, and has not come to it yet; the
\* value that is due under w for client c.
Putting(c) == pc[c] \in {"put", "merge"}
Writing(c, w) == Putting(c) /\ w \in Span(range[c])
Due(c, w) == IF Writing(c, w) /\ at[c] <= w THEN latest[w] ELSE begun[w]

\* The words that only client c may put.
History(c) == \A w \in Word : Free(c, w) => begun[w] = IF Writing(c, w) THEN latest[w] + 1 ELSE latest[w]
Last(c) == \A w \in Word, k \in Key : k = w \div Unit /\ Free(c, w) => \A v : Tip(c, k, v) => At(v, w) = Due(c, w)
Merging(c) ==
  pc[c] = "merge" => \A w \in Word, b \in {buf[c]} : w \div Unit = at[c] \div Unit => At(b, w) = Due(c, w)

\* What client c sends is for its own blocks.
Sends(c) == \A k \in Key \ {InfoKey}, i \in Nat : Sent(c, k, i) => \E x \in Owned(c) : x \div Unit = k

Data(c) == History(c) /\ Last(c) /\ Merging(c) /\ Sends(c)

\* Every version in a server or a connection is one between the last put that
\* returned and the last one that began.
Between(v, w) == At(v, w) \in Nat /\ At(v, w) <= begun[w] /\ (reply => latest[w] <= At(v, w))
Bounds ==
  \A w \in Word, k \in Key : k = w \div Unit =>
    /\ \A v \in {store[k]} : Between(v, w)
    /\ \A c \in Client, i \in Nat : Sent(c, k, i) => \A v \in {Val(c, k, i)} : Between(v, w)

\* Where commands are answered, a client that is not putting has none under way,
\* and without an object there is no item.
Settled == reply => \A c \in Client : ~Putting(c) => \A k \in Key, i \in Nat : ~Sent(c, k, i)
Clean == reply /\ creators = {} => /\ \A k \in Key : store[k] = Absent
                                   /\ \A c \in Client : ~Putting(c) /\ pc[c] # "read"

\* Client c is deleting the object, or has the command for its ObjectInfo under
\* way: the items it has counted are deleted.
Deleter(c) == pc[c] = "del" \/ \E s \in Server, i \in Nat : Deletes(c, s, i)
Dying == reply /\ \E c \in Client : Deleter(c)
Counts(c, k) == pc[c] = "del" /\ at[c] <= k /\ k < ItemCount
Cleared(c) ==
  /\ creators = {} /\ \A w \in Word : begun[w] = 0 /\ latest[w] = 0
  /\ \A d \in Client \ {c} : /\ pc[d] \in {"idle", "alloc", "aborted"}
                             /\ \A k \in Key, i \in Nat : ~Sent(d, k, i)
  /\ \/ pc[c] = "idle" /\ \A k \in Key \ {InfoKey}, i \in Nat : ~Sent(c, k, i)
     \/ pc[c] = "del" /\ at[c] <= ItemCount
  /\ \A k \in Key \ {InfoKey} : Counts(c, k) \/ \A v : Tip(c, k, v) => v = Absent

\* A read that has come to a word has found a value that is not too old.
Found(c, w, x) == x <= begun[w] /\ (reply \/ w \in Owned(c) => since[c][w] <= x)
Reading(c) ==
  pc[c] = "read" =>
    /\ at[c] \in range[c][1] .. KTail(range[c])
    /\ buf[c] \in Seq(Nat) /\ Len(buf[c]) = at[c] - range[c][1]
    /\ \A j \in 1 .. Len(buf[c]), w \in Word : w = range[c][1] + j - 1 => \A x \in {buf[c][j]} : Found(c, w, x)
    /\ \A w \in Word : since[c][w] <= latest[w]

\* Commands go to the server of their key, those about words store or delete,
\* those about the ObjectInfo, where commands are answered, delete it, and no item
\* lies outside the object.
Sound(m) ==
  /\ m.key # InfoKey => ~m.add /\ m.key < ItemCount
  /\ m.key = InfoKey /\ reply => ~m.add /\ m.val = Absent
Routed ==
  \A c \in Client, s \in Server : \A i \in 1 .. Len(pend[c][s]) :
    \A m \in {pend[c][s][i]} : ServerOf[m.key] = s /\ Sound(m)
Inside == \A k \in Key \ {InfoKey} : ItemCount <= k => store[k] = Absent

\* The chunk and the buffer of a client.
Chunks(c) ==
  /\ Putting(c) => range[c] \in Puts[c]
  /\ pc[c] \notin {"merge", "read"} => buf[c] = <<>>

WordType == latest \in [Word -> Nat] /\ since \in [Client -> [Word -> Nat]]
Live == Bounds /\ Settled /\ Clean /\ \A c \in Client : Data(c)
DataInv ==
  /\ WordType /\ Routed /\ Inside
  /\ \A c \in Client : Chunks(c) /\ Reading(c) /\ (~reply => pc[c] # "del")
  /\ ~Dying => Live
  /\ \A c \in Client : reply /\ Deleter(c) => Cleared(c)
StorageInv == UserInv /\ DataInv

\* Items of words.
LEMMA WordItem ==
  ASSUME TypeInv, NEW w \in Word
  PROVE  w \in Nat /\ w \div Unit \in Key \ {InfoKey} /\ w % Unit \in 0 .. Unit - 1 /\ w \div Unit < ItemCount
<1>1. PICK u \in Nat \ {0} : u = Unit
  BY Words
<1>2. w \in Nat /\ w < Size /\ Size \in Nat
  BY Numbers DEF Word
<1>3. w \div u \in Key \ {InfoKey}
  BY <1>2, WordKey
<1>4. w % u \in 0 .. u - 1
  BY <1>2
<1>5. w \div u < CeilDiv(Size, u)
  <2>1. PICK q \in Nat, m \in Nat : q = w \div u /\ m = w % u /\ w = q * u + m /\ m < u
    BY <1>2, Divided
  <2>2. PICK z \in Nat, y \in Nat : z = Size \div u /\ y = Size % u /\ Size = z * u + y /\ y < u
    BY <1>2, Divided
  <2>3. q * u \in Nat /\ z * u \in Nat
    OBVIOUS
  <2>4. z + 1 <= q => (z + 1) * u <= q * u
    BY Times
  <2>5. (z + 1) * u = z * u + u
    OBVIOUS
  <2>6. q <= z
    BY <1>2, <2>1, <2>2, <2>3, <2>4, <2>5
  <2>7. q = z => y # 0
    BY <1>2, <2>1, <2>2, <2>3
  <2> QED BY <2>1, <2>2, <2>6, <2>7 DEF CeilDiv
<1> QED BY <1>1, <1>2, <1>3, <1>4, <1>5 DEF ItemCount

\* The number of items.
LEMMA CountNat ==
  ASSUME TypeInv
  PROVE  ItemCount \in Nat /\ \A k \in Key : k \in Nat
<1>1. PICK u \in Nat \ {0} : u = Unit
  BY Words
<1>2. Size \in Nat
  BY Numbers
<1>3. Size \div u \in Nat
  BY <1>1, <1>2
<1> QED BY <1>1, <1>2, <1>3 DEF ItemCount, CeilDiv, Key

\* A client's words are words of the object.
LEMMA OwnedWords ==
  ASSUME NEW c \in Client
  PROVE  Owned(c) \subseteq Word /\ \A r \in Puts[c] : Span(r) \subseteq Owned(c)
<1>1. Size \in Nat
  BY Numbers
<1>2. ASSUME NEW r \in Puts[c], NEW w \in Span(r) PROVE w \in Word
  <2>1. r \in Word \X (1 .. Size) /\ r[1] + r[2] <= Size
    BY ProgramAssumption
  <2> QED BY <1>1, <1>2, <2>1 DEF Word, Span
<1> QED BY <1>2 DEF Owned

\* A client's blocks are its own.
LEMMA OwnFree ==
  ASSUME TypeInv, BlocksApart, NEW c \in Client, NEW x \in Owned(c), NEW w \in Word, x \div Unit = w \div Unit
  PROVE  Free(c, w)
<1> SUFFICES ASSUME NEW d \in Client, d # c, NEW y \in Owned(d) PROVE y \div Unit # w \div Unit
  BY DEF Free
<1>1. x # y /\ x \div BlockSize # y \div BlockSize
  BY DEF BlocksApart
<1>2. x \in Nat /\ y \in Nat
  BY OwnedWords, Numbers DEF Word
<1>3. CASE coarse
  BY <1>1, <1>3 DEF Unit
<1>4. CASE ~coarse
  <2>1. x \div 1 = x /\ y \div 1 = y
    BY <1>2
  <2> QED BY <1>1, <1>4, <2>1 DEF Unit
<1> QED BY <1>3, <1>4

\* A block has a client that may be its only one.
LEMMA SomeFree ==
  ASSUME TypeInv, BlocksApart, NEW e \in Client, NEW w \in Word
  PROVE  \E c \in Client : Free(c, w)
<1>1. CASE \E c \in Client : \E x \in Owned(c) : x \div Unit = w \div Unit
  BY <1>1, OwnFree
<1>2. CASE ~\E c \in Client : \E x \in Owned(c) : x \div Unit = w \div Unit
  BY <1>2 DEF Free
<1> QED BY <1>1, <1>2

\* An empty connection, and one that is not.
LEMMA NothingSent ==
  ASSUME TypeInv, NEW c \in Client
  PROVE  /\ \A k \in Key, i \in Nat : pend[c][ServerOf[k]] = <<>> => ~Sent(c, k, i)
         /\ (\A s \in Server : pend[c][s] = <<>>) => \A k \in Key, i \in Nat : ~Sent(c, k, i)
<1>1. Len(<<>>) = 0
  OBVIOUS
<1>2. ASSUME NEW k \in Key, NEW i \in Nat, pend[c][ServerOf[k]] = <<>> PROVE ~Sent(c, k, i)
  BY <1>1, <1>2 DEF Sent
<1>3. \A k \in Key : ServerOf[k] \in Server
  BY ServerAssumption
<1> QED BY <1>2, <1>3

\* A command is sent: it is the last one about its key.
LEMMA SendSent ==
  ASSUME TypeInv, NEW c \in Client, NEW m \in Order(Unit), Send(c, m)
  PROVE  \E n \in Nat :
         /\ Sent(c, m.key, n)' /\ Val(c, m.key, n)' = m.val /\ m.key \in Key
         /\ \A d \in Client, k \in Key, i \in Nat :
              IF d = c /\ k = m.key THEN /\ Sent(d, k, i)' => i = n \/ (Sent(d, k, i) /\ Val(d, k, i)' = Val(d, k, i))
                                         /\ Sent(d, k, i) => i < n
              ELSE (Sent(d, k, i)' <=> Sent(d, k, i)) /\ (Sent(d, k, i) => Val(d, k, i)' = Val(d, k, i))
<1>1. PICK z \in Server : z = ServerOf[m.key]
  BY KeyServer
<1>2. PICK S : S = Order(Unit)
  OBVIOUS
<1>3. PICK q \in Seq(S) : q = pend[c][z]
  BY <1>1, <1>2 DEF TypeInv
<1>4. PICK a : a = Append(q, m)
  OBVIOUS
<1>5. /\ a \in Seq(S)
      /\ \A i \in Nat : i \in 1 .. Len(a) <=> i \in 1 .. Len(q) \/ i = Len(q) + 1
      /\ \A i \in 1 .. Len(q) : a[i] = q[i]
      /\ a[Len(q) + 1] = m /\ Len(q) \in Nat
  BY <1>2, <1>4, AppendEntries
<1>6. pend' = [pend EXCEPT ![c] = [pend[c] EXCEPT ![z] = a]]
  BY <1>1, <1>3, <1>4 DEF Send
<1>7. pend \in [Client -> [Server -> Seq(S)]]
  BY <1>2 DEF TypeInv
<1>8. /\ pend'[c][z] = a
      /\ \A d \in Client, s \in Server : ~(d = c /\ s = z) => pend'[d][s] = pend[d][s]
  BY <1>6, <1>7
<1>9. PICK n \in Nat : n = Len(q) + 1
  BY <1>5
<1>10. m.key \in Key /\ \A k \in Key : ServerOf[k] \in Server
  BY KeyServer, ServerAssumption
<1>11. n \in 1 .. Len(a) /\ a[n] = m
  BY <1>5, <1>9
<1>12. Sent(c, m.key, n)' /\ Val(c, m.key, n)' = m.val
  <2>1. pend'[c][ServerOf[m.key]] = a
    BY <1>1, <1>8
  <2> QED BY <1>11, <2>1 DEF Sent, Val
<1>13. ASSUME NEW d \in Client, NEW k \in Key, NEW i \in Nat
       PROVE  IF d = c /\ k = m.key THEN /\ Sent(d, k, i)' => i = n \/ (Sent(d, k, i) /\ Val(d, k, i)' = Val(d, k, i))
                                         /\ Sent(d, k, i) => i < n
              ELSE (Sent(d, k, i)' <=> Sent(d, k, i)) /\ (Sent(d, k, i) => Val(d, k, i)' = Val(d, k, i))
  <2>1. PICK y \in Server : y = ServerOf[k]
    BY <1>10
  <2>2. CASE ~(d = c /\ y = z)
    <3>1. pend'[d][ServerOf[k]] = pend[d][ServerOf[k]]
      BY <1>8, <2>1, <2>2
    <3>2. ~(d = c /\ k = m.key)
      BY <1>1, <2>1, <2>2
    <3> QED BY <3>1, <3>2 DEF Sent, Val
  <2>3. CASE d = c /\ y = z
    <3>1. pend'[d][ServerOf[k]] = a /\ pend[d][ServerOf[k]] = q
      BY <1>3, <1>8, <2>1, <2>3
    <3>2. Sent(d, k, i)' <=> i \in 1 .. Len(a) /\ a[i].key = k
      BY <3>1 DEF Sent
    <3>3. Sent(d, k, i) <=> i \in 1 .. Len(q) /\ q[i].key = k
      BY <3>1 DEF Sent
    <3>4. Sent(d, k, i) => i \in 1 .. Len(q) /\ i < n /\ Val(d, k, i)' = Val(d, k, i)
      BY <1>5, <1>9, <3>1, <3>3 DEF Val
    <3>5. i # n => (i \in 1 .. Len(a) <=> i \in 1 .. Len(q))
      BY <1>5, <1>9
    <3>6. i # n => (Sent(d, k, i)' <=> Sent(d, k, i))
      BY <1>5, <3>2, <3>3, <3>5
    <3>7. i = n => (Sent(d, k, i)' <=> k = m.key)
      BY <1>11, <3>2
    <3>8. i = n => ~Sent(d, k, i)
      BY <3>4
    <3>9. CASE k = m.key
      <4>1. ASSUME Sent(d, k, i)', i # n PROVE Sent(d, k, i) /\ Val(d, k, i)' = Val(d, k, i)
        <5>1. Sent(d, k, i)
          BY <3>6, <4>1
        <5> QED BY <3>4, <5>1
      <4>2. Sent(d, k, i) => i < n
        BY <3>4
      <4>3. Sent(d, k, i)' => i = n \/ (Sent(d, k, i) /\ Val(d, k, i)' = Val(d, k, i))
        BY <4>1
      <4> QED BY <2>3, <3>9, <4>2, <4>3
    <3>10. CASE k # m.key
      <4>1. Sent(d, k, i)' <=> Sent(d, k, i)
        BY <3>6, <3>7, <3>8, <3>10
      <4>2. Sent(d, k, i) => Val(d, k, i)' = Val(d, k, i)
        BY <3>4
      <4> QED BY <3>10, <4>1, <4>2
    <3> QED BY <3>9, <3>10
  <2> QED BY <2>2, <2>3
<1> QED BY <1>10, <1>12, <1>13

\* What a client finds after it has sent a command.
LEMMA SendTip ==
  ASSUME TypeInv, NEW c \in Client, NEW m \in Order(Unit), Send(c, m), store' = store
  PROVE  /\ \A v : Tip(c, m.key, v)' => v = m.val
         /\ \A d \in Client, k \in Key : \A v : ~(d = c /\ k = m.key) /\ Tip(d, k, v)' => Tip(d, k, v)
<1>1. PICK n \in Nat :
         /\ Sent(c, m.key, n)' /\ Val(c, m.key, n)' = m.val /\ m.key \in Key
         /\ \A d \in Client, k \in Key, i \in Nat :
              IF d = c /\ k = m.key THEN /\ Sent(d, k, i)' => i = n \/ (Sent(d, k, i) /\ Val(d, k, i)' = Val(d, k, i))
                                         /\ Sent(d, k, i) => i < n
              ELSE (Sent(d, k, i)' <=> Sent(d, k, i)) /\ (Sent(d, k, i) => Val(d, k, i)' = Val(d, k, i))
  BY SendSent
<1>2. ASSUME NEW v, Tip(c, m.key, v)' PROVE v = m.val
  <2>1. PICK i \in Nat : LastSent(c, m.key, i)' /\ v = Val(c, m.key, i)'
    BY <1>1, <1>2 DEF Tip
  <2>2. Sent(c, m.key, i)' /\ n <= i
    BY <1>1, <2>1 DEF LastSent
  <2>3. i = n
    BY <1>1, <2>2
  <2> QED BY <1>1, <2>1, <2>3
<1>3. ASSUME NEW d \in Client, NEW k \in Key, NEW v, ~(d = c /\ k = m.key), Tip(d, k, v)' PROVE Tip(d, k, v)
  <2>1. \A i \in Nat : Sent(d, k, i)' <=> Sent(d, k, i)
    BY <1>1, <1>3
  <2>2. \A i \in Nat : Sent(d, k, i) => Val(d, k, i)' = Val(d, k, i)
    BY <1>1, <1>3
  <2>3. CASE \A i \in Nat : ~Sent(d, k, i)'
    <3>1. v = store'[k]
      BY <1>3, <2>3 DEF Tip, LastSent
    <3> QED BY <2>1, <2>3, <3>1 DEF Tip
  <2>4. CASE ~\A i \in Nat : ~Sent(d, k, i)'
    <3>1. PICK i \in Nat : LastSent(d, k, i)' /\ v = Val(d, k, i)'
      BY <1>3, <2>4 DEF Tip
    <3>2. LastSent(d, k, i)
      BY <2>1, <3>1 DEF LastSent
    <3>3. v = Val(d, k, i)
      BY <2>2, <3>1, <3>2 DEF LastSent
    <3> QED BY <3>2, <3>3 DEF Tip
  <2> QED BY <2>3, <2>4
<1> QED BY <1>2, <1>3

\* A server takes the first command of a connection.
LEMMA ServeSent ==
  ASSUME TypeInv, Routed, NEW c \in Client, NEW s \in Server, Serve(c, s)
  PROVE  \E m \in Order(Unit) :
         /\ m.key \in Key /\ ServerOf[m.key] = s /\ Sent(c, m.key, 1) /\ Val(c, m.key, 1) = m.val
         /\ Sound(m)
         /\ \A k \in Key : k # m.key => store'[k] = store[k]
         /\ ~m.add => store'[m.key] = m.val
         /\ \A k \in Key, i \in Nat : ServerOf[k] = s =>
              /\ i + 1 \in Nat /\ (Sent(c, k, i)' <=> i # 0 /\ Sent(c, k, i + 1))
              /\ Sent(c, k, i)' => Val(c, k, i)' = Val(c, k, i + 1)
         /\ \A d \in Client, k \in Key, i \in Nat : ~(d = c /\ ServerOf[k] = s) =>
              (Sent(d, k, i)' <=> Sent(d, k, i)) /\ Val(d, k, i)' = Val(d, k, i)
<1>1. PICK S : S = Order(Unit)
  OBVIOUS
<1>2. PICK q \in Seq(S) : q = pend[c][s]
  BY <1>1 DEF TypeInv
<1>3. PICK a, m : a = Tail(q) /\ m = Head(q)
  OBVIOUS
<1>4. /\ a \in Seq(S) /\ m \in S /\ m = q[1] /\ 1 \in 1 .. Len(q)
      /\ \A i \in 1 .. Len(a) : i + 1 \in 1 .. Len(q) /\ a[i] = q[i + 1] /\ i \in Nat
  BY <1>2, <1>3, TailEntries DEF Serve
<1>5. pend \in [Client -> [Server -> Seq(S)]]
  BY <1>1 DEF TypeInv
<1>6. pend' = [pend EXCEPT ![c] = [pend[c] EXCEPT ![s] = a]]
  BY <1>2, <1>3 DEF Serve
<1>7. /\ pend'[c][s] = a
      /\ \A d \in Client, z \in Server : ~(d = c /\ z = s) => pend'[d][z] = pend[d][z]
  BY <1>5, <1>6
<1>8. m.key \in Key /\ m \in Order(Unit) /\ \A k \in Key : ServerOf[k] \in Server
  BY <1>1, <1>4, KeyServer, ServerAssumption
<1>9. ServerOf[m.key] = s /\ Sound(m)
  BY <1>2, <1>4 DEF Routed
<1>10. Sent(c, m.key, 1) /\ Val(c, m.key, 1) = m.val
  BY <1>2, <1>4, <1>9 DEF Sent, Val
<1>11. store' = IF m.add /\ store[m.key] # Absent THEN store ELSE [store EXCEPT ![m.key] = m.val]
  BY <1>2, <1>3 DEF Serve, Applied
<1>12. (\A k \in Key : k # m.key => store'[k] = store[k]) /\ (~m.add => store'[m.key] = m.val)
  <2>1. store \in [Key -> Item(Unit) \cup Info]
    BY DEF TypeInv
  <2> QED BY <1>8, <1>11, <2>1
<1>13. Len(a) = Len(q) - 1 /\ Len(q) \in Nat /\ Len(a) \in Nat
  BY <1>2, <1>3, <1>4
<1>14. ASSUME NEW k \in Key, NEW i \in Nat, ServerOf[k] = s
       PROVE  /\ i + 1 \in Nat /\ (Sent(c, k, i)' <=> i # 0 /\ Sent(c, k, i + 1))
              /\ Sent(c, k, i)' => Val(c, k, i)' = Val(c, k, i + 1)
  <2>1. pend'[c][ServerOf[k]] = a /\ pend[c][ServerOf[k]] = q
    BY <1>2, <1>7, <1>14
  <2>2. Sent(c, k, i)' <=> i \in 1 .. Len(a) /\ a[i].key = k
    BY <2>1 DEF Sent
  <2>3. Sent(c, k, i + 1) <=> i + 1 \in 1 .. Len(q) /\ q[i + 1].key = k
    BY <2>1 DEF Sent
  <2>4. i \in 1 .. Len(a) <=> i # 0 /\ i + 1 \in 1 .. Len(q)
    BY <1>13
  <2>5. i \in 1 .. Len(a) => a[i] = q[i + 1]
    BY <1>4
  <2>6. Sent(c, k, i)' <=> i # 0 /\ Sent(c, k, i + 1)
    BY <2>2, <2>3, <2>4, <2>5
  <2>7. Sent(c, k, i)' => Val(c, k, i)' = Val(c, k, i + 1)
    BY <2>1, <2>2, <2>5 DEF Val
  <2> QED BY <2>6, <2>7
<1>15. ASSUME NEW d \in Client, NEW k \in Key, NEW i \in Nat, ~(d = c /\ ServerOf[k] = s)
       PROVE  (Sent(d, k, i)' <=> Sent(d, k, i)) /\ Val(d, k, i)' = Val(d, k, i)
  <2>1. pend'[d][ServerOf[k]] = pend[d][ServerOf[k]]
    BY <1>7, <1>8, <1>15
  <2> QED BY <2>1 DEF Sent, Val
<1> QED BY <1>8, <1>9, <1>10, <1>12, <1>14, <1>15

\* What a client finds does not change when its own command is taken, or one
\* about another item.
LEMMA ServeTip ==
  ASSUME TypeInv, Routed, NEW c \in Client, NEW s \in Server, Serve(c, s)
  PROVE  /\ \A k \in Key \ {InfoKey} : \A v : Tip(c, k, v)' => Tip(c, k, v)
         /\ \A d \in Client \ {c}, k \in Key \ {InfoKey} : \A v : ~Sent(c, k, 1) /\ Tip(d, k, v)' => Tip(d, k, v)
<1>1. PICK m \in Order(Unit) :
         /\ m.key \in Key /\ ServerOf[m.key] = s /\ Sent(c, m.key, 1) /\ Val(c, m.key, 1) = m.val
         /\ Sound(m)
         /\ \A k \in Key : k # m.key => store'[k] = store[k]
         /\ ~m.add => store'[m.key] = m.val
         /\ \A k \in Key, i \in Nat : ServerOf[k] = s =>
              /\ i + 1 \in Nat /\ (Sent(c, k, i)' <=> i # 0 /\ Sent(c, k, i + 1))
              /\ Sent(c, k, i)' => Val(c, k, i)' = Val(c, k, i + 1)
         /\ \A d \in Client, k \in Key, i \in Nat : ~(d = c /\ ServerOf[k] = s) =>
              (Sent(d, k, i)' <=> Sent(d, k, i)) /\ Val(d, k, i)' = Val(d, k, i)
  BY ServeSent
<1>2. ASSUME NEW d \in Client, NEW k \in Key \ {InfoKey}, NEW v, ~(d = c /\ ServerOf[k] = s), store'[k] = store[k], Tip(d, k, v)'
      PROVE  Tip(d, k, v)
  <2>1. \A i \in Nat : (Sent(d, k, i)' <=> Sent(d, k, i)) /\ Val(d, k, i)' = Val(d, k, i)
    BY <1>1, <1>2
  <2>2. CASE v = store'[k] /\ \A i \in Nat : ~Sent(d, k, i)'
    BY <1>2, <2>1, <2>2 DEF Tip
  <2>3. CASE \E i \in Nat : LastSent(d, k, i)' /\ v = Val(d, k, i)'
    <3>1. PICK i \in Nat : LastSent(d, k, i)' /\ v = Val(d, k, i)'
      BY <2>3
    <3>2. LastSent(d, k, i) /\ v = Val(d, k, i)
      BY <2>1, <3>1 DEF LastSent
    <3> QED BY <3>2 DEF Tip
  <2> QED BY <1>2, <2>2, <2>3 DEF Tip
<1>3. ASSUME NEW k \in Key \ {InfoKey}, NEW v, ServerOf[k] = s, Tip(c, k, v)'
      PROVE  Tip(c, k, v)
  <2>1. \A i \in Nat : i + 1 \in Nat /\ (Sent(c, k, i)' <=> i # 0 /\ Sent(c, k, i + 1))
    BY <1>1, <1>3
  <2>2. \A i \in Nat : Sent(c, k, i)' => Val(c, k, i)' = Val(c, k, i + 1)
    BY <1>1, <1>3
  <2>3. ~Sent(c, k, 0)
    <3>1. pend[c][ServerOf[k]] \in Seq(Order(Unit))
      BY ServerAssumption DEF TypeInv
    <3> QED BY <3>1 DEF Sent
  <2>4. \A j \in Nat : Sent(c, k, j) /\ j # 1 => \E i \in Nat : j = i + 1 /\ i # 0 /\ Sent(c, k, i)'
    <3> SUFFICES ASSUME NEW j \in Nat, Sent(c, k, j), j # 1 PROVE \E i \in Nat : j = i + 1 /\ i # 0 /\ Sent(c, k, i)'
      OBVIOUS
    <3>1. j # 0
      BY <2>3
    <3>2. PICK i \in Nat : j = i + 1 /\ i # 0
      <4>1. j - 1 \in Nat /\ j = (j - 1) + 1 /\ j - 1 # 0
        BY <3>1
      <4> QED BY <4>1
    <3>3. Sent(c, k, i)'
      BY <2>1, <3>2
    <3> QED BY <3>2, <3>3
  <2>5. CASE v = store'[k] /\ \A i \in Nat : ~Sent(c, k, i)'
    <3>1. \A j \in Nat : Sent(c, k, j) => j = 1
      BY <2>4, <2>5
    <3>2. CASE m.key = k
      <4>1. LastSent(c, k, 1)
        BY <1>1, <3>1, <3>2 DEF LastSent
      <4>2. v = Val(c, k, 1)
        BY <1>1, <2>5, <3>2 DEF Sound
      <4> QED BY <4>1, <4>2 DEF Tip
    <3>3. CASE m.key # k
      <4>1. ~Sent(c, k, 1)
        BY <1>1, <1>3, <3>3 DEF Sent
      <4>2. v = store[k] /\ \A j \in Nat : ~Sent(c, k, j)
        BY <1>1, <2>5, <3>1, <3>3, <4>1
      <4> QED BY <4>2 DEF Tip
    <3> QED BY <3>2, <3>3
  <2>6. CASE \E i \in Nat : LastSent(c, k, i)' /\ v = Val(c, k, i)'
    <3>1. PICK i \in Nat : LastSent(c, k, i)' /\ v = Val(c, k, i)'
      BY <2>6
    <3>2. Sent(c, k, i)' /\ \A j \in Nat : Sent(c, k, j)' => j <= i
      BY <3>1 DEF LastSent
    <3>3. i + 1 \in Nat /\ Sent(c, k, i + 1) /\ v = Val(c, k, i + 1) /\ i # 0
      BY <2>1, <2>2, <3>1, <3>2
    <3>4. ASSUME NEW j \in Nat, Sent(c, k, j) PROVE j <= i + 1
      <4>1. CASE j # 1
        <5>1. PICK l \in Nat : j = l + 1 /\ l # 0 /\ Sent(c, k, l)'
          BY <2>4, <3>4, <4>1
        <5>2. l <= i
          BY <3>2, <5>1
        <5> QED BY <5>1, <5>2
      <4> QED BY <3>3, <4>1
    <3>5. LastSent(c, k, i + 1)
      BY <3>3, <3>4 DEF LastSent
    <3> QED BY <3>3, <3>5 DEF Tip
  <2> QED BY <1>3, <2>5, <2>6 DEF Tip
<1>4. ASSUME NEW k \in Key \ {InfoKey}, ServerOf[k] # s PROVE store'[k] = store[k]
  BY <1>1, <1>4
<1>5. ASSUME NEW k \in Key \ {InfoKey}, ~Sent(c, k, 1) PROVE store'[k] = store[k]
  BY <1>1, <1>5
<1> QED BY <1>2, <1>3, <1>4, <1>5

(***************************************************************************)
(* What a step leaves as it is.                                            *)
(***************************************************************************)

\* Chunks: the next word of a put is one of the client's own.
LEMMA NextWord ==
  ASSUME TypeInv, NEW c \in Client, Chunks(c), Putting(c), at[c] < KTail(range[c])
  PROVE  at[c] \in Owned(c) /\ at[c] \in Word /\ at[c] \in Span(range[c])
<1>1. range[c] \in Puts[c] /\ range[c] \in Nat \X Nat /\ at[c] \in Nat /\ range[c][1] <= at[c]
  BY DEF Chunks, TypeInv, Doing, Putting
<1>2. at[c] \in Span(range[c])
  BY <1>1 DEF Span, KTail
<1> QED BY <1>1, <1>2, OwnedWords

\* Client d keeps its data if neither its puts, nor what it finds in its blocks,
\* nor the history of their words changes.
LEMMA DataKept ==
  ASSUME TypeInv, BlocksApart, NEW d \in Client, Data(d), Chunks(d), UNCHANGED mode,
         pc'[d] = pc[d] \/ (~Putting(d) /\ ~Putting(d)'),
         Putting(d) => range'[d] = range[d] /\ at'[d] = at[d] /\ buf'[d] = buf[d],
         \A w \in Word : Free(d, w) => begun'[w] = begun[w] /\ latest'[w] = latest[w],
         \A w \in Word, k \in Key : k = w \div Unit /\ Free(d, w) => \A v : Tip(d, k, v)' => Tip(d, k, v),
         \A k \in Key \ {InfoKey}, i \in Nat : Sent(d, k, i)' => \E j \in Nat : Sent(d, k, j)
  PROVE  Data(d)'
<1>1. Unit' = Unit
  BY DEF mode, Unit
<1>2. ASSUME NEW w PROVE Free(d, w)' <=> Free(d, w)
  BY <1>1 DEF Free
<1>3. ASSUME NEW w PROVE Writing(d, w)' <=> Writing(d, w)
  <2>1. CASE pc'[d] = pc[d]
    BY <2>1 DEF Writing, Putting
  <2>2. CASE ~Putting(d) /\ ~Putting(d)'
    BY <2>2 DEF Writing
  <2> QED BY <2>1, <2>2
<1>4. ASSUME NEW w \in Word, Free(d, w) PROVE Due(d, w)' = Due(d, w)
  <2>1. begun'[w] = begun[w] /\ latest'[w] = latest[w]
    BY <1>4
  <2>2. Writing(d, w) => at'[d] = at[d]
    BY DEF Writing
  <2> QED BY <1>3, <2>1, <2>2 DEF Due
<1>5. History(d)'
  <2> SUFFICES ASSUME NEW w \in Word, Free(d, w)' PROVE begun'[w] = IF Writing(d, w)' THEN latest'[w] + 1 ELSE latest'[w]
    BY DEF History
  <2>1. begun[w] = IF Writing(d, w) THEN latest[w] + 1 ELSE latest[w]
    BY <1>2 DEF Data, History
  <2> QED BY <1>2, <1>3, <2>1
<1>6. Last(d)'
  <2> SUFFICES ASSUME NEW w \in Word, NEW k \in Key, k = w \div Unit', Free(d, w)', NEW v, Tip(d, k, v)'
               PROVE  At(v, w)' = Due(d, w)'
    BY DEF Last
  <2>1. Tip(d, k, v)
    BY <1>1, <1>2
  <2>2. At(v, w) = Due(d, w)
    BY <1>1, <1>2, <2>1 DEF Data, Last
  <2> QED BY <1>1, <1>2, <1>4, <2>2 DEF At
<1>7. Merging(d)'
  <2> SUFFICES ASSUME pc'[d] = "merge", NEW w \in Word, NEW b, b = buf'[d], w \div Unit' = at'[d] \div Unit'
               PROVE  At(b, w)' = Due(d, w)'
    BY DEF Merging
  <2>1. pc[d] = "merge" /\ Putting(d) /\ at'[d] = at[d] /\ b = buf[d]
    BY DEF Putting
  <2>2. at[d] < KTail(range[d])
    BY <2>1 DEF TypeInv, Doing
  <2>3. at[d] \in Owned(d) /\ at[d] \div Unit = w \div Unit
    BY <1>1, <2>1, <2>2, NextWord
  <2>4. Free(d, w)
    BY <2>3, OwnFree
  <2>5. At(b, w) = Due(d, w)
    BY <2>1, <2>3 DEF Data, Merging
  <2> QED BY <1>1, <1>4, <2>1, <2>4, <2>5 DEF At
<1>8. Sends(d)'
  <2> SUFFICES ASSUME NEW k \in Key \ {InfoKey}, NEW i \in Nat, Sent(d, k, i)' PROVE \E x \in Owned(d) : x \div Unit' = k
    BY DEF Sends
  <2> QED BY <1>1 DEF Data, Sends
<1> QED BY <1>5, <1>6, <1>7, <1>8 DEF Data

\* A read keeps what it has found while puts go on.
LEMMA ReadingKept ==
  ASSUME TypeInv, WordType, NEW d \in Client, Reading(d), UNCHANGED mode, pc'[d] = "read" => pc[d] = "read",
         pc[d] = "read" => range'[d] = range[d] /\ at'[d] = at[d] /\ buf'[d] = buf[d] /\ since'[d] = since[d]
                           /\ \A w \in Word : /\ begun'[w] \in Nat /\ begun[w] <= begun'[w]
                                              /\ latest'[w] \in Nat /\ latest[w] <= latest'[w]
  PROVE  Reading(d)'
<1> SUFFICES ASSUME pc'[d] = "read" PROVE Reading(d)'
  BY DEF Reading
<1>1. /\ pc[d] = "read" /\ range'[d] = range[d] /\ at'[d] = at[d] /\ buf'[d] = buf[d] /\ since'[d] = since[d]
      /\ \A w \in Word : begun'[w] \in Nat /\ begun[w] <= begun'[w] /\ latest'[w] \in Nat /\ latest[w] <= latest'[w]
  OBVIOUS
<1>2. PICK a, r, b, z : a = at[d] /\ r = range[d] /\ b = buf[d] /\ z = since[d]
  OBVIOUS
<1>3. /\ a \in r[1] .. KTail(r) /\ b \in Seq(Nat) /\ Len(b) = a - r[1]
      /\ \A j \in 1 .. Len(b), w \in Word : w = r[1] + j - 1 => \A x \in {b[j]} : Found(d, w, x)
      /\ \A w \in Word : z[w] <= latest[w]
  BY <1>1, <1>2 DEF Reading
<1>4. r \in Nat \X Nat /\ KTail(r) <= Size /\ a \in Nat /\ z \in [Word -> Nat] /\ Size \in Nat
  BY <1>2, Numbers DEF TypeInv, Doing, WordType
<1>5. reply' = reply
  BY DEF mode
<1>6. ASSUME NEW j \in 1 .. Len(b), NEW w \in Word, w = r[1] + j - 1, NEW x, x = b[j] PROVE Found(d, w, x)'
  <2>1. x \in Nat /\ Found(d, w, x)
    <3>1. b \in Seq(Nat) /\ \A i \in 1 .. Len(b), y \in Word : y = r[1] + i - 1 => \A q \in {b[i]} : Found(d, y, q)
      BY <1>3
    <3>2. x \in Nat
      BY <1>6, <3>1
    <3>3. \A q \in {b[j]} : Found(d, w, q)
      BY <1>6, <3>1
    <3> QED BY <1>6, <3>2, <3>3
  <2>2. begun[w] \in Nat /\ begun'[w] \in Nat /\ begun[w] <= begun'[w]
    BY <1>1 DEF TypeInv
  <2>3. x <= begun'[w]
    BY <2>1, <2>2 DEF Found
  <2> QED BY <1>1, <1>5, <2>1, <2>3 DEF Found
<1>7. ASSUME NEW w \in Word PROVE z[w] <= latest'[w]
  <2>1. z[w] \in Nat /\ latest[w] \in Nat /\ latest'[w] \in Nat /\ z[w] <= latest[w] /\ latest[w] <= latest'[w]
    BY <1>1, <1>3, <1>4 DEF WordType
  <2> QED BY <2>1
<1> QED BY <1>1, <1>2, <1>3, <1>6, <1>7 DEF Reading, KTail

\* While a client puts or reads, or the object is there, nobody deletes it.
LEMMA LiveNow ==
  ASSUME StorageInv, NEW c \in Client, Putting(c) \/ pc[c] = "read" \/ creators # {}
  PROVE  Live /\ ~Dying /\ (reply => creators # {})
<1>1. ASSUME NEW e \in Client, reply, Deleter(e) PROVE FALSE
  <2>1. Cleared(e)
    BY <1>1 DEF StorageInv, DataInv
  <2>2. creators = {} /\ (pc[e] = "idle" \/ pc[e] = "del") /\ \A d \in Client \ {e} : pc[d] \in {"idle", "alloc", "aborted"}
    BY <2>1 DEF Cleared
  <2> QED BY <2>2 DEF Putting
<1>2. ~Dying
  BY <1>1 DEF Dying
<1>3. Live
  BY <1>2 DEF StorageInv, DataInv
<1> QED BY <1>2, <1>3 DEF Live, Clean

(***************************************************************************)
(* putchunk.                                                               *)
(***************************************************************************)

\* Commands that do not change.
LEMMA RoutedSame ==
  ASSUME UNCHANGED mode
  PROVE  (\A m : Sound(m)' <=> Sound(m)) /\ (Routed /\ UNCHANGED pend => Routed')
<1>1. ItemCount' = ItemCount /\ reply' = reply
  BY DEF ItemCount, mode, Unit
<1>2. \A m : Sound(m)' <=> Sound(m)
  BY <1>1 DEF Sound
<1> QED BY <1>2 DEF Routed

\* A command goes to the server of its key.
LEMMA RoutedSend ==
  ASSUME TypeInv, Routed, NEW c \in Client, NEW m \in Order(Unit), Send(c, m), UNCHANGED mode,
         Sound(m)
  PROVE  Routed'
<1>1. PICK z \in Server : z = ServerOf[m.key]
  BY KeyServer
<1>2. PICK S : S = Order(Unit)
  OBVIOUS
<1>3. PICK q \in Seq(S) : q = pend[c][z]
  BY <1>1, <1>2 DEF TypeInv
<1>4. PICK a : a = Append(q, m)
  OBVIOUS
<1>5. /\ \A i \in Nat : i \in 1 .. Len(a) <=> i \in 1 .. Len(q) \/ i = Len(q) + 1
      /\ \A i \in 1 .. Len(q) : a[i] = q[i]
      /\ a[Len(q) + 1] = m /\ Len(q) \in Nat /\ Len(a) \in Nat
  BY <1>2, <1>4, AppendEntries
<1>6. pend' = [pend EXCEPT ![c] = [pend[c] EXCEPT ![z] = a]] /\ pend \in [Client -> [Server -> Seq(S)]]
  BY <1>1, <1>2, <1>3, <1>4 DEF Send, TypeInv
<1>7. /\ pend'[c][z] = a
      /\ \A d \in Client, s \in Server : ~(d = c /\ s = z) => pend'[d][s] = pend[d][s]
  BY <1>6
<1> SUFFICES ASSUME NEW d \in Client, NEW s \in Server, NEW i \in 1 .. Len(pend'[d][s]), NEW o, o = pend'[d][s][i]
             PROVE  ServerOf[o.key] = s /\ Sound(o)'
  BY DEF Routed
<1>8. SUFFICES ServerOf[o.key] = s /\ Sound(o)
  BY RoutedSame
<1>9. CASE ~(d = c /\ s = z)
  BY <1>7, <1>9 DEF Routed
<1>10. CASE d = c /\ s = z
  <2>1. pend'[d][s] = a /\ pend[d][s] = q /\ i \in Nat
    BY <1>3, <1>5, <1>7, <1>10
  <2>2. CASE i \in 1 .. Len(q)
    <3>1. o = pend[d][s][i] /\ i \in 1 .. Len(pend[d][s])
      BY <1>5, <2>1, <2>2
    <3> QED BY <3>1 DEF Routed
  <2>3. CASE i = Len(q) + 1
    <3>1. o = m
      BY <1>5, <2>1, <2>3
    <3> QED BY <1>1, <1>10, <3>1
  <2> QED BY <1>5, <2>1, <2>2, <2>3
<1> QED BY <1>9, <1>10

\* Words between two multiples of the block size.
LEMMA SameBlock ==
  ASSUME NEW u \in Nat \ {0}, NEW n \in Nat, NEW a \in Nat
  PROVE  (a * u <= n /\ n < a * u + u) <=> n \div u = a
<1>1. PICK q \in Nat, m \in Nat : q = n \div u /\ m = n % u /\ n = q * u + m /\ m < u
  BY Divided
<1>2. a * u \in Nat /\ q * u \in Nat
  OBVIOUS
<1>3. q + 1 <= a => (q + 1) * u <= a * u
  BY Times
<1>4. a + 1 <= q => (a + 1) * u <= q * u
  BY Times
<1>5. (q + 1) * u = q * u + u /\ (a + 1) * u = a * u + u
  OBVIOUS
<1>6. ASSUME a * u <= n, n < a * u + u PROVE q = a
  BY <1>1, <1>2, <1>3, <1>4, <1>5, <1>6
<1>7. ASSUME q = a PROVE a * u <= n /\ n < a * u + u
  BY <1>1, <1>2, <1>7
<1> QED BY <1>1, <1>6, <1>7

\* A piece of a chunk lies in one block, and is the whole of it if the block is
\* not read before.
LEMMA PieceBlock ==
  ASSUME TypeInv, NEW r \in Nat \X Nat, NEW i \in Nat, r[1] <= i, i < KTail(r), i = r[1] \/ Aligned(i)
  PROVE  \A w \in Nat : /\ i <= w /\ w < Piece(r, i).end => w \div Unit = i \div Unit
                        /\ ~Piece(r, i).merge /\ w \div Unit = i \div Unit => i <= w /\ w < Piece(r, i).end
<1>1. PICK u \in Nat \ {0} : u = Unit
  BY Words
<1>2. PICK f \in Nat, t \in Nat : f = r[1] /\ t = KTail(r)
  BY DEF KTail
<1>3. PICK q \in Nat, m \in Nat : q = f \div u /\ m = f % u /\ f = q * u + m /\ m < u
  BY Divided
<1>4. PICK z \in Nat, y \in Nat : z = t \div u /\ y = t % u /\ t = z * u + y /\ y < u
  BY Divided
<1>5. PICK h : h = IF m # 0 THEN q * u + u ELSE f
  OBVIOUS
<1>6. KStart(r[1]) = h /\ KEnd(r) = z * u
  BY <1>1, <1>2, <1>3, <1>4, <1>5 DEF KStart, KEnd
<1>7. q * u \in Nat /\ z * u \in Nat /\ h \in Nat
  BY <1>2, <1>5
<1>8. PICK e : e = Piece(r, i).end
  OBVIOUS
<1>9. ASSUME NEW a \in Nat, a * u <= i, e <= a * u + u, e \in Nat, NEW w \in Nat, i <= w, w < e, i < e
      PROVE  w \div u = i \div u
  <2>1. a * u \in Nat
    OBVIOUS
  <2>2. PICK b \in Nat : b = a * u
    BY <2>1
  <2>4. b <= w /\ w < b + u /\ i < b + u /\ b <= i
    BY <1>9, <2>2
  <2>3. w \div u = a /\ i \div u = a
    BY <2>2, <2>4, SameBlock
  <2> QED BY <2>3
<1>10. CASE i < h
  <2>1. e = Least(h, t) /\ Piece(r, i).merge = TRUE
    BY <1>2, <1>6, <1>8, <1>10 DEF Piece
  <2>2. m # 0 /\ h = q * u + u
    BY <1>2, <1>5, <1>10
  <2>3. q * u <= i /\ e <= q * u + u /\ e \in Nat /\ i < e
    <3>1. PICK b \in Nat : b = q * u
      BY <1>7
    <3>2. f = b + m /\ h = b + u /\ f <= i /\ i < t
      BY <1>2, <1>3, <2>2, <3>1
    <3>3. (e = h \/ e = t) /\ e <= h /\ e <= t
      BY <1>7, <2>1 DEF Least
    <3>4. b <= i /\ e <= b + u /\ e \in Nat /\ i < e
      BY <1>7, <1>10, <3>2, <3>3
    <3> QED BY <3>1, <3>4
  <2>4. \A w \in Nat : i <= w /\ w < e => w \div u = i \div u
    BY <1>9, <2>3
  <2> QED BY <1>1, <1>8, <2>1, <2>4
<1>11. CASE ~(i < h) /\ i < z * u
  <2>1. e = i + u
    BY <1>1, <1>6, <1>8, <1>11 DEF Piece
  <2>2. PICK a \in Nat : i = a * u
    <3>1. CASE i = f
      <4>1. m = 0
        BY <1>3, <1>5, <1>7, <1>11, <3>1
      <4>2. i = q * u
        BY <1>3, <1>7, <3>1, <4>1
      <4> QED BY <4>2
    <3>2. CASE Aligned(i)
      BY <1>1, <3>2 DEF Aligned
    <3> QED BY <1>2, <3>1, <3>2
  <2>3. \A w \in Nat : i <= w /\ w < e => w \div u = i \div u
    <3>1. a * u <= i /\ e <= a * u + u /\ e \in Nat /\ i < e
      BY <2>1, <2>2
    <3> QED BY <1>9, <3>1
  <2>4. ASSUME NEW w \in Nat, w \div u = i \div u PROVE i <= w /\ w < e
    <3>1. i < a * u + u /\ a * u <= i
      BY <2>2
    <3>2. i \div u = a
      BY <3>1, SameBlock
    <3>3. a * u <= w /\ w < a * u + u
      BY <2>4, <3>2, SameBlock
    <3> QED BY <2>1, <2>2, <3>3
  <2> QED BY <1>1, <1>8, <2>3, <2>4
<1>12. CASE ~(i < h) /\ ~(i < z * u)
  <2>1. e = t /\ Piece(r, i).merge = TRUE
    BY <1>2, <1>6, <1>8, <1>12 DEF Piece
  <2>2. z * u <= i /\ e <= z * u + u /\ e \in Nat /\ i < e
    <3>1. PICK b \in Nat : b = z * u
      BY <1>7
    <3>2. t = b + y /\ ~(i < b)
      BY <1>4, <1>12, <3>1
    <3>3. i < t
      BY <1>2
    <3>4. b <= i /\ e <= b + u /\ e \in Nat /\ i < e
      BY <1>4, <2>1, <3>2, <3>3
    <3> QED BY <3>1, <3>4
  <2>3. \A w \in Nat : i <= w /\ w < e => w \div u = i \div u
    BY <1>9, <2>2
  <2> QED BY <1>1, <1>8, <2>1, <2>3
<1> QED BY <1>10, <1>11, <1>12

\* A block is not the absence of one.
LEMMA BlockThere ==
  ASSUME NEW u \in Nat \ {0}, NEW v \in [0 .. u - 1 -> Nat]
  PROVE  v # Absent
<1>1. 0 \in DOMAIN v
  OBVIOUS
<1>2. 0 \notin DOMAIN <<>>
  OBVIOUS
<1> QED BY <1>1, <1>2 DEF Absent

\* The words of a block with new ones.
LEMMA MergedAt ==
  ASSUME TypeInv, NEW old \in [0 .. Unit - 1 -> Nat], NEW i \in Nat, NEW e \in Nat, e <= Size,
         NEW w \in Word, w \div Unit = i \div Unit, NEW v, v = Merged(old, i, e)
  PROVE  At(v, w) = IF w \in i .. e - 1 THEN begun[w] ELSE At(old, w)
<1>1. PICK u \in Nat \ {0} : u = Unit
  BY Words
<1>2. v \in [0 .. u - 1 -> Nat]
  BY <1>1, MergedType
<1>3. v # Absent /\ old # Absent
  BY <1>1, <1>2, BlockThere
<1>4. w \in Nat
  BY WordItem
<1>5. PICK q \in Nat, m \in Nat : q = w \div u /\ m = w % u /\ w = q * u + m /\ m < u
  BY <1>4, Divided
<1>6. m \in 0 .. u - 1
  BY <1>5
<1>7. v[m] = LET x == (i \div u) * u + m IN IF x \in i .. e - 1 THEN begun[x] ELSE old[m]
  BY <1>1, <1>6 DEF Merged
<1>8. (i \div u) * u + m = w
  BY <1>1, <1>5
<1> QED BY <1>1, <1>3, <1>5, <1>7, <1>8 DEF At

\* A put that returned is not ahead of one that began.
LEMMA HistoryOrder ==
  ASSUME TypeInv, WordType, NEW c \in Client, Data(c), NEW w \in Word, Free(c, w)
  PROVE  latest[w] \in Nat /\ begun[w] \in Nat /\ latest[w] <= begun[w] /\ Due(c, w) \in {latest[w], begun[w]}
<1>1. latest[w] \in Nat /\ begun[w] \in Nat
  BY DEF TypeInv, WordType
<1>2. begun[w] = latest[w] + 1 \/ begun[w] = latest[w]
  BY DEF Data, History
<1> QED BY <1>1, <1>2 DEF Due

\* Versions stay within the bounds while the history does not change.
LEMMA BetweenKept ==
  ASSUME UNCHANGED <<mode, begun, latest>>, NEW v, NEW w
  PROVE  Between(v, w)' <=> Between(v, w)
<1>1. Unit' = Unit /\ reply' = reply
  BY DEF mode, Unit
<1> QED BY <1>1 DEF Between, At

\* Client c sends a piece of its chunk.
SendsPiece(c, m) ==
  /\ Putting(c) /\ at[c] < KTail(range[c])
  /\ m \in Order(Unit) /\ m.key = at[c] \div Unit /\ m.add = FALSE /\ Send(c, m)
  /\ UNCHANGED <<mode, store, begun, latest>>
  /\ pc'[c] = "put" /\ range'[c] = range[c] /\ at'[c] = Piece(range[c], at[c]).end

\* The words due after a piece was sent.
LEMMA PieceDue ==
  ASSUME TypeInv, NEW c \in Client, NEW m, SendsPiece(c, m), NEW w \in Word
  PROVE  /\ Due(c, w)' = IF at[c] <= w /\ w < at'[c] THEN begun[w] ELSE Due(c, w)
         /\ w \div Unit # m.key => Due(c, w)' = Due(c, w)
         /\ Writing(c, w)' <=> Writing(c, w)
<1>1. PICK a, r, e : a = at[c] /\ r = range[c] /\ e = Piece(r, a).end
  OBVIOUS
<1>2. /\ r \in Nat \X Nat /\ a \in Nat /\ r[1] <= a /\ a < KTail(r) /\ (a = r[1] \/ Aligned(a)) /\ at'[c] = e
  BY <1>1 DEF TypeInv, Doing, SendsPiece, Putting
<1>3. e \in Nat /\ a < e
  BY <1>1, <1>2, PieceInside
<1>4. Writing(c, w)' <=> Writing(c, w)
  BY DEF Writing, Putting, SendsPiece
<1>5. w \in Nat
  BY WordItem
<1>6. begun'[w] = begun[w] /\ latest'[w] = latest[w]
  BY DEF SendsPiece
<1>7. Due(c, w)' = IF a <= w /\ w < e THEN begun[w] ELSE Due(c, w)
  <2>1. CASE a <= w /\ w < e
    <3>1. ~(at'[c] <= w)
      BY <1>2, <1>3, <1>5, <2>1
    <3> QED BY <1>6, <2>1, <3>1 DEF Due
  <2>2. CASE ~(a <= w /\ w < e)
    <3>1. a <= w <=> at'[c] <= w
      BY <1>2, <1>3, <1>5, <2>2
    <3> QED BY <1>1, <1>4, <1>6, <2>2, <3>1 DEF Due
  <2> QED BY <2>1, <2>2
<1>8. w \div Unit # m.key => ~(a <= w /\ w < e)
  <2>1. m.key = a \div Unit
    BY <1>1 DEF SendsPiece
  <2> QED BY <1>1, <1>2, <1>5, <2>1, PieceBlock
<1> QED BY <1>1, <1>2, <1>4, <1>7, <1>8

\* Data and bounds after a piece was sent.
LEMMA PutSends ==
  ASSUME StorageInv, BlocksApart, Live, NEW c \in Client, NEW m, SendsPiece(c, m),
         \A w \in Word : \A v : w \div Unit = m.key /\ v = m.val =>
           At(v, w) = IF at[c] <= w /\ w < at'[c] THEN begun[w] ELSE Due(c, w)
  PROVE  Data(c)' /\ Bounds' /\ Routed'
<1>0. /\ TypeInv /\ WordType /\ Routed /\ Data(c) /\ Chunks(c) /\ Bounds
      /\ m \in Order(Unit) /\ m.key = at[c] \div Unit /\ m.add = FALSE /\ Send(c, m) /\ store' = store /\ UNCHANGED <<mode, begun, latest>>
  BY DEF StorageInv, UserInv, DataInv, Live, SendsPiece
<1>1. Unit' = Unit
  BY <1>0 DEF mode, Unit
<1>2. at[c] \in Owned(c) /\ at[c] \in Word
  BY <1>0, NextWord DEF SendsPiece
<1>3. m.key \in Key \ {InfoKey} /\ m.key < ItemCount
  BY <1>0, <1>2, WordItem
<1>4. Routed'
  <2>1. Sound(m)
    BY <1>0, <1>3 DEF Sound
  <2> QED BY <1>0, <2>1, RoutedSend
<1>5. ASSUME NEW w \in Word, w \div Unit = m.key PROVE Free(c, w)
  BY <1>0, <1>2, <1>5, OwnFree
<1>6. ASSUME NEW w \in Word, w \div Unit = m.key, NEW v, v = m.val PROVE At(v, w)' = Due(c, w)' /\ At(v, w)' = At(v, w)
  <2>1. At(v, w) = IF at[c] <= w /\ w < at'[c] THEN begun[w] ELSE Due(c, w)
    BY <1>6
  <2>2. At(v, w)' = At(v, w)
    BY <1>1 DEF At
  <2> QED BY <1>0, <2>1, <2>2, PieceDue
<1>7. /\ \A v : Tip(c, m.key, v)' => v = m.val
      /\ \A d \in Client, k \in Key : \A v : ~(d = c /\ k = m.key) /\ Tip(d, k, v)' => Tip(d, k, v)
  BY <1>0, SendTip
<1>8. History(c)'
  <2> SUFFICES ASSUME NEW w \in Word, Free(c, w)' PROVE begun'[w] = IF Writing(c, w)' THEN latest'[w] + 1 ELSE latest'[w]
    BY DEF History
  <2>1. Free(c, w)
    BY <1>1 DEF Free
  <2> QED BY <1>0, <2>1, PieceDue DEF Data, History
<1>9. Last(c)'
  <2> SUFFICES ASSUME NEW w \in Word, NEW k \in Key, k = w \div Unit', Free(c, w)', NEW v, Tip(c, k, v)'
               PROVE  At(v, w)' = Due(c, w)'
    BY DEF Last
  <2>1. Free(c, w)
    BY <1>1 DEF Free
  <2>2. CASE k = m.key
    <3>1. v = m.val
      BY <1>7, <2>2
    <3> QED BY <1>1, <1>6, <2>2, <3>1
  <2>3. CASE k # m.key
    <3>1. Tip(c, k, v)
      BY <1>7, <2>3
    <3>2. At(v, w) = Due(c, w)
      BY <1>0, <1>1, <2>1, <3>1 DEF Data, Last
    <3>3. Due(c, w)' = Due(c, w)
      BY <1>0, <1>1, <2>3, PieceDue
    <3> QED BY <1>1, <3>2, <3>3 DEF At
  <2> QED BY <2>2, <2>3
<1>10. Merging(c)'
  BY DEF Merging, SendsPiece
<1>11. PICK n \in Nat :
         /\ Sent(c, m.key, n)' /\ Val(c, m.key, n)' = m.val /\ m.key \in Key
         /\ \A d \in Client, k \in Key, i \in Nat :
              IF d = c /\ k = m.key THEN /\ Sent(d, k, i)' => i = n \/ (Sent(d, k, i) /\ Val(d, k, i)' = Val(d, k, i))
                                         /\ Sent(d, k, i) => i < n
              ELSE (Sent(d, k, i)' <=> Sent(d, k, i)) /\ (Sent(d, k, i) => Val(d, k, i)' = Val(d, k, i))
  BY <1>0, SendSent
<1>12. ASSUME NEW d \in Client, NEW k \in Key, NEW i \in Nat, Sent(d, k, i)'
       PROVE  \/ d = c /\ k = m.key /\ Val(d, k, i)' = m.val
              \/ Sent(d, k, i) /\ Val(d, k, i)' = Val(d, k, i)
  <2>1. CASE d = c /\ k = m.key
    BY <1>11, <1>12, <2>1
  <2>2. CASE ~(d = c /\ k = m.key)
    BY <1>11, <1>12, <2>2
  <2> QED BY <2>1, <2>2
<1>13. Sends(c)'
  <2> SUFFICES ASSUME NEW k \in Key \ {InfoKey}, NEW i \in Nat, Sent(c, k, i)' PROVE \E x \in Owned(c) : x \div Unit' = k
    BY DEF Sends
  <2>1. k = m.key \/ Sent(c, k, i)
    BY <1>12
  <2> QED BY <1>0, <1>1, <1>2, <2>1 DEF Data, Sends
<1>14. Bounds'
  <2> SUFFICES ASSUME NEW w \in Word, NEW k \in Key, k = w \div Unit'
               PROVE  /\ \A v \in {store'[k]} : Between(v, w)'
                      /\ \A d \in Client, i \in Nat : Sent(d, k, i)' => \A v \in {Val(d, k, i)'} : Between(v, w)'
    BY DEF Bounds
  <2>1. \A v \in {store'[k]} : Between(v, w)'
    BY <1>0, <1>1, BetweenKept DEF Bounds
  <2>2. ASSUME NEW d \in Client, NEW i \in Nat, Sent(d, k, i)', NEW v, v = Val(d, k, i)' PROVE Between(v, w)
    <3>1. CASE d = c /\ k = m.key /\ v = m.val
      <4>1. Free(c, w)
        BY <1>1, <1>5, <3>1
      <4>2. latest[w] \in Nat /\ begun[w] \in Nat /\ latest[w] <= begun[w] /\ Due(c, w) \in {latest[w], begun[w]}
        BY <1>0, <4>1, HistoryOrder
      <4>3. At(v, w) = IF at[c] <= w /\ w < at'[c] THEN begun[w] ELSE Due(c, w)
        BY <1>1, <3>1
      <4>4. At(v, w) \in {latest[w], begun[w]}
        BY <4>2, <4>3
      <4> QED BY <4>2, <4>4 DEF Between
    <3>2. CASE Sent(d, k, i) /\ v = Val(d, k, i)
      BY <1>0, <1>1, <3>2 DEF Bounds
    <3> QED BY <1>12, <2>2, <3>1, <3>2
  <2>3. ASSUME NEW d \in Client, NEW i \in Nat, Sent(d, k, i)', NEW v, v = Val(d, k, i)' PROVE Between(v, w)'
    BY <1>0, <2>2, <2>3, BetweenKept
  <2> QED BY <2>1, <2>3
<1> QED BY <1>4, <1>8, <1>9, <1>10, <1>13, <1>14 DEF Data

\* Client c takes a step of a put, which changes nothing for the others.
PutStep(c) == (\E r \in Puts[c] : StartPut(c, r)) \/ PutBlock(c) \/ PutRead(c) \/ PutMerged(c) \/ PutReturn(c)
Others(c) ==
  /\ UNCHANGED <<mode, store, creators, since>>
  /\ \A d \in Client \ {c} :
       /\ pc'[d] = pc[d] /\ range'[d] = range[d] /\ at'[d] = at[d] /\ buf'[d] = buf[d]
       /\ \A k \in Key, i \in Nat : Sent(d, k, i)' => Sent(d, k, i)
       /\ \A k \in Key : \A v : Tip(d, k, v)' => Tip(d, k, v)
  /\ latest' \in [Word -> Nat]
  /\ \A w \in Word : /\ begun'[w] \in Nat /\ begun[w] <= begun'[w] /\ latest[w] <= latest'[w]
                     /\ w \notin Owned(c) => begun'[w] = begun[w] /\ latest'[w] = latest[w]

\* If client c keeps its data the invariant is kept.
LEMMA PutCloses ==
  ASSUME StorageInv, BlocksApart, NEW c \in Client, PutStep(c), Others(c),
         Data(c)', Bounds', Routed', Chunks(c)', pc'[c] # "read", pc'[c] # "del",
         reply => Putting(c)' \/ \A k \in Key, i \in Nat : ~Sent(c, k, i)'
  PROVE  DataInv'
<1>0. UserInv /\ TypeInv /\ DataInv
  BY DEF StorageInv, UserInv
<1>1. Putting(c) \/ creators # {}
  BY DEF PutStep, StartPut, PutBlock, PutRead, PutMerged, PutReturn, Putting
<1>2. Live /\ ~Dying /\ (reply => creators # {})
  BY <1>1, LiveNow
<1>3. /\ \A d \in Client : pc[d] = "del" <=> pc'[d] = "del"
      /\ \A d \in Client, s \in Server, i \in Nat : Deletes(d, s, i)' <=> Deletes(d, s, i)
  BY <1>0, PutType DEF PutStep
<1>4. reply' = reply /\ Unit' = Unit /\ store' = store /\ creators' = creators
  BY DEF Others, mode, Unit
<1>5. ASSUME NEW d \in Client PROVE Deleter(d)' <=> Deleter(d)
  BY <1>3 DEF Deleter
<1>6. ~Dying'
  BY <1>2, <1>4, <1>5 DEF Dying
<1>7. WordType'
  BY <1>0 DEF DataInv, WordType, Others
<1>8. Inside'
  BY <1>0, <1>4 DEF DataInv, Inside, ItemCount
<1>9. ASSUME NEW d \in Client PROVE Chunks(d)' /\ Reading(d)' /\ (~reply' => pc'[d] # "del")
  <2>1. CASE d = c
    BY <2>1 DEF Reading
  <2>2. CASE d # c
    <3>1. /\ pc'[d] = pc[d] /\ range'[d] = range[d] /\ at'[d] = at[d] /\ buf'[d] = buf[d] /\ since'[d] = since[d] /\ UNCHANGED mode
          /\ \A w \in Word : /\ begun'[w] \in Nat /\ begun[w] <= begun'[w]
                             /\ latest'[w] \in Nat /\ latest[w] <= latest'[w]
      BY <2>2 DEF Others
    <3>2. Chunks(d) /\ Reading(d) /\ (~reply => pc[d] # "del") /\ WordType
      BY <1>0 DEF DataInv
    <3>3. Reading(d)'
      BY <1>0, <3>1, <3>2, ReadingKept
    <3>4. Chunks(d)'
      BY <3>1, <3>2 DEF Chunks, Putting
    <3> QED BY <1>4, <3>1, <3>2, <3>3, <3>4
  <2> QED BY <2>1, <2>2
<1>10. ASSUME NEW d \in Client PROVE Data(d)'
  <2>1. CASE d # c
    <3>1. /\ pc'[d] = pc[d] /\ range'[d] = range[d] /\ at'[d] = at[d] /\ buf'[d] = buf[d] /\ UNCHANGED mode
          /\ \A k \in Key, i \in Nat : Sent(d, k, i)' => Sent(d, k, i)
          /\ \A k \in Key : \A v : Tip(d, k, v)' => Tip(d, k, v)
      BY <2>1 DEF Others
    <3>2. ASSUME NEW w \in Word, Free(d, w) PROVE begun'[w] = begun[w] /\ latest'[w] = latest[w]
      <4>1. w \notin Owned(c)
        BY <2>1, <3>2 DEF Free
      <4> QED BY <4>1 DEF Others
    <3>3. Data(d) /\ Chunks(d)
      BY <1>0, <1>2 DEF Live, DataInv
    <3> QED BY <1>0, <3>1, <3>2, <3>3, DataKept
  <2> QED BY <2>1
<1>11. Settled'
  <2> SUFFICES ASSUME reply, NEW d \in Client, ~Putting(d)', NEW k \in Key, NEW i \in Nat PROVE ~Sent(d, k, i)'
    BY <1>4 DEF Settled
  <2>1. CASE d # c
    <3>1. ~Putting(d)
      BY <2>1 DEF Others, Putting
    <3>2. ~Sent(d, k, i)
      BY <1>2, <3>1 DEF Live, Settled
    <3> QED BY <2>1, <3>2 DEF Others
  <2> QED BY <2>1
<1>12. Clean'
  BY <1>2, <1>4 DEF Clean
<1>13. Live'
  BY <1>10, <1>11, <1>12 DEF Live
<1>14. ASSUME NEW d \in Client, reply', Deleter(d)' PROVE FALSE
  BY <1>6, <1>14 DEF Dying
<1> QED BY <1>6, <1>7, <1>8, <1>9, <1>13, <1>14 DEF DataInv

\* Connections that do not change.
LEMMA SameSent ==
  ASSUME NEW d, UNCHANGED pend
  PROVE  /\ \A k, i : (Sent(d, k, i)' <=> Sent(d, k, i)) /\ Val(d, k, i)' = Val(d, k, i)
         /\ \A k, v : store'[k] = store[k] => (Tip(d, k, v)' <=> Tip(d, k, v))
<1>1. \A k, i : (Sent(d, k, i)' <=> Sent(d, k, i)) /\ Val(d, k, i)' = Val(d, k, i)
  BY DEF Sent, Val
<1>2. \A k, i : LastSent(d, k, i)' <=> LastSent(d, k, i)
  BY <1>1 DEF LastSent
<1>3. ASSUME NEW k, NEW v, store'[k] = store[k] PROVE Tip(d, k, v)' <=> Tip(d, k, v)
  <2>1. (\A i \in Nat : ~Sent(d, k, i)') <=> \A i \in Nat : ~Sent(d, k, i)
    BY <1>1
  <2>2. (\E i \in Nat : LastSent(d, k, i)' /\ v = Val(d, k, i)') <=> \E i \in Nat : LastSent(d, k, i) /\ v = Val(d, k, i)
    BY <1>1, <1>2
  <2> QED BY <1>3, <2>1, <2>2 DEF Tip
<1>4. \A k, v : store'[k] = store[k] => (Tip(d, k, v)' <=> Tip(d, k, v))
  BY <1>3, Zenon
<1> QED BY <1>1, <1>4, Zenon

\* putchunk begins.
LEMMA StartPutKeeps ==
  ASSUME StorageInv, BlocksApart, NEW c \in Client, NEW r \in Puts[c], StartPut(c, r)
  PROVE  DataInv'
<1>0. TypeInv /\ DataInv /\ WordType /\ Chunks(c) /\ Routed /\ UNCHANGED <<store, pend, creators, latest, since, buf>> /\ UNCHANGED mode
  BY DEF StorageInv, UserInv, DataInv, StartPut, mem, mode
<1>1. Live /\ Unit' = Unit /\ reply' = reply /\ PutStep(c)
  <2>1. creators # {}
    BY DEF StartPut
  <2>2. Live
    BY <2>1, LiveNow
  <2>3. Unit' = Unit /\ reply' = reply
    BY <1>0 DEF mode, Unit
  <2>4. PutStep(c)
    BY DEF PutStep
  <2> QED BY <2>2, <2>3, <2>4
<1>2. r \in Nat \X Nat /\ KTail(r) <= Size /\ Span(r) \subseteq Owned(c)
  BY ChunkType, OwnedWords
<1>3. /\ pc[c] = "idle" /\ pc'[c] = "put" /\ range'[c] = r /\ at'[c] = r[1]
      /\ \A d \in Client \ {c} : pc'[d] = pc[d] /\ range'[d] = range[d] /\ at'[d] = at[d] /\ buf'[d] = buf[d]
  BY <1>0 DEF StartPut, Ready, TypeInv
<1>4. \A w \in Word : begun[w] \in Nat /\ latest[w] \in Nat /\ begun'[w] = IF w \in Span(r) THEN begun[w] + 1 ELSE begun[w]
  BY <1>0 DEF StartPut, TypeInv, WordType
<1>5. Others(c)
  <2>1. \A w \in Word : /\ begun'[w] \in Nat /\ begun[w] <= begun'[w] /\ latest[w] <= latest'[w]
                        /\ w \notin Owned(c) => begun'[w] = begun[w] /\ latest'[w] = latest[w]
    BY <1>0, <1>2, <1>4
  <2>2. ASSUME NEW d \in Client PROVE /\ \A k \in Key, i \in Nat : Sent(d, k, i)' => Sent(d, k, i)
                                      /\ \A k \in Key : \A v : Tip(d, k, v)' => Tip(d, k, v)
    BY <1>0, SameSent
  <2> QED BY <1>0, <1>3, <2>1, <2>2 DEF Others, WordType
<1>6. ASSUME NEW w \in Word PROVE (Writing(c, w)' <=> w \in Span(r)) /\ ~Writing(c, w) /\ (Free(c, w)' <=> Free(c, w))
  BY <1>1, <1>3 DEF Writing, Putting, Free
<1>7. History(c)'
  <2> SUFFICES ASSUME NEW w \in Word, Free(c, w)' PROVE begun'[w] = IF Writing(c, w)' THEN latest'[w] + 1 ELSE latest'[w]
    BY DEF History
  <2>1. begun[w] = latest[w]
    BY <1>1, <1>6 DEF Live, Data, History
  <2> QED BY <1>0, <1>4, <1>6, <2>1
<1>8. Last(c)'
  <2> SUFFICES ASSUME NEW w \in Word, NEW k \in Key, k = w \div Unit', Free(c, w)', NEW v, Tip(c, k, v)'
               PROVE  At(v, w)' = Due(c, w)'
    BY DEF Last
  <2>1. Tip(c, k, v)
    BY <1>0, SameSent
  <2>2. At(v, w) = begun[w] /\ begun[w] = latest[w]
    BY <1>1, <1>6, <2>1 DEF Live, Data, Last, Due, History
  <2>3. w \in Span(r) => at'[c] <= w
    BY <1>2, <1>3 DEF Span
  <2>4. Due(c, w)' = begun[w]
    BY <1>0, <1>4, <1>6, <2>2, <2>3 DEF Due
  <2> QED BY <1>1, <2>2, <2>4 DEF At
<1>9. Merging(c)'
  BY <1>3 DEF Merging
<1>10. Sends(c)'
  <2> SUFFICES ASSUME NEW k \in Key \ {InfoKey}, NEW i \in Nat, Sent(c, k, i)' PROVE \E x \in Owned(c) : x \div Unit' = k
    BY DEF Sends
  <2>1. Sent(c, k, i)
    BY <1>0, SameSent
  <2> QED BY <1>1, <2>1 DEF Live, Data, Sends
<1>11. Bounds'
  <2> SUFFICES ASSUME NEW w \in Word, NEW k \in Key, k = w \div Unit'
               PROVE  /\ \A v \in {store'[k]} : Between(v, w)'
                      /\ \A d \in Client, i \in Nat : Sent(d, k, i)' => \A v \in {Val(d, k, i)'} : Between(v, w)'
    BY DEF Bounds
  <2>1. ASSUME NEW v, Between(v, w) PROVE Between(v, w)'
    <3>1. At(v, w)' = At(v, w)
      BY <1>1 DEF At
    <3> QED BY <1>0, <1>1, <1>4, <2>1, <3>1 DEF Between
  <2>2. \A v \in {store'[k]} : Between(v, w)
    BY <1>0, <1>1 DEF Live, Bounds
  <2>3. \A d \in Client, i \in Nat : Sent(d, k, i)' => \A v \in {Val(d, k, i)'} : Between(v, w)
    BY <1>0, <1>1, SameSent DEF Live, Bounds
  <2> QED BY <2>1, <2>2, <2>3
<1>12. Routed'
  BY <1>0, RoutedSame
<1>13. Chunks(c)'
  BY <1>0, <1>3 DEF Chunks, Putting
<1>14. Data(c)' /\ Putting(c)' /\ pc'[c] # "read" /\ pc'[c] # "del"
  BY <1>3, <1>7, <1>8, <1>9, <1>10 DEF Data, Putting
<1> QED BY <1>1, <1>5, <1>11, <1>12, <1>13, <1>14, PutCloses

\* A piece was sent: nothing changes for the others.
LEMMA PieceOthers ==
  ASSUME StorageInv, NEW c \in Client, NEW m, SendsPiece(c, m), UNCHANGED <<creators, since>>,
         \A d \in Client \ {c} : pc'[d] = pc[d] /\ range'[d] = range[d] /\ at'[d] = at[d] /\ buf'[d] = buf[d]
  PROVE  Others(c)
<1>1. /\ TypeInv /\ m \in Order(Unit) /\ Send(c, m) /\ UNCHANGED mode /\ UNCHANGED <<store, begun, latest>> /\ WordType
  BY DEF StorageInv, UserInv, DataInv, SendsPiece
<1>2. ASSUME NEW d \in Client, d # c PROVE \A k \in Key, i \in Nat : Sent(d, k, i)' => Sent(d, k, i)
  BY <1>1, <1>2, SendSent
<1>3. ASSUME NEW d \in Client, d # c PROVE \A k \in Key : \A v : Tip(d, k, v)' => Tip(d, k, v)
  BY <1>1, <1>3, SendTip
<1>4. \A w \in Word : begun[w] \in Nat /\ latest[w] \in Nat /\ begun'[w] = begun[w] /\ latest'[w] = latest[w]
  BY <1>1 DEF TypeInv, WordType
<1>5. \A w \in Word : /\ begun'[w] \in Nat /\ begun[w] <= begun'[w] /\ latest[w] <= latest'[w]
                      /\ w \notin Owned(c) => begun'[w] = begun[w] /\ latest'[w] = latest[w]
  BY <1>4
<1> QED BY <1>1, <1>2, <1>3, <1>5 DEF Others, WordType

\* Command m carries the words from a to e - 1 of a chunk in their block "old".
Carries(m, a, e, old) ==
  /\ m \in Order(Unit) /\ m.key = a \div Unit /\ m.add = FALSE /\ a \in Nat /\ e \in Nat
  /\ \A w \in Word : \A v : w \div Unit = m.key /\ v = m.val =>
       At(v, w) = IF a <= w /\ w < e THEN begun[w] ELSE At(old, w)

\* The next piece of a chunk r, from word a on.
LEMMA NextPiece ==
  ASSUME TypeInv, NEW r \in Nat \X Nat, NEW a \in Word, r[1] <= a, a < KTail(r), KTail(r) <= Size, a = r[1] \/ Aligned(a),
         NEW old \in [0 .. Unit - 1 -> Nat], NEW e, e = Piece(r, a).end, NEW m, m = Command(FALSE, a \div Unit, Merged(old, a, e))
  PROVE  Carries(m, a, e, old)
<1>1. a \in Nat
  BY WordItem
<1>2. e \in Nat /\ a < e /\ e <= KTail(r)
  BY <1>1, PieceInside
<1>3. e <= Size
  <2>1. Size \in Nat /\ KTail(r) \in Nat
    BY Numbers DEF KTail
  <2> QED BY <1>2, <2>1
<1>4. m.key = a \div Unit /\ m.add = FALSE /\ m.val = Merged(old, a, e)
  BY DEF Command
<1>5. PICK z : z = Merged(old, a, e)
  OBVIOUS
<1>6. z \in [0 .. Unit - 1 -> Nat]
  BY <1>1, <1>2, <1>3, <1>5, MergedType
<1>7. a \div Unit \in Key \ {InfoKey}
  BY WordItem
<1>8. m \in Order(Unit)
  BY <1>5, <1>6, <1>7 DEF Order, Command, Item
<1>9. ASSUME NEW w \in Word, NEW v, w \div Unit = m.key, v = m.val
      PROVE  At(v, w) = IF a <= w /\ w < e THEN begun[w] ELSE At(old, w)
  <2>1. w \div Unit = a \div Unit /\ v = Merged(old, a, e)
    BY <1>4, <1>9
  <2>2. At(v, w) = IF w \in a .. e - 1 THEN begun[w] ELSE At(old, w)
    BY <1>1, <1>2, <1>3, <2>1, MergedAt
  <2>3. w \in Nat
    BY WordItem
  <2>4. w \in a .. e - 1 <=> a <= w /\ w < e
    BY <1>1, <1>2, <2>3
  <2> QED BY <2>2, <2>4
<1> QED BY <1>1, <1>2, <1>4, <1>8, <1>9 DEF Carries

\* The chunk of a client that is putting.
LEMMA PutChunk ==
  ASSUME TypeInv, NEW c \in Client, Chunks(c), Putting(c), at[c] < KTail(range[c])
  PROVE  /\ range[c] \in Nat \X Nat /\ at[c] \in Word /\ range[c][1] <= at[c]
         /\ KTail(range[c]) <= Size /\ (at[c] = range[c][1] \/ Aligned(at[c]))
<1>1. at[c] \in Word /\ range[c] \in Nat \X Nat /\ at[c] \in Nat
  BY NextWord DEF TypeInv
<1>2. KTail(range[c]) \in Nat
  BY <1>1 DEF KTail
<1>3. Doing(c) /\ pc[c] \in {"put", "merge"}
  BY DEF TypeInv, Putting
<1>4. at[c] # KTail(range[c])
  BY <1>1, <1>2
<1> QED BY <1>1, <1>3, <1>4 DEF Doing

\* A whole block is sent.
LEMMA PutBlockKeeps ==
  ASSUME StorageInv, BlocksApart, NEW c \in Client, PutBlock(c)
  PROVE  DataInv'
<1>0. TypeInv /\ DataInv /\ Chunks(c)
  BY DEF StorageInv, UserInv, DataInv
<1>1. PICK a, e, old, m : /\ a = at[c] /\ e = Piece(range[c], a).end /\ old = [j \in 0 .. Unit - 1 |-> 0]
                          /\ m = Command(FALSE, a \div Unit, Merged(old, a, e))
  OBVIOUS
<1>2. /\ pc[c] = "put" /\ a < KTail(range[c]) /\ ~Piece(range[c], a).merge /\ Send(c, m)
      /\ at' = [at EXCEPT ![c] = e] /\ UNCHANGED <<mode, store, pc, range, buf, creators, begun, latest, since>>
  BY <1>1 DEF PutBlock, hist
<1>3. Putting(c) /\ Live /\ PutStep(c)
  <2>1. Putting(c)
    BY <1>2 DEF Putting
  <2> QED BY <2>1, LiveNow DEF PutStep
<1>4. old \in [0 .. Unit - 1 -> Nat]
  BY <1>1
<1>5. /\ m \in Order(Unit) /\ m.key = a \div Unit /\ m.add = FALSE /\ a \in Nat /\ e \in Nat
      /\ \A w \in Word : \A v : w \div Unit = m.key /\ v = m.val => At(v, w) = IF a <= w /\ w < e THEN begun[w] ELSE At(old, w)
  <2>1. PICK r : r = range[c]
    OBVIOUS
  <2>2. r \in Nat \X Nat /\ a \in Word /\ r[1] <= a /\ KTail(r) <= Size /\ (a = r[1] \/ Aligned(a)) /\ a < KTail(r)
    BY <1>0, <1>1, <1>2, <1>3, <2>1, PutChunk
  <2>3. e = Piece(r, a).end /\ m = Command(FALSE, a \div Unit, Merged(old, a, e)) /\ TypeInv
    BY <1>0, <1>1, <2>1
  <2>4. Carries(m, a, e, old)
    BY <1>4, <2>2, <2>3, NextPiece
  <2> QED BY <2>4 DEF Carries
<1>6. at'[c] = e /\ \A d \in Client \ {c} : at'[d] = at[d]
  BY <1>0, <1>2 DEF TypeInv
<1>7. SendsPiece(c, m)
  BY <1>1, <1>2, <1>3, <1>5, <1>6 DEF SendsPiece
<1>8. \A w \in Word : \A v : w \div Unit = m.key /\ v = m.val => At(v, w) = IF at[c] <= w /\ w < at'[c] THEN begun[w] ELSE Due(c, w)
  <2>1. ASSUME NEW w \in Word, w \div Unit = a \div Unit PROVE a <= w /\ w < e
    <3>1. range[c] \in Nat \X Nat /\ range[c][1] <= a /\ (a = range[c][1] \/ Aligned(a))
      BY <1>0, <1>1, <1>2, <1>3 DEF TypeInv, Doing, Putting
    <3>2. w \in Nat
      BY <1>0, WordItem
    <3> QED BY <1>0, <1>1, <1>2, <1>5, <2>1, <3>1, <3>2, PieceBlock
  <2> QED BY <1>1, <1>5, <1>6, <2>1
<1>9. Data(c)' /\ Bounds' /\ Routed'
  BY <1>3, <1>7, <1>8, PutSends
<1>10. Others(c)
  BY <1>2, <1>6, <1>7, PieceOthers
<1>11. Chunks(c)' /\ Putting(c)' /\ pc'[c] # "read" /\ pc'[c] # "del"
  BY <1>0, <1>2 DEF Chunks, Putting
<1> QED BY <1>3, <1>9, <1>10, <1>11, PutCloses

\* A block with new words is sent.
LEMMA PutMergedKeeps ==
  ASSUME StorageInv, BlocksApart, NEW c \in Client, PutMerged(c)
  PROVE  DataInv'
<1>0. TypeInv /\ DataInv /\ Chunks(c)
  BY DEF StorageInv, UserInv, DataInv
<1>1. PICK a, e, old, m : /\ a = at[c] /\ e = Piece(range[c], a).end /\ old = buf[c]
                          /\ m = Command(FALSE, a \div Unit, Merged(old, a, e))
  OBVIOUS
<1>2. /\ pc[c] = "merge" /\ Send(c, m) /\ pc' = [pc EXCEPT ![c] = "put"] /\ buf' = [buf EXCEPT ![c] = <<>>]
      /\ at' = [at EXCEPT ![c] = e] /\ UNCHANGED <<mode, store, range, creators, begun, latest, since>>
  BY <1>1 DEF PutMerged, hist
<1>3. Putting(c) /\ Live /\ PutStep(c)
  <2>1. Putting(c)
    BY <1>2 DEF Putting
  <2> QED BY <2>1, LiveNow DEF PutStep
<1>4. old \in [0 .. Unit - 1 -> Nat] /\ a < KTail(range[c])
  BY <1>0, <1>1, <1>2 DEF TypeInv, Doing
<1>5. /\ m \in Order(Unit) /\ m.key = a \div Unit /\ m.add = FALSE /\ a \in Nat /\ e \in Nat
      /\ \A w \in Word : \A v : w \div Unit = m.key /\ v = m.val => At(v, w) = IF a <= w /\ w < e THEN begun[w] ELSE At(old, w)
  <2>1. PICK r : r = range[c]
    OBVIOUS
  <2>2. r \in Nat \X Nat /\ a \in Word /\ r[1] <= a /\ KTail(r) <= Size /\ (a = r[1] \/ Aligned(a)) /\ a < KTail(r)
    BY <1>0, <1>1, <1>3, <1>4, <2>1, PutChunk
  <2>3. e = Piece(r, a).end /\ m = Command(FALSE, a \div Unit, Merged(old, a, e)) /\ TypeInv
    BY <1>0, <1>1, <2>1
  <2>4. Carries(m, a, e, old)
    BY <1>4, <2>2, <2>3, NextPiece
  <2> QED BY <2>4 DEF Carries
<1>6. /\ at'[c] = e /\ pc'[c] = "put" /\ buf'[c] = <<>>
      /\ \A d \in Client \ {c} : at'[d] = at[d] /\ pc'[d] = pc[d] /\ buf'[d] = buf[d]
  BY <1>0, <1>2 DEF TypeInv
<1>7. SendsPiece(c, m)
  BY <1>1, <1>2, <1>3, <1>4, <1>5, <1>6 DEF SendsPiece
<1>8. \A w \in Word : \A v : w \div Unit = m.key /\ v = m.val => At(v, w) = IF at[c] <= w /\ w < at'[c] THEN begun[w] ELSE Due(c, w)
  <2>1. ASSUME NEW w \in Word, w \div Unit = a \div Unit PROVE At(old, w) = Due(c, w)
    <3>1. Merging(c)
      BY <1>3 DEF Live, Data
    <3> QED BY <1>1, <1>2, <2>1, <3>1 DEF Merging
  <2> QED BY <1>1, <1>5, <1>6, <2>1
<1>9. Data(c)' /\ Bounds' /\ Routed'
  BY <1>3, <1>7, <1>8, PutSends
<1>10. Others(c)
  BY <1>2, <1>6, <1>7, PieceOthers
<1>11. Chunks(c)' /\ Putting(c)' /\ pc'[c] # "read" /\ pc'[c] # "del"
  BY <1>0, <1>2, <1>3, <1>6 DEF Chunks, Putting
<1> QED BY <1>3, <1>9, <1>10, <1>11, PutCloses

\* Versions in the servers and connections, which do not change.
LEMMA BoundsKept ==
  ASSUME Bounds, UNCHANGED <<mode, begun, latest, store, pend>>
  PROVE  Bounds'
<1>1. Unit' = Unit
  BY DEF mode, Unit
<1> SUFFICES ASSUME NEW w \in Word, NEW k \in Key, k = w \div Unit'
             PROVE  /\ \A v \in {store'[k]} : Between(v, w)'
                    /\ \A d \in Client, i \in Nat : Sent(d, k, i)' => \A v \in {Val(d, k, i)'} : Between(v, w)'
  BY DEF Bounds
<1>2. \A v \in {store'[k]} : Between(v, w)
  BY <1>1 DEF Bounds
<1>3. \A d \in Client, i \in Nat : Sent(d, k, i)' => \A v \in {Val(d, k, i)'} : Between(v, w)
  BY <1>1, SameSent DEF Bounds
<1> QED BY <1>2, <1>3, BetweenKept

\* The rest of a block is read.
LEMMA PutReadKeeps ==
  ASSUME StorageInv, BlocksApart, NEW c \in Client, PutRead(c)
  PROVE  DataInv'
<1>0. TypeInv /\ DataInv /\ Chunks(c) /\ WordType /\ Routed
  BY DEF StorageInv, UserInv, DataInv
<1>1. PICK a, k, b : a = at[c] /\ k = a \div Unit /\ b = Fetched(k)
  OBVIOUS
<1>2. /\ pc[c] = "put" /\ a < KTail(range[c]) /\ Answers(c, {k})
      /\ buf' = [buf EXCEPT ![c] = b] /\ pc' = [pc EXCEPT ![c] = "merge"]
      /\ UNCHANGED <<mode, store, pend, range, at, creators, begun, latest, since>>
  BY <1>1 DEF PutRead, mem, hist
<1>3. Putting(c) /\ Live /\ PutStep(c)
  <2>1. Putting(c)
    BY <1>2 DEF Putting
  <2> QED BY <2>1, LiveNow DEF PutStep
<1>4. /\ buf'[c] = b /\ pc'[c] = "merge"
      /\ \A d \in Client \ {c} : pc'[d] = pc[d] /\ buf'[d] = buf[d]
  BY <1>0, <1>2 DEF TypeInv
<1>5. Unit' = Unit
  BY <1>2 DEF mode, Unit
<1>6. a \in Owned(c) /\ a \in Word /\ k \in Key
  <2>1. a \in Owned(c) /\ a \in Word
    BY <1>0, <1>1, <1>2, <1>3, NextWord
  <2> QED BY <1>0, <1>1, <2>1, WordItem
<1>7. \A w : (Due(c, w)' = Due(c, w)) /\ (Writing(c, w)' <=> Writing(c, w)) /\ (Free(c, w)' <=> Free(c, w))
  BY <1>2, <1>3, <1>4, <1>5 DEF Due, Writing, Putting, Free
<1>8. Merging(c)'
  <2> SUFFICES ASSUME NEW w \in Word, w \div Unit = k PROVE At(b, w)' = Due(c, w)'
    BY <1>1, <1>2, <1>4, <1>5 DEF Merging
  <2>1. Free(c, w)
    BY <1>0, <1>1, <1>6, OwnFree
  <2>2. PICK v : v = store[k]
    OBVIOUS
  <2>3. \A i \in Nat : ~Sent(c, k, i)
    BY <1>0, <1>2, <1>6, NothingSent DEF Answers
  <2>4. Tip(c, k, v)
    BY <2>2, <2>3 DEF Tip
  <2>5. At(v, w) = Due(c, w)
    BY <1>3, <1>6, <2>1, <2>4 DEF Live, Data, Last
  <2>6. At(b, w) = At(v, w)
    <3>1. CASE v = Absent
      <4>1. b = [i \in 0 .. Unit - 1 |-> 0]
        BY <1>1, <2>2, <3>1 DEF Fetched
      <4>2. Unit \in Nat \ {0} /\ w % Unit \in 0 .. Unit - 1
        BY <1>0, Words, WordItem
      <4>3. b \in [0 .. Unit - 1 -> Nat] /\ b[w % Unit] = 0
        BY <4>1, <4>2
      <4>4. b # Absent
        BY <4>2, <4>3, BlockThere
      <4> QED BY <3>1, <4>3, <4>4 DEF At
    <3>2. CASE v # Absent
      BY <1>1, <2>2, <3>2 DEF Fetched
    <3> QED BY <3>1, <3>2
  <2>7. At(b, w)' = At(b, w)
    BY <1>5 DEF At
  <2> QED BY <1>7, <2>5, <2>6, <2>7
<1>9. History(c)'
  <2>1. History(c)
    BY <1>3 DEF Live, Data
  <2> QED BY <1>2, <1>7, <2>1 DEF History
<1>10. Last(c)'
  <2> SUFFICES ASSUME NEW w \in Word, NEW l \in Key, l = w \div Unit', Free(c, w)', NEW v, Tip(c, l, v)'
               PROVE  At(v, w)' = Due(c, w)'
    BY DEF Last
  <2>1. Tip(c, l, v)
    BY <1>2, SameSent
  <2>2. At(v, w) = Due(c, w)
    BY <1>3, <1>5, <1>7, <2>1 DEF Live, Data, Last
  <2> QED BY <1>5, <1>7, <2>2 DEF At
<1>11. Sends(c)'
  <2> SUFFICES ASSUME NEW l \in Key \ {InfoKey}, NEW i \in Nat, Sent(c, l, i)' PROVE \E x \in Owned(c) : x \div Unit' = l
    BY DEF Sends
  <2>1. Sent(c, l, i)
    BY <1>2, SameSent
  <2> QED BY <1>3, <1>5, <2>1 DEF Live, Data, Sends
<1>12. Bounds'
  BY <1>2, <1>3, BoundsKept DEF Live
<1>13. Routed'
  BY <1>0, <1>2, RoutedSame
<1>14. Others(c)
  <2>1. \A w \in Word : begun[w] \in Nat /\ latest[w] \in Nat /\ begun'[w] = begun[w] /\ latest'[w] = latest[w]
    BY <1>0, <1>2 DEF TypeInv, WordType
  <2>2. \A w \in Word : /\ begun'[w] \in Nat /\ begun[w] <= begun'[w] /\ latest[w] <= latest'[w]
                        /\ w \notin Owned(c) => begun'[w] = begun[w] /\ latest'[w] = latest[w]
    BY <2>1
  <2>3. ASSUME NEW d \in Client PROVE /\ \A l \in Key, i \in Nat : Sent(d, l, i)' => Sent(d, l, i)
                                      /\ \A l \in Key : \A v : Tip(d, l, v)' => Tip(d, l, v)
    BY <1>2, SameSent
  <2> QED BY <1>0, <1>2, <1>4, <2>2, <2>3 DEF Others, WordType
<1>15. Chunks(c)' /\ Putting(c)' /\ pc'[c] # "read" /\ pc'[c] # "del"
  BY <1>0, <1>2, <1>3, <1>4 DEF Chunks, Putting
<1>16. Data(c)'
  BY <1>8, <1>9, <1>10, <1>11 DEF Data
<1> QED BY <1>3, <1>12, <1>13, <1>14, <1>15, <1>16, PutCloses

\* putchunk returns.
LEMMA PutReturnKeeps ==
  ASSUME StorageInv, BlocksApart, NEW c \in Client, PutReturn(c)
  PROVE  DataInv'
<1>0. TypeInv /\ DataInv /\ Chunks(c) /\ WordType /\ Routed
  BY DEF StorageInv, UserInv, DataInv
<1>1. PICK r : r = range[c]
  OBVIOUS
<1>2. /\ pc[c] = "put" /\ at[c] = KTail(r) /\ MayGoOn(c) /\ pc' = [pc EXCEPT ![c] = "idle"]
      /\ latest' = [w \in Word |-> IF w \in Span(r) THEN begun[w] ELSE latest[w]]
      /\ UNCHANGED <<mode, store, pend, range, at, buf, creators, begun, since>>
  BY <1>1 DEF PutReturn, mem
<1>3. Putting(c) /\ Live /\ PutStep(c)
  <2>1. Putting(c)
    BY <1>2 DEF Putting
  <2> QED BY <2>1, LiveNow DEF PutStep
<1>4. pc'[c] = "idle" /\ \A d \in Client \ {c} : pc'[d] = pc[d]
  BY <1>0, <1>2 DEF TypeInv
<1>5. Unit' = Unit /\ reply' = reply
  BY <1>2 DEF mode, Unit
<1>6. r \in Puts[c] /\ r \in Nat \X Nat /\ Span(r) \subseteq Owned(c)
  BY <1>0, <1>1, <1>3, ChunkType, OwnedWords DEF Chunks
<1>7. reply => \A k \in Key, i \in Nat : ~Sent(c, k, i)
  BY <1>0, <1>2, NothingSent DEF MayGoOn
<1>8. ASSUME NEW w \in Word PROVE (Free(c, w)' <=> Free(c, w)) /\ ~Writing(c, w)' /\ (Writing(c, w) <=> w \in Span(r))
  BY <1>1, <1>3, <1>4, <1>5 DEF Writing, Putting, Free
<1>9. ASSUME NEW w \in Word PROVE Due(c, w) = begun[w] /\ Due(c, w)' = begun[w]
  <2>1. w \in Nat
    BY <1>0, WordItem
  <2>2. Writing(c, w) => ~(at[c] <= w)
    <3>1. w \in Span(r) => w < KTail(r) /\ KTail(r) \in Nat
      BY <1>6, <2>1 DEF Span, KTail
    <3> QED BY <1>2, <1>8, <2>1, <3>1
  <2>3. begun'[w] = begun[w]
    BY <1>2
  <2> QED BY <1>8, <2>2, <2>3 DEF Due
<1>10. ASSUME NEW w \in Word
       PROVE  /\ latest[w] \in Nat /\ begun[w] \in Nat /\ latest'[w] \in Nat /\ begun'[w] = begun[w] /\ latest[w] <= latest'[w]
              /\ w \notin Owned(c) => latest'[w] = latest[w]
              /\ latest'[w] = IF w \in Span(r) THEN begun[w] ELSE latest[w]
  <2>1. latest[w] \in Nat /\ begun[w] \in Nat /\ latest'[w] = IF w \in Span(r) THEN begun[w] ELSE latest[w]
    BY <1>0, <1>2 DEF TypeInv, WordType
  <2>2. w \in Span(r) => latest[w] <= begun[w]
    <3>1. w \in Span(r) => Free(c, w)
      BY <1>0, <1>6, OwnFree
    <3>2. Data(c)
      BY <1>3 DEF Live
    <3> QED BY <1>0, <3>1, <3>2, HistoryOrder
  <2>3. begun'[w] = begun[w] /\ (w \notin Owned(c) => w \notin Span(r))
    BY <1>2, <1>6
  <2> QED BY <2>1, <2>2, <2>3
<1>11. Others(c)
  <2>1. latest' \in [Word -> Nat]
    BY <1>2, <1>10
  <2>2. \A w \in Word : /\ begun'[w] \in Nat /\ begun[w] <= begun'[w] /\ latest[w] <= latest'[w]
                        /\ w \notin Owned(c) => begun'[w] = begun[w] /\ latest'[w] = latest[w]
    BY <1>10
  <2>3. ASSUME NEW d \in Client PROVE /\ \A l \in Key, i \in Nat : Sent(d, l, i)' => Sent(d, l, i)
                                      /\ \A l \in Key : \A v : Tip(d, l, v)' => Tip(d, l, v)
    BY <1>2, SameSent
  <2> QED BY <1>2, <1>4, <2>1, <2>2, <2>3 DEF Others
<1>12. History(c)'
  <2> SUFFICES ASSUME NEW w \in Word, Free(c, w)' PROVE begun'[w] = IF Writing(c, w)' THEN latest'[w] + 1 ELSE latest'[w]
    BY DEF History
  <2>1. begun[w] = IF Writing(c, w) THEN latest[w] + 1 ELSE latest[w]
    BY <1>3, <1>8 DEF Live, Data, History
  <2> QED BY <1>8, <1>10, <2>1
<1>13. Last(c)'
  <2> SUFFICES ASSUME NEW w \in Word, NEW l \in Key, l = w \div Unit', Free(c, w)', NEW v, Tip(c, l, v)'
               PROVE  At(v, w)' = Due(c, w)'
    BY DEF Last
  <2>1. Tip(c, l, v)
    BY <1>2, SameSent
  <2>2. At(v, w) = Due(c, w)
    BY <1>3, <1>5, <1>8, <2>1 DEF Live, Data, Last
  <2> QED BY <1>5, <1>9, <2>2 DEF At
<1>14. Merging(c)'
  BY <1>4 DEF Merging
<1>15. Sends(c)'
  <2> SUFFICES ASSUME NEW l \in Key \ {InfoKey}, NEW i \in Nat, Sent(c, l, i)' PROVE \E x \in Owned(c) : x \div Unit' = l
    BY DEF Sends
  <2>1. Sent(c, l, i)
    BY <1>2, SameSent
  <2> QED BY <1>3, <1>5, <2>1 DEF Live, Data, Sends
<1>16. Bounds'
  <2> SUFFICES ASSUME NEW w \in Word, NEW k \in Key, k = w \div Unit'
               PROVE  /\ \A v \in {store'[k]} : Between(v, w)'
                      /\ \A d \in Client, i \in Nat : Sent(d, k, i)' => \A v \in {Val(d, k, i)'} : Between(v, w)'
    BY DEF Bounds
  <2>0. k = w \div Unit /\ k \in Key \ {InfoKey} /\ w \in Nat
    BY <1>0, <1>5, WordItem
  <2>1. \A v \in {store'[k]} : Between(v, w)
    BY <1>2, <1>3, <2>0 DEF Live, Bounds
  <2>2. \A d \in Client, i \in Nat : Sent(d, k, i)' => \A v \in {Val(d, k, i)'} : Between(v, w)
    BY <1>2, <1>3, <2>0, SameSent DEF Live, Bounds
  <2>3. CASE ~(reply /\ w \in Span(r))
    <3>1. ASSUME NEW v, Between(v, w) PROVE Between(v, w)'
      <4>1. At(v, w)' = At(v, w)
        BY <1>5 DEF At
      <4> QED BY <1>5, <1>10, <2>3, <3>1, <4>1 DEF Between
    <3> QED BY <2>1, <2>2, <3>1
  <2>4. CASE reply /\ w \in Span(r)
    <3>1. Free(c, w)
      BY <1>0, <1>6, <2>4, OwnFree
    <3>2. ASSUME NEW d \in Client, NEW i \in Nat, Sent(d, k, i)' PROVE FALSE
      <4>1. Sent(d, k, i)
        BY <1>2, <3>2, SameSent
      <4>2. d # c
        BY <1>7, <2>4, <4>1
      <4>3. PICK x \in Owned(d) : x \div Unit = k
        BY <1>3, <2>0, <4>1 DEF Live, Data, Sends
      <4> QED BY <2>0, <3>1, <4>2, <4>3 DEF Free
    <3>3. ASSUME NEW v, v = store'[k] PROVE Between(v, w)'
      <4>1. v = store[k]
        BY <1>2, <3>3
      <4>2. Tip(c, k, v)
        BY <1>7, <2>4, <4>1 DEF Tip
      <4>3. At(v, w) = begun[w]
        BY <1>3, <1>9, <2>0, <3>1, <4>2 DEF Live, Data, Last
      <4>4. At(v, w)' = begun[w]
        BY <1>5, <4>3 DEF At
      <4> QED BY <1>10, <2>4, <4>4 DEF Between
    <3> QED BY <3>2, <3>3
  <2> QED BY <2>3, <2>4
<1>17. Routed'
  BY <1>0, <1>2, RoutedSame
<1>18. Chunks(c)' /\ pc'[c] # "read" /\ pc'[c] # "del"
  BY <1>0, <1>2, <1>4 DEF Chunks, Putting
<1>19. Data(c)'
  BY <1>12, <1>13, <1>14, <1>15 DEF Data
<1>20. reply => \A k \in Key, i \in Nat : ~Sent(c, k, i)'
  BY <1>2, <1>7, SameSent
<1> QED BY <1>3, <1>11, <1>16, <1>17, <1>18, <1>19, <1>20, PutCloses

(***************************************************************************)
(* getchunk and AllocObjectId.                                             *)
(***************************************************************************)

\* Client c takes a step that changes neither items, nor commands, nor words.
Still(c) ==
  /\ UNCHANGED <<mode, store, pend, creators, begun, latest>>
  /\ ~Putting(c) /\ ~Putting(c)' /\ pc[c] # "del" /\ pc'[c] # "del"
  /\ since' \in [Client -> [Word -> Nat]]
  /\ \A d \in Client \ {c} : /\ pc'[d] = pc[d] /\ range'[d] = range[d] /\ at'[d] = at[d]
                             /\ buf'[d] = buf[d] /\ since'[d] = since[d]
  /\ \/ ~Dying /\ (pc'[c] = "read" => pc[c] = "read" \/ creators # {})
     \/ ~Deleter(c) /\ pc'[c] \in {"idle", "alloc", "aborted"}

LEMMA StillKeeps ==
  ASSUME StorageInv, BlocksApart, NEW c \in Client, Still(c), Chunks(c)', Reading(c)'
  PROVE  DataInv'
<1>0. TypeInv /\ DataInv /\ WordType /\ Routed /\ Inside /\ UNCHANGED mode /\ UNCHANGED <<store, pend, creators, begun, latest>>
  BY DEF StorageInv, UserInv, DataInv, Still
<1>1. Unit' = Unit /\ reply' = reply /\ ItemCount' = ItemCount
  BY <1>0 DEF mode, Unit, ItemCount
<1>2. WordType' /\ Routed' /\ Inside'
  BY <1>0, <1>1, RoutedSame DEF Still, WordType, Inside
<1>3. ASSUME NEW d \in Client PROVE (Putting(d)' <=> Putting(d)) /\ (pc'[d] = "del" <=> pc[d] = "del")
  BY DEF Still, Putting
<1>4. ASSUME NEW d \in Client PROVE Deleter(d)' <=> Deleter(d)
  BY <1>0, <1>3 DEF Deleter, Deletes
<1>5. Dying' <=> Dying
  BY <1>1, <1>4 DEF Dying
<1>6. ASSUME NEW d \in Client PROVE Chunks(d)' /\ Reading(d)' /\ (~reply' => pc'[d] # "del")
  <2>1. CASE d = c
    BY <2>1 DEF Still
  <2>2. CASE d # c
    <3>1. /\ pc'[d] = pc[d] /\ range'[d] = range[d] /\ at'[d] = at[d] /\ buf'[d] = buf[d] /\ since'[d] = since[d]
      BY <2>2 DEF Still
    <3>2. \A w \in Word : begun'[w] \in Nat /\ begun[w] <= begun'[w] /\ latest'[w] \in Nat /\ latest[w] <= latest'[w]
      <4>1. \A w \in Word : begun[w] \in Nat /\ latest[w] \in Nat /\ begun'[w] = begun[w] /\ latest'[w] = latest[w]
        BY <1>0 DEF TypeInv, WordType
      <4> QED BY <4>1
    <3>3. Chunks(d) /\ Reading(d) /\ (~reply => pc[d] # "del")
      BY <1>0 DEF DataInv
    <3>4. Reading(d)'
      BY <1>0, <3>1, <3>2, <3>3, ReadingKept
    <3>5. Chunks(d)'
      BY <3>1, <3>3 DEF Chunks, Putting
    <3> QED BY <1>1, <3>1, <3>3, <3>4, <3>5
  <2> QED BY <2>1, <2>2
<1>7. ASSUME ~Dying' PROVE Live'
  <2>1. Live
    BY <1>0, <1>5, <1>7 DEF DataInv
  <2>2. Bounds'
    BY <1>0, <2>1, BoundsKept DEF Live
  <2>3. Settled'
    <3> SUFFICES ASSUME reply, NEW d \in Client, ~Putting(d)', NEW k \in Key, NEW i \in Nat PROVE ~Sent(d, k, i)'
      BY <1>1 DEF Settled
    <3>1. ~Sent(d, k, i)
      BY <1>3, <2>1 DEF Live, Settled
    <3> QED BY <1>0, <3>1, SameSent
  <2>4. Clean'
    <3> SUFFICES ASSUME reply, creators = {} PROVE /\ \A k \in Key : store'[k] = Absent
                                                   /\ \A d \in Client : ~Putting(d)' /\ pc'[d] # "read"
      BY <1>0, <1>1 DEF Clean
    <3>1. /\ \A k \in Key : store[k] = Absent
          /\ \A d \in Client : ~Putting(d) /\ pc[d] # "read"
      BY <2>1 DEF Live, Clean
    <3>2. pc'[c] # "read"
      BY <3>1 DEF Still
    <3>3. ASSUME NEW d \in Client PROVE pc'[d] # "read"
      BY <3>1, <3>2 DEF Still
    <3> QED BY <1>0, <1>3, <3>1, <3>3
  <2>5. ASSUME NEW d \in Client PROVE Data(d)'
    <3>1. Data(d) /\ Chunks(d)
      BY <1>0, <2>1 DEF Live, DataInv
    <3>2. pc'[d] = pc[d] \/ (~Putting(d) /\ ~Putting(d)')
      BY DEF Still
    <3>3. Putting(d) => range'[d] = range[d] /\ at'[d] = at[d] /\ buf'[d] = buf[d]
      BY DEF Still
    <3>4. \A k \in Key : \A v : Tip(d, k, v)' => Tip(d, k, v)
      BY <1>0, SameSent
    <3>5. \A k \in Key \ {InfoKey}, i \in Nat : Sent(d, k, i)' => Sent(d, k, i)
      BY <1>0, SameSent
    <3> QED BY <1>0, <3>1, <3>2, <3>3, <3>4, <3>5, DataKept
  <2> QED BY <2>2, <2>3, <2>4, <2>5 DEF Live
<1>8. ASSUME NEW e \in Client, reply', Deleter(e)' PROVE Cleared(e)'
  <2>1. Deleter(e) /\ reply /\ Dying
    BY <1>1, <1>4, <1>8 DEF Dying
  <2>2. e # c /\ pc'[c] \in {"idle", "alloc", "aborted"}
    BY <2>1 DEF Still
  <2>3. Cleared(e)
    BY <1>0, <2>1 DEF DataInv
  <2>4. creators' = {} /\ \A w \in Word : begun'[w] = 0 /\ latest'[w] = 0
    BY <1>0, <2>3 DEF Cleared
  <2>5. ASSUME NEW d \in Client, d # e
        PROVE  pc'[d] \in {"idle", "alloc", "aborted"} /\ \A k \in Key, i \in Nat : ~Sent(d, k, i)'
    <3>1. pc[d] \in {"idle", "alloc", "aborted"} /\ \A k \in Key, i \in Nat : ~Sent(d, k, i)
      BY <2>3, <2>5 DEF Cleared
    <3>2. \A k \in Key, i \in Nat : ~Sent(d, k, i)'
      BY <1>0, <3>1, SameSent
    <3> QED BY <2>2, <3>1, <3>2 DEF Still
  <2>6. pc'[e] = pc[e] /\ at'[e] = at[e]
    BY <2>2 DEF Still
  <2>7. \A k \in Key, i \in Nat : Sent(e, k, i)' <=> Sent(e, k, i)
    BY <1>0, SameSent
  <2>8. \/ pc'[e] = "idle" /\ \A k \in Key \ {InfoKey}, i \in Nat : ~Sent(e, k, i)'
        \/ pc'[e] = "del" /\ at'[e] <= ItemCount'
    BY <1>1, <2>3, <2>6, <2>7 DEF Cleared
  <2>9. ASSUME NEW k \in Key \ {InfoKey} PROVE Counts(e, k)' \/ \A v : Tip(e, k, v)' => v = Absent
    <3>1. Counts(e, k) \/ \A v : Tip(e, k, v) => v = Absent
      BY <2>3 DEF Cleared
    <3>2. Counts(e, k) => Counts(e, k)'
      BY <1>1, <2>6 DEF Counts
    <3>3. \A v : Tip(e, k, v)' => Tip(e, k, v)
      BY <1>0, SameSent
    <3> QED BY <3>1, <3>2, <3>3
  <2> QED BY <2>4, <2>5, <2>8, <2>9 DEF Cleared
<1> QED BY <1>2, <1>6, <1>7, <1>8 DEF DataInv

\* getchunk begins.
LEMMA StartGetKeeps ==
  ASSUME StorageInv, BlocksApart, NEW c \in Client, NEW r \in Gets[c], StartGet(c, r)
  PROVE  DataInv'
<1>0. TypeInv /\ DataInv /\ WordType /\ Chunks(c) /\ UNCHANGED <<mode, store, pend, buf, creators, begun, latest>>
  BY DEF StorageInv, UserInv, DataInv, StartGet, mem, hist
<1>1. creators # {} /\ pc[c] = "idle"
  BY DEF StartGet, Ready
<1>2. ~Dying /\ Live
  BY <1>1, LiveNow
<1>3. /\ pc'[c] = "read" /\ range'[c] = r /\ at'[c] = r[1] /\ since'[c] = latest
      /\ \A d \in Client \ {c} : /\ pc'[d] = pc[d] /\ range'[d] = range[d] /\ at'[d] = at[d] /\ since'[d] = since[d]
      /\ since' \in [Client -> [Word -> Nat]]
  BY <1>0 DEF StartGet, TypeInv, WordType
<1>4. r \in Nat \X Nat /\ KTail(r) \in Nat /\ r[1] <= KTail(r)
  <2>1. r \in Nat \X Nat
    BY ChunkType
  <2> QED BY <2>1 DEF KTail
<1>5. buf'[c] = <<>>
  BY <1>0, <1>1 DEF Chunks
<1>6. Still(c)
  BY <1>0, <1>1, <1>2, <1>3 DEF Still, Putting
<1>7. Chunks(c)'
  BY <1>3 DEF Chunks, Putting
<1>8. Reading(c)'
  <2>1. at'[c] \in range'[c][1] .. KTail(range'[c])
    BY <1>3, <1>4
  <2>2. <<>> \in Seq(Nat) /\ Len(<<>>) = 0
    OBVIOUS
  <2>3. Len(buf'[c]) = at'[c] - range'[c][1]
    BY <1>3, <1>4, <1>5, <2>2
  <2>4. \A j \in 1 .. Len(buf'[c]), w \in Word : w = range'[c][1] + j - 1 => \A x \in {buf'[c][j]} : Found(c, w, x)'
    BY <1>5, <2>2
  <2>5. \A w \in Word : since'[c][w] <= latest'[w]
    BY <1>0, <1>3 DEF WordType
  <2>6. buf'[c] \in Seq(Nat)
    BY <1>5, <2>2
  <2>7. KTail(range[c])' = KTail(range'[c])
    BY DEF KTail
  <2> QED BY <2>1, <2>3, <2>4, <2>5, <2>6, <2>7 DEF Reading
<1> QED BY <1>6, <1>7, <1>8, StillKeeps

\* getchunk returns.
LEMMA GetReturnKeeps ==
  ASSUME StorageInv, BlocksApart, NEW c \in Client, GetReturn(c)
  PROVE  DataInv'
<1>0. TypeInv /\ DataInv /\ WordType /\ UNCHANGED <<mode, store, pend, range, at, creators, begun, latest, since>>
  BY DEF StorageInv, UserInv, DataInv, GetReturn, mem, hist
<1>1. pc[c] = "read"
  BY DEF GetReturn
<1>2. ~Dying /\ Live
  BY <1>1, LiveNow
<1>3. pc'[c] = "idle" /\ buf'[c] = <<>> /\ \A d \in Client \ {c} : pc'[d] = pc[d] /\ buf'[d] = buf[d]
  BY <1>0 DEF GetReturn, TypeInv
<1>4. Still(c)
  BY <1>0, <1>1, <1>2, <1>3 DEF Still, Putting, WordType
<1>5. Chunks(c)' /\ Reading(c)'
  BY <1>3 DEF Chunks, Putting, Reading
<1> QED BY <1>4, <1>5, StillKeeps

\* AllocObjectId draws a key, fails once more, or gives up.
LEMMA AllocKeeps ==
  ASSUME StorageInv, BlocksApart, NEW c \in Client, UNCHANGED <<mode, store, pend, range, buf, creators, begun, latest, since>>,
         \A d \in Client \ {c} : pc'[d] = pc[d] /\ at'[d] = at[d],
         pc[c] = "alloc" \/ (pc[c] = "idle" /\ MayGoOn(c)), pc'[c] \in {"alloc", "aborted"}
  PROVE  DataInv'
<1>0. TypeInv /\ DataInv /\ WordType /\ Chunks(c)
  BY DEF StorageInv, UserInv, DataInv
<1>1. ~reply \/ ~Deleter(c)
  <2> SUFFICES ASSUME reply, Deleter(c) PROVE FALSE
    OBVIOUS
  <2>1. Cleared(c)
    BY <1>0 DEF DataInv
  <2>2. pc[c] = "idle" /\ MayGoOn(c)
    BY <2>1 DEF Cleared
  <2>3. PICK s \in Server, i \in Nat : Deletes(c, s, i)
    BY <2>2 DEF Deleter
  <2>4. pend[c][s] = <<>> /\ Len(<<>>) = 0
    BY <2>2 DEF MayGoOn
  <2> QED BY <2>3, <2>4 DEF Deletes
<1>2. pc'[c] # "read" /\ (~Dying \/ ~Deleter(c))
  BY <1>1 DEF Dying
<1>3. Still(c)
  BY <1>0, <1>2 DEF Still, Putting, WordType
<1>4. Chunks(c)' /\ Reading(c)'
  BY <1>0 DEF Chunks, Putting, Reading
<1> QED BY <1>3, <1>4, StillKeeps

\* A word in the item that is fetched.
LEMMA FetchedAt ==
  ASSUME TypeInv, NEW w \in Word, NEW k, k = w \div Unit, NEW v, v = store[k]
  PROVE  Fetched(k)[w % Unit] = At(v, w)
<1>1. w % Unit \in 0 .. Unit - 1
  BY WordItem
<1>2. CASE v = Absent
  BY <1>1, <1>2 DEF Fetched, At
<1>3. CASE v # Absent
  BY <1>3 DEF Fetched, At
<1> QED BY <1>2, <1>3

\* The keys asked for are those of all the words.
LEMMA FetchCovers ==
  ASSUME TypeInv, NEW l \in Nat, NEW n \in Nat, NEW w \in Nat, l <= w, w < l + n
  PROVE  w \div Unit \in FetchKeys(l, n)
<1>1. PICK u \in Nat \ {0} : u = Unit
  BY Words
<1>2. PICK q \in Nat, m \in Nat : q = l \div u /\ m = l % u /\ l = q * u + m /\ m < u
  BY Divided
<1>3. PICK a \in Nat, b \in Nat : a = w \div u /\ b = w % u /\ w = a * u + b /\ b < u
  BY Divided
<1>4. PICK z \in Nat, y \in Nat : z = (n + m) \div u /\ y = (n + m) % u /\ n + m = z * u + y /\ y < u
  BY Divided
<1>5. PICK qu \in Nat, au \in Nat, zu \in Nat : qu = q * u /\ au = a * u /\ zu = z * u
  OBVIOUS
<1>6. (a + 1) * u = au + u /\ (q + z) * u = qu + zu /\ (q + z + 1) * u = qu + zu + u
  BY <1>5
<1>7. a + 1 <= q => au + u <= qu
  <2>1. a + 1 <= q => (a + 1) * u <= q * u
    BY Times
  <2> QED BY <1>5, <1>6, <2>1
<1>8. q <= a
  BY <1>2, <1>3, <1>5, <1>7
<1>9. q + z <= a => qu + zu <= au
  <2>1. q + z \in Nat /\ (q + z <= a => (q + z) * u <= a * u)
    BY Times
  <2> QED BY <1>5, <1>6, <2>1
<1>10. q + z + 1 <= a => qu + zu + u <= au
  <2>1. q + z + 1 \in Nat /\ (q + z + 1 <= a => (q + z + 1) * u <= a * u)
    BY Times
  <2> QED BY <1>5, <1>6, <2>1
<1>11. w + 1 <= qu + zu + y
  BY <1>2, <1>4, <1>5
<1>12. y = 0 => a < q + z
  BY <1>3, <1>5, <1>9, <1>11
<1>13. a < q + z + 1
  BY <1>3, <1>4, <1>5, <1>10, <1>11
<1>14. CeilDiv(n + m, u) = IF y = 0 THEN z ELSE z + 1
  BY <1>4 DEF CeilDiv
<1>15. PICK x : x = CeilDiv(n + m, u)
  OBVIOUS
<1>16. x \in Nat /\ a - q \in 0 .. x - 1 /\ a = q + (a - q)
  BY <1>8, <1>12, <1>13, <1>14, <1>15
<1>17. a \in {q + i : i \in 0 .. x - 1}
  BY <1>16
<1> QED BY <1>1, <1>2, <1>3, <1>15, <1>17 DEF FetchKeys

\* Buffer b is s with the n words of f after it.
Extended(b, s, n, f) ==
  /\ b \in Seq(Nat) /\ Len(b) = Len(s) + n
  /\ \A j \in 1 .. Len(b) : b[j] = IF j <= Len(s) THEN s[j] ELSE f[j - Len(s)]

\* A longer buffer.
LEMMA Longer ==
  ASSUME NEW s \in Seq(Nat), NEW n \in Nat, NEW f \in [1 .. n -> Nat], NEW b, b = s \o f
  PROVE  Extended(b, s, n, f)
<1>1. f \in Seq(Nat) /\ Len(f) = n
  OBVIOUS
<1>2. /\ s \o f \in Seq(Nat) /\ Len(s \o f) = Len(s) + Len(f)
      /\ \A j \in 1 .. Len(s) + Len(f) : (s \o f)[j] = IF j <= Len(s) THEN s[j] ELSE f[j - Len(s)]
  BY <1>1, ConcatProperties
<1> QED BY <1>1, <1>2 DEF Extended

\* A word that is fetched is not too old.
LEMMA FetchFound ==
  ASSUME StorageInv, BlocksApart, NEW c \in Client, pc[c] = "read", NEW ks, Answers(c, ks),
         NEW w \in Word, w \div Unit \in ks, NEW x, x = WordFetched(w, ks)
  PROVE  x \in Nat /\ Found(c, w, x)
<1>0. TypeInv /\ WordType /\ Reading(c) /\ Live
  BY LiveNow DEF StorageInv, UserInv, DataInv
<1>1. PICK k, v : k = w \div Unit /\ v = store[k]
  OBVIOUS
<1>2. k \in Key \ {InfoKey} /\ k \in ks
  BY <1>0, <1>1, WordItem
<1>3. x = At(v, w)
  BY <1>0, <1>1, FetchedAt DEF WordFetched
<1>4. Between(v, w)
  BY <1>0, <1>1, <1>2 DEF Live, Bounds
<1>5. since[c][w] \in Nat /\ latest[w] \in Nat /\ since[c][w] <= latest[w] /\ begun[w] \in Nat
  BY <1>0 DEF Reading, WordType, TypeInv
<1>6. x \in Nat /\ x <= begun[w] /\ (reply => latest[w] <= x)
  BY <1>3, <1>4 DEF Between
<1>7. ASSUME w \in Owned(c) PROVE since[c][w] <= x
  <2>1. Free(c, w) /\ Data(c)
    BY <1>0, <1>7, OwnFree DEF Live
  <2>2. latest[w] <= begun[w]
    BY <1>0, <2>1, HistoryOrder
  <2>3. \A i \in Nat : ~Sent(c, k, i)
    BY <1>0, <1>2, NothingSent DEF Answers
  <2>4. Tip(c, k, v)
    BY <1>1, <2>3 DEF Tip
  <2>5. At(v, w) = Due(c, w)
    BY <1>1, <1>2, <2>1, <2>4 DEF Data, Last
  <2>6. Due(c, w) = begun[w]
    BY DEF Due, Writing, Putting
  <2> QED BY <1>3, <1>5, <1>6, <2>2, <2>5, <2>6
<1>8. reply => since[c][w] <= x
  BY <1>5, <1>6
<1> QED BY <1>6, <1>7, <1>8 DEF Found

\* A batch is fetched.
LEMMA GetBatchKeeps ==
  ASSUME StorageInv, BlocksApart, NEW c \in Client, GetBatch(c)
  PROVE  DataInv'
<1>0. TypeInv /\ DataInv /\ WordType /\ Reading(c) /\ Chunks(c)
  BY DEF StorageInv, UserInv, DataInv
<1>1. PICK l, r, s, z : l = at[c] /\ r = range[c] /\ s = buf[c] /\ z = since[c]
  OBVIOUS
<1>2. PICK n, ks : n = BatchLen(r, l) /\ ks = FetchKeys(l, n)
  OBVIOUS
<1>3. PICK f : f = [j \in 1 .. n |-> WordFetched(l + j - 1, ks)]
  OBVIOUS
<1>4. /\ pc[c] = "read" /\ l < KTail(r) /\ Answers(c, ks)
      /\ buf' = [buf EXCEPT ![c] = s \o f] /\ at' = [at EXCEPT ![c] = l + n]
      /\ UNCHANGED <<mode, store, pend, pc, range, creators, begun, latest, since>>
  BY <1>1, <1>2, <1>3 DEF GetBatch, mem, hist
<1>5. /\ l \in r[1] .. KTail(r) /\ s \in Seq(Nat) /\ Len(s) = l - r[1]
      /\ \A j \in 1 .. Len(s), w \in Word : w = r[1] + j - 1 => \A x \in {s[j]} : Found(c, w, x)
      /\ \A w \in Word : z[w] <= latest[w]
  BY <1>0, <1>1, <1>4 DEF Reading
<1>6. r \in Nat \X Nat /\ l \in Nat /\ KTail(r) <= Size /\ Size \in Nat /\ KTail(r) \in Nat /\ r[1] \in Nat
  <2>1. r \in Nat \X Nat /\ l \in Nat /\ Doing(c)
    BY <1>0, <1>1 DEF TypeInv
  <2> QED BY <1>1, <2>1, Numbers DEF Doing, KTail
<1>7. n \in Nat /\ l + n <= KTail(r)
  <2>1. Batch \in Nat
    BY SizeAssumption
  <2> QED BY <1>2, <1>4, <1>6, <2>1 DEF BatchLen
<1>8. ASSUME NEW j \in 1 .. n, NEW w, w = l + j - 1
      PROVE  w \in Word /\ f[j] \in Nat /\ \A x \in {f[j]} : Found(c, w, x)
  <2>1. w \in Nat /\ l <= w /\ w < l + n /\ w < Size
    BY <1>6, <1>7, <1>8
  <2>2. w \in Word
    BY <1>6, <2>1 DEF Word
  <2>3. w \div Unit \in ks
    BY <1>0, <1>2, <1>6, <1>7, <2>1, FetchCovers
  <2>4. f[j] = WordFetched(w, ks)
    BY <1>3, <1>8
  <2> QED BY <1>4, <2>2, <2>3, <2>4, FetchFound
<1>9. f \in [1 .. n -> Nat]
  BY <1>3, <1>8
<1>10. PICK b : b = s \o f
  OBVIOUS
<1>11. /\ b \in Seq(Nat) /\ Len(b) = Len(s) + n
       /\ \A j \in 1 .. Len(b) : b[j] = IF j <= Len(s) THEN s[j] ELSE f[j - Len(s)]
  <2>1. Extended(b, s, n, f)
    BY <1>5, <1>7, <1>9, <1>10, Longer
  <2> QED BY <2>1 DEF Extended
<1>12. buf'[c] = b /\ at'[c] = l + n /\ \A d \in Client \ {c} : buf'[d] = buf[d] /\ at'[d] = at[d]
  BY <1>0, <1>4, <1>10 DEF TypeInv
<1>13. ASSUME NEW j \in 1 .. Len(b), NEW w \in Word, w = r[1] + j - 1, NEW x, x = b[j] PROVE Found(c, w, x)
  <2>1. Len(s) \in Nat /\ Len(s) = l - r[1] /\ j \in Nat /\ j >= 1 /\ j <= Len(s) + n
    BY <1>5, <1>11
  <2>2. CASE j <= Len(s)
    <3>1. j \in 1 .. Len(s) /\ x = s[j]
      BY <1>11, <1>13, <2>1, <2>2
    <3> QED BY <1>5, <1>13, <3>1
  <2>3. CASE ~(j <= Len(s))
    <3>1. PICK i : i = j - Len(s)
      OBVIOUS
    <3>2. i \in 1 .. n /\ w = l + i - 1
      <4>1. PICK g \in Nat, y \in Nat : g = r[1] /\ y = Len(s)
        BY <1>6, <2>1
      <4>2. y = l - g /\ w = g + j - 1 /\ i = j - y /\ j <= y + n /\ ~(j <= y)
        BY <1>13, <2>1, <2>3, <3>1, <4>1
      <4> QED BY <1>6, <1>7, <2>1, <4>2
    <3>3. x = f[i]
      BY <1>11, <1>13, <2>3, <3>1
    <3> QED BY <1>8, <3>2, <3>3
  <2> QED BY <2>2, <2>3
<1>14. \A w, x : Found(c, w, x)' <=> Found(c, w, x)
  BY <1>4 DEF Found, mode
<1>15. Reading(c)'
  <2>1. at'[c] \in r[1] .. KTail(r) /\ Len(b) = at'[c] - r[1]
    BY <1>5, <1>6, <1>7, <1>11, <1>12
  <2>2. range'[c] = r /\ since'[c] = z /\ latest' = latest /\ pc'[c] = "read"
    BY <1>1, <1>4
  <2>3. KTail(range[c])' = KTail(r)
    BY <2>2 DEF KTail
  <2>4. \A j \in 1 .. Len(b), w \in Word : w = r[1] + j - 1 => \A x \in {b[j]} : Found(c, w, x)'
    BY <1>13, <1>14
  <2> QED BY <1>5, <1>11, <1>12, <2>1, <2>2, <2>3, <2>4 DEF Reading
<1>16. Still(c)
  <2>1. ~Dying
    BY <1>4, LiveNow
  <2> QED BY <1>0, <1>4, <1>12, <2>1 DEF Still, Putting, WordType
<1>17. Chunks(c)'
  BY <1>4 DEF Chunks, Putting
<1> QED BY <1>15, <1>16, <1>17, StillKeeps

\* The ObjectInfo is stored, or the command for it sent.
LEMMA CreatedKeeps ==
  ASSUME StorageInv, BlocksApart, NEW c \in Client, pc[c] = "alloc", Created(c), Live, ~Dying, Routed',
         \A k \in Key \ {InfoKey} : store'[k] = store[k],
         \A d \in Client, k \in Key \ {InfoKey}, i \in Nat : (Sent(d, k, i)' <=> Sent(d, k, i)) /\ (Sent(d, k, i) => Val(d, k, i)' = Val(d, k, i)),
         \A d \in Client, k \in Key \ {InfoKey} : \A v : Tip(d, k, v)' => Tip(d, k, v),
         reply => UNCHANGED pend
  PROVE  DataInv'
<1>0. /\ TypeInv /\ DataInv /\ WordType /\ Inside /\ UNCHANGED mode /\ UNCHANGED <<range, at, buf, begun, latest, since>>
      /\ creators' # {} /\ pc'[c] = "idle" /\ \A d \in Client \ {c} : pc'[d] = pc[d]
  BY DEF StorageInv, UserInv, DataInv, Created, TypeInv, hist
<1>1. Unit' = Unit /\ reply' = reply /\ ItemCount' = ItemCount
  BY <1>0 DEF mode, Unit, ItemCount
<1>2. WordType' /\ Inside'
  BY <1>0, <1>1 DEF WordType, Inside
<1>3. ASSUME NEW d \in Client PROVE (Putting(d)' <=> Putting(d)) /\ (pc'[d] = "del" <=> pc[d] = "del")
  BY <1>0 DEF Putting
<1>4. ASSUME NEW d \in Client, reply PROVE ~Deleter(d)'
  <2>1. ~Deleter(d)
    BY <1>4 DEF Dying
  <2> QED BY <1>3, <1>4, <2>1 DEF Deleter, Deletes
<1>5. ASSUME NEW d \in Client PROVE Chunks(d)' /\ Reading(d)' /\ (~reply' => pc'[d] # "del")
  <2>1. Chunks(d) /\ Reading(d) /\ (~reply => pc[d] # "del")
    BY <1>0 DEF DataInv
  <2>2. \A w \in Word : begun[w] \in Nat /\ latest[w] \in Nat /\ begun'[w] = begun[w] /\ latest'[w] = latest[w]
    BY <1>0 DEF TypeInv, WordType
  <2>3. \A w \in Word : begun'[w] \in Nat /\ begun[w] <= begun'[w] /\ latest'[w] \in Nat /\ latest[w] <= latest'[w]
    BY <2>2
  <2>4. pc'[d] = "read" => pc[d] = "read"
    BY <1>0
  <2>5. range'[d] = range[d] /\ at'[d] = at[d] /\ buf'[d] = buf[d] /\ since'[d] = since[d]
    BY <1>0
  <2>6. Reading(d)'
    BY <1>0, <2>1, <2>3, <2>4, <2>5, ReadingKept
  <2>7. Chunks(d)'
    BY <1>0, <1>3, <2>1, <2>5 DEF Chunks
  <2> QED BY <1>1, <1>3, <2>1, <2>6, <2>7
<1>6. Bounds'
  <2> SUFFICES ASSUME NEW w \in Word, NEW k \in Key, k = w \div Unit'
               PROVE  /\ \A v \in {store'[k]} : Between(v, w)'
                      /\ \A d \in Client, i \in Nat : Sent(d, k, i)' => \A v \in {Val(d, k, i)'} : Between(v, w)'
    BY DEF Bounds
  <2>1. k \in Key \ {InfoKey} /\ k = w \div Unit
    BY <1>0, <1>1, WordItem
  <2>2. \A v \in {store'[k]} : Between(v, w)
    BY <2>1 DEF Live, Bounds
  <2>3. \A d \in Client, i \in Nat : Sent(d, k, i)' => \A v \in {Val(d, k, i)'} : Between(v, w)
    BY <2>1 DEF Live, Bounds
  <2> QED BY <1>0, <2>2, <2>3, BetweenKept
<1>7. Settled'
  <2> SUFFICES ASSUME reply, NEW d \in Client, ~Putting(d)', NEW k \in Key, NEW i \in Nat PROVE ~Sent(d, k, i)'
    BY <1>1 DEF Settled
  <2>1. ~Sent(d, k, i)
    BY <1>3 DEF Live, Settled
  <2> QED BY <2>1, SameSent
<1>8. Clean'
  BY <1>0 DEF Clean
<1>9. ASSUME NEW d \in Client PROVE Data(d)'
  <2>1. Data(d) /\ Chunks(d)
    BY <1>0 DEF Live, DataInv
  <2>2. pc'[d] = pc[d] \/ (~Putting(d) /\ ~Putting(d)')
    BY <1>0 DEF Putting
  <2>3. \A w \in Word, k \in Key : k = w \div Unit /\ Free(d, w) => \A v : Tip(d, k, v)' => Tip(d, k, v)
    <3>1. \A w \in Word : w \div Unit \in Key \ {InfoKey}
      BY <1>0, WordItem
    <3> QED BY <3>1
  <2> QED BY <1>0, <2>1, <2>2, <2>3, DataKept
<1>10. ASSUME NEW e \in Client, reply', Deleter(e)' PROVE FALSE
  BY <1>1, <1>4, <1>10
<1>11. Live'
  BY <1>6, <1>7, <1>8, <1>9 DEF Live
<1> QED BY <1>2, <1>5, <1>10, <1>11 DEF DataInv

\* A command that is sent changes nothing for other items.
LEMMA SendOther ==
  ASSUME TypeInv, NEW c \in Client, NEW m \in Order(Unit), Send(c, m)
  PROVE  \A d \in Client, k \in Key, i \in Nat : ~(d = c /\ k = m.key) =>
           (Sent(d, k, i)' <=> Sent(d, k, i)) /\ (Sent(d, k, i) => Val(d, k, i)' = Val(d, k, i))
<1>1. PICK n \in Nat :
         /\ Sent(c, m.key, n)' /\ Val(c, m.key, n)' = m.val /\ m.key \in Key
         /\ \A d \in Client, k \in Key, i \in Nat :
              IF d = c /\ k = m.key THEN /\ Sent(d, k, i)' => i = n \/ (Sent(d, k, i) /\ Val(d, k, i)' = Val(d, k, i))
                                         /\ Sent(d, k, i) => i < n
              ELSE (Sent(d, k, i)' <=> Sent(d, k, i)) /\ (Sent(d, k, i) => Val(d, k, i)' = Val(d, k, i))
  BY SendSent
<1> QED BY <1>1

\* newobj.
LEMMA NewObjKeeps ==
  ASSUME StorageInv, BlocksApart, NEW c \in Client, NewObj(c)
  PROVE  DataInv'
<1>0. TypeInv /\ OneUser /\ DataInv /\ Routed /\ pc[c] = "alloc"
  BY DEF StorageInv, UserInv, DataInv, NewObj
<1>1. CASE ~reply /\ Send(c, Command(TRUE, InfoKey, <<Size>>)) /\ Created(c) /\ UNCHANGED store
  <2>1. PICK m : m = Command(TRUE, InfoKey, <<Size>>)
    OBVIOUS
  <2>2. m \in Order(Unit) /\ m.key = InfoKey
    BY <2>1, InfoThere DEF Order, Command
  <2>3. ~Dying /\ Live
    BY <1>0, <1>1 DEF Dying, DataInv
  <2>4. UNCHANGED mode
    BY <1>1 DEF Created
  <2>5. Routed'
    <3>1. Sound(m)
      BY <1>1, <2>1, <2>2 DEF Sound
    <3> QED BY <1>0, <1>1, <2>1, <2>2, <2>4, <3>1, RoutedSend
  <2>6. \A d \in Client, k \in Key \ {InfoKey}, i \in Nat : (Sent(d, k, i)' <=> Sent(d, k, i)) /\ (Sent(d, k, i) => Val(d, k, i)' = Val(d, k, i))
    BY <1>0, <1>1, <2>1, <2>2, SendOther
  <2>7. \A d \in Client, k \in Key \ {InfoKey} : \A v : Tip(d, k, v)' => Tip(d, k, v)
    BY <1>0, <1>1, <2>1, <2>2, SendTip
  <2> QED BY <1>0, <1>1, <2>3, <2>5, <2>6, <2>7, CreatedKeeps
<1>2. CASE reply /\ KeyFree /\ store' = [store EXCEPT ![InfoKey] = <<Size>>] /\ Created(c) /\ UNCHANGED pend
  <2>1. NoneDeleting /\ NoDeletes
    BY <1>0, <1>2 DEF KeyFree, OneUser, OneHand
  <2>2. ~Dying
    BY <2>1 DEF Dying, Deleter, NoneDeleting, NoDeletes
  <2>3. Live
    BY <1>0, <2>2 DEF DataInv
  <2>4. \A k \in Key \ {InfoKey} : store'[k] = store[k]
    BY <1>0, <1>2 DEF TypeInv
  <2>5. Routed'
    <3>1. UNCHANGED mode
      BY <1>2 DEF Created
    <3> QED BY <1>0, <1>2, <3>1, RoutedSame
  <2>6. \A d \in Client, k \in Key \ {InfoKey}, i \in Nat : (Sent(d, k, i)' <=> Sent(d, k, i)) /\ (Sent(d, k, i) => Val(d, k, i)' = Val(d, k, i))
    BY <1>2, SameSent
  <2>7. \A d \in Client, k \in Key \ {InfoKey} : \A v : Tip(d, k, v)' => Tip(d, k, v)
    BY <1>2, <2>4, SameSent
  <2> QED BY <1>0, <1>2, <2>2, <2>3, <2>4, <2>5, <2>6, <2>7, CreatedKeeps
<1>3. CASE reply /\ ~KeyFree /\ at' = [at EXCEPT ![c] = @ + 1] /\ UNCHANGED <<mode, mem, pc, range, buf, creators, hist, since, ops>>
  <2>1. UNCHANGED <<mode, store, pend, range, buf, creators, begun, latest, since, pc>>
    BY <1>3 DEF mem, hist
  <2>2. \A d \in Client \ {c} : at'[d] = at[d]
    BY <1>0, <1>3 DEF TypeInv
  <2>3. pc'[c] \in {"alloc", "aborted"} /\ \A d \in Client \ {c} : pc'[d] = pc[d]
    BY <1>0, <2>1
  <2> QED BY <1>0, <2>1, <2>2, <2>3, AllocKeeps
<1> QED BY <1>1, <1>2, <1>3 DEF NewObj

(***************************************************************************)
(* del.                                                                    *)
(***************************************************************************)

\* A command about the ObjectInfo.
LEMMA DeletesSent ==
  ASSUME Routed, NEW c \in Client, NEW s \in Server, NEW i \in Nat, Deletes(c, s, i)
  PROVE  Sent(c, InfoKey, i) /\ s = ServerOf[InfoKey]
<1>1. ServerOf[pend[c][s][i].key] = s /\ pend[c][s][i].key = InfoKey
  BY DEF Routed, Deletes
<1> QED BY <1>1 DEF Sent, Deletes

\* Only one client deletes the object.
LEMMA OneDeleter ==
  ASSUME Routed, NEW c \in Client, Cleared(c), NEW e \in Client, Deleter(e)
  PROVE  e = c
<1> SUFFICES ASSUME e # c PROVE FALSE
  OBVIOUS
<1>1. pc[e] \in {"idle", "alloc", "aborted"} /\ \A k \in Key, i \in Nat : ~Sent(e, k, i)
  BY DEF Cleared
<1>2. PICK s \in Server, i \in Nat : Deletes(e, s, i)
  BY <1>1 DEF Deleter
<1>3. Sent(e, InfoKey, i) /\ InfoKey \in Key
  BY <1>2, DeletesSent, Numbers
<1> QED BY <1>1, <1>3

\* While client c deletes the object the rest of the invariant says little.
LEMMA DyingCloses ==
  ASSUME NEW c \in Client, reply', Deleter(c)', Cleared(c)', \A e \in Client : Deleter(e)' => e = c,
         WordType', Routed', Inside', \A d \in Client : Chunks(d)'
  PROVE  DataInv'
<1>1. \A d \in Client : pc'[d] # "read"
  BY DEF Cleared
<1>2. \A d \in Client : Reading(d)'
  BY <1>1 DEF Reading
<1>3. Dying'
  BY DEF Dying
<1> QED BY <1>2, <1>3 DEF DataInv

\* del begins.
LEMMA StartDelKeeps ==
  ASSUME StorageInv, KeptUnanswered, NEW c \in Client, StartDel(c)
  PROVE  DataInv'
<1>0. /\ TypeInv /\ OneUser /\ DataInv /\ WordType /\ Routed /\ Inside /\ UNCHANGED mode /\ UNCHANGED <<store, pend, range, buf, since>>
      /\ c \in creators /\ creators' = {} /\ pc[c] = "idle" /\ MayGoOn(c)
      /\ \A d \in Client \ {c} : pc[d] \in {"idle", "alloc", "aborted"}
  BY DEF StorageInv, UserInv, DataInv, StartDel, Ready, mem
<1>1. reply /\ reply' = reply /\ Unit' = Unit /\ ItemCount' = ItemCount
  <2>1. reply \in Churn /\ reply \in BOOLEAN
    BY <1>0 DEF StartDel, TypeInv
  <2>2. reply
    BY <2>1 DEF KeptUnanswered
  <2> QED BY <1>0, <2>2 DEF mode, Unit, ItemCount
<1>2. Live
  <2>1. creators # {}
    BY <1>0
  <2> QED BY <2>1, LiveNow
<1>3. NoneDeleting /\ NoDeletes
  BY <1>0, <1>1 DEF OneUser, OneHand
<1>4. /\ pc'[c] = "del" /\ at'[c] = 0 /\ \A d \in Client \ {c} : pc'[d] = pc[d] /\ at'[d] = at[d]
      /\ \A w \in Word : begun'[w] = 0 /\ latest'[w] = 0
      /\ latest' \in [Word -> Nat]
  BY <1>0 DEF StartDel, TypeInv
<1>5. ASSUME NEW e \in Client, Deleter(e)' PROVE e = c
  <2>1. \A s \in Server, i \in Nat : ~Deletes(e, s, i)'
    BY <1>0, <1>3 DEF NoDeletes, Deletes
  <2>2. pc'[e] = "del"
    BY <1>5, <2>1 DEF Deleter
  <2> QED BY <1>0, <1>4, <2>2
<1>6. Deleter(c)'
  BY <1>4 DEF Deleter
<1>7. WordType' /\ Routed' /\ Inside'
  BY <1>0, <1>1, <1>4, RoutedSame DEF WordType, Inside
<1>8. ASSUME NEW d \in Client PROVE Chunks(d)'
  <2>1. Chunks(d) /\ pc[d] \notin {"put", "merge", "read"} /\ pc'[d] \notin {"put", "merge", "read"}
    BY <1>0, <1>4 DEF DataInv
  <2> QED BY <1>0, <2>1 DEF Chunks, Putting
<1>9. Cleared(c)'
  <2>1. ASSUME NEW d \in Client, d # c
        PROVE  pc'[d] \in {"idle", "alloc", "aborted"} /\ \A k \in Key, i \in Nat : ~Sent(d, k, i)'
    <3>1. \A k \in Key, i \in Nat : ~Sent(d, k, i)
      BY <1>0, <1>1, <1>2, <2>1 DEF Live, Settled, Putting
    <3>2. \A k \in Key, i \in Nat : ~Sent(d, k, i)'
      BY <1>0, <3>1, SameSent
    <3> QED BY <1>0, <1>4, <2>1, <3>2
  <2>2. ItemCount \in Nat /\ \A k \in Key : k \in Nat
    BY <1>0, CountNat
  <2>3. pc'[c] = "del" /\ at'[c] <= ItemCount'
    BY <1>1, <1>4, <2>2
  <2>4. ASSUME NEW k \in Key \ {InfoKey}, ~Counts(c, k)', NEW v, Tip(c, k, v)' PROVE v = Absent
    <3>1. ItemCount <= k
      BY <1>1, <1>4, <2>2, <2>4 DEF Counts
    <3>2. Tip(c, k, v)
      BY <1>0, <2>4, SameSent
    <3>3. \A i \in Nat : ~Sent(c, k, i)
      BY <1>0, <1>1, NothingSent DEF MayGoOn
    <3>4. v = store[k]
      BY <3>2, <3>3 DEF Tip, LastSent
    <3> QED BY <1>0, <3>1, <3>4 DEF Inside
  <2> QED BY <1>0, <1>4, <2>1, <2>3, <2>4 DEF Cleared
<1> QED BY <1>1, <1>5, <1>6, <1>7, <1>8, <1>9, DyingCloses

\* An item of the object is deleted, or its ObjectInfo.
LEMMA DelItemKeeps ==
  ASSUME StorageInv, NEW c \in Client, DelItem(c)
  PROVE  DataInv'
<1>0. /\ TypeInv /\ DataInv /\ WordType /\ Routed /\ Inside /\ UNCHANGED mode /\ UNCHANGED <<store, range, buf, creators, begun, latest, since>>
      /\ pc[c] = "del" /\ MayGoOn(c) /\ at[c] \in Nat
  BY DEF StorageInv, UserInv, DataInv, DelItem, TypeInv, hist
<1>1. reply /\ reply' = reply /\ Unit' = Unit /\ ItemCount' = ItemCount
  BY <1>0 DEF DataInv, mode, Unit, ItemCount
<1>2. Deleter(c) /\ Cleared(c)
  BY <1>0, <1>1 DEF DataInv, Deleter
<1>3. \A k \in Key, i \in Nat : ~Sent(c, k, i)
  BY <1>0, <1>1, NothingSent DEF MayGoOn
<1>4. WordType' /\ Inside'
  BY <1>0, <1>1 DEF WordType, Inside
<1>5. ItemCount \in Nat /\ \A k \in Key : k \in Nat
  BY <1>0, CountNat
<1>6. CASE at[c] < ItemCount /\ Send(c, Command(FALSE, at[c], Absent)) /\ at' = [at EXCEPT ![c] = @ + 1] /\ UNCHANGED pc
  <2>1. PICK a, m : a = at[c] /\ m = Command(FALSE, a, Absent)
    OBVIOUS
  <2>2. a \in Key \ {InfoKey}
    <3>1. PICK u \in Nat \ {0} : u = Unit
      BY <1>0, Words
    <3>2. a < CeilDiv(Size, u) /\ a \in Nat
      BY <1>0, <1>6, <2>1, <3>1 DEF ItemCount
    <3> QED BY <3>2, CountKey
  <2>3. m \in Order(Unit) /\ m.key = a /\ m.add = FALSE /\ m.val = Absent /\ Send(c, m)
    BY <1>6, <2>1, <2>2 DEF Order, Item, Command
  <2>4. Sound(m)
    BY <1>6, <2>1, <2>2, <2>3 DEF Sound
  <2>5. Routed'
    BY <1>0, <2>3, <2>4, RoutedSend
  <2>6. at'[c] = a + 1 /\ \A d \in Client \ {c} : at'[d] = at[d]
    BY <1>0, <1>6, <2>1 DEF TypeInv
  <2>7. ASSUME NEW d \in Client PROVE Chunks(d)'
    BY <1>0, <1>6 DEF DataInv, Chunks, Putting
  <2>8. ASSUME NEW e \in Client, Deleter(e)' PROVE e = c
    <3>1. \A s \in Server, i \in Nat : Deletes(e, s, i)' <=> Deletes(e, s, i)
      BY <1>0, <2>2, <2>3, SendQuiet
    <3>2. Deleter(e)
      BY <1>6, <2>8, <3>1 DEF Deleter
    <3> QED BY <1>0, <1>2, <3>2, OneDeleter
  <2>9. Deleter(c)'
    BY <1>0, <1>6 DEF Deleter
  <2>10. ASSUME NEW d \in Client, d # c
         PROVE  pc'[d] \in {"idle", "alloc", "aborted"} /\ \A k \in Key, i \in Nat : ~Sent(d, k, i)'
    <3>1. pc[d] \in {"idle", "alloc", "aborted"} /\ \A k \in Key, i \in Nat : ~Sent(d, k, i)
      BY <1>2, <2>10 DEF Cleared
    <3>2. \A k \in Key, i \in Nat : ~Sent(d, k, i)'
      BY <1>0, <2>3, <2>10, <3>1, SendOther
    <3> QED BY <1>6, <3>1, <3>2
  <2>11. ASSUME NEW k \in Key \ {InfoKey}, ~Counts(c, k)', NEW v, Tip(c, k, v)' PROVE v = Absent
    <3>1. CASE k = a
      BY <1>0, <2>3, <2>11, <3>1, SendTip
    <3>2. CASE k # a
      <4>1. Tip(c, k, v)
        BY <1>0, <2>3, <2>11, <3>2, SendTip
      <4>2. ~Counts(c, k)
        BY <1>0, <1>1, <1>5, <1>6, <2>1, <2>6, <2>11, <3>2 DEF Counts
      <4> QED BY <1>2, <4>1, <4>2 DEF Cleared
    <3> QED BY <3>1, <3>2
  <2>12. pc'[c] = "del" /\ at'[c] <= ItemCount'
    BY <1>0, <1>1, <1>5, <1>6, <2>1, <2>6
  <2>13. creators' = {} /\ \A w \in Word : begun'[w] = 0 /\ latest'[w] = 0
    BY <1>0, <1>2 DEF Cleared
  <2>14. Cleared(c)'
    BY <2>10, <2>11, <2>12, <2>13 DEF Cleared
  <2> QED BY <1>1, <1>4, <2>5, <2>7, <2>8, <2>9, <2>14, DyingCloses
<1>7. CASE at[c] = ItemCount /\ Send(c, Command(FALSE, InfoKey, Absent)) /\ pc' = [pc EXCEPT ![c] = "idle"] /\ UNCHANGED at
  <2>1. PICK m : m = Command(FALSE, InfoKey, Absent)
    OBVIOUS
  <2>2. m \in Order(Unit) /\ m.key = InfoKey /\ m.add = FALSE /\ m.val = Absent /\ Send(c, m)
    BY <1>7, <2>1, InfoThere DEF Order, Command
  <2>3. Sound(m)
    BY <2>2 DEF Sound
  <2>4. Routed'
    BY <1>0, <2>2, <2>3, RoutedSend
  <2>5. pc'[c] = "idle" /\ \A d \in Client \ {c} : pc'[d] = pc[d]
    BY <1>0, <1>7 DEF TypeInv
  <2>6. ASSUME NEW d \in Client PROVE Chunks(d)'
    <3>1. Chunks(d) /\ pc[d] \notin {"put", "merge", "read"} /\ pc'[d] \notin {"put", "merge", "read"}
      BY <1>0, <1>2, <2>5 DEF DataInv, Cleared
    <3> QED BY <1>0, <3>1 DEF Chunks, Putting
  <2>7. ASSUME NEW e \in Client, Deleter(e)', e # c PROVE FALSE
    <3>1. PICK z \in Server, n \in Nat : \A d \in Client, s \in Server, i \in Nat :
            Deletes(d, s, i)' => Deletes(d, s, i) \/ (d = c /\ s = z /\ i = n)
      <4>1. pc' # pc
        BY <1>0, <2>5
      <4> QED BY <1>0, <4>1, DelType
    <3>2. Deleter(e)
      BY <2>5, <2>7, <3>1 DEF Deleter
    <3> QED BY <1>0, <1>2, <2>7, <3>2, OneDeleter
  <2>8. Deleter(c)'
    <3>1. PICK n \in Nat : Sent(c, m.key, n)'
      BY <1>0, <2>2, SendSent
    <3>2. PICK z \in Server : z = ServerOf[InfoKey]
      BY <2>2, KeyServer
    <3>3. Deletes(c, z, n)'
      BY <2>2, <3>1, <3>2 DEF Sent, Deletes
    <3> QED BY <3>3 DEF Deleter
  <2>9. ASSUME NEW d \in Client, d # c
         PROVE  pc'[d] \in {"idle", "alloc", "aborted"} /\ \A k \in Key, i \in Nat : ~Sent(d, k, i)'
    <3>1. pc[d] \in {"idle", "alloc", "aborted"} /\ \A k \in Key, i \in Nat : ~Sent(d, k, i)
      BY <1>2, <2>9 DEF Cleared
    <3>2. \A k \in Key, i \in Nat : ~Sent(d, k, i)'
      BY <1>0, <2>2, <2>9, <3>1, SendOther
    <3> QED BY <2>5, <2>9, <3>1, <3>2
  <2>10. \A k \in Key \ {InfoKey}, i \in Nat : ~Sent(c, k, i)'
    BY <1>0, <1>3, <2>2, SendOther
  <2>11. ASSUME NEW k \in Key \ {InfoKey}, NEW v, Tip(c, k, v)' PROVE v = Absent
    <3>1. Tip(c, k, v)
      BY <1>0, <2>2, <2>11, SendTip
    <3>2. ~Counts(c, k)
      BY <1>5, <1>7 DEF Counts
    <3> QED BY <1>2, <3>1, <3>2 DEF Cleared
  <2>12. creators' = {} /\ \A w \in Word : begun'[w] = 0 /\ latest'[w] = 0
    BY <1>0, <1>2 DEF Cleared
  <2>13. Cleared(c)'
    BY <2>5, <2>9, <2>10, <2>11, <2>12 DEF Cleared
  <2> QED BY <1>1, <1>4, <2>4, <2>6, <2>7, <2>8, <2>13, DyingCloses
<1> QED BY <1>6, <1>7 DEF DelItem

(***************************************************************************)
(* The servers.                                                            *)
(***************************************************************************)

\* The commands left in a connection.
LEMMA RoutedServe ==
  ASSUME TypeInv, Routed, NEW c \in Client, NEW s \in Server, Serve(c, s)
  PROVE  Routed'
<1>1. PICK S : S = Order(Unit)
  OBVIOUS
<1>2. PICK q \in Seq(S) : q = pend[c][s]
  BY <1>1 DEF TypeInv
<1>3. PICK a : a = Tail(q)
  OBVIOUS
<1>4. \A i \in 1 .. Len(a) : i + 1 \in 1 .. Len(q) /\ a[i] = q[i + 1]
  BY <1>2, <1>3, TailEntries DEF Serve
<1>5. pend' = [pend EXCEPT ![c] = [pend[c] EXCEPT ![s] = a]] /\ pend \in [Client -> [Server -> Seq(S)]] /\ UNCHANGED mode
  BY <1>1, <1>2, <1>3 DEF Serve, TypeInv
<1>6. /\ pend'[c][s] = a
      /\ \A d \in Client, z \in Server : ~(d = c /\ z = s) => pend'[d][z] = pend[d][z]
  BY <1>5
<1> SUFFICES ASSUME NEW d \in Client, NEW z \in Server, NEW i \in 1 .. Len(pend'[d][z]), NEW o, o = pend'[d][z][i]
             PROVE  ServerOf[o.key] = z /\ Sound(o)'
  BY DEF Routed
<1>7. SUFFICES ServerOf[o.key] = z /\ Sound(o)
  BY <1>5, RoutedSame
<1>8. CASE ~(d = c /\ z = s)
  BY <1>6, <1>8 DEF Routed
<1>9. CASE d = c /\ z = s
  <2>1. PICK j : j = i + 1
    OBVIOUS
  <2>2. i \in 1 .. Len(a) /\ o = a[i]
    BY <1>6, <1>9
  <2>3. o = q[j] /\ j \in 1 .. Len(q)
    BY <1>4, <2>1, <2>2
  <2>4. o = pend[d][z][j] /\ j \in 1 .. Len(pend[d][z])
    BY <1>2, <1>9, <2>3
  <2> QED BY <2>4 DEF Routed
<1> QED BY <1>8, <1>9

\* A server takes a command while nobody deletes the object.
LEMMA ServeLive ==
  ASSUME StorageInv, BlocksApart, NEW c \in Client, NEW s \in Server, Serve(c, s), ~Dying
  PROVE  DataInv'
<1>0. TypeInv /\ DataInv /\ WordType /\ Routed /\ Inside /\ Live /\ UNCHANGED mode /\ UNCHANGED <<pc, range, at, buf, creators, begun, latest, since>>
  BY DEF StorageInv, UserInv, DataInv, Serve, hist
<1>1. reply' = reply /\ Unit' = Unit /\ ItemCount' = ItemCount
  BY <1>0 DEF mode, Unit, ItemCount
<1>2. PICK m \in Order(Unit) :
         /\ m.key \in Key /\ ServerOf[m.key] = s /\ Sent(c, m.key, 1) /\ Val(c, m.key, 1) = m.val
         /\ Sound(m)
         /\ \A k \in Key : k # m.key => store'[k] = store[k]
         /\ ~m.add => store'[m.key] = m.val
         /\ \A k \in Key, i \in Nat : ServerOf[k] = s =>
              /\ i + 1 \in Nat /\ (Sent(c, k, i)' <=> i # 0 /\ Sent(c, k, i + 1))
              /\ Sent(c, k, i)' => Val(c, k, i)' = Val(c, k, i + 1)
         /\ \A d \in Client, k \in Key, i \in Nat : ~(d = c /\ ServerOf[k] = s) =>
              (Sent(d, k, i)' <=> Sent(d, k, i)) /\ Val(d, k, i)' = Val(d, k, i)
  BY <1>0, ServeSent
<1>3. ASSUME NEW d \in Client, NEW k \in Key, NEW i \in Nat, Sent(d, k, i)'
      PROVE  \E j \in Nat : Sent(d, k, j) /\ Val(d, k, i)' = Val(d, k, j)
  <2>1. CASE d = c /\ ServerOf[k] = s
    <3>1. i + 1 \in Nat /\ Sent(c, k, i + 1) /\ Val(c, k, i)' = Val(c, k, i + 1)
      BY <1>2, <1>3, <2>1
    <3> QED BY <2>1, <3>1
  <2>2. CASE ~(d = c /\ ServerOf[k] = s)
    BY <1>2, <1>3, <2>2
  <2> QED BY <2>1, <2>2
<1>4. WordType' /\ Routed' /\ Inside'
  <2>1. Inside'
    <3> SUFFICES ASSUME NEW k \in Key \ {InfoKey}, ItemCount <= k PROVE store'[k] = Absent
      BY <1>1 DEF Inside
    <3>1. ItemCount \in Nat /\ k \in Nat /\ m.key \in Nat
      BY <1>0, <1>2, CountNat
    <3>2. k # m.key
      BY <1>2, <3>1 DEF Sound
    <3> QED BY <1>0, <1>2, <3>2 DEF Inside
  <2> QED BY <1>0, <2>1, RoutedServe DEF WordType
<1>5. ASSUME NEW d \in Client PROVE Chunks(d)' /\ Reading(d)' /\ (~reply' => pc'[d] # "del")
  <2>1. Chunks(d) /\ Reading(d) /\ (~reply => pc[d] # "del")
    BY <1>0 DEF DataInv
  <2>2. \A w \in Word : begun[w] \in Nat /\ latest[w] \in Nat /\ begun'[w] = begun[w] /\ latest'[w] = latest[w]
    BY <1>0 DEF TypeInv, WordType
  <2>3. \A w \in Word : begun'[w] \in Nat /\ begun[w] <= begun'[w] /\ latest'[w] \in Nat /\ latest[w] <= latest'[w]
    BY <2>2
  <2>4. pc'[d] = pc[d] /\ range'[d] = range[d] /\ at'[d] = at[d] /\ buf'[d] = buf[d] /\ since'[d] = since[d]
    BY <1>0
  <2>5. Reading(d)'
    BY <1>0, <2>1, <2>3, <2>4, ReadingKept
  <2>6. Chunks(d)'
    BY <2>1, <2>4 DEF Chunks, Putting
  <2> QED BY <1>1, <2>1, <2>4, <2>5, <2>6
<1>6. ASSUME NEW e \in Client, Deleter(e)' PROVE Deleter(e)
  <2>1. CASE pc'[e] = "del"
    BY <1>0, <2>1 DEF Deleter
  <2>2. CASE \E z \in Server, i \in Nat : Deletes(e, z, i)'
    <3>1. PICK z \in Server, i \in Nat : Deletes(e, z, i)'
      BY <2>2
    <3>2. \E j \in Nat : Deletes(e, z, j)
      BY <1>0, <3>1, ServeType
    <3> QED BY <3>2 DEF Deleter
  <2> QED BY <1>6, <2>1, <2>2 DEF Deleter
<1>7. ~Dying'
  BY <1>1, <1>6 DEF Dying
<1>8. Bounds'
  <2> SUFFICES ASSUME NEW w \in Word, NEW k \in Key, k = w \div Unit'
               PROVE  /\ \A v \in {store'[k]} : Between(v, w)'
                      /\ \A d \in Client, i \in Nat : Sent(d, k, i)' => \A v \in {Val(d, k, i)'} : Between(v, w)'
    BY DEF Bounds
  <2>1. k \in Key \ {InfoKey} /\ k = w \div Unit
    BY <1>0, <1>1, WordItem
  <2>2. /\ \A v \in {store[k]} : Between(v, w)
        /\ \A d \in Client, i \in Nat : Sent(d, k, i) => \A v \in {Val(d, k, i)} : Between(v, w)
    BY <1>0, <2>1 DEF Live, Bounds
  <2>3. \A v \in {store'[k]} : Between(v, w)
    <3>1. CASE k # m.key
      BY <1>2, <2>2, <3>1
    <3>2. CASE k = m.key
      <4>1. store'[k] = Val(c, k, 1) /\ Sent(c, k, 1)
        BY <1>2, <2>1, <3>2 DEF Sound
      <4> QED BY <2>2, <4>1
    <3> QED BY <3>1, <3>2
  <2>4. \A d \in Client, i \in Nat : Sent(d, k, i)' => \A v \in {Val(d, k, i)'} : Between(v, w)
    BY <1>3, <2>2
  <2> QED BY <1>0, <2>3, <2>4, BetweenKept
<1>9. Settled'
  <2> SUFFICES ASSUME reply, NEW d \in Client, ~Putting(d)', NEW k \in Key, NEW i \in Nat, Sent(d, k, i)' PROVE FALSE
    BY <1>1 DEF Settled
  <2>1. ~Putting(d)
    BY <1>0 DEF Putting
  <2>2. PICK j \in Nat : Sent(d, k, j)
    BY <1>3
  <2> QED BY <1>0, <2>1, <2>2 DEF Live, Settled
<1>10. Clean'
  <2>1. ~(reply /\ creators = {})
    <3> SUFFICES ASSUME reply, creators = {} PROVE FALSE
      OBVIOUS
    <3>1. ~Putting(c)
      BY <1>0 DEF Live, Clean
    <3>2. ~Sent(c, m.key, 1)
      BY <1>0, <1>2, <3>1 DEF Live, Settled
    <3> QED BY <1>2, <3>2
  <2> QED BY <1>0, <1>1, <2>1 DEF Clean
<1>11. ASSUME NEW d \in Client PROVE Data(d)'
  <2>1. Data(d) /\ Chunks(d) /\ Sends(c)
    BY <1>0 DEF Live, DataInv, Data
  <2>2. ASSUME NEW w \in Word, NEW k \in Key, k = w \div Unit, Free(d, w), NEW v, Tip(d, k, v)' PROVE Tip(d, k, v)
    <3>1. k \in Key \ {InfoKey}
      BY <1>0, <2>2, WordItem
    <3>2. CASE d = c
      BY <1>0, <2>2, <3>1, <3>2, ServeTip
    <3>3. CASE d # c
      <4>1. ~Sent(c, k, 1)
        BY <2>1, <2>2, <3>1, <3>3 DEF Sends, Free
      <4> QED BY <1>0, <2>2, <3>1, <3>3, <4>1, ServeTip
    <3> QED BY <3>2, <3>3
  <2>3. \A k \in Key \ {InfoKey}, i \in Nat : Sent(d, k, i)' => \E j \in Nat : Sent(d, k, j)
    BY <1>3
  <2>4. pc'[d] = pc[d] /\ range'[d] = range[d] /\ at'[d] = at[d] /\ buf'[d] = buf[d]
    BY <1>0
  <2>5. \A w \in Word : begun'[w] = begun[w] /\ latest'[w] = latest[w]
    BY <1>0
  <2> QED BY <1>0, <2>1, <2>2, <2>3, <2>4, <2>5, DataKept
<1>12. Live'
  BY <1>8, <1>9, <1>10, <1>11 DEF Live
<1>13. ASSUME NEW e \in Client, reply', Deleter(e)' PROVE FALSE
  BY <1>7, <1>13 DEF Dying
<1> QED BY <1>4, <1>5, <1>12, <1>13 DEF DataInv

\* A server takes a command of the client that deletes the object.
LEMMA ServeDying ==
  ASSUME StorageInv, NEW c \in Client, NEW s \in Server, Serve(c, s), Dying
  PROVE  DataInv'
<1>0. /\ TypeInv /\ OneUser /\ DataInv /\ WordType /\ Routed /\ Inside /\ UNCHANGED mode
      /\ UNCHANGED <<pc, range, at, buf, creators, begun, latest, since>>
  BY DEF StorageInv, UserInv, DataInv, Serve, hist
<1>1. reply /\ reply' = reply /\ Unit' = Unit /\ ItemCount' = ItemCount
  BY <1>0 DEF Dying, mode, Unit, ItemCount
<1>2. PICK m \in Order(Unit) :
         /\ m.key \in Key /\ ServerOf[m.key] = s /\ Sent(c, m.key, 1) /\ Val(c, m.key, 1) = m.val
         /\ Sound(m)
         /\ \A k \in Key : k # m.key => store'[k] = store[k]
         /\ ~m.add => store'[m.key] = m.val
         /\ \A k \in Key, i \in Nat : ServerOf[k] = s =>
              /\ i + 1 \in Nat /\ (Sent(c, k, i)' <=> i # 0 /\ Sent(c, k, i + 1))
              /\ Sent(c, k, i)' => Val(c, k, i)' = Val(c, k, i + 1)
         /\ \A d \in Client, k \in Key, i \in Nat : ~(d = c /\ ServerOf[k] = s) =>
              (Sent(d, k, i)' <=> Sent(d, k, i)) /\ Val(d, k, i)' = Val(d, k, i)
  BY <1>0, ServeSent
<1>3. PICK e \in Client : Deleter(e)
  BY DEF Dying
<1>4. e = c
  <2>1. Cleared(e)
    BY <1>0, <1>1, <1>3 DEF DataInv
  <2> QED BY <1>2, <2>1 DEF Cleared
<1>5. Deleter(c) /\ Cleared(c)
  BY <1>0, <1>1, <1>3, <1>4 DEF DataInv
<1>6. ASSUME NEW d \in Client, d # c
      PROVE  pc'[d] \in {"idle", "alloc", "aborted"} /\ \A k \in Key, i \in Nat : ~Sent(d, k, i)'
  <2>1. pc[d] \in {"idle", "alloc", "aborted"} /\ \A k \in Key, i \in Nat : ~Sent(d, k, i)
    BY <1>5, <1>6 DEF Cleared
  <2> QED BY <1>0, <1>2, <1>6, <2>1
<1>7. Inside'
  <2> SUFFICES ASSUME NEW k \in Key \ {InfoKey}, ItemCount <= k PROVE store'[k] = Absent
    BY <1>1 DEF Inside
  <2>1. ItemCount \in Nat /\ k \in Nat /\ m.key \in Nat
    BY <1>0, <1>2, CountNat
  <2>2. k # m.key
    BY <1>2, <2>1 DEF Sound
  <2> QED BY <1>0, <1>2, <2>2 DEF Inside
<1>8. WordType' /\ Routed'
  BY <1>0, RoutedServe DEF WordType
<1>9. ASSUME NEW d \in Client PROVE Chunks(d)'
  BY <1>0 DEF DataInv, Chunks, Putting
<1>10. creators' = {} /\ \A w \in Word : begun'[w] = 0 /\ latest'[w] = 0
  BY <1>0, <1>5 DEF Cleared
<1>11. ASSUME NEW k \in Key \ {InfoKey}, ~Counts(c, k), NEW v, Tip(c, k, v)' PROVE v = Absent
  <2>1. Tip(c, k, v)
    BY <1>0, <1>11, ServeTip
  <2> QED BY <1>5, <1>11, <2>1 DEF Cleared
<1>12. CASE m.key # InfoKey
  <2>1. pc[c] = "del" /\ at[c] <= ItemCount
    BY <1>2, <1>5, <1>12 DEF Cleared
  <2>2. Deleter(c)'
    BY <1>0, <2>1 DEF Deleter
  <2>3. ASSUME NEW d \in Client, Deleter(d)', d # c PROVE FALSE
    <3>1. PICK z \in Server, i \in Nat : Deletes(d, z, i)'
      BY <1>6, <2>3 DEF Deleter
    <3>2. Deletes(d, z, i)
      BY <1>0, <2>3, <3>1, ServeType
    <3>3. Deleter(d)
      BY <3>2 DEF Deleter
    <3> QED BY <1>0, <1>5, <2>3, <3>3, OneDeleter
  <2>4. ASSUME NEW k \in Key \ {InfoKey} PROVE Counts(c, k)' <=> Counts(c, k)
    BY <1>0, <1>1 DEF Counts
  <2>5. Cleared(c)'
    BY <1>0, <1>1, <1>6, <1>10, <1>11, <2>1, <2>4 DEF Cleared
  <2> QED BY <1>1, <1>7, <1>8, <1>9, <2>2, <2>3, <2>5, DyingCloses
<1>13. CASE m.key = InfoKey
  <2>1. Deletes(c, s, 1)
    BY <1>2, <1>13 DEF Sent, Deletes
  <2>2. NoneDeleting /\ OneDeletes
    BY <1>0, <1>1, <2>1 DEF OneUser, OneHand, NoDeletes
  <2>3. pc[c] = "idle" /\ \A k \in Key \ {InfoKey}, i \in Nat : ~Sent(c, k, i)
    BY <1>5, <2>2 DEF Cleared, NoneDeleting
  <2>4. ASSUME NEW i \in Nat, Sent(c, InfoKey, i)' PROVE FALSE
    <3>1. i # 0 /\ i + 1 \in Nat /\ Sent(c, InfoKey, i + 1)
      BY <1>2, <1>13, <2>4
    <3>2. PICK j \in Nat : j = i + 1
      BY <3>1
    <3>3. Deletes(c, s, j)
      BY <1>2, <1>13, <3>1, <3>2 DEF Sent, Deletes
    <3>4. j = 1
      BY <2>1, <2>2, <3>3 DEF OneDeletes
    <3> QED BY <3>1, <3>2, <3>4
  <2>5. ASSUME NEW d \in Client, NEW k \in Key, NEW i \in Nat, Sent(d, k, i)' PROVE FALSE
    <3>1. CASE d # c
      BY <1>6, <2>5, <3>1
    <3>2. CASE d = c /\ k = InfoKey
      BY <2>4, <2>5, <3>2
    <3>3. CASE d = c /\ k # InfoKey
      <4>1. CASE ServerOf[k] = s
        <5>1. i + 1 \in Nat /\ Sent(c, k, i + 1)
          BY <1>2, <2>5, <3>3, <4>1
        <5> QED BY <2>3, <3>3, <5>1
      <4>2. CASE ServerOf[k] # s
        <5>1. Sent(c, k, i)
          BY <1>2, <2>5, <3>3, <4>2
        <5> QED BY <2>3, <3>3, <5>1
      <4> QED BY <4>1, <4>2
    <3> QED BY <3>1, <3>2, <3>3
  <2>6. ASSUME NEW k \in Key PROVE store'[k] = Absent
    <3>1. CASE k = InfoKey
      BY <1>1, <1>2, <1>13, <3>1 DEF Sound
    <3>2. CASE k # InfoKey
      <4>1. store'[k] = store[k]
        BY <1>2, <1>13, <3>2
      <4>2. PICK v : v = store[k]
        OBVIOUS
      <4>3. Tip(c, k, v)
        BY <2>3, <3>2, <4>2 DEF Tip
      <4>4. ~Counts(c, k)
        BY <2>3 DEF Counts
      <4> QED BY <1>5, <3>2, <4>1, <4>2, <4>3, <4>4 DEF Cleared
    <3> QED BY <3>1, <3>2
  <2>7. ASSUME NEW d \in Client PROVE pc'[d] \in {"idle", "alloc", "aborted"} /\ ~Putting(d)' /\ \A w : ~Writing(d, w)'
    <3>1. pc'[d] \in {"idle", "alloc", "aborted"}
      BY <1>0, <1>6, <2>3
    <3> QED BY <3>1 DEF Putting, Writing
  <2>8. ASSUME NEW d \in Client, Deleter(d)' PROVE FALSE
    <3>1. PICK z \in Server, i \in Nat : Deletes(d, z, i)'
      BY <2>7, <2>8 DEF Deleter
    <3>2. CASE d = c /\ z = s
      <4>1. Sent(c, InfoKey, i)'
        BY <1>2, <1>13, <3>1, <3>2 DEF Sent, Deletes
      <4> QED BY <2>4, <4>1
    <3>3. CASE ~(d = c /\ z = s)
      <4>1. Deletes(d, z, i)
        BY <1>0, <3>1, <3>3, ServeType
      <4> QED BY <2>1, <2>2, <3>3, <4>1 DEF OneDeletes
    <3> QED BY <3>2, <3>3
  <2>9. Bounds'
    <3> SUFFICES ASSUME NEW w \in Word, NEW v, v = Absent PROVE Between(v, w)'
      BY <2>5, <2>6 DEF Bounds
    <3> QED BY <1>10 DEF Between, At
  <2>10. Settled' /\ Clean'
    BY <2>5, <2>6, <2>7 DEF Settled, Clean
  <2>11. ASSUME NEW d \in Client PROVE Data(d)'
    <3>1. History(d)'
      BY <1>10, <2>7 DEF History
    <3>2. Last(d)'
      <4> SUFFICES ASSUME NEW w \in Word, NEW k \in Key, NEW v, Tip(d, k, v)' PROVE At(v, w)' = Due(d, w)'
        BY DEF Last
      <4>1. v = store'[k]
        BY <2>5 DEF Tip, LastSent
      <4>2. v = Absent
        BY <2>6, <4>1
      <4> QED BY <1>10, <2>7, <4>2 DEF At, Due
    <3>3. Merging(d)'
      BY <2>7 DEF Merging
    <3>4. Sends(d)'
      BY <2>5 DEF Sends
    <3> QED BY <3>1, <3>2, <3>3, <3>4 DEF Data
  <2>12. Live'
    BY <2>9, <2>10, <2>11 DEF Live
  <2>13. \A d \in Client : Reading(d)'
    BY <2>7 DEF Reading
  <2> QED BY <1>1, <1>7, <1>8, <1>9, <2>8, <2>12, <2>13 DEF DataInv
<1> QED BY <1>12, <1>13

(***************************************************************************)
(* What is stored is what is read, and stays.                              *)
(***************************************************************************)

\* The initial states.
LEMMA DataInit ==
  ASSUME Init
  PROVE  DataInv
<1>0. /\ \A k \in Key : store[k] = Absent
      /\ \A w \in Word : begun[w] = 0 /\ latest[w] = 0
      /\ creators = {} /\ WordType
      /\ \A c \in Client : pc[c] = "idle" /\ buf[c] = <<>> /\ \A s \in Server : pend[c][s] = <<>>
  BY DEF Init, WordType
<1>1. TypeInv
  BY UserInit DEF UserInv
<1>2. \A c \in Client : \A k \in Key, i \in Nat : ~Sent(c, k, i)
  BY <1>0, <1>1, NothingSent
<1>3. Len(<<>>) = 0
  OBVIOUS
<1>4. \A c \in Client : ~Deleter(c)
  BY <1>0, <1>3 DEF Deleter, Deletes
<1>5. Routed /\ Inside
  BY <1>0, <1>3 DEF Routed, Inside
<1>6. \A c \in Client : Chunks(c) /\ Reading(c) /\ pc[c] # "del" /\ ~Putting(c) /\ pc[c] # "read"
  BY <1>0 DEF Chunks, Reading, Putting
<1>7. Bounds
  <2> SUFFICES ASSUME NEW w \in Word, NEW v, v = Absent PROVE Between(v, w)
    BY <1>0, <1>2 DEF Bounds
  <2> QED BY <1>0 DEF Between, At
<1>8. Settled /\ Clean
  BY <1>0, <1>2, <1>6 DEF Settled, Clean
<1>9. ASSUME NEW c \in Client PROVE Data(c)
  <2>1. \A w : ~Writing(c, w)
    BY <1>6 DEF Writing
  <2>2. History(c)
    BY <1>0, <2>1 DEF History
  <2>3. Last(c)
    <3> SUFFICES ASSUME NEW w \in Word, NEW k \in Key, NEW v, Tip(c, k, v) PROVE At(v, w) = Due(c, w)
      BY DEF Last
    <3>1. v = store[k]
      BY <1>2 DEF Tip, LastSent
    <3>2. v = Absent
      BY <1>0, <3>1
    <3> QED BY <1>0, <2>1, <3>2 DEF At, Due
  <2>4. Merging(c) /\ Sends(c)
    BY <1>0, <1>2 DEF Merging, Sends
  <2> QED BY <2>2, <2>3, <2>4 DEF Data
<1>10. Live
  BY <1>7, <1>8, <1>9 DEF Live
<1> QED BY <1>0, <1>4, <1>5, <1>6, <1>10 DEF DataInv

\* Nothing changes.
LEMMA SameData ==
  ASSUME StorageInv, BlocksApart, UNCHANGED <<mode, store, pend, pc, range, at, buf, creators, begun, latest, since>>
  PROVE  DataInv'
<1>0. TypeInv /\ DataInv /\ WordType /\ Routed /\ Inside
  BY DEF StorageInv, UserInv, DataInv
<1>1. Unit' = Unit /\ reply' = reply /\ ItemCount' = ItemCount
  BY DEF mode, Unit, ItemCount
<1>2. WordType' /\ Routed' /\ Inside'
  BY <1>0, <1>1, RoutedSame DEF WordType, Inside
<1>3. ASSUME NEW d PROVE (Deleter(d)' <=> Deleter(d)) /\ (Putting(d)' <=> Putting(d))
  BY DEF Deleter, Deletes, Putting
<1>4. ASSUME NEW d \in Client PROVE Chunks(d)' /\ Reading(d)' /\ (~reply' => pc'[d] # "del")
  <2>1. Chunks(d) /\ Reading(d) /\ (~reply => pc[d] # "del")
    BY <1>0 DEF DataInv
  <2>2. \A w \in Word : begun[w] \in Nat /\ latest[w] \in Nat /\ begun'[w] = begun[w] /\ latest'[w] = latest[w]
    BY <1>0 DEF TypeInv, WordType
  <2>3. \A w \in Word : begun'[w] \in Nat /\ begun[w] <= begun'[w] /\ latest'[w] \in Nat /\ latest[w] <= latest'[w]
    BY <2>2
  <2>4. Reading(d)'
    BY <1>0, <2>1, <2>3, ReadingKept
  <2>5. Chunks(d)'
    BY <2>1 DEF Chunks, Putting
  <2> QED BY <1>1, <2>1, <2>4, <2>5
<1>5. ASSUME ~Dying' PROVE Live'
  <2>1. Live
    BY <1>0, <1>1, <1>3, <1>5 DEF Dying, DataInv
  <2>2. Bounds'
    BY <2>1, BoundsKept DEF Live
  <2>3. Settled'
    BY <1>1, <1>3, <2>1, SameSent DEF Live, Settled
  <2>4. Clean'
    BY <1>1, <1>3, <2>1 DEF Live, Clean
  <2>5. ASSUME NEW d \in Client PROVE Data(d)'
    <3>1. Data(d) /\ Chunks(d)
      BY <1>0, <2>1 DEF Live, DataInv
    <3>2. \A k \in Key : \A v : Tip(d, k, v)' => Tip(d, k, v)
      BY SameSent
    <3>3. \A k \in Key \ {InfoKey}, i \in Nat : Sent(d, k, i)' => Sent(d, k, i)
      BY SameSent
    <3> QED BY <1>0, <3>1, <3>2, <3>3, DataKept
  <2> QED BY <2>2, <2>3, <2>4, <2>5 DEF Live
<1>6. ASSUME NEW e \in Client, reply', Deleter(e)' PROVE Cleared(e)'
  <2>1. Cleared(e)
    BY <1>0, <1>1, <1>3, <1>6 DEF DataInv
  <2>2. \A d, k, i : Sent(d, k, i)' <=> Sent(d, k, i)
    BY SameSent
  <2>3. \A d, k, v : Tip(d, k, v)' <=> Tip(d, k, v)
    BY SameSent
  <2>4. \A k : Counts(e, k)' <=> Counts(e, k)
    BY <1>1 DEF Counts
  <2> QED BY <1>1, <2>1, <2>2, <2>3, <2>4 DEF Cleared
<1> QED BY <1>2, <1>4, <1>5, <1>6 DEF DataInv

\* Every step.
LEMMA StorageStep ==
  ASSUME StorageInv, BlocksApart, KeptUnanswered, [Next]_vars
  PROVE  StorageInv'
<1>1. UserInv'
  BY UserStep DEF StorageInv
<1>2. CASE UNCHANGED vars
  <2>1. UNCHANGED <<mode, store, pend, pc, range, at, buf, creators, begun, latest, since>>
    BY <1>2 DEF vars, mem, hist
  <2> QED BY <1>1, <2>1, SameData DEF StorageInv
<1>3. ASSUME NEW c \in Client, NEW s \in Server, Serve(c, s) PROVE DataInv'
  BY <1>3, ServeLive, ServeDying
<1>4. ASSUME NEW c \in Client, ClientStep(c) PROVE DataInv'
  <2>1. CASE \E r \in Puts[c] : StartPut(c, r)
    BY <2>1, StartPutKeeps
  <2>2. CASE \E r \in Gets[c] : StartGet(c, r)
    BY <2>2, StartGetKeeps
  <2>3. CASE PutBlock(c) \/ PutRead(c) \/ PutMerged(c) \/ PutReturn(c)
    BY <2>3, PutBlockKeeps, PutReadKeeps, PutMergedKeeps, PutReturnKeeps
  <2>4. CASE GetBatch(c) \/ GetReturn(c)
    BY <2>4, GetBatchKeeps, GetReturnKeeps
  <2>5. CASE StartAlloc(c)
    <3>1. /\ UNCHANGED <<mode, store, pend, range, buf, creators, begun, latest, since>>
          /\ pc[c] = "idle" /\ MayGoOn(c) /\ pc'[c] = "alloc" /\ \A d \in Client \ {c} : pc'[d] = pc[d] /\ at'[d] = at[d]
      BY <2>5 DEF StartAlloc, Ready, mem, hist, StorageInv, UserInv, TypeInv
    <3> QED BY <3>1, AllocKeeps
  <2>6. CASE AllocAborts(c)
    <3>1. /\ UNCHANGED <<mode, store, pend, range, buf, creators, begun, latest, since>>
          /\ pc[c] = "alloc" /\ pc'[c] = "aborted" /\ \A d \in Client \ {c} : pc'[d] = pc[d] /\ at'[d] = at[d]
      BY <2>6 DEF AllocAborts, mem, hist, StorageInv, UserInv, TypeInv
    <3> QED BY <3>1, AllocKeeps
  <2>7. CASE NewObj(c)
    BY <2>7, NewObjKeeps
  <2>8. CASE StartDel(c) \/ DelItem(c)
    BY <2>8, StartDelKeeps, DelItemKeeps
  <2> QED BY <1>4, <2>1, <2>2, <2>3, <2>4, <2>5, <2>6, <2>7, <2>8 DEF ClientStep
<1>5. CASE Next
  BY <1>1, <1>3, <1>4, <1>5 DEF Next, StorageInv
<1> QED BY <1>2, <1>5

\* getchunk: where no two threads put words of the same block, and objects are
\* only deleted with answered commands, every word that is read was put, one of
\* the thread's own words is not older than its last put, although that may
\* still be in the connection, and with answered commands no word is older than
\* the last put that had returned when the read began.
THEOREM ReadsCurrentHolds ==
  ASSUME BlocksApart, KeptUnanswered
  PROVE  Spec => []ReadsCurrent
<1>1. Init => StorageInv
  BY UserInit, DataInit DEF StorageInv
<1>2. StorageInv /\ [Next]_vars => StorageInv'
  BY StorageStep
<1>3. StorageInv => ReadsCurrent
  <2> SUFFICES ASSUME StorageInv, NEW c \in Client, pc[c] = "read", NEW j \in DOMAIN buf[c], NEW w, w = range[c][1] + j - 1
               PROVE  buf[c][j] <= begun[w] /\ (reply \/ w \in Owned(c) => buf[c][j] >= since[c][w])
    BY DEF ReadsCurrent
  <2>1. Reading(c) /\ Doing(c) /\ range[c] \in Nat \X Nat /\ at[c] \in Nat /\ WordType
    BY DEF StorageInv, UserInv, DataInv, TypeInv
  <2>2. /\ at[c] \in range[c][1] .. KTail(range[c]) /\ buf[c] \in Seq(Nat) /\ Len(buf[c]) = at[c] - range[c][1]
        /\ \A l \in 1 .. Len(buf[c]), y \in Word : y = range[c][1] + l - 1 => \A x \in {buf[c][l]} : Found(c, y, x)
    BY <2>1 DEF Reading
  <2>3. j \in 1 .. Len(buf[c]) /\ buf[c][j] \in Nat
    BY <2>2
  <2>4. w \in Word
    <3>1. PICK f \in Nat, a \in Nat, t \in Nat, n \in Nat : f = range[c][1] /\ a = at[c] /\ t = KTail(range[c]) /\ n = Len(buf[c])
      <4>1. range[c][1] \in Nat /\ KTail(range[c]) \in Nat /\ Len(buf[c]) \in Nat
        <5>1. range[c][1] \in Nat /\ range[c][2] \in Nat
          BY <2>1
        <5>2. KTail(range[c]) \in Nat
          BY <5>1 DEF KTail
        <5>3. Len(buf[c]) \in Nat
          BY <2>2
        <5> QED BY <5>1, <5>2, <5>3
      <4> QED BY <2>1, <4>1
    <3>2. a <= t /\ t <= Size /\ n = a - f /\ j \in 1 .. n /\ w = f + j - 1 /\ Size \in Nat
      BY <2>1, <2>2, <2>3, <3>1, Numbers DEF Doing
    <3> QED BY <3>1, <3>2 DEF Word
  <2>5. PICK x \in Nat : x = buf[c][j]
    BY <2>3
  <2>6. Found(c, w, x)
    BY <2>2, <2>3, <2>4, <2>5
  <2>7. since[c][w] \in Nat
    BY <2>1, <2>4 DEF WordType
  <2> QED BY <2>5, <2>6, <2>7 DEF Found
<1> QED BY <1>1, <1>2, <1>3, PTL DEF Spec

\* putchunk and del: under the same hypotheses, when every operation has returned
\* and every command was taken, each word holds the last value put to it - the
\* words beside a chunk too, which putchunk reads and stores again - and an object
\* that was deleted has left no item for a later one with the same key.
THEOREM RestsAsStoredHolds ==
  ASSUME BlocksApart, KeptUnanswered
  PROVE  Spec => []RestsAsStored
<1>1. Init => StorageInv
  BY UserInit, DataInit DEF StorageInv
<1>2. StorageInv /\ [Next]_vars => StorageInv'
  BY StorageStep
<1>3. StorageInv => RestsAsStored
  <2> SUFFICES ASSUME StorageInv, Quiet
               PROVE  /\ creators # {} => \A w \in Word : Fetched(w \div Unit)[w % Unit] = latest[w]
                      /\ reply /\ creators = {} => \A k \in Key : store[k] = Absent
    BY DEF RestsAsStored
  <2>0. TypeInv /\ WordType /\ DataInv
    BY DEF StorageInv, UserInv, DataInv
  <2>1. ASSUME NEW c \in Client PROVE ~Putting(c) /\ pc[c] # "del" /\ \A k \in Key, i \in Nat : ~Sent(c, k, i)
    BY <2>0, NothingSent DEF Quiet, Putting
  <2>2. ASSUME creators # {}, NEW w \in Word PROVE Fetched(w \div Unit)[w % Unit] = latest[w]
    <3>1. PICK d \in Client : d \in creators
      BY <2>0, <2>2 DEF TypeInv
    <3>2. Live
      BY <2>2, <3>1, LiveNow
    <3>3. PICK c \in Client : Free(c, w)
      BY <2>0, <3>1, SomeFree
    <3>4. PICK k, v : k = w \div Unit /\ v = store[k]
      OBVIOUS
    <3>5. k \in Key
      BY <2>0, <3>4, WordItem
    <3>6. Tip(c, k, v)
      BY <2>1, <3>4, <3>5 DEF Tip
    <3>7. At(v, w) = Due(c, w) /\ begun[w] = IF Writing(c, w) THEN latest[w] + 1 ELSE latest[w]
      BY <3>2, <3>3, <3>4, <3>5, <3>6 DEF Live, Data, Last, History
    <3>8. At(v, w) = latest[w]
      BY <2>1, <3>7 DEF Due, Writing
    <3> QED BY <2>0, <3>4, <3>8, FetchedAt
  <2>3. ASSUME reply, creators = {}, NEW k \in Key PROVE store[k] = Absent
    <3>1. ASSUME NEW c \in Client PROVE ~Deleter(c)
      <4>1. \A s \in Server : pend[c][s] = <<>>
        BY DEF Quiet
      <4>2. Len(<<>>) = 0
        OBVIOUS
      <4> QED BY <2>1, <4>1, <4>2 DEF Deleter, Deletes
    <3>2. ~Dying
      BY <3>1 DEF Dying
    <3> QED BY <2>0, <2>3, <3>2 DEF DataInv, Live, Clean
  <2> QED BY <2>2, <2>3
<1> QED BY <1>1, <1>2, <1>3, PTL DEF Spec
=============================================================================
