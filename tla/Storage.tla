------------------------------ MODULE Storage ------------------------------
(***************************************************************************)
(* The words of a shared object in memcached: SoStorageMemcached keeps one *)
(* item per word (fine), SoStorageChunkMemcached one per block of words    *)
(* (coarse).  A thread (client) has a connection of its own to every       *)
(* server.  On Linux its storage commands are sent without reply: they     *)
(* return at once, stay in the connection until the server takes them, and *)
(* only a later fetch over the same connection waits for them.             *)
(***************************************************************************)
EXTENDS Integers, Sequences, FiniteSets

CONSTANTS
  Client,      \* the threads that use the object
  Server,      \* the memcached servers
  ServerOf,    \* the server of each key
  Size,        \* words of the object
  BlockSize,   \* DSM_CACHE_BLOCK_SIZE
  Batch,       \* MEMCACHED_FETCH_BATCH and CHUNK_MEMCACHED_FETCH_BATCH
  MaxTries,    \* DOGEE_MAX_SHARED_KEY_TRIES
  Puts,        \* per client, the chunks <<first word, length>> it writes
  Gets,        \* per client, the chunks it reads
  Churn,       \* values of "reply" with which programs delete objects and
               \* two clients may draw the same object key
  MaxOps       \* bound on the operations of a client

\* Items are numbered by word or by block; the last key of an object, in the
\* code 0xFFFFFFFF, holds its ObjectInfo.
InfoKey == Size
Key  == 0 .. Size
Word == 0 .. Size - 1

ASSUME SizeAssumption   == {Size, BlockSize, Batch, MaxTries, MaxOps} \subseteq Nat \ {0}
ASSUME ServerAssumption == ServerOf \in [Key -> Server]
ASSUME ProgramAssumption ==
  /\ Puts \in [Client -> SUBSET (Word \X (1 .. Size))]
  /\ Gets \in [Client -> SUBSET (Word \X (1 .. Size))]
  /\ \A c \in Client : \A r \in Puts[c] \cup Gets[c] : r[1] + r[2] <= Size
  /\ Churn \subseteq BOOLEAN

Span(r) == r[1] .. r[1] + r[2] - 1
Owned(c) == UNION {Span(r) : r \in Puts[c]}

VARIABLES
  coarse,    \* the backend is a SoStorageChunkMemcached
  reply,     \* commands are answered (WIN32), else MEMCACHED_BEHAVIOR_NOREPLY
  store,     \* the items of the servers
  pend,      \* per client and server, the commands still in the connection
  pc,        \* per client: idle, put, merge, read, alloc, del or aborted
  range,     \* per client, the chunk of the operation it is in
  at,        \* per client, the next word, key or attempt of that operation
  buf,       \* per client, the local buffer: words fetched so far
  creators,  \* the clients whose newobj returned SoOK, while the object lives
  begun,     \* per word, the puts begun: the value the last one writes
  latest,    \* per word, the value of the last put that returned
  since,     \* per client, "latest" when its operation began
  ops        \* per client, the operations begun

mem  == <<store, pend>>
mode == <<coarse, reply>>
hist == <<begun, latest>>
vars == <<mode, mem, pc, range, at, buf, creators, hist, since, ops>>

Absent == <<>>
Unit == IF coarse THEN BlockSize ELSE 1
CeilDiv(n, d) == IF n % d = 0 THEN n \div d ELSE n \div d + 1
Block == [0 .. Unit - 1 -> Nat]
-----------------------------------------------------------------------------
(* The servers and the connections.                                        *)

\* A command: store val under key, delete it (val = Absent), or store it if
\* there is none.
Command(add, k, v) == [add |-> add, key |-> k, val |-> v]

Applied(m) == IF m.add /\ store[m.key] # Absent THEN store ELSE [store EXCEPT ![m.key] = m.val]

\* Server s takes the next command of client c.
Serve(c, s) ==
  /\ pend[c][s] # <<>>
  /\ store' = Applied(Head(pend[c][s]))
  /\ pend' = [pend EXCEPT ![c][s] = Tail(@)]
  /\ UNCHANGED <<mode, pc, range, at, buf, creators, hist, since, ops>>

\* A client with replies goes on when its command has been executed.
MayGoOn(c) == reply => \A s \in Server : pend[c][s] = <<>>

Send(c, m) == pend' = [pend EXCEPT ![c][ServerOf[m.key]] = Append(@, m)]

\* A fetch is answered after the commands sent before it.
Answers(c, ks) == \A k \in ks : pend[c][ServerOf[k]] = <<>>

\* getblock: a missing item reads as zeros.
Fetched(k) == IF store[k] = Absent THEN [i \in 0 .. Unit - 1 |-> 0] ELSE store[k]
-----------------------------------------------------------------------------
(* putchunk.  With blocks of one word all pieces are "middle" ones, which  *)
(* is the loop of MemcachedPutChunk.                                       *)

KStart(k) == IF k % Unit # 0 THEN (k \div Unit) * Unit + Unit ELSE k
KTail(r) == r[1] + r[2]
KEnd(r) == (KTail(r) \div Unit) * Unit
Least(a, b) == IF a < b THEN a ELSE b

\* The words <first, last + 1> stored next, and whether the block they belong
\* to is read first.
PieceNoHead(r, i) ==                           \* mutant: first block not read
  IF i < KEnd(r) THEN [end |-> Least((i \div Unit) * Unit + Unit, KTail(r)), merge |-> FALSE]
  ELSE [end |-> KTail(r), merge |-> TRUE]
Piece(r, i) ==
  IF i < KStart(r[1]) THEN [end |-> Least(KStart(r[1]), KTail(r)), merge |-> TRUE]
  ELSE IF i < KEnd(r) THEN [end |-> i + Unit, merge |-> FALSE]
  ELSE [end |-> KTail(r), merge |-> TRUE]

\* The block of word i with the words up to "end" replaced by the new ones.
Merged(old, i, end) ==
  [j \in 0 .. Unit - 1 |->
     LET w == (i \div Unit) * Unit + j IN IF w \in i .. end - 1 THEN begun[w] ELSE old[j]]

\* The client is between two operations of its program.
Ready(c) == pc[c] = "idle" /\ ops[c] < MaxOps /\ MayGoOn(c)

StartPut(c, r) ==
  /\ Ready(c) /\ creators # {} /\ r \in Puts[c]
  /\ pc' = [pc EXCEPT ![c] = "put"]
  /\ range' = [range EXCEPT ![c] = r]
  /\ at' = [at EXCEPT ![c] = r[1]]
  /\ begun' = [w \in Word |-> IF w \in Span(r) THEN begun[w] + 1 ELSE begun[w]]
  /\ ops' = [ops EXCEPT ![c] = @ + 1]
  /\ UNCHANGED <<mode, mem, buf, creators, latest, since>>

\* A whole block is stored without being read.
PutBlock(c) ==
  LET i == at[c]
      p == Piece(range[c], i) IN
  /\ pc[c] = "put" /\ i < KTail(range[c]) /\ ~p.merge /\ MayGoOn(c)
  /\ Send(c, Command(FALSE, i \div Unit, Merged([j \in 0 .. Unit - 1 |-> 0], i, p.end)))
  /\ at' = [at EXCEPT ![c] = p.end]
  /\ UNCHANGED <<mode, store, pc, range, buf, creators, hist, since, ops>>

\* A part of a block: read it ...
PutRead(c) ==
  LET i == at[c] IN
  /\ pc[c] = "put" /\ i < KTail(range[c]) /\ Piece(range[c], i).merge
  /\ MayGoOn(c) /\ Answers(c, {i \div Unit})
  /\ buf' = [buf EXCEPT ![c] = Fetched(i \div Unit)]
  /\ pc' = [pc EXCEPT ![c] = "merge"]
  /\ UNCHANGED <<mode, mem, range, at, creators, hist, since, ops>>

\* ... and store it with the new words.
PutMerged(c) ==
  LET i == at[c]
      p == Piece(range[c], i) IN
  /\ pc[c] = "merge"
  /\ Send(c, Command(FALSE, i \div Unit, Merged(buf[c], i, p.end)))
  /\ at' = [at EXCEPT ![c] = p.end]
  /\ buf' = [buf EXCEPT ![c] = <<>>]
  /\ pc' = [pc EXCEPT ![c] = "put"]
  /\ UNCHANGED <<mode, store, range, creators, hist, since, ops>>

PutReturn(c) ==
  /\ pc[c] = "put" /\ at[c] = KTail(range[c]) /\ MayGoOn(c)
  /\ latest' = [w \in Word |-> IF w \in Span(range[c]) THEN begun[w] ELSE latest[w]]
  /\ pc' = [pc EXCEPT ![c] = "idle"]
  /\ UNCHANGED <<mode, mem, range, at, buf, creators, begun, since, ops>>
-----------------------------------------------------------------------------
(* getchunk: batches of at most Batch words, each fetched with one mget.   *)

StartGet(c, r) ==
  /\ Ready(c) /\ creators # {} /\ r \in Gets[c]
  /\ pc' = [pc EXCEPT ![c] = "read"]
  /\ range' = [range EXCEPT ![c] = r]
  /\ at' = [at EXCEPT ![c] = r[1]]
  /\ since' = [since EXCEPT ![c] = latest]
  /\ ops' = [ops EXCEPT ![c] = @ + 1]
  /\ UNCHANGED <<mode, mem, buf, creators, hist>>

BatchLen(r, l) == IF l + Batch < KTail(r) THEN Batch ELSE KTail(r) - l

\* fetchchunk2(k, len + offset): the keys asked for.
FetchKeysShort(l, n) == {l \div Unit + i : i \in 0 .. CeilDiv(n, Unit) - 1}  \* mutant: no offset
FetchKeys(l, n) == {l \div Unit + i : i \in 0 .. CeilDiv(n + (l % Unit), Unit) - 1}

\* Word w of the results for the keys ks; the buffer is zeroed before.
WordFetched(w, ks) == IF w \div Unit \in ks THEN Fetched(w \div Unit)[w % Unit] ELSE 0

GetBatch(c) ==
  LET l == at[c]
      n == BatchLen(range[c], l)
      ks == FetchKeys(l, n) IN
  /\ pc[c] = "read" /\ l < KTail(range[c]) /\ Answers(c, ks)
  /\ buf' = [buf EXCEPT ![c] = @ \o [j \in 1 .. n |-> WordFetched(l + j - 1, ks)]]
  /\ at' = [at EXCEPT ![c] = l + n]
  /\ UNCHANGED <<mode, mem, pc, range, creators, hist, since, ops>>

GetReturn(c) ==
  /\ pc[c] = "read" /\ at[c] = KTail(range[c])
  /\ buf' = [buf EXCEPT ![c] = <<>>]
  /\ pc' = [pc EXCEPT ![c] = "idle"]
  /\ UNCHANGED <<mode, mem, range, at, creators, hist, since, ops>>
-----------------------------------------------------------------------------
(* AllocObjectId and del.                                                  *)

\* The key is drawn once; a failed attempt repeats with the same key.
StartAlloc(c) ==
  /\ Ready(c)
  /\ IF reply \in Churn THEN c \notin creators
     ELSE creators = {} /\ \A d \in Client : ops[d] = 0
  /\ pc' = [pc EXCEPT ![c] = "alloc"]
  /\ at' = [at EXCEPT ![c] = 0]
  /\ ops' = [ops EXCEPT ![c] = @ + 1]
  /\ UNCHANGED <<mode, mem, range, buf, creators, hist, since>>

Created(c) ==
  /\ creators' = creators \cup {c}
  /\ pc' = [pc EXCEPT ![c] = "idle"]
  /\ UNCHANGED <<mode, range, at, buf, hist, since, ops>>

\* newobj is an add.  Without a reply it always returns SoOK.
KeyFreeAlways == TRUE                          \* mutant: set in place of add
KeyFree == store[InfoKey] = Absent
NewObj(c) ==
  /\ pc[c] = "alloc" /\ at[c] < MaxTries
  /\ \/ /\ ~reply
        /\ Send(c, Command(TRUE, InfoKey, <<Size>>))
        /\ Created(c) /\ UNCHANGED store
     \/ /\ reply /\ KeyFree
        /\ store' = [store EXCEPT ![InfoKey] = <<Size>>]
        /\ Created(c) /\ UNCHANGED pend
     \/ /\ reply /\ ~KeyFree
        /\ at' = [at EXCEPT ![c] = @ + 1]
        /\ UNCHANGED <<mode, mem, pc, range, buf, creators, hist, since, ops>>

AllocAborts(c) ==
  /\ pc[c] = "alloc" /\ at[c] = MaxTries
  /\ pc' = [pc EXCEPT ![c] = "aborted"]
  /\ UNCHANGED <<mode, mem, range, at, buf, creators, hist, since, ops>>

\* A program deletes an object it created when nobody else is using it.
StartDel(c) ==
  /\ Ready(c) /\ reply \in Churn /\ c \in creators
  /\ \A d \in Client \ {c} : pc[d] \in {"idle", "alloc", "aborted"}
  /\ Answers(c, {InfoKey})
  /\ store[InfoKey] # Absent
  /\ creators' = {}
  /\ begun' = [w \in Word |-> 0]
  /\ latest' = [w \in Word |-> 0]
  /\ pc' = [pc EXCEPT ![c] = "del"]
  /\ at' = [at EXCEPT ![c] = 0]
  /\ ops' = [ops EXCEPT ![c] = @ + 1]
  /\ UNCHANGED <<mode, mem, range, buf, since>>

\* The items of a deleted object: the loop of del over the size in ObjectInfo.
ItemCount == CeilDiv(Size, Unit)

DelItem(c) ==
  /\ pc[c] = "del" /\ MayGoOn(c)
  /\ \/ /\ at[c] < ItemCount
        /\ Send(c, Command(FALSE, at[c], Absent))
        /\ at' = [at EXCEPT ![c] = @ + 1]
        /\ UNCHANGED pc
     \/ /\ at[c] = ItemCount
        /\ Send(c, Command(FALSE, InfoKey, Absent))
        /\ pc' = [pc EXCEPT ![c] = "idle"]
        /\ UNCHANGED at
  /\ UNCHANGED <<mode, store, range, buf, creators, hist, since, ops>>
-----------------------------------------------------------------------------
Init ==
  /\ coarse \in BOOLEAN /\ reply \in BOOLEAN
  /\ store = [k \in Key |-> Absent]
  /\ pend = [c \in Client |-> [s \in Server |-> <<>>]]
  /\ pc = [c \in Client |-> "idle"]
  /\ range = [c \in Client |-> <<0, 0>>]
  /\ at = [c \in Client |-> 0]
  /\ buf = [c \in Client |-> <<>>]
  /\ creators = {}
  /\ begun = [w \in Word |-> 0]
  /\ latest = [w \in Word |-> 0]
  /\ since = [c \in Client |-> [w \in Word |-> 0]]
  /\ ops = [c \in Client |-> 0]

ClientStep(c) ==
  \/ \E r \in Puts[c] : StartPut(c, r)
  \/ \E r \in Gets[c] : StartGet(c, r)
  \/ PutBlock(c) \/ PutRead(c) \/ PutMerged(c) \/ PutReturn(c)
  \/ GetBatch(c) \/ GetReturn(c)
  \/ StartAlloc(c) \/ NewObj(c) \/ AllocAborts(c)
  \/ StartDel(c) \/ DelItem(c)

Next == \E c \in Client : ClientStep(c) \/ \E s \in Server : Serve(c, s)

Spec == Init /\ [][Next]_vars
-----------------------------------------------------------------------------
(* Properties.                                                             *)

Quiet == \A c \in Client : pc[c] \in {"idle", "alloc", "aborted"} /\ \A s \in Server : pend[c][s] = <<>>

\* Every item is a whole block of its backend, commands carry such items, and
\* a buffer is a block or a prefix of the chunk asked for.
TypeOK ==
  /\ \A k \in Key \ {InfoKey} : store[k] \in Block \cup {Absent}
  /\ store[InfoKey] \in {Absent, <<Size>>}
  /\ \A c \in Client, s \in Server : \A i \in DOMAIN pend[c][s] :
       LET m == pend[c][s][i] IN
       ServerOf[m.key] = s /\ (m.key = InfoKey \/ m.val \in Block \cup {Absent})
  /\ \A c \in Client :
       /\ pc[c] = "merge" => buf[c] \in Block
       /\ pc[c] = "read" => Len(buf[c]) = at[c] - range[c][1] /\ Len(buf[c]) <= range[c][2]
       /\ pc[c] \in {"put", "merge", "read"} => at[c] \in range[c][1] .. KTail(range[c])

\* A chunk that is read holds, word for word, what was stored: for the
\* client's own words the last value it put, although its puts may still be in
\* the connection; for the words of others a value not older than the last put
\* that had returned when the read began (if puts are answered), and never one
\* that was not written.
ReadsCurrent ==
  \A c \in Client : pc[c] = "read" =>
    \A j \in DOMAIN buf[c] :
      LET w == range[c][1] + j - 1 IN
      /\ buf[c][j] <= begun[w]
      /\ (reply \/ w \in Owned(c)) => buf[c][j] >= since[c][w]

\* Two clients that draw the same key do not both get the object
\* (AllocObjectId), where commands are answered.
OneCreator == reply => Cardinality(creators) <= 1

\* When everything has come to rest each word holds the last value put to it:
\* no put of a chunk harms the neighbours of the chunk (putchunk).  A deleted
\* object, where commands are answered, leaves no item behind that a later
\* object with the same key would find (del).
RestsAsStored ==
  Quiet =>
    /\ creators # {} => \A w \in Word : Fetched(w \div Unit)[w % Unit] = latest[w]
    /\ reply /\ creators = {} => \A k \in Key : store[k] = Absent
=============================================================================
