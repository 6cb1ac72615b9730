------------------------- MODULE ChunkedUploadProofs -------------------------
(***************************************************************************)
(* For files of any sizes, cut into chunks of any sizes, and any number of *)
(* runs, errors and late requests: the types, no conflict over an upload   *)
(* of one's own, and, if the server knows checksums or only the requests   *)
(* of one run are late at a time, what is taken for stored is stored.      *)
(***************************************************************************)
EXTENDS ChunkedUpload, FiniteSetTheorems, FunctionTheorems, TLAPS

-----------------------------------------------------------------------------
(* The versions and their sizes. *)

LEMMA Sized ==
    /\ Versions \subseteq Nat \ {0}
    /\ \A v \in Versions : Size(v) \in Nat \ {0}
    /\ Size(0) = 0
    /\ \A v \in Versions \cup {0} : Size(v) \in Nat
<1>1. Versions = 1 .. Len(Sizes) /\ Len(Sizes) \in Nat
  BY UploadAssumption DEF Versions
<1>2. \A v \in Versions : Sizes[v] \in Nat \ {0} /\ v \in Nat \ {0}
  BY <1>1, UploadAssumption
<1>3. \A v \in Versions : Size(v) = Sizes[v]
  BY <1>2 DEF Size
<1>4. Size(0) = 0
  BY DEF Size
<1> QED BY <1>2, <1>3, <1>4

\* The versions are numbered from one.
LEMMA Numbered ==
    /\ 1 \in Versions
    /\ \A n \in Nat : n < Len(Sizes) => n + 1 \in Versions
    /\ \A v \in Versions : \A n \in 1 .. v : n \in Versions
<1>1. Versions = 1 .. Len(Sizes) /\ Len(Sizes) \in Nat /\ Len(Sizes) # 0
  BY UploadAssumption DEF Versions
<1> QED BY <1>1

LEMMA MinOfTwo ==
    ASSUME NEW a \in Int, NEW b \in Int
    PROVE  Min({a, b}) = IF a <= b THEN a ELSE b
<1> DEFINE m == IF a <= b THEN a ELSE b
<1>1. m \in {a, b} /\ \A y \in {a, b} : m <= y
  OBVIOUS
<1>2. Min({a, b}) \in {a, b} /\ \A y \in {a, b} : Min({a, b}) <= y
  BY <1>1 DEF Min
<1> QED BY <1>2

LEMMA MaxOfTwo ==
    ASSUME NEW a \in Int, NEW b \in Int
    PROVE  Max({a, b}) = IF a >= b THEN a ELSE b
<1> DEFINE m == IF a >= b THEN a ELSE b
<1>1. m \in {a, b} /\ \A y \in {a, b} : m >= y
  OBVIOUS
<1>2. Max({a, b}) \in {a, b} /\ \A y \in {a, b} : Max({a, b}) >= y
  BY <1>1 DEF Max
<1> QED BY <1>2

-----------------------------------------------------------------------------
(* The bytes of the chunks, and the order in which the server puts them together. *)

Chunk == [id : Nat, start : Nat, len : Nat, ver : Versions]
Byte  == [start : Nat, pos : Nat \ {0}, ver : Versions]

LEMMA ByteTyped == ASSUME NEW K \in SUBSET Chunk PROVE Stored(K) \subseteq Byte
<1> SUFFICES ASSUME NEW c \in K, NEW b \in BytesOf(c) PROVE b \in Byte
  BY DEF Stored
<1>1. c \in Chunk
  OBVIOUS
<1>2. c.start \in Nat /\ c.len \in Nat /\ c.ver \in Versions
  BY <1>1 DEF Chunk
<1>3. \A p \in c.start + 1 .. c.start + c.len : p \in Nat \ {0}
  BY <1>2
<1> QED BY <1>2, <1>3 DEF BytesOf, Byte

LEMMA ChunkIsFinite == ASSUME NEW c \in Chunk PROVE IsFiniteSet(BytesOf(c))
<1>1. c.start \in Nat /\ c.len \in Nat
  BY DEF Chunk
<1> DEFINE P == c.start + 1 .. c.start + c.len
           f == [p \in P |-> [start |-> c.start, pos |-> p, ver |-> c.ver]]
<1>2. IsFiniteSet(P)
  BY <1>1, FS_Interval
<1>3. f \in [P -> BytesOf(c)]
  BY DEF BytesOf
<1>4. \A b \in BytesOf(c) : \E p \in P : f[p] = b
  BY DEF BytesOf
<1>5. f \in Surjection(P, BytesOf(c))
  BY <1>3, <1>4 DEF Surjection
<1> HIDE DEF f, P
<1> QED BY <1>2, <1>5, FS_Surjection

\* Any two bytes are in an order.
Ordered(B) == \A a, b \in B : a # b => Before(a, b) \/ Before(b, a)

LEMMA BeforeIsAnOrder ==
    ASSUME NEW a \in Byte, NEW b \in Byte, NEW c \in Byte
    PROVE  /\ ~Before(a, a)
           /\ Before(a, b) /\ Before(b, c) => Before(a, c)
           /\ Before(a, b) => ~Before(b, a)
BY DEF Before, Byte

\* So that there is a byte for each rank.
LEMMA Ranked ==
    ASSUME NEW B \in SUBSET Byte, IsFiniteSet(B), Ordered(B)
    PROVE  /\ Cardinality(B) \in Nat
           /\ \A k \in 1 .. Cardinality(B) : \E b \in B : Rank(B, b) = k - 1
<1> DEFINE n == Cardinality(B)
           Less(b) == {a \in B : Before(a, b)}
           f == [b \in B |-> Rank(B, b)]
<1>1. n \in Nat
  BY FS_CardinalityType
<1>2. \A b \in B : Rank(B, b) = Cardinality(Less(b))
  BY DEF Rank
<1>3. \A b \in B : IsFiniteSet(Less(b)) /\ Cardinality(Less(b)) \in Nat
  BY FS_Subset, FS_CardinalityType
<1>4. \A b \in B : Cardinality(Less(b)) < n
  <2> SUFFICES ASSUME NEW b \in B PROVE Cardinality(Less(b)) < n
    OBVIOUS
  <2>1. b \notin Less(b)
    BY BeforeIsAnOrder
  <2>2. Less(b) \in SUBSET B /\ Less(b) # B
    BY <2>1
  <2>3. Cardinality(Less(b)) <= n /\ n # Cardinality(Less(b))
    BY <2>2, FS_Subset
  <2> QED BY <2>3, <1>1, <1>3
<1>5. \A a, b \in B : Before(a, b) => Cardinality(Less(a)) < Cardinality(Less(b))
  <2> SUFFICES ASSUME NEW a \in B, NEW b \in B, Before(a, b)
               PROVE  Cardinality(Less(a)) < Cardinality(Less(b))
    OBVIOUS
  <2>1. Less(a) \in SUBSET Less(b)
    BY BeforeIsAnOrder
  <2>2. a \in Less(b) /\ a \notin Less(a)
    BY BeforeIsAnOrder
  <2>3. IsFiniteSet(Less(b))
    BY <1>3
  <2>4. Less(a) # Less(b)
    BY <2>2
  <2> HIDE DEF Less
  <2>5. Cardinality(Less(a)) <= Cardinality(Less(b)) /\ Cardinality(Less(b)) # Cardinality(Less(a))
    BY <2>1, <2>3, <2>4, FS_Subset
  <2> QED BY <2>5, <1>3
<1> HIDE DEF Less, n
<1>6. f \in [B -> 0 .. n - 1]
  BY <1>1, <1>2, <1>3, <1>4
<1>7. \A a, b \in B : f[a] = f[b] => a = b
  <2> SUFFICES ASSUME NEW a \in B, NEW b \in B, f[a] = f[b], a # b PROVE FALSE
    OBVIOUS
  <2>1. Cardinality(Less(a)) = Cardinality(Less(b))
    BY <1>2
  <2>2. Before(a, b) \/ Before(b, a)
    BY DEF Ordered
  <2> QED BY <2>1, <2>2, <1>3, <1>5
<1>8. f \in Injection(B, 0 .. n - 1)
  BY <1>6, <1>7 DEF Injection, IsInjective
<1>9. IsFiniteSet(0 .. n - 1) /\ Cardinality(0 .. n - 1) = n
  BY <1>1, FS_Interval
<1>10. f \in Surjection(B, 0 .. n - 1)
  <2> HIDE DEF f
  <2> QED BY <1>8, <1>9, FS_Injection DEF n
<1>11. \A k \in 0 .. n - 1 : \E b \in B : Rank(B, b) = k
  BY <1>10 DEF Surjection
<1>12. \A k \in 1 .. n : k - 1 \in 0 .. n - 1
  BY <1>1
<1> QED BY <1>1, <1>11, <1>12 DEF n

LEMMA InOrderTyped ==
    ASSUME NEW B \in SUBSET Byte, IsFiniteSet(B), Ordered(B)
    PROVE  /\ Cardinality(B) \in Nat
           /\ \A k \in 1 .. Cardinality(B) : InOrder(B)[k] \in B
<1> SUFFICES ASSUME NEW k \in 1 .. Cardinality(B) PROVE InOrder(B)[k] \in B
  BY Ranked
<1>1. \E b \in B : Rank(B, b) = k - 1
  BY Ranked
<1>2. InOrder(B)[k] = CHOOSE b \in B : Rank(B, b) = k - 1
  BY DEF InOrder
<1> QED BY <1>1, <1>2

\* Bytes in place: one for each position up to n, and by their names in the order of the positions.
InPlace(B, n) ==
  /\ \A b \in B : b.start < b.pos /\ b.pos <= n
  /\ \A p \in 1 .. n : \E b \in B : b.pos = p
  /\ \A a, b \in B : /\ a.pos = b.pos => a = b
                     /\ a.pos < b.pos => Before(a, b)

LEMMA InPlaceCounted ==
    ASSUME NEW B \in SUBSET Byte, NEW n \in Nat, InPlace(B, n)
    PROVE  IsFiniteSet(B) /\ Cardinality(B) = n
<1> DEFINE f == [b \in B |-> b.pos]
<1>1. f \in [B -> 1 .. n]
  BY DEF Byte, InPlace
<1>2. \A a, b \in B : f[a] = f[b] => a = b
  BY DEF InPlace
<1>3. \A p \in 1 .. n : \E b \in B : f[b] = p
  BY DEF InPlace
<1>4. f \in Injection(B, 1 .. n) /\ f \in Surjection(B, 1 .. n)
  BY <1>1, <1>2, <1>3 DEF Injection, IsInjective, Surjection
<1>5. IsFiniteSet(1 .. n) /\ Cardinality(1 .. n) = n
  BY FS_Interval
<1> HIDE DEF f
<1> QED BY <1>4, <1>5, FS_Injection

\* The bytes before that at position p are those at the positions before p.
LEMMA InPlaceRanked ==
    ASSUME NEW B \in SUBSET Byte, NEW n \in Nat, InPlace(B, n), NEW b \in B
    PROVE  Rank(B, b) = b.pos - 1
<1> DEFINE L == {a \in B : Before(a, b)}
           m == b.pos - 1
<1>1. m \in Nat /\ m < n
  BY DEF Byte, InPlace
<1>2. \A a \in B : Before(a, b) <=> a.pos < b.pos
  <2> SUFFICES ASSUME NEW a \in B PROVE Before(a, b) <=> a.pos < b.pos
    OBVIOUS
  <2>1. a.pos \in Nat /\ b.pos \in Nat
    BY DEF Byte
  <2>2. CASE a.pos < b.pos
    BY <2>2 DEF InPlace
  <2>3. CASE a.pos = b.pos
    <3>1. a = b
      BY <2>3 DEF InPlace
    <3> QED BY <3>1, <2>3, <2>1, BeforeIsAnOrder
  <2>4. CASE b.pos < a.pos
    <3>1. Before(b, a)
      BY <2>4 DEF InPlace
    <3> QED BY <3>1, <2>4, <2>1, BeforeIsAnOrder
  <2> QED BY <2>1, <2>2, <2>3, <2>4
<1>3. InPlace(L, m)
  <2>1. \A a \in L : a.start < a.pos /\ a.pos <= m
    BY <1>2 DEF InPlace, Byte
  <2>2. ASSUME NEW p \in 1 .. m PROVE \E a \in L : a.pos = p
    <3>1. p \in 1 .. n /\ p < b.pos
      BY <1>1 DEF Byte
    <3>2. PICK a \in B : a.pos = p
      BY <3>1 DEF InPlace
    <3> QED BY <3>1, <3>2, <1>2
  <2>3. \A a, c \in L : (a.pos = c.pos => a = c) /\ (a.pos < c.pos => Before(a, c))
    BY DEF InPlace
  <2> QED BY <2>1, <2>2, <2>3 DEF InPlace
<1>4. Cardinality(L) = m
  <2> HIDE DEF L, m
  <2>1. L \in SUBSET Byte
    BY DEF L
  <2> QED BY <1>1, <1>3, <2>1, InPlaceCounted
<1> QED BY <1>4 DEF Rank

\* Such bytes are the file.
LEMMA InPlaceIsWhole ==
    ASSUME NEW B \in SUBSET Byte, NEW n \in Nat, InPlace(B, n)
    PROVE  \A k \in 1 .. n : InOrder(B)[k] \in B /\ InOrder(B)[k].pos = k
<1> SUFFICES ASSUME NEW k \in 1 .. n
             PROVE  InOrder(B)[k] \in B /\ InOrder(B)[k].pos = k
  OBVIOUS
<1>1. PICK b \in B : b.pos = k
  BY DEF InPlace
<1>2. Rank(B, b) = k - 1
  BY <1>1, InPlaceRanked
<1>3. InOrder(B)[k] = CHOOSE a \in B : Rank(B, a) = k - 1
  BY InPlaceCounted DEF InOrder
<1>4. InOrder(B)[k] \in B /\ Rank(B, InOrder(B)[k]) = k - 1
  BY <1>2, <1>3
<1>5. InOrder(B)[k].pos - 1 = k - 1 /\ InOrder(B)[k].pos \in Nat
  BY <1>4, InPlaceRanked DEF Byte
<1> QED BY <1>4, <1>5

LEMMA NothingInPlace == InPlace({}, 0)
BY DEF InPlace

\* A range of one chunk that begins where the bytes in place end.
LEMMA InPlaceExtended ==
    ASSUME NEW B \in SUBSET Byte, NEW n \in Nat, InPlace(B, n),
           NEW c \in Chunk, c.start = n
    PROVE  InPlace(B \cup BytesOf(c), n + c.len)
<1> DEFINE X == BytesOf(c)
<1>1. c.len \in Nat
  BY DEF Chunk
<1>2. \A x \in X : x.start = n /\ x.pos \in n + 1 .. n + c.len /\ x.ver = c.ver
  BY DEF BytesOf
<1>3. \A b \in B : b.start \in Nat /\ b.pos \in Nat /\ b.start < b.pos /\ b.pos <= n
  BY DEF InPlace, Byte
<1>4. \A p \in n + 1 .. n + c.len : \E x \in X : x.pos = p
  <2> SUFFICES ASSUME NEW p \in n + 1 .. n + c.len PROVE \E x \in X : x.pos = p
    OBVIOUS
  <2>1. [start |-> n, pos |-> p, ver |-> c.ver] \in X
    BY DEF BytesOf
  <2> QED BY <2>1
<1>5. \A x, y \in X : x.pos = y.pos => x = y
  BY DEF BytesOf
<1> HIDE DEF X
<1>6. \A b \in B \cup X : b.start < b.pos /\ b.pos <= n + c.len
  BY <1>1, <1>2, <1>3
<1>7. ASSUME NEW p \in 1 .. n + c.len PROVE \E b \in B \cup X : b.pos = p
  <2>1. CASE p <= n
    BY <2>1 DEF InPlace
  <2>2. CASE ~(p <= n)
    <3>1. p \in n + 1 .. n + c.len
      BY <2>2, <1>1
    <3> QED BY <3>1, <1>4
  <2> QED BY <2>1, <2>2
<1>8. ASSUME NEW a \in B \cup X, NEW b \in B \cup X, a.pos = b.pos PROVE a = b
  <2>1. CASE a \in B /\ b \in B
    BY <2>1, <1>8 DEF InPlace
  <2>2. CASE a \in X /\ b \in X
    BY <2>2, <1>8, <1>5
  <2> QED BY <2>1, <2>2, <1>8, <1>2, <1>3, <1>1
<1>9. ASSUME NEW a \in B \cup X, NEW b \in B \cup X, a.pos < b.pos PROVE Before(a, b)
  <2>1. CASE a \in B /\ b \in B
    BY <2>1, <1>9 DEF InPlace
  <2>2. CASE a \in X /\ b \in X
    BY <2>2, <1>9, <1>2 DEF Before
  <2>3. CASE a \in B /\ b \in X
    BY <2>3, <1>2, <1>3 DEF Before
  <2> QED BY <2>1, <2>2, <2>3, <1>9, <1>2, <1>3, <1>1
<1> QED BY <1>6, <1>7, <1>8, <1>9 DEF InPlace, X

\* The chunks that slotPropfindFinished keeps are a range from the start of the file.
LEMMA RowInPlace ==
    ASSUME NEW K \in SUBSET Chunk, NEW n \in Nat, IsRow(K, n)
    PROVE  InPlace(Stored(K), n)
<1> DEFINE S == Stored(K)
<1>1. \A c \in K : c.start \in Nat /\ c.len \in Nat /\ c.start + c.len <= n
  BY DEF Chunk, IsRow
<1>2. ASSUME NEW b \in S
      PROVE  \E c \in K : b \in BytesOf(c) /\ b.start = c.start /\ b.ver = c.ver
                          /\ b.pos \in c.start + 1 .. c.start + c.len
  <2>1. PICK c \in K : b \in BytesOf(c)
    BY DEF Stored
  <2> QED BY <2>1 DEF BytesOf
<1>3. \A b \in S : b.start < b.pos /\ b.pos <= n
  BY <1>1, <1>2
<1>4. ASSUME NEW p \in 1 .. n PROVE \E b \in S : b.pos = p
  <2>1. PICK c \in K : Covers(c, p)
    BY DEF IsRow
  <2>2. [start |-> c.start, pos |-> p, ver |-> c.ver] \in BytesOf(c)
    BY <2>1, <1>1 DEF BytesOf, Covers
  <2> QED BY <2>2 DEF Stored
<1>5. ASSUME NEW c \in K, NEW d \in K, NEW p \in Nat, Covers(c, p), Covers(d, p) PROVE c = d
  <2>1. p \in 1 .. n
    BY <1>5, <1>1 DEF Covers
  <2>2. PICK e \in K : Covers(e, p) /\ \A g \in K : Covers(g, p) => g = e
    BY <2>1 DEF IsRow
  <2> QED BY <1>5, <2>2
<1>6. ASSUME NEW a \in S, NEW b \in S
      PROVE  (a.pos = b.pos => a = b) /\ (a.pos < b.pos => Before(a, b))
  <2>1. PICK c \in K : /\ a \in BytesOf(c) /\ a.start = c.start /\ a.ver = c.ver
                       /\ a.pos \in c.start + 1 .. c.start + c.len
    BY <1>2
  <2>2. PICK d \in K : /\ b \in BytesOf(d) /\ b.start = d.start /\ b.ver = d.ver
                       /\ b.pos \in d.start + 1 .. d.start + d.len
    BY <1>2
  <2>3. a.pos \in Nat /\ b.pos \in Nat /\ Covers(c, a.pos) /\ Covers(d, b.pos)
    BY <2>1, <2>2, <1>1 DEF Covers
  <2>4. ASSUME a.pos = b.pos PROVE a = b
    <3>1. c = d
      BY <2>3, <2>4, <1>5
    <3> QED BY <3>1, <2>1, <2>2, <2>4 DEF BytesOf
  <2>5. ASSUME a.pos < b.pos PROVE Before(a, b)
    <3>1. CASE d.start < c.start
      <4>1. Covers(d, a.pos)
        BY <3>1, <2>5, <2>1, <2>2, <1>1 DEF Covers
      <4>2. c = d
        BY <4>1, <2>3, <1>5
      <4> QED BY <4>2, <3>1, <1>1
    <3> QED BY <3>1, <2>1, <2>2, <2>5, <1>1 DEF Before
  <2> QED BY <2>4, <2>5
<1> QED BY <1>3, <1>4, <1>6 DEF InPlace

-----------------------------------------------------------------------------
(* The types. *)

Request ==
  [op : {"PUT"}, id : Nat, start : Nat, len : Nat, ver : Versions] \cup [op : {"DELETE"}, id : Nat, start : Nat]
Upload  == [id : Nat, ver : Versions, errors : 0 .. ErrorLimit]
Job     ==
  [phase : Phases, item : Versions \cup {0}, base : Nat, id : Nat, next : Nat, sent : Nat,
   chunk : [start : Nat, size : Nat, len : Nat, ver : Versions \cup {0}],
   toDelete : SUBSET Nat, removeError : BOOLEAN]

FileOK ==
  /\ file \in Versions /\ latest \in Versions /\ synced \in Versions \cup {0}
  /\ remote \in [ver : Versions \cup {0}, content : Seq(Versions \X Nat), etag : Nat]
  /\ dbEtag \in 0 .. remote.etag
  /\ checksums \in BOOLEAN /\ found \in {"nothing", "conflict", "newer"}
  /\ remote.etag # 0 => remote.ver # 0
  /\ nextId \in Nat \ {0} /\ faults \in 0 .. MaxFaults
StoreOK ==
  /\ dirs \subseteq 1 .. nextId - 1
  /\ chunks \subseteq Chunk /\ IsFiniteSet(Stored(chunks))
  /\ \A c \in chunks : c.id \in dirs
  /\ \A c, d \in chunks : c.id = d.id /\ c.start = d.start => c = d
  /\ late \subseteq Request /\ \A r \in late : r.id \in 1 .. nextId - 1
InfoOK == info # None => info \in Upload /\ info.id \in 1 .. nextId - 1
\* A job works for the upload in the journal, and has not sent more than what is not left to upload.
JobOK ==
  /\ job \in Job
  /\ job.next <= Size(job.item) /\ job.sent <= job.next
  /\ job.phase # "idle" => info # None /\ info.id = job.id /\ info.ver = job.item
  /\ job.phase = "putting" =>
       /\ job.chunk.start = job.next /\ job.chunk.ver \in Versions
       /\ job.chunk.size \in 1 .. Size(job.item) - job.next
TypeInv == FileOK /\ StoreOK /\ InfoOK /\ JobOK

LEMMA TypeInvImpliesTypeOK == TypeInv => TypeOK
<1> SUFFICES ASSUME TypeInv PROVE TypeOK
  OBVIOUS
<1> USE DEF TypeInv
<1>1. job.item \in Versions \cup {0} /\ Size(job.item) \in Nat
  BY Sized DEF JobOK, Job
<1>2. job.next \in 0 .. Size(job.item) /\ job.sent \in 0 .. Size(job.item)
  BY <1>1 DEF JobOK, Job
<1>3. info = None \/ (info.id \in 1 .. nextId - 1 /\ info.ver \in Versions /\ info.errors \in 0 .. ErrorLimit)
  BY DEF InfoOK, Upload
<1>4. job.phase \in Phases /\ job.removeError \in BOOLEAN
  BY DEF JobOK, Job
<1>5. remote.ver \in Versions \cup {0} /\ remote.content \in Seq(Versions \X Nat)
  BY DEF FileOK
<1>6. {checksums, job.removeError} \subseteq BOOLEAN /\ found \in {"nothing", "conflict", "newer"}
  BY <1>4 DEF FileOK
<1>7. {file, latest} \subseteq Versions /\ synced \in Versions \cup {0} /\ dbEtag \in 0 .. remote.etag
      /\ nextId \in Nat \ {0} /\ faults \in 0 .. MaxFaults
  BY DEF FileOK
<1> QED BY <1>1, <1>2, <1>3, <1>4, <1>5, <1>6, <1>7 DEF TypeOK, StoreOK

LEMMA IdleIsJob == Idle \in Job /\ Idle.phase = "idle" /\ Idle.next = 0 /\ Idle.sent = 0 /\ Idle.item = 0
BY DEF Idle, Job, NoChunk, Phases

LEMMA InitTypes == Init => TypeInv
<1> SUFFICES ASSUME Init PROVE TypeInv
  OBVIOUS
<1> USE DEF Init
<1>1. FileOK
  <2>1. 1 \in Versions
    BY Numbered
  <2>2. 0 \in 0 .. MaxFaults /\ 0 \in 0 .. 0
    BY UploadAssumption
  <2>3. remote \in [ver : Versions \cup {0}, content : Seq(Versions \X Nat), etag : Nat] /\ remote.etag = 0
    <3> DEFINE S == Seq(Versions \X Nat)
    <3>1. <<>> \in S
      OBVIOUS
    <3> HIDE DEF S
    <3>2. remote \in [ver : Versions \cup {0}, content : S, etag : Nat]
      BY <3>1
    <3> QED BY <3>2 DEF S
  <2>4. nextId \in Nat \ {0} /\ faults \in 0 .. MaxFaults /\ dbEtag \in 0 .. remote.etag
    BY <2>2, <2>3
  <2>5. file \in Versions /\ latest \in Versions /\ synced \in Versions \cup {0}
        /\ checksums \in BOOLEAN /\ found \in {"nothing", "conflict", "newer"}
    BY <2>1
  <2> QED BY <2>3, <2>4, <2>5 DEF FileOK
<1>2. Stored(chunks) = {}
  BY DEF Stored
<1>3. StoreOK
  BY <1>2, FS_EmptySet DEF StoreOK
<1>4. JobOK
  BY IdleIsJob, Sized DEF JobOK
<1> QED BY <1>1, <1>3, <1>4 DEF TypeInv, InfoOK

\* The server handles requests of one run: no two of them write.
LEMMA HandledStore ==
    ASSUME StoreOK, NEW R \in SUBSET Request,
           \A r, q \in R : r.op = "PUT" /\ q.op = "PUT" => r = q
    PROVE  /\ Handled(R) \subseteq Chunk /\ IsFiniteSet(Stored(Handled(R)))
           /\ \A c \in Handled(R) : c.id \in dirs
           /\ \A c, d \in Handled(R) : c.id = d.id /\ c.start = d.start => c = d
<1> DEFINE W == Written(R)
           Old == {c \in chunks : \A r \in R : c.id # r.id \/ c.start # r.start}
<1>1. ASSUME NEW w \in W
      PROVE  /\ w \in Chunk /\ w.id \in dirs
             /\ \E r \in R : r.op = "PUT" /\ w = [id |-> r.id, start |-> r.start, len |-> r.len, ver |-> r.ver]
  <2>1. PICK r \in R : /\ r.op = "PUT" /\ r.id \in dirs
                       /\ w = [id |-> r.id, start |-> r.start, len |-> r.len, ver |-> r.ver]
    BY DEF Written
  <2>2. r \in [op : {"PUT"}, id : Nat, start : Nat, len : Nat, ver : Versions]
    BY <2>1 DEF Request
  <2> QED BY <2>1, <2>2 DEF Chunk
<1>2. \A v, w \in W : v = w
  BY <1>1
<1>3. Handled(R) = Old \cup W
  BY DEF Handled
<1>4. Old \subseteq chunks /\ Stored(Old) \subseteq Stored(chunks)
  BY DEF Stored
<1>5. IsFiniteSet(Stored(Old))
  BY <1>4, FS_Subset DEF StoreOK
<1>6. ASSUME NEW c \in Old, NEW w \in W, c.id = w.id, c.start = w.start PROVE FALSE
  <2>1. PICK r \in R : w = [id |-> r.id, start |-> r.start, len |-> r.len, ver |-> r.ver]
    BY <1>1
  <2> QED BY <2>1, <1>6
<1> HIDE DEF Old, W
<1>7. IsFiniteSet(Stored(Old \cup W))
  <2>1. CASE W = {}
    BY <2>1, <1>5
  <2>2. CASE W # {}
    <3>0. PICK w \in W : TRUE
      BY <2>2
    <3>1. W = {w}
      BY <1>2
    <3>2. Stored(Old \cup W) = Stored(Old) \cup BytesOf(w)
      BY <3>1 DEF Stored
    <3>3. IsFiniteSet(BytesOf(w))
      BY <3>1, <1>1, ChunkIsFinite
    <3> QED BY <3>2, <3>3, <1>5, FS_Union
  <2> QED BY <2>1, <2>2
<1>8. \A c, d \in Old \cup W : c.id = d.id /\ c.start = d.start => c = d
  BY <1>2, <1>4, <1>6 DEF StoreOK
<1> QED BY <1>1, <1>3, <1>4, <1>7, <1>8 DEF StoreOK

LEMMA StoredOfUnchanged ==
    ASSUME StoreOK, NEW K \in SUBSET chunks PROVE IsFiniteSet(Stored(K))
<1>1. Stored(K) \in SUBSET Stored(chunks)
  BY DEF Stored
<1> QED BY <1>1, FS_Subset DEF StoreOK

LEMMA OutstandingTyped ==
    ASSUME TypeInv
    PROVE  /\ Outstanding \subseteq Request
           /\ \A r \in Outstanding : r.id \in 1 .. nextId - 1
           /\ \A r, q \in Outstanding : r.op = "PUT" /\ q.op = "PUT" => r = q
<1> USE DEF TypeInv
<1>1. job \in Job
  BY DEF JobOK
<1>2. CASE job.phase = "putting"
  <2>1. Outstanding = {PutRequest(job.id, job.chunk.start, job.chunk.len, job.chunk.ver)}
    BY <1>2 DEF Outstanding
  <2>2. job.chunk.start \in Nat /\ job.chunk.len \in Nat /\ job.chunk.ver \in Versions /\ job.id \in 1 .. nextId - 1
    BY <1>1, <1>2 DEF Job, JobOK, InfoOK
  <2>3. job.id \in Nat
    BY <1>1 DEF Job
  <2> QED BY <2>1, <2>2, <2>3 DEF PutRequest, Request
<1>3. CASE job.phase = "deleting"
  <2>1. Outstanding = {DeleteRequest(job.id, c) : c \in job.toDelete}
    BY <1>3 DEF Outstanding
  <2>2. job.toDelete \subseteq Nat /\ job.id \in 1 .. nextId - 1 /\ job.id \in Nat
    BY <1>1, <1>3 DEF Job, JobOK, InfoOK
  <2>3. \A r \in Outstanding : r.op = "DELETE"
    BY <2>1 DEF DeleteRequest
  <2>4. \A r \in Outstanding : r \in Request /\ r.id \in 1 .. nextId - 1
    BY <2>1, <2>2 DEF DeleteRequest, Request
  <2> QED BY <2>3, <2>4
<1>4. CASE job.phase # "putting" /\ job.phase # "deleting"
  BY <1>4 DEF Outstanding
<1> QED BY <1>2, <1>3, <1>4

LEMMA GiveUpStore ==
    ASSUME TypeInv, GiveUp, dirs \subseteq dirs', dirs' \subseteq 1 .. nextId - 1, nextId' = nextId
    PROVE  StoreOK' /\ job' = Idle
<1>1. CASE UNCHANGED chunks /\ late' = late \cup Outstanding
  <2>1. late' \subseteq Request /\ \A r \in late' : r.id \in 1 .. nextId - 1
    BY <1>1, OutstandingTyped DEF TypeInv, StoreOK
  <2> QED BY <1>1, <2>1 DEF TypeInv, StoreOK, GiveUp
<1>2. CASE UNCHANGED late /\ \E R \in SUBSET Outstanding : chunks' = Handled(R)
  <2>1. PICK R \in SUBSET Outstanding : chunks' = Handled(R)
    BY <1>2
  <2>2. R \in SUBSET Request /\ \A r, q \in R : r.op = "PUT" /\ q.op = "PUT" => r = q
    BY OutstandingTyped
  <2>3. /\ chunks' \subseteq Chunk /\ IsFiniteSet(Stored(chunks'))
        /\ \A c \in chunks' : c.id \in dirs
        /\ \A c, d \in chunks' : c.id = d.id /\ c.start = d.start => c = d
    BY <2>1, <2>2, HandledStore DEF TypeInv
  <2> QED BY <1>2, <2>3 DEF TypeInv, StoreOK, GiveUp
<1> QED BY <1>1, <1>2 DEF GiveUp

LEMMA StoreKept ==
    ASSUME FileOK, StoreOK, UNCHANGED <<dirs, chunks, late>>, nextId' = nextId \/ nextId' = nextId + 1
    PROVE  StoreOK'
<1>1. nextId \in Nat
  BY DEF FileOK
<1>2. \A i \in 1 .. nextId - 1 : i \in 1 .. nextId' - 1
  BY <1>1
<1> QED BY <1>2 DEF StoreOK

\* Upload directories are removed, with the chunks in them.
LEMMA StoreFewer ==
    ASSUME FileOK, StoreOK, NEW gone, dirs' = dirs \ gone, chunks' = {c \in chunks : c.id \notin gone},
           UNCHANGED late, nextId' = nextId \/ nextId' = nextId + 1
    PROVE  StoreOK'
<1>1. nextId \in Nat
  BY DEF FileOK
<1>2. \A i \in 1 .. nextId - 1 : i \in 1 .. nextId' - 1
  BY <1>1
<1>3. chunks' \in SUBSET chunks
  OBVIOUS
<1>4. IsFiniteSet(Stored(chunks'))
  BY <1>3, StoredOfUnchanged
<1> QED BY <1>2, <1>3, <1>4 DEF StoreOK

LEMMA StartNewTypes ==
    ASSUME TypeInv, NEW j \in Job, j.item \in Versions, j.next <= Size(j.item), StartNewUpload(j)
    PROVE  /\ InfoOK' /\ JobOK' /\ info' # None /\ info'.ver = j.item /\ info'.id = nextId
           /\ nextId' = nextId + 1 /\ nextId' \in Nat \ {0}
<1>1. nextId \in Nat \ {0} /\ nextId' = nextId + 1
  BY DEF TypeInv, FileOK, StartNewUpload
<1>2. nextId \in Nat /\ nextId' \in Nat \ {0} /\ nextId \in 1 .. nextId' - 1
  BY <1>1
<1>3. info' = [id |-> nextId, ver |-> j.item, errors |-> 0] /\ 0 \in 0 .. ErrorLimit
  BY UploadAssumption DEF StartNewUpload
<1>4. info' # None
  <2>1. j.item \in Nat
    BY Sized
  <2> QED BY <2>1, <1>3, <1>2, UploadAssumption
<1>5. info' \in Upload
  BY <1>2, <1>3 DEF Upload
<1>6. job' = [j EXCEPT !.phase = "mkcol", !.id = nextId, !.sent = 0, !.toDelete = {}, !.removeError = FALSE]
  BY DEF StartNewUpload
<1>7. job' \in Job /\ job'.phase = "mkcol" /\ job'.id = nextId /\ job'.item = j.item /\ job'.next = j.next /\ job'.sent = 0
  BY <1>6, <1>2 DEF Job, Phases
<1>8. 0 <= j.next
  BY DEF Job
<1>9. JobOK'
  BY <1>3, <1>4, <1>7, <1>8 DEF JobOK
<1> QED BY <1>1, <1>2, <1>3, <1>4, <1>5, <1>9 DEF InfoOK

LEMMA IdleTypes == job' = Idle => JobOK'
<1> SUFFICES ASSUME job' = Idle PROVE JobOK'
  OBVIOUS
<1>1. Size(0) = 0
  BY Sized
<1> QED BY <1>1, IdleIsJob DEF JobOK

LEMMA AfterErrorTypes ==
    ASSUME InfoOK, UNCHANGED nextId, info' \in {info, AfterError} PROVE InfoOK'
<1>1. CASE info' = info
  BY <1>1 DEF InfoOK
<1>2. CASE info' = None
  BY <1>2 DEF InfoOK
<1>3. CASE info # None /\ info.errors # ErrorLimit /\ info' = [info EXCEPT !.errors = @ + 1]
  <2>1. info \in Upload /\ info.id \in 1 .. nextId - 1
    BY <1>3 DEF InfoOK
  <2>2. info.errors + 1 \in 0 .. ErrorLimit
    BY <2>1, <1>3, UploadAssumption DEF Upload
  <2>3. info' \in Upload /\ info'.id = info.id
    BY <2>1, <2>2, <1>3 DEF Upload
  <2> QED BY <2>1, <2>3 DEF InfoOK
<1> QED BY <1>1, <1>2, <1>3 DEF AfterError

\* The job that begins with the file as it is.
LEMMA BegunIsJob ==
    ASSUME TypeInv
    PROVE  LET j == [Idle EXCEPT !.item = file, !.base = remote.etag]
           IN  j \in Job /\ j.item = file /\ file \in Versions /\ j.next = 0 /\ j.sent = 0
BY DEF TypeInv, FileOK, Idle, NoChunk, Job, Phases

\* What the job works for is a version with a size, and what there is to upload of it.
LEMMA JobSized ==
    ASSUME TypeInv
    PROVE  /\ job \in Job /\ job.next \in Nat /\ job.sent \in Nat /\ Size(job.item) \in Nat
           /\ job.next <= Size(job.item) /\ job.sent <= job.next
           /\ job.phase # "idle" => job.item \in Versions /\ job.id \in 1 .. nextId - 1
BY Sized DEF TypeInv, JobOK, InfoOK, Upload, Job

\* What leaves job, upload and store alone, or only takes chunks, directories and requests from it.
LEMMA InfoKept == TypeInv /\ UNCHANGED <<info, nextId>> => InfoOK'
BY DEF TypeInv, InfoOK
LEMMA JobKept == TypeInv /\ UNCHANGED <<info, job>> => JobOK'
BY DEF TypeInv, JobOK
LEMMA FaultTypes == faults \in 0 .. MaxFaults /\ (Fault \/ UNCHANGED faults) => faults' \in 0 .. MaxFaults
BY UploadAssumption DEF Fault
LEMMA FileKept ==
    ASSUME TypeInv, UNCHANGED <<file, latest, synced, dbEtag, checksums, remote>>,
           found' \in {found, "newer", "nothing"},
           nextId' = nextId \/ nextId' = nextId + 1, Fault \/ UNCHANGED faults
    PROVE  FileOK'
<1>1. nextId' \in Nat \ {0}
  BY DEF TypeInv, FileOK
<1>2. faults' \in 0 .. MaxFaults
  BY FaultTypes DEF TypeInv, FileOK
<1> QED BY <1>1, <1>2 DEF TypeInv, FileOK

LEMMA ListedTypes == TypeInv /\ Listed => TypeInv'
<1> SUFFICES ASSUME TypeInv, Listed PROVE TypeInv'
  OBVIOUS
<1>1. FileOK' /\ InfoOK' /\ StoreOK'
  BY FileKept, InfoKept, StoreKept DEF Listed, serverVars, TypeInv
<1>2. PICK K \in SUBSET ChunksOf(job.id), n \in 0 .. Size(job.item) :
        LET rest == {c.start : c \in ChunksOf(job.id) \ K}
        IN job' = [job EXCEPT !.next = n, !.sent = n, !.toDelete = rest,
                              !.phase = IF rest = {} THEN "ready" ELSE "deleting"]
  BY DEF Listed
<1>3. n \in Nat /\ n <= Size(job.item)
  BY JobSized
<1> DEFINE rest == {c.start : c \in ChunksOf(job.id) \ K}
<1>4. rest \in SUBSET Nat
  BY DEF TypeInv, StoreOK, Chunk, ChunksOf
<1>5. job' = [job EXCEPT !.next = n, !.sent = n, !.toDelete = rest,
                         !.phase = IF rest = {} THEN "ready" ELSE "deleting"]
  BY <1>2
<1> HIDE DEF rest
<1>6. job' \in Job /\ job'.next = n /\ job'.sent = n /\ job'.item = job.item /\ job'.id = job.id
      /\ job'.phase \in {"ready", "deleting"}
  BY <1>3, <1>4, <1>5, JobSized DEF Job, Phases
<1>7. info' = info /\ job.phase # "idle"
  BY DEF Listed
<1>8. JobOK'
  BY <1>3, <1>6, <1>7 DEF JobOK, TypeInv
<1> QED BY <1>1, <1>8 DEF TypeInv

LEMMA DeleteTypes ==
    ASSUME TypeInv, NEW c \in job.toDelete, Deleted(c) \/ DeleteFails(c) PROVE TypeInv'
<1>1. FileOK'
  BY FileKept DEF Deleted, DeleteFails, serverVars, StartNewUpload
<1>2. nextId' = nextId \/ nextId' = nextId + 1
  BY DEF Deleted, DeleteFails, StartNewUpload
<1>3. StoreOK'
  <2>1. CASE UNCHANGED serverVars
    BY <1>2, <2>1, StoreKept DEF TypeInv, serverVars
  <2>2. CASE chunks' = Handled({DeleteRequest(job.id, c)}) /\ UNCHANGED <<dirs, late>>
    <3>1. chunks' \subseteq chunks
      BY <2>2 DEF Handled, Written, DeleteRequest
    <3> DEFINE S == chunks'
    <3>2. S \in SUBSET chunks /\ IsFiniteSet(Stored(S))
      BY <3>1, StoredOfUnchanged DEF TypeInv
    <3>3. nextId \in Nat
      BY DEF TypeInv, FileOK
    <3>4. \A i \in 1 .. nextId - 1 : i \in 1 .. nextId' - 1
      BY <1>2, <3>3
    <3> QED BY <2>2, <3>2, <3>4 DEF TypeInv, StoreOK
  <2> QED BY <2>1, <2>2 DEF Deleted, DeleteFails
<1>4. CASE StartNewUpload(job)
  <2>1. job.item \in Versions
    BY JobSized DEF Deleted, DeleteFails
  <2> QED BY <1>1, <1>3, <1>4, <2>1, JobSized, StartNewTypes DEF TypeInv
<1>5. CASE /\ UNCHANGED <<info, nextId>>
           /\ \/ job' = [job EXCEPT !.toDelete = @ \ {c}]
              \/ job' = [job EXCEPT !.toDelete = @ \ {c}, !.removeError = TRUE]
              \/ job' = [job EXCEPT !.toDelete = {}, !.phase = "ready"]
  <2>1. job' \in Job
    BY <1>5, JobSized DEF Job, Phases
  <2>2. job'.next = job.next /\ job'.sent = job.sent /\ job'.item = job.item /\ job'.id = job.id
        /\ job'.phase \in {"deleting", "ready"} /\ job.phase = "deleting"
    BY <1>5, JobSized DEF Job, Deleted, DeleteFails
  <2>3. JobOK'
    BY <1>5, <2>1, <2>2 DEF TypeInv, JobOK
  <2> QED BY <1>1, <1>3, <1>5, <2>3, InfoKept DEF TypeInv
<1> QED BY <1>4, <1>5 DEF Deleted, DeleteFails

LEMMA StartNextChunkTypes == TypeInv /\ StartNextChunk => TypeInv'
<1> SUFFICES ASSUME TypeInv, StartNextChunk PROVE TypeInv'
  OBVIOUS
<1>1. FileOK' /\ InfoOK' /\ StoreOK'
  BY FileKept, InfoKept, StoreKept DEF StartNextChunk, serverVars, TypeInv
<1>2. PICK s \in ChunkSizes :
        job' = [job EXCEPT !.phase = "putting",
                  !.chunk = [start |-> job.next, size |-> ChunkSize(s), ver |-> file,
                             len |-> Max({0, Min({ChunkSize(s), Size(file) - job.next})})]]
  BY DEF StartNextChunk
<1>3. s \in Nat \ {0}
  BY UploadAssumption
<1> DEFINE z == ChunkSize(s)
           l == Max({0, Min({z, Size(file) - job.next})})
<1>4. job.next < Size(job.item) /\ Size(job.item) - job.next \in Nat \ {0}
  BY JobSized DEF StartNextChunk
<1>5. z \in Nat \ {0} /\ z \in 1 .. Size(job.item) - job.next
  BY <1>3, <1>4, MinOfTwo DEF ChunkSize
<1>6. l \in Nat
  <2>1. file \in Versions
    BY DEF TypeInv, FileOK
  <2>2. Size(file) \in Nat
    BY <2>1, Sized
  <2>3. Size(file) - job.next \in Int
    BY <2>2, JobSized
  <2> HIDE DEF z
  <2>4. Min({z, Size(file) - job.next}) \in Int
    BY <1>5, <2>3, MinOfTwo
  <2> QED BY <2>4, MaxOfTwo
<1>7. job' = [job EXCEPT !.phase = "putting", !.chunk = [start |-> job.next, size |-> z, ver |-> file, len |-> l]]
  BY <1>2
<1> HIDE DEF z, l
<1>8. job' \in Job
  BY <1>5, <1>6, <1>7, JobSized DEF Job, Phases, TypeInv, FileOK
<1>9. job'.chunk = [start |-> job.next, size |-> z, ver |-> file, len |-> l] /\ job'.phase = "putting"
      /\ job'.next = job.next /\ job'.sent = job.sent /\ job'.item = job.item /\ job'.id = job.id
  BY <1>7, JobSized DEF Job
<1>10. info' = info /\ job.phase = "ready"
  BY DEF StartNextChunk
<1>11. file \in Versions
  BY DEF TypeInv, FileOK
<1>12. JobOK'
  BY <1>5, <1>8, <1>9, <1>10, <1>11 DEF TypeInv, JobOK
<1> QED BY <1>1, <1>12 DEF TypeInv

LEMMA PutFinishedTypes == TypeInv /\ PutFinished => TypeInv'
<1> SUFFICES ASSUME TypeInv, PutFinished PROVE TypeInv'
  OBVIOUS
<1>1. FileOK'
  BY FileKept DEF PutFinished
<1> DEFINE j == [job EXCEPT !.phase = "ready", !.next = @ + job.chunk.size,
                            !.sent = @ + job.chunk.size, !.chunk = NoChunk]
           r(v) == PutRequest(job.id, job.chunk.start, job.chunk.len, v)
<1>2. job.chunk.start \in Nat /\ job.chunk.len \in Nat /\ job.chunk.ver \in Versions
      /\ job.chunk.size \in 1 .. Size(job.item) - job.next /\ job.phase = "putting" /\ job.id \in Nat
  BY JobSized DEF Job, TypeInv, JobOK, PutFinished
<1>3. PICK ver \in {job.chunk.ver, file} : chunks' = Handled({r(ver)})
  BY DEF PutFinished
<1>4. r(ver) \in Request
  BY <1>2 DEF PutRequest, Request, TypeInv, FileOK
<1>5. StoreOK'
  <2> HIDE DEF r
  <2> DEFINE S == chunks'
  <2>1. /\ S \subseteq Chunk /\ IsFiniteSet(Stored(S))
        /\ \A c \in S : c.id \in dirs
        /\ \A c, d \in S : c.id = d.id /\ c.start = d.start => c = d
    BY <1>3, <1>4, HandledStore DEF TypeInv
  <2>2. UNCHANGED <<dirs, late, nextId>>
    BY DEF PutFinished
  <2> QED BY <2>1, <2>2 DEF TypeInv, StoreOK
<1>6. job.next + job.chunk.size \in Nat /\ job.next + job.chunk.size <= Size(job.item)
      /\ job.sent + job.chunk.size \in Nat /\ job.sent + job.chunk.size <= job.next + job.chunk.size
  BY <1>2, JobSized
<1>7. j \in Job /\ j.next = job.next + job.chunk.size /\ j.sent = job.sent + job.chunk.size
      /\ j.item = job.item /\ j.id = job.id /\ j.phase = "ready"
  BY <1>6, JobSized DEF Job, Phases, NoChunk
<1>8. job' = j \/ job' = Idle
  BY DEF PutFinished
<1>9. info # None /\ info.id = job.id /\ info.ver = job.item /\ info \in Upload /\ info.id \in 1 .. nextId - 1
  BY <1>2 DEF TypeInv, JobOK, InfoOK
<1>10. info' \in {info, [info EXCEPT !.errors = 0]}
  BY DEF PutFinished
<1>11. info' # None /\ info'.id = info.id /\ info'.ver = info.ver /\ info' \in Upload
  <2>1. CASE info' = info
    BY <2>1, <1>9
  <2>2. CASE info' = [info EXCEPT !.errors = 0]
    <3>1. 0 \in 0 .. ErrorLimit
      BY UploadAssumption
    <3>2. info'.id = info.id /\ info'.ver = info.ver /\ info' \in Upload
      BY <2>2, <3>1, <1>9 DEF Upload
    <3>3. \A u \in Upload : u \in [id : Nat, ver : Nat, errors : Nat]
      <4>1. Versions \subseteq Nat /\ ErrorLimit \in Nat
        BY Sized, UploadAssumption
      <4>2. 0 .. ErrorLimit \subseteq Nat
        BY <4>1
      <4> QED BY <4>1, <4>2 DEF Upload
    <3> QED BY <3>2, <3>3, UploadAssumption
  <2> QED BY <1>10, <2>1, <2>2
<1>12. nextId' = nextId
  BY DEF PutFinished
<1>13. InfoOK'
  BY <1>9, <1>11, <1>12 DEF InfoOK
<1> HIDE DEF j
<1>14. ASSUME job' = j PROVE JobOK'
  BY <1>14, <1>6, <1>7, <1>9, <1>11 DEF JobOK
<1>15. JobOK'
  BY <1>8, <1>14, IdleTypes
<1> QED BY <1>1, <1>5, <1>13, <1>15 DEF TypeInv

LEMMA ServerMovesTypes ==
    ASSUME TypeInv, job.phase = "moving", Accepts, ServerMoves, UNCHANGED <<late, nextId>>
    PROVE  /\ StoreOK' /\ remote' \in [ver : Versions \cup {0}, content : Seq(Versions \X Nat), etag : Nat]
           /\ remote'.etag = remote.etag + 1 /\ remote'.ver = job.item
<1> DEFINE K == ChunksOf(job.id)
           B == Stored(K)
           S == Seq(Versions \X Nat)
<1>1. StoreOK'
  <2>1. dirs' = dirs \ {job.id} /\ chunks' = {c \in chunks : c.id \notin {job.id}}
    BY DEF ServerMoves
  <2> QED BY <2>1, StoreFewer DEF TypeInv
<1>2. K \in SUBSET chunks
  BY DEF ChunksOf
<1>3. K \in SUBSET Chunk /\ IsFiniteSet(B)
  BY <1>2, StoredOfUnchanged DEF TypeInv, StoreOK
<1>4. B \in SUBSET Byte
  BY <1>3, ByteTyped
<1>5. Ordered(B)
  <2> SUFFICES ASSUME NEW a \in B, NEW b \in B, ~Before(a, b), ~Before(b, a) PROVE a = b
    BY DEF Ordered
  <2>1. a.start = b.start /\ a.pos = b.pos
    BY <1>4 DEF Byte, Before
  <2>2. PICK c \in K : a \in BytesOf(c)
    BY DEF Stored
  <2>3. PICK d \in K : b \in BytesOf(d)
    BY DEF Stored
  <2>4. c.start = a.start /\ d.start = b.start /\ c.id = job.id /\ d.id = job.id
    BY <2>2, <2>3 DEF BytesOf, ChunksOf
  <2>5. c = d
    BY <2>1, <2>4, <1>2 DEF TypeInv, StoreOK
  <2> QED BY <2>1, <2>2, <2>3, <2>5 DEF BytesOf
<1> HIDE DEF B
<1>6. \A k \in 1 .. Cardinality(B) : InOrder(B)[k] \in Byte
  BY <1>3, <1>4, <1>5, InOrderTyped
<1>7. Cardinality(B) \in Nat
  BY <1>3, FS_CardinalityType
<1>8. \A k \in 1 .. Cardinality(B) : <<InOrder(B)[k].ver, InOrder(B)[k].pos>> \in Versions \X Nat
  BY <1>6 DEF Byte
<1>9. Assembled(job.id) = [k \in 1 .. Cardinality(B) |-> <<InOrder(B)[k].ver, InOrder(B)[k].pos>>]
  BY DEF Assembled, B
<1>10. Assembled(job.id) \in S
  BY <1>7, <1>8, <1>9
<1> HIDE DEF S, K
<1>11. remote.etag \in Nat /\ job.item \in Versions
  BY JobSized DEF TypeInv, FileOK
<1>12. remote' = [ver |-> job.item, content |-> Assembled(job.id), etag |-> remote.etag + 1]
  BY DEF ServerMoves
<1>13. remote' \in [ver : Versions \cup {0}, content : S, etag : Nat]
  BY <1>10, <1>11, <1>12
<1> QED BY <1>1, <1>12, <1>13 DEF S

LEMMA MoveTypes == TypeInv /\ (MoveFinished \/ MoveReplyLost) => TypeInv'
<1> SUFFICES ASSUME TypeInv, MoveFinished \/ MoveReplyLost PROVE TypeInv'
  OBVIOUS
<1>1. job.phase = "moving" /\ Accepts /\ ServerMoves /\ UNCHANGED <<late, nextId>>
  BY DEF MoveFinished, MoveReplyLost
<1>2. /\ StoreOK' /\ remote' \in [ver : Versions \cup {0}, content : Seq(Versions \X Nat), etag : Nat]
      /\ remote'.etag = remote.etag + 1
  BY <1>1, ServerMovesTypes
<1>3. synced' \in Versions \cup {0} /\ dbEtag' \in {dbEtag, remote'.etag}
  BY <1>1, JobSized DEF MoveFinished, MoveReplyLost, TypeInv, FileOK
<1>4. remote.etag \in Nat /\ dbEtag \in 0 .. remote.etag
  BY DEF TypeInv, FileOK
<1>5. dbEtag' \in 0 .. remote'.etag
  BY <1>2, <1>3, <1>4
<1>6. faults' \in 0 .. MaxFaults
  BY FaultTypes DEF MoveFinished, MoveReplyLost, TypeInv, FileOK
<1>7. FileOK'
  <2>1. UNCHANGED <<file, latest, checksums, found, nextId>>
    BY DEF MoveFinished, MoveReplyLost
  <2>2. remote'.ver # 0
    BY <1>1, ServerMovesTypes, JobSized, Sized
  <2> QED BY <1>2, <1>3, <1>5, <1>6, <2>1, <2>2 DEF TypeInv, FileOK
<1>8. InfoOK'
  <2>1. UNCHANGED nextId /\ info' \in {info, None}
    BY DEF MoveFinished, MoveReplyLost
  <2> QED BY <2>1 DEF TypeInv, InfoOK
<1>9. JobOK'
  BY IdleTypes DEF MoveFinished, MoveReplyLost
<1> QED BY <1>2, <1>7, <1>8, <1>9 DEF TypeInv

LEMMA GiveUpTypes == TypeInv /\ (PutFails \/ MoveRefused \/ Break) => TypeInv'
<1> SUFFICES ASSUME TypeInv, PutFails \/ MoveRefused \/ Break PROVE TypeInv'
  OBVIOUS
<1>1. UNCHANGED nextId /\ GiveUp /\ info' \in {info, AfterError}
  BY DEF PutFails, MoveRefused, Break
<1>2. dirs \subseteq dirs' /\ dirs' \subseteq 1 .. nextId - 1
  <2>1. dirs' = dirs \/ (dirs' = dirs \cup {job.id} /\ job.phase # "idle")
    BY DEF PutFails, MoveRefused, Break
  <2> QED BY <2>1, JobSized DEF TypeInv, StoreOK
<1>3. StoreOK' /\ job' = Idle
  BY <1>1, <1>2, GiveUpStore
<1>4. FileOK'
  BY FileKept DEF PutFails, MoveRefused, Break
<1>5. InfoOK'
  BY <1>1, AfterErrorTypes DEF TypeInv
<1> QED BY <1>3, <1>4, <1>5, IdleTypes DEF TypeInv

LEMMA StartUploadTypes == TypeInv /\ StartUpload => TypeInv'
<1> SUFFICES ASSUME TypeInv, StartUpload PROVE TypeInv'
  OBVIOUS
<1> DEFINE j == [Idle EXCEPT !.item = file, !.base = remote.etag]
<1>1. j \in Job /\ j.item = file /\ file \in Versions /\ j.next = 0 /\ j.sent = 0 /\ Size(file) \in Nat
  BY BegunIsJob, Sized
<1> HIDE DEF j
<1>2. CASE Resumable /\ job' = [j EXCEPT !.phase = "listing", !.id = info.id] /\ UNCHANGED <<info, nextId, dirs, chunks>>
  <2>1. FileOK' /\ InfoOK' /\ StoreOK'
    BY <1>2, FileKept, InfoKept, StoreKept DEF StartUpload, TypeInv
  <2>2. info \in Upload /\ info.id \in Nat
    BY <1>2 DEF Resumable, TypeInv, InfoOK, Upload
  <2>3. job' \in Job /\ job'.phase = "listing" /\ job'.id = info.id /\ job'.item = file /\ job'.next = 0 /\ job'.sent = 0
    BY <1>1, <1>2, <2>2 DEF Job, Phases
  <2>4. JobOK'
    BY <1>1, <1>2, <2>3 DEF JobOK, Resumable
  <2> QED BY <2>1, <2>4 DEF TypeInv
<1>3. CASE StartNewUpload(j) /\ \E gone : dirs' = dirs \ gone /\ chunks' = {c \in chunks : c.id \notin gone}
  <2>1. InfoOK' /\ JobOK' /\ nextId' = nextId + 1
    BY <1>1, <1>3, StartNewTypes
  <2>2. FileOK'
    BY <2>1, FileKept DEF StartUpload
  <2>3. PICK gone : dirs' = dirs \ gone /\ chunks' = {c \in chunks : c.id \notin gone}
    BY <1>3
  <2>4. StoreOK'
    BY <2>1, <2>3, StoreFewer DEF StartUpload, TypeInv
  <2> QED BY <2>1, <2>2, <2>4 DEF TypeInv
<1> QED BY <1>2, <1>3 DEF StartUpload, StaleDeleted, j

\* While a newer file is downloaded no job runs, and the journal does not know of it.
FoundInv == found = "newer" => job.phase = "idle" /\ remote.etag # dbEtag /\ info = None

LEMMA InitFound == Init => FoundInv
BY DEF Init, FoundInv

LEMMA NextFound == TypeInv /\ FoundInv /\ [Next]_vars => FoundInv'
<1> SUFFICES ASSUME TypeInv, FoundInv, [Next]_vars PROVE FoundInv'
  OBVIOUS
<1>1. CASE UNCHANGED <<found, job, remote, dbEtag, info>>
  BY <1>1 DEF FoundInv
<1>2. CASE found' # "newer"
  BY <1>2 DEF FoundInv
<1>3. CASE UNCHANGED found /\ job.phase # "idle"
  BY <1>3 DEF FoundInv
<1>4. CASE UNCHANGED found /\ found = "nothing"
  BY <1>4 DEF FoundInv
<1>5. CASE Edit \/ Restore \/ (\E r \in late : LateRequest(r)) \/ UNCHANGED vars
  BY <1>1, <1>5 DEF Edit, Restore, LateRequest, vars, serverVars
<1>6. CASE Discover \/ Downloaded \/ DownloadFails
  BY <1>2, <1>6 DEF Discover, Downloaded, DownloadFails
<1>7. CASE FindNewer
  BY <1>7 DEF FindNewer, FoundInv
<1>8. CASE ForgetUpload \/ StartUpload
  BY <1>4, <1>8 DEF ForgetUpload, StartUpload
<1>9. CASE Listed \/ ListingFails \/ MkColFinished \/ StartNextChunk \/ PutFinished \/ PutFails
  BY <1>3, <1>9 DEF Listed, ListingFails, MkColFinished, StartNextChunk, PutFinished, PutFails
<1>10. CASE DoFinalMove \/ MoveRefused \/ MoveFinished \/ MoveReplyLost \/ Break
  BY <1>3, <1>10 DEF DoFinalMove, MoveRefused, MoveFinished, MoveReplyLost, Break
<1>11. CASE \E c \in job.toDelete : Deleted(c) \/ DeleteFails(c)
  BY <1>3, <1>11 DEF Deleted, DeleteFails
<1> QED BY <1>5, <1>6, <1>7, <1>8, <1>9, <1>10, <1>11 DEF Next

LEMMA DownloadTypes == TypeInv /\ FoundInv /\ (Downloaded \/ DownloadFails) => TypeInv'
<1> SUFFICES ASSUME TypeInv, FoundInv, Downloaded \/ DownloadFails PROVE TypeInv'
  OBVIOUS
<1>1. InfoOK' /\ JobOK' /\ StoreOK'
  BY InfoKept, JobKept, StoreKept DEF Downloaded, DownloadFails, serverVars, TypeInv
<1>2. remote.ver \in Versions /\ remote.etag \in 0 .. remote.etag
  BY DEF Downloaded, DownloadFails, FoundInv, TypeInv, FileOK
<1>3. file' \in {file, remote.ver} /\ synced' \in {synced, remote.ver} /\ dbEtag' \in {dbEtag, remote.etag}
      /\ found' = "nothing"
  BY DEF Downloaded, DownloadFails
<1>4. UNCHANGED <<latest, checksums, remote, nextId, faults>>
  BY DEF Downloaded, DownloadFails, serverVars
<1>5. FileOK'
  BY <1>2, <1>3, <1>4 DEF TypeInv, FileOK
<1> QED BY <1>1, <1>5 DEF TypeInv

LEMMA NextTypes == TypeInv /\ FoundInv /\ [Next]_vars => TypeInv'
<1> SUFFICES ASSUME TypeInv, FoundInv, [Next]_vars PROVE TypeInv'
  OBVIOUS
<1>1. CASE Edit \/ Restore
  <2>1. InfoOK' /\ JobOK' /\ StoreOK'
    BY <1>1, InfoKept, JobKept, StoreKept DEF Edit, Restore, serverVars, TypeInv
  <2>2. file' \in Versions /\ latest' \in Versions
    BY <1>1, Numbered, Sized DEF Edit, Restore, TypeInv, FileOK
  <2>3. faults' \in 0 .. MaxFaults
    BY <1>1, FaultTypes DEF Edit, Restore, Fault, TypeInv, FileOK
  <2>4. FileOK'
    BY <1>1, <2>2, <2>3 DEF Edit, Restore, serverVars, TypeInv, FileOK
  <2> QED BY <2>1, <2>4 DEF TypeInv
<1>2. CASE Discover
  <2>1. InfoOK' /\ JobOK' /\ StoreOK'
    BY <1>2, InfoKept, JobKept, StoreKept DEF Discover, serverVars, TypeInv
  <2>2. synced' \in {synced, remote.ver} /\ dbEtag' \in {dbEtag, remote.etag} /\ found' \in {found, "conflict"}
    BY <1>2 DEF Discover
  <2>3. remote.etag \in 0 .. remote.etag
    BY DEF TypeInv, FileOK
  <2>4. UNCHANGED <<file, latest, checksums, remote, nextId, faults>>
    BY <1>2 DEF Discover, serverVars
  <2>5. FileOK'
    BY <2>2, <2>3, <2>4 DEF TypeInv, FileOK
  <2> QED BY <2>1, <2>5 DEF TypeInv
<1>3. CASE ForgetUpload \/ FindNewer
  <2>1. FileOK'
    BY <1>3, FileKept DEF ForgetUpload, FindNewer
  <2>2. PICK gone : dirs' = dirs \ gone /\ chunks' = {c \in chunks : c.id \notin gone}
    BY <1>3 DEF ForgetUpload, FindNewer, StaleDeleted
  <2>3. StoreOK'
    BY <1>3, <2>2, StoreFewer DEF ForgetUpload, FindNewer, TypeInv
  <2>4. InfoOK' /\ JobOK'
    BY <1>3 DEF ForgetUpload, FindNewer, TypeInv, InfoOK, JobOK
  <2> QED BY <2>1, <2>3, <2>4 DEF TypeInv
<1>4. CASE StartUpload
  BY <1>4, StartUploadTypes
<1>5. CASE Listed
  BY <1>5, ListedTypes
<1>6. CASE ListingFails
  <2>1. job.item \in Versions /\ StartNewUpload(job)
    BY <1>6, JobSized DEF ListingFails
  <2>2. InfoOK' /\ JobOK' /\ nextId' = nextId + 1
    BY <2>1, JobSized, StartNewTypes
  <2>3. FileOK' /\ StoreOK'
    BY <1>6, <2>2, FileKept, StoreKept DEF ListingFails, serverVars, TypeInv
  <2> QED BY <2>2, <2>3 DEF TypeInv
<1>7. CASE MkColFinished
  <2>1. FileOK' /\ InfoOK'
    BY <1>7, FileKept, InfoKept DEF MkColFinished
  <2>2. job.id \in 1 .. nextId - 1
    BY <1>7, JobSized DEF MkColFinished
  <2>3. StoreOK'
    BY <1>7, <2>2 DEF MkColFinished, TypeInv, StoreOK
  <2>4. job' = [job EXCEPT !.phase = "ready"] /\ info' = info /\ job.phase = "mkcol"
    BY <1>7 DEF MkColFinished
  <2>5. job' \in Job /\ job'.next = job.next /\ job'.sent = job.sent /\ job'.item = job.item /\ job'.id = job.id
        /\ job'.phase = "ready"
    BY <2>4, JobSized DEF Job, Phases
  <2>6. JobOK'
    BY <2>4, <2>5 DEF TypeInv, JobOK
  <2> QED BY <2>1, <2>3, <2>6 DEF TypeInv
<1>8. ASSUME NEW c \in job.toDelete, Deleted(c) \/ DeleteFails(c) PROVE TypeInv'
  BY <1>8, DeleteTypes
<1>9. CASE StartNextChunk
  BY <1>9, StartNextChunkTypes
<1>10. CASE PutFinished
  BY <1>10, PutFinishedTypes
<1>11. CASE DoFinalMove
  <2>1. FileOK' /\ InfoOK' /\ StoreOK'
    BY <1>11, FileKept, InfoKept, StoreKept DEF DoFinalMove, serverVars, TypeInv
  <2>2. job' = [job EXCEPT !.phase = "moving"] /\ info' = info /\ job.phase = "ready"
    BY <1>11 DEF DoFinalMove
  <2>3. job' \in Job /\ job'.next = job.next /\ job'.sent = job.sent /\ job'.item = job.item /\ job'.id = job.id
        /\ job'.phase = "moving"
    BY <2>2, JobSized DEF Job, Phases
  <2>4. JobOK'
    BY <2>2, <2>3 DEF TypeInv, JobOK
  <2> QED BY <2>1, <2>4 DEF TypeInv
<1>12. CASE MoveFinished \/ MoveReplyLost
  BY <1>12, MoveTypes
<1>13. CASE PutFails \/ MoveRefused \/ Break
  BY <1>13, GiveUpTypes
<1>14. ASSUME NEW r \in late, LateRequest(r) PROVE TypeInv'
  <2>1. FileOK' /\ InfoOK' /\ JobOK'
    BY <1>14, FileKept, InfoKept, JobKept DEF LateRequest
  <2> DEFINE S == chunks'
  <2>2. {r} \in SUBSET Request /\ S \in {chunks, Handled({r})}
    BY <1>14 DEF LateRequest, TypeInv, StoreOK
  <2>3. /\ S \subseteq Chunk /\ IsFiniteSet(Stored(S))
        /\ \A c \in S : c.id \in dirs
        /\ \A c, d \in S : c.id = d.id /\ c.start = d.start => c = d
    <3>1. CASE S = chunks
      BY <3>1 DEF TypeInv, StoreOK
    <3>2. CASE S = Handled({r})
      BY <2>2, <3>2, HandledStore DEF TypeInv
    <3> QED BY <2>2, <3>1, <3>2
  <2>4. dirs' = dirs /\ nextId' = nextId /\ late' \subseteq late
    BY <1>14 DEF LateRequest
  <2>5. StoreOK'
    BY <2>3, <2>4 DEF TypeInv, StoreOK
  <2> QED BY <2>1, <2>5 DEF TypeInv
<1>15. CASE UNCHANGED vars
  <2>1. FileOK' /\ InfoOK' /\ JobOK' /\ StoreOK'
    BY <1>15, FileKept, InfoKept, JobKept, StoreKept DEF vars, serverVars, TypeInv
  <2> QED BY <2>1 DEF TypeInv
<1>16. CASE Downloaded \/ DownloadFails
  BY <1>16, DownloadTypes
<1> QED BY <1>1, <1>2, <1>3, <1>4, <1>5, <1>6, <1>7, <1>8, <1>9, <1>10, <1>11, <1>12, <1>13, <1>14, <1>15, <1>16 DEF Next

\* Every variable stays in its type, every chunk in a directory that is there and the only one of
\* its name, and no job uploads past the end of the version it has begun.
THEOREM Typing == Spec => []TypeInv
<1>1. Init => TypeInv /\ FoundInv
  BY InitTypes, InitFound
<1>2. TypeInv /\ FoundInv /\ [Next]_vars => (TypeInv /\ FoundInv)'
  BY NextTypes, NextFound
<1> QED BY <1>1, <1>2, PTL DEF Spec

\* The invariant of the runs.
THEOREM TypeCorrect == Spec => []TypeOK
BY Typing, TypeInvImpliesTypeOK, PTL

-----------------------------------------------------------------------------
(* One's own upload is no conflict. *)

\* The journal has the etag of the server's file, or this is the upload in the journal whose reply was
\* lost, as long as the journal has it; then no job runs before discovery has seen it.
EtagInv ==
  /\ remote.etag = dbEtag => remote.ver = synced
  /\ remote.etag # dbEtag => job.phase = "idle" /\ (info # None => info.ver = remote.ver)

LEMMA InitEtag == Init => EtagInv
BY DEF Init, EtagInv

LEMMA NextEtag == TypeInv /\ TypeInv' /\ EtagInv /\ [Next]_vars => EtagInv'
<1> SUFFICES ASSUME TypeInv, TypeInv', EtagInv, [Next]_vars PROVE EtagInv'
  OBVIOUS
<1>1. CASE UNCHANGED <<synced, dbEtag, remote, info, job>>
  BY <1>1 DEF EtagInv
\* A step of a job, or one that begins when the etags agree.
<1>2. CASE (remote.etag = dbEtag \/ job.phase # "idle") /\ UNCHANGED <<synced, dbEtag, remote>>
  BY <1>2 DEF EtagInv
<1>3. CASE Discover \/ FindNewer \/ Downloaded \/ DownloadFails
  BY <1>3 DEF Discover, FindNewer, Downloaded, DownloadFails, EtagInv, serverVars
<1>4. CASE MoveFinished
  <2>1. remote'.etag = dbEtag' /\ remote'.ver = synced'
    BY <1>4 DEF MoveFinished, ServerMoves
  <2> QED BY <1>4, <2>1 DEF MoveFinished, EtagInv
<1>5. CASE MoveReplyLost
  <2>1. remote' = [ver |-> job.item, content |-> Assembled(job.id), etag |-> remote.etag + 1]
    BY <1>5 DEF MoveReplyLost, ServerMoves
  <2>2. remote'.etag # dbEtag /\ remote'.ver = job.item
    BY <2>1 DEF TypeInv, FileOK
  <2>3. info # None /\ info.ver = job.item
    BY <1>5 DEF MoveReplyLost, TypeInv, JobOK
  <2>4. job'.phase = "idle" /\ UNCHANGED <<synced, dbEtag, info>>
    BY <1>5, IdleIsJob DEF MoveReplyLost
  <2> QED BY <2>2, <2>3, <2>4 DEF EtagInv
<1>6. CASE Edit \/ Restore \/ \E r \in late : LateRequest(r)
  BY <1>1, <1>6 DEF Edit, Restore, LateRequest, serverVars
<1>7. CASE ForgetUpload \/ StartUpload \/ Listed \/ ListingFails \/ MkColFinished
  BY <1>2, <1>7 DEF ForgetUpload, StartUpload, Listed, ListingFails, MkColFinished, serverVars
<1>8. CASE \E c \in job.toDelete : Deleted(c) \/ DeleteFails(c)
  BY <1>2, <1>8 DEF Deleted, DeleteFails, serverVars
<1>9. CASE StartNextChunk \/ PutFinished \/ PutFails \/ DoFinalMove \/ MoveRefused \/ Break
  BY <1>2, <1>9 DEF StartNextChunk, PutFinished, PutFails, DoFinalMove, MoveRefused, Break, serverVars
<1>10. CASE UNCHANGED vars
  BY <1>1, <1>10 DEF vars, serverVars
<1> QED BY <1>3, <1>4, <1>5, <1>6, <1>7, <1>8, <1>9, <1>10 DEF Next

\* An upload that was completed, but whose reply was lost, is not taken for a change that somebody
\* else has made as long as the journal has it (processFileConflict), and the journal has it until a
\* run finds the file back in the state that was synchronised before (deleteStaleUploadInfos): however
\* often the file is saved or restored and whatever else fails.
THEOREM NoConflict == Spec => OwnUploadIsNoConflict
<1> DEFINE A == checksums =>
                  /\ found' = "conflict" => found = "conflict" \/ info = None
                  /\ remote.etag # dbEtag /\ info # None /\ info' = None => file = synced
<1>1. ASSUME TypeInv, EtagInv, [Next]_vars PROVE A
  <2> SUFFICES ASSUME checksums
               PROVE  /\ found' = "conflict" => found = "conflict" \/ info = None
                      /\ remote.etag # dbEtag /\ info # None /\ info' = None => file = synced
    OBVIOUS
  <2>1. CASE UNCHANGED <<found, info>>
    BY <2>1
  \* A step of a job, or one that begins when the etags agree.
  <2>2. CASE UNCHANGED found /\ (remote.etag = dbEtag \/ job.phase # "idle")
    BY <1>1, <2>2 DEF EtagInv
  <2>3. CASE Discover
    BY <1>1, <2>3 DEF Discover, OwnUpload, EtagInv
  <2>4. CASE FindNewer \/ Downloaded \/ DownloadFails
    BY <2>4 DEF FindNewer, Downloaded, DownloadFails
  <2>5. CASE Edit \/ Restore \/ (\E r \in late : LateRequest(r)) \/ UNCHANGED vars
    BY <2>1, <2>5 DEF Edit, Restore, LateRequest, vars
  <2>6. CASE ForgetUpload \/ StartUpload
    BY <2>2, <2>6 DEF ForgetUpload, StartUpload
  <2>7. CASE Listed \/ ListingFails \/ MkColFinished \/ StartNextChunk \/ PutFinished \/ PutFails
    BY <2>2, <2>7 DEF Listed, ListingFails, MkColFinished, StartNextChunk, PutFinished, PutFails
  <2>8. CASE DoFinalMove \/ MoveRefused \/ MoveFinished \/ MoveReplyLost \/ Break
    BY <2>2, <2>8 DEF DoFinalMove, MoveRefused, MoveFinished, MoveReplyLost, Break
  <2>9. CASE \E c \in job.toDelete : Deleted(c) \/ DeleteFails(c)
    BY <2>2, <2>9 DEF Deleted, DeleteFails
  <2> QED BY <1>1, <2>3, <2>4, <2>5, <2>6, <2>7, <2>8, <2>9 DEF Next
<1>2. Init => EtagInv
  BY InitEtag
<1>3. TypeInv /\ TypeInv' /\ EtagInv /\ [Next]_vars => EtagInv'
  BY NextEtag
<1>4. TypeInv /\ EtagInv /\ [Next]_vars => A
  BY <1>1
<1> QED BY <1>2, <1>3, <1>4, Typing, PTL DEF Spec, OwnUploadIsNoConflict

-----------------------------------------------------------------------------
(* What is taken for stored is stored. *)

\* Without checksums the file only has newer and newer versions, and a chunk is read from the
\* version of its job or a newer one.
AgeInv ==
  /\ file <= latest /\ (~checksums => file = latest)
  /\ remote.ver <= latest /\ (info # None => info.ver <= latest)
  /\ job.phase # "deleting" => job.toDelete = {}
  /\ job.phase = "listing" => job.next = 0
  /\ ~checksums /\ job.phase = "putting" =>
       /\ job.item <= job.chunk.ver /\ job.chunk.ver <= file
       /\ job.chunk.ver = job.item => job.chunk.len = job.chunk.size

\* What there is for the upload in the journal, and may still arrive late, is of its version.
OfUpload(c) == c.ver = file /\ c.len >= 1 /\ c.start + c.len <= Size(file)
ChunkInv ==
  ~checksums /\ info # None /\ info.ver = file =>
    /\ \A c \in chunks : c.id = info.id => OfUpload(c)
    /\ \A r \in late : r.id = info.id /\ r.op = "PUT" => OfUpload(r)

\* With the requests of one run, a late PUT is late alone.
LateInv == LateRuns \/ \A r, q \in late : r.op = "PUT" => q = r

LEMMA IdleAge ==
    ASSUME TypeInv, AgeInv, job' = Idle, UNCHANGED <<file, latest, checksums>>,
           remote'.ver \in {remote.ver, job.item}, job.phase # "idle",
           info' # None => info'.ver = info.ver /\ info # None
    PROVE  AgeInv'
<1>1. job'.phase = "idle" /\ job'.toDelete = {}
  BY DEF Idle
<1>2. job.item <= latest
  BY DEF TypeInv, JobOK, AgeInv
<1> QED BY <1>1, <1>2 DEF AgeInv

LEMMA NewUploadAge ==
    ASSUME TypeInv, AgeInv, NEW j \in Job, StartNewUpload(j), j.item <= latest,
           UNCHANGED <<file, latest, checksums, remote>>
    PROVE  AgeInv'
<1>1. job'.phase = "mkcol" /\ job'.toDelete = {} /\ info'.ver = j.item
  BY DEF StartNewUpload, Job
<1> QED BY <1>1 DEF AgeInv

\* Without checksums the server is never behind the journal, and what it has is not the file: nothing is
\* downloaded over it.
NewerInv ==
  /\ synced <= latest
  /\ ~checksums => /\ job.phase # "idle" => synced < job.item
                   /\ remote.etag # dbEtag => synced < remote.ver
  /\ found = "newer" => checksums

LEMMA Ages ==
    ASSUME TypeInv, AgeInv
    PROVE  /\ file \in Nat /\ latest \in Nat /\ remote.ver \in Nat /\ (info # None => info.ver \in Nat)
           /\ job.item \in Nat /\ (job.phase # "idle" => job.item <= latest)
           /\ synced \in Nat
<1>1. Versions \subseteq Nat /\ \A v \in Versions \cup {0} : v \in Nat
  BY Sized
<1>2. job.phase # "idle" => job.item <= latest
  BY DEF TypeInv, JobOK, AgeInv
<1>3. file \in Versions /\ latest \in Versions /\ remote.ver \in Versions \cup {0} /\ synced \in Versions \cup {0}
  BY DEF TypeInv, FileOK
<1>4. info # None => info.ver \in Nat
  BY <1>1 DEF TypeInv, InfoOK, Upload
<1>5. job.item \in Versions \cup {0}
  BY JobSized DEF Job
<1> QED BY <1>1, <1>2, <1>3, <1>4, <1>5

LEMMA NextNewer == TypeInv /\ AgeInv /\ NewerInv /\ [Next]_vars => NewerInv'
<1> SUFFICES ASSUME TypeInv, AgeInv, NewerInv, [Next]_vars PROVE NewerInv'
  OBVIOUS
<1>0. /\ file \in Nat /\ latest \in Nat /\ remote.ver \in Nat /\ job.item \in Nat /\ synced \in Nat
      /\ file <= latest /\ remote.ver <= latest /\ (job.phase # "idle" => job.item <= latest)
      /\ ~checksums => file = latest
  BY Ages DEF AgeInv
<1>1. CASE Edit
  <2>1. latest' = latest + 1 /\ UNCHANGED <<synced, checksums, job, remote, dbEtag, found>>
    BY <1>1 DEF Edit, serverVars
  <2> QED BY <1>0, <2>1 DEF NewerInv
<1>2. CASE UNCHANGED <<synced, latest, checksums, job, remote, dbEtag, found>>
  BY <1>2 DEF NewerInv
<1>3. CASE Restore \/ ForgetUpload \/ (\E r \in late : LateRequest(r)) \/ UNCHANGED vars
  BY <1>2, <1>3 DEF Restore, ForgetUpload, LateRequest, vars, serverVars
<1>4. CASE Discover
  BY <1>0, <1>4 DEF Discover, NewerInv, serverVars
<1>5. CASE FindNewer
  <2>1. checksums
    BY <1>0, <1>5 DEF FindNewer, NewerInv
  <2> QED BY <1>5, <2>1 DEF FindNewer, NewerInv
<1>6. CASE Downloaded \/ DownloadFails
  BY <1>0, <1>6 DEF Downloaded, DownloadFails, NewerInv, serverVars
\* A step of a job, which stays with its version, or ends.
<1>7. CASE /\ UNCHANGED <<synced, latest, checksums, remote, dbEtag, found>>
           /\ job.phase # "idle" /\ (job' = Idle \/ job'.item = job.item)
  BY <1>7, IdleIsJob DEF NewerInv
<1>8. CASE StartUpload
  <2> DEFINE j == [Idle EXCEPT !.item = file, !.base = remote.etag]
  <2>1. j \in Job /\ j.item = file
    BY BegunIsJob
  <2> HIDE DEF j
  <2>2. job' = [j EXCEPT !.phase = "listing", !.id = info.id] \/ StartNewUpload(j)
    BY <1>8 DEF StartUpload, j
  <2>3. job'.item = file
    BY <2>1, <2>2 DEF StartNewUpload, Job
  <2>4. file # synced /\ UNCHANGED <<synced, latest, checksums, remote, dbEtag, found>>
    BY <1>8 DEF StartUpload
  <2>5. ~checksums => synced < file
    BY <1>0, <2>4 DEF NewerInv
  <2> QED BY <2>3, <2>4, <2>5 DEF NewerInv
<1>9. CASE Listed \/ ListingFails \/ MkColFinished \/ StartNextChunk \/ PutFinished \/ DoFinalMove
  <2>1. UNCHANGED <<synced, latest, checksums, remote, dbEtag, found>> /\ job.phase # "idle"
    BY <1>9 DEF Listed, ListingFails, MkColFinished, StartNextChunk, PutFinished, DoFinalMove, serverVars
  <2>2. job' = Idle \/ job'.item = job.item
    <3>1. CASE Listed
      BY <3>1, JobSized DEF Listed, Job
    <3>2. CASE ListingFails
      BY <3>2, JobSized DEF ListingFails, StartNewUpload, Job
    <3>3. CASE MkColFinished \/ DoFinalMove
      BY <3>3, JobSized DEF MkColFinished, DoFinalMove, Job
    <3>4. CASE StartNextChunk
      BY <3>4, JobSized DEF StartNextChunk, Job
    <3>5. CASE PutFinished
      <4>1. \/ job' = Idle
            \/ job' = [job EXCEPT !.phase = "ready", !.next = @ + job.chunk.size,
                                  !.sent = @ + job.chunk.size, !.chunk = NoChunk]
        BY <3>5 DEF PutFinished
      <4> QED BY <4>1, JobSized DEF Job
    <3> QED BY <1>9, <3>1, <3>2, <3>3, <3>4, <3>5
  <2> QED BY <1>7, <2>1, <2>2
<1>10. ASSUME NEW c \in job.toDelete, Deleted(c) \/ DeleteFails(c) PROVE NewerInv'
  <2>1. UNCHANGED <<synced, latest, checksums, remote, dbEtag, found>> /\ job.phase # "idle"
    BY <1>10 DEF Deleted, DeleteFails, serverVars
  <2>2. job'.item = job.item
    BY <1>10, JobSized DEF Deleted, DeleteFails, StartNewUpload, Job
  <2> QED BY <1>7, <2>1, <2>2
<1>11. CASE PutFails \/ MoveRefused \/ Break
  BY <1>7, <1>11 DEF PutFails, MoveRefused, Break, GiveUp
<1>12. CASE MoveFinished
  <2>1. synced' = job.item /\ dbEtag' = remote'.etag /\ job.phase # "idle" /\ job' = Idle /\ UNCHANGED <<latest, checksums, found>>
    BY <1>12 DEF MoveFinished
  <2> QED BY <1>0, <2>1, IdleIsJob DEF NewerInv
<1>13. CASE MoveReplyLost
  <2>1. remote'.ver = job.item /\ job.phase # "idle" /\ job' = Idle /\ UNCHANGED <<synced, latest, checksums, found>>
    BY <1>13 DEF MoveReplyLost, ServerMoves
  <2> QED BY <2>1, IdleIsJob DEF NewerInv
<1> QED BY <1>1, <1>3, <1>4, <1>5, <1>6, <1>8, <1>9, <1>10, <1>11, <1>12, <1>13 DEF Next

LEMMA NextAge == TypeInv /\ AgeInv /\ NewerInv /\ [Next]_vars => AgeInv'
<1> SUFFICES ASSUME TypeInv, AgeInv, NewerInv, [Next]_vars PROVE AgeInv'
  OBVIOUS
<1>0. /\ file \in Nat /\ latest \in Nat /\ remote.ver \in Nat /\ (info # None => info.ver \in Nat)
      /\ job.item \in Nat /\ (job.phase # "idle" => job.item <= latest)
  BY Ages
<1>1. CASE Edit
  <2>1. latest' = latest + 1 /\ file' = latest + 1 /\ UNCHANGED <<checksums, remote, info, job>>
    BY <1>1 DEF Edit, serverVars
  <2>2. job.phase = "putting" /\ ~checksums => job.chunk.ver <= file'
    <3>1. job.phase = "putting" => job.chunk.ver \in Nat
      BY Sized DEF TypeInv, JobOK
    <3> QED BY <3>1, <2>1, <1>0 DEF AgeInv
  <2> QED BY <2>1, <2>2, <1>0 DEF AgeInv
<1>2. CASE Restore
  <2>1. checksums /\ file' \in 1 .. latest /\ UNCHANGED <<checksums, latest, remote, info, job>>
    BY <1>2 DEF Restore, serverVars
  <2> QED BY <2>1, <1>0 DEF AgeInv
<1>3. CASE UNCHANGED <<file, latest, checksums, remote, info, job>>
  BY <1>3 DEF AgeInv
<1>4. CASE ForgetUpload \/ FindNewer
  BY <1>4 DEF ForgetUpload, FindNewer, AgeInv
<1>5. CASE StartUpload
  <2> DEFINE j == [Idle EXCEPT !.item = file, !.base = remote.etag]
  <2>1. j \in Job /\ j.item = file /\ j.next = 0 /\ j.toDelete = {}
    BY BegunIsJob DEF Idle
  <2> HIDE DEF j
  <2>2. CASE job' = [j EXCEPT !.phase = "listing", !.id = info.id] /\ UNCHANGED info
    <3>1. job'.phase = "listing" /\ job'.next = 0 /\ job'.toDelete = {}
      BY <2>1, <2>2 DEF Job
    <3> QED BY <1>5, <2>2, <3>1 DEF StartUpload, AgeInv
  <2>3. CASE StartNewUpload(j)
    <3>1. j.item <= latest
      BY <2>1 DEF AgeInv
    <3> QED BY <1>5, <2>1, <2>3, <3>1, NewUploadAge DEF StartUpload
  <2> QED BY <1>5, <2>2, <2>3 DEF StartUpload, j
<1>6. CASE Listed
  <2>1. PICK n, rest : /\ job' = [job EXCEPT !.next = n, !.sent = n, !.toDelete = rest,
                                    !.phase = IF rest = {} THEN "ready" ELSE "deleting"]
    BY <1>6 DEF Listed
  <2>2. job'.toDelete = rest /\ job'.phase = IF rest = {} THEN "ready" ELSE "deleting"
    BY <2>1, JobSized DEF Job
  <2> QED BY <1>6, <2>2 DEF Listed, AgeInv, serverVars
<1>7. CASE ListingFails
  BY <1>0, <1>7, JobSized, NewUploadAge DEF ListingFails, serverVars
<1>8. ASSUME NEW c \in job.toDelete, Deleted(c) \/ DeleteFails(c) PROVE AgeInv'
  <2>1. CASE StartNewUpload(job)
    BY <1>0, <1>8, <2>1, JobSized, NewUploadAge DEF Deleted, DeleteFails, serverVars
  <2>2. CASE /\ UNCHANGED info
             /\ \/ job' = [job EXCEPT !.toDelete = @ \ {c}]
                \/ job' = [job EXCEPT !.toDelete = @ \ {c}, !.removeError = TRUE]
                \/ job' = [job EXCEPT !.toDelete = {}, !.phase = "ready"]
    <3>1. job.phase = "deleting" /\ UNCHANGED <<file, latest, checksums, remote>>
      BY <1>8 DEF Deleted, DeleteFails, serverVars
    <3>2. job'.phase = "deleting" \/ (job'.phase = "ready" /\ job'.toDelete = {})
      BY <2>2, <3>1, JobSized DEF Job
    <3> QED BY <2>2, <3>1, <3>2 DEF AgeInv
  <2> QED BY <1>8, <2>1, <2>2 DEF Deleted, DeleteFails
<1>9. CASE MkColFinished \/ DoFinalMove
  <2>1. \/ job' = [job EXCEPT !.phase = "ready"] /\ job.phase = "mkcol"
        \/ job' = [job EXCEPT !.phase = "moving"] /\ job.phase = "ready"
    BY <1>9 DEF MkColFinished, DoFinalMove
  <2>2. job'.toDelete = job.toDelete /\ job'.phase \in {"ready", "moving"}
    BY <2>1, JobSized DEF Job
  <2> QED BY <1>9, <2>1, <2>2 DEF MkColFinished, DoFinalMove, AgeInv, serverVars
<1>10. CASE StartNextChunk
  <2>1. PICK s \in ChunkSizes :
          job' = [job EXCEPT !.phase = "putting",
                    !.chunk = [start |-> job.next, size |-> ChunkSize(s), ver |-> file,
                               len |-> Max({0, Min({ChunkSize(s), Size(file) - job.next})})]]
    BY <1>10 DEF StartNextChunk
  <2>2. s \in Nat \ {0}
    BY UploadAssumption
  <2> DEFINE z == ChunkSize(s)
  <2>3. job.phase = "ready" /\ job.next < Size(job.item)
    BY <1>10 DEF StartNextChunk
  <2>4. z \in Nat \ {0} /\ z <= Size(job.item) - job.next
    BY <2>2, <2>3, JobSized, MinOfTwo DEF ChunkSize
  <2> HIDE DEF z
  <2>5. file = job.item => Max({0, Min({z, Size(file) - job.next})}) = z
    <3> SUFFICES ASSUME file = job.item PROVE Max({0, Min({z, Size(file) - job.next})}) = z
      OBVIOUS
    <3>1. Min({z, Size(file) - job.next}) = z
      BY <2>4, JobSized, MinOfTwo
    <3> QED BY <2>4, <3>1, MaxOfTwo
  <2>6. /\ job'.phase = "putting" /\ job'.item = job.item /\ job'.toDelete = job.toDelete
        /\ job'.chunk.ver = file /\ job'.chunk.size = z /\ (file = job.item => job'.chunk.len = z)
    BY <2>1, <2>5, JobSized DEF Job, z
  <2>7. UNCHANGED <<file, latest, checksums, remote, info>>
    BY <1>10 DEF StartNextChunk, serverVars
  <2>8. ~checksums => job.item <= file
    BY <1>0, <2>3 DEF AgeInv
  <2> QED BY <1>0, <2>3, <2>6, <2>7, <2>8 DEF AgeInv
<1>11. CASE PutFinished
  <2>1. info # None /\ job.phase = "putting" /\ info' \in {info, [info EXCEPT !.errors = 0]}
    BY <1>11 DEF PutFinished, TypeInv, JobOK
  <2>2. info'.ver = info.ver
    BY <2>1 DEF TypeInv, InfoOK, Upload
  <2>3. \/ job' = Idle
        \/ job' = [job EXCEPT !.phase = "ready", !.next = @ + job.chunk.size,
                              !.sent = @ + job.chunk.size, !.chunk = NoChunk]
    BY <1>11 DEF PutFinished
  <2>4. job'.phase \in {"idle", "ready"} /\ job'.toDelete = {}
    <3>1. job.toDelete = {} /\ job \in Job
      BY <2>1, JobSized DEF AgeInv
    <3>2. CASE job' = Idle
      BY <3>2 DEF Idle
    <3>3. CASE job' # Idle
      BY <2>3, <3>1, <3>3 DEF Job
    <3> QED BY <3>2, <3>3
  <2> QED BY <1>11, <2>1, <2>2, <2>4 DEF PutFinished, AgeInv
<1>12. CASE PutFails \/ MoveRefused \/ Break
  <2>1. info' # None => info'.ver = info.ver /\ info # None
    <3>1. info' = info \/ info' = None \/ (info # None /\ info' = [info EXCEPT !.errors = @ + 1])
      BY <1>12 DEF PutFails, MoveRefused, Break, AfterError
    <3> QED BY <3>1 DEF TypeInv, InfoOK, Upload
  <2> QED BY <1>12, <2>1, IdleAge DEF PutFails, MoveRefused, Break, GiveUp
<1>13. CASE MoveFinished \/ MoveReplyLost
  <2>1. remote'.ver = job.item /\ job.phase = "moving" /\ info' \in {info, None}
    BY <1>13 DEF MoveFinished, MoveReplyLost, ServerMoves
  <2> QED BY <1>13, <2>1, IdleAge DEF MoveFinished, MoveReplyLost
<1>14. CASE Discover \/ DownloadFails \/ \E r \in late : LateRequest(r)
  BY <1>3, <1>14 DEF Discover, DownloadFails, LateRequest, serverVars
<1>15. CASE UNCHANGED vars
  BY <1>3, <1>15 DEF vars, serverVars
<1>16. CASE Downloaded
  <2>1. checksums /\ file' = remote.ver /\ UNCHANGED <<checksums, latest, remote, info, job>>
    BY <1>16 DEF Downloaded, NewerInv, serverVars
  <2> QED BY <2>1 DEF AgeInv
<1> QED BY <1>1, <1>2, <1>4, <1>5, <1>6, <1>7, <1>8, <1>9, <1>10, <1>11, <1>12, <1>13, <1>14, <1>15, <1>16 DEF Next

LEMMA HandledFrom ==
    ASSUME NEW R, NEW c \in Handled(R)
    PROVE  c \in chunks \/ \E r \in R : /\ r.op = "PUT" /\ c.id = r.id /\ c.start = r.start
                                       /\ c.len = r.len /\ c.ver = r.ver
BY DEF Handled, Written

\* What a job waits for is of its version, as long as this is the file.
LEMMA OutstandingOfUpload ==
    ASSUME TypeInv, AgeInv, ~checksums, job.phase = "putting", job.item = file
    PROVE  /\ job.chunk.ver = file /\ job.chunk.len = job.chunk.size /\ job.chunk.start = job.next
           /\ job.chunk.len \in Nat \ {0} /\ job.next + job.chunk.len <= Size(file)
<1>1. job.chunk.ver \in Nat /\ file \in Nat
  BY Sized DEF TypeInv, FileOK, JobOK
<1>2. job.chunk.ver = job.item /\ job.chunk.len = job.chunk.size
  BY <1>1 DEF AgeInv
<1>3. job.chunk.size \in 1 .. Size(job.item) - job.next /\ job.chunk.start = job.next
  BY DEF TypeInv, JobOK
<1>4. job.chunk.size \in Nat \ {0} /\ job.next + job.chunk.size <= Size(job.item)
  BY <1>3, JobSized
<1> QED BY <1>2, <1>3, <1>4

LEMMA OutstandingPut ==
    ASSUME NEW r \in Outstanding, r.op = "PUT"
    PROVE  /\ job.phase = "putting" /\ Outstanding = {r} /\ r.id = job.id
           /\ r.start = job.chunk.start /\ r.len = job.chunk.len /\ r.ver = job.chunk.ver
<1>1. CASE job.phase = "putting"
  BY <1>1 DEF Outstanding, PutRequest
<1>2. CASE job.phase = "deleting"
  BY <1>2 DEF Outstanding, DeleteRequest
<1>3. CASE job.phase # "putting" /\ job.phase # "deleting"
  BY <1>3 DEF Outstanding
<1> QED BY <1>1, <1>2, <1>3

LEMMA SameUploadChunks ==
    ASSUME ChunkInv, UNCHANGED <<file, checksums>>,
           info' # None => info # None /\ info'.id = info.id /\ info'.ver = info.ver,
           ~checksums /\ info # None /\ info.ver = file =>
             /\ \A c \in chunks' : c \in chunks \/ (c.id = info.id => OfUpload(c))
             /\ \A r \in late' : r \in late \/ (r.id = info.id /\ r.op = "PUT" => OfUpload(r))
    PROVE  ChunkInv'
<1> SUFFICES ASSUME ~checksums', info' # None, info'.ver = file'
             PROVE  /\ \A c \in chunks' : c.id = info'.id => OfUpload(c)'
                    /\ \A r \in late' : r.id = info'.id /\ r.op = "PUT" => OfUpload(r)'
  BY DEF ChunkInv, OfUpload
<1>1. ~checksums /\ info # None /\ info.ver = file /\ info'.id = info.id
  OBVIOUS
<1>2. /\ \A c \in chunks' : c.id = info.id => OfUpload(c)
      /\ \A r \in late' : r.id = info.id /\ r.op = "PUT" => OfUpload(r)
  BY <1>1 DEF ChunkInv
<1> QED BY <1>1, <1>2 DEF OfUpload

LEMMA NewUploadChunks ==
    ASSUME TypeInv, info'.id = nextId, chunks' \subseteq chunks, late' \subseteq late
    PROVE  ChunkInv' /\ (\A c \in chunks' : c.id # nextId) /\ (\A r \in late' : r.id # nextId)
<1>1. nextId \in Nat /\ nextId \notin 1 .. nextId - 1
  BY DEF TypeInv, FileOK
<1>2. (\A c \in chunks' : c.id # nextId) /\ (\A r \in late' : r.id # nextId)
  BY <1>1 DEF TypeInv, StoreOK
<1> QED BY <1>2 DEF ChunkInv

LEMMA NextChunks == TypeInv /\ AgeInv /\ NewerInv /\ ChunkInv /\ [Next]_vars => ChunkInv'
<1> SUFFICES ASSUME TypeInv, AgeInv, NewerInv, ChunkInv, [Next]_vars PROVE ChunkInv'
  OBVIOUS
<1>1. CASE Edit
  <2>1. file' = latest + 1 /\ UNCHANGED info /\ latest \in Nat
    BY <1>1, Sized DEF Edit, TypeInv, FileOK
  <2>2. info # None => info.ver \in Nat /\ info.ver <= latest
    BY Sized DEF TypeInv, InfoOK, Upload, AgeInv
  <2> QED BY <2>1, <2>2 DEF ChunkInv
<1>2. CASE Restore
  BY <1>2 DEF Restore, ChunkInv, serverVars
<1>3. CASE UNCHANGED <<file, checksums, info, chunks, late>>
  BY <1>3, SameUploadChunks
<1>4. CASE ForgetUpload \/ FindNewer
  BY <1>4 DEF ForgetUpload, FindNewer, ChunkInv
<1>5. CASE StartUpload
  <2>1. CASE UNCHANGED <<info, chunks>>
    BY <1>3, <1>5, <2>1 DEF StartUpload
  <2>2. CASE info'.id = nextId /\ chunks' \subseteq chunks
    BY <1>5, <2>2, NewUploadChunks DEF StartUpload
  <2> QED BY <1>5, <2>1, <2>2 DEF StartUpload, StartNewUpload, StaleDeleted
<1>6. CASE ListingFails
  <2>1. info'.id = nextId /\ chunks' \subseteq chunks /\ late' \subseteq late
    BY <1>6 DEF ListingFails, StartNewUpload, serverVars
  <2> QED BY <2>1, NewUploadChunks
<1>7. ASSUME NEW c \in job.toDelete, Deleted(c) \/ DeleteFails(c) PROVE ChunkInv'
  <2>1. chunks' \subseteq chunks /\ UNCHANGED <<file, checksums, late>>
    BY <1>7 DEF Deleted, DeleteFails, serverVars, Handled, Written, DeleteRequest
  <2>2. CASE UNCHANGED info
    BY <2>1, <2>2, SameUploadChunks
  <2>3. CASE info'.id = nextId
    BY <2>1, <2>3, NewUploadChunks
  <2> QED BY <1>7, <2>2, <2>3 DEF Deleted, DeleteFails, StartNewUpload
<1>8. CASE PutFinished
  <2>1. info # None /\ info.ver = job.item /\ job.phase = "putting" /\ info' \in {info, [info EXCEPT !.errors = 0]}
    BY <1>8 DEF PutFinished, TypeInv, JobOK
  <2>2. info'.ver = info.ver /\ info'.id = info.id
    BY <2>1 DEF TypeInv, InfoOK, Upload
  <2>3. PICK ver \in {job.chunk.ver, file} :
          chunks' = Handled({PutRequest(job.id, job.chunk.start, job.chunk.len, ver)})
    BY <1>8 DEF PutFinished
  <2>4. ASSUME ~checksums, info.ver = file, NEW c \in chunks' PROVE c \in chunks \/ OfUpload(c)
    <3>1. c \in chunks \/ (c.start = job.chunk.start /\ c.len = job.chunk.len /\ c.ver = ver)
      BY <2>3, HandledFrom DEF PutRequest
    <3> QED BY <3>1, <2>1, <2>4, OutstandingOfUpload DEF OfUpload
  <2>5. UNCHANGED <<file, checksums, late>>
    BY <1>8 DEF PutFinished
  <2> QED BY <2>1, <2>2, <2>4, <2>5, SameUploadChunks
<1>9. CASE PutFails \/ MoveRefused \/ Break
  <2>1. info' # None => info # None /\ info'.id = info.id /\ info'.ver = info.ver
    <3>1. info' = info \/ info' = None \/ (info # None /\ info' = [info EXCEPT !.errors = @ + 1])
      BY <1>9 DEF PutFails, MoveRefused, Break, AfterError
    <3> QED BY <3>1 DEF TypeInv, InfoOK, Upload
  <2>2. GiveUp /\ UNCHANGED <<file, checksums>> /\ job.phase # "idle"
    BY <1>9 DEF PutFails, MoveRefused, Break
  <2>3. info.ver = job.item
    BY <2>2 DEF TypeInv, JobOK
  <2>4. ASSUME ~checksums, info.ver = file, NEW r \in Outstanding, r.op = "PUT" PROVE OfUpload(r)
    BY <2>3, <2>4, OutstandingPut, OutstandingOfUpload DEF OfUpload
  <2>5. ASSUME ~checksums, info.ver = file
        PROVE  /\ \A c \in chunks' : c \in chunks \/ (c.id = info.id => OfUpload(c))
               /\ \A r \in late' : r \in late \/ (r.id = info.id /\ r.op = "PUT" => OfUpload(r))
    <3>1. CASE late' = late \cup Outstanding /\ UNCHANGED chunks
      BY <2>4, <2>5, <3>1
    <3>2. CASE UNCHANGED late /\ \E R \in SUBSET Outstanding : chunks' = Handled(R)
      <4>1. PICK R \in SUBSET Outstanding : chunks' = Handled(R)
        BY <3>2
      <4>2. ASSUME NEW c \in chunks', c \notin chunks PROVE OfUpload(c)
        <5>1. PICK r \in R : r.op = "PUT" /\ c.start = r.start /\ c.len = r.len /\ c.ver = r.ver
          BY <4>1, <4>2, HandledFrom
        <5>2. OfUpload(r)
          BY <2>4, <2>5, <5>1
        <5> QED BY <5>1, <5>2 DEF OfUpload
      <4> QED BY <3>2, <4>2
    <3> QED BY <2>2, <3>1, <3>2 DEF GiveUp
  <2> QED BY <2>1, <2>2, <2>5, SameUploadChunks
<1>10. CASE MoveFinished \/ MoveReplyLost
  <2>1. info' \in {info, None} /\ chunks' \subseteq chunks /\ UNCHANGED <<file, checksums, late>>
    BY <1>10 DEF MoveFinished, MoveReplyLost, ServerMoves
  <2> QED BY <2>1, SameUploadChunks
<1>11. ASSUME NEW r \in late, LateRequest(r) PROVE ChunkInv'
  <2>1. UNCHANGED <<file, checksums, info>> /\ late' \subseteq late
    BY <1>11 DEF LateRequest
  <2>2. ASSUME ~checksums, info # None, info.ver = file, NEW c \in chunks', c.id = info.id
        PROVE  c \in chunks \/ OfUpload(c)
    <3>1. c \in chunks \/ (r.op = "PUT" /\ c.id = r.id /\ c.start = r.start /\ c.len = r.len /\ c.ver = r.ver)
      BY <1>11, HandledFrom DEF LateRequest
    <3> QED BY <3>1, <2>2 DEF ChunkInv, OfUpload
  <2> QED BY <2>1, <2>2, SameUploadChunks
<1>12. CASE Discover \/ DownloadFails \/ Listed \/ MkColFinished \/ StartNextChunk \/ DoFinalMove
  BY <1>3, <1>12 DEF Discover, DownloadFails, Listed, MkColFinished, StartNextChunk, DoFinalMove, serverVars
<1>13. CASE UNCHANGED vars
  BY <1>3, <1>13 DEF vars, serverVars
<1>14. CASE Downloaded
  BY <1>14 DEF Downloaded, NewerInv, ChunkInv, serverVars
<1> QED BY <1>1, <1>2, <1>4, <1>5, <1>6, <1>7, <1>8, <1>9, <1>10, <1>11, <1>12, <1>13, <1>14 DEF Next

LEMMA NextLate == LateInv /\ [Next]_vars => LateInv'
<1> SUFFICES ASSUME LateInv, [Next]_vars PROVE LateInv'
  OBVIOUS
<1>1. CASE late' \subseteq late
  BY <1>1 DEF LateInv
<1>2. CASE GiveUp
  <2>1. CASE late = {} /\ late' = late \cup Outstanding
    BY <2>1, OutstandingPut DEF LateInv
  <2> QED BY <1>1, <1>2, <2>1 DEF GiveUp, LateInv
<1>3. CASE \E r \in late : LateRequest(r)
  BY <1>1, <1>3 DEF LateRequest
<1>4. CASE PutFails \/ MoveRefused \/ Break
  BY <1>2, <1>4 DEF PutFails, MoveRefused, Break
<1>5. CASE Edit \/ Restore \/ Discover \/ ForgetUpload \/ StartUpload \/ Listed \/ ListingFails \/ MkColFinished
  BY <1>1, <1>5 DEF Edit, Restore, Discover, ForgetUpload, StartUpload, Listed, ListingFails, MkColFinished, serverVars
<1>6. CASE \E c \in job.toDelete : Deleted(c) \/ DeleteFails(c)
  BY <1>1, <1>6 DEF Deleted, DeleteFails, serverVars
<1>7. CASE StartNextChunk \/ PutFinished \/ DoFinalMove \/ MoveFinished \/ MoveReplyLost \/ UNCHANGED vars
  BY <1>1, <1>7 DEF StartNextChunk, PutFinished, DoFinalMove, MoveFinished, MoveReplyLost, vars, serverVars
<1>8. CASE FindNewer \/ Downloaded \/ DownloadFails
  BY <1>1, <1>8 DEF FindNewer, Downloaded, DownloadFails, serverVars
<1> QED BY <1>3, <1>4, <1>5, <1>6, <1>7, <1>8 DEF Next

\* The directory of the job is there from the MKCOL to the MOVE, which comes when nothing is left to
\* upload.
StageInv ==
  /\ job.phase \in {"deleting", "ready", "putting", "moving"} => job.id \in dirs
  /\ job.phase = "moving" => job.next = Size(job.item)

LEMMA NextStage == TypeInv /\ StageInv /\ [Next]_vars => StageInv'
<1> SUFFICES ASSUME TypeInv, StageInv, [Next]_vars PROVE StageInv'
  OBVIOUS
<1>1. CASE UNCHANGED <<job, dirs>>
  BY <1>1 DEF StageInv
<1>2. CASE job'.phase \in {"idle", "listing", "mkcol"}
  BY <1>2 DEF StageInv
<1>3. CASE /\ job.phase \in {"deleting", "ready", "putting"} /\ dirs' = dirs /\ job'.id = job.id
           /\ job'.phase # "moving"
  BY <1>3 DEF StageInv
<1>4. CASE job' = Idle
  BY <1>2, <1>4 DEF Idle
<1>5. ASSUME NEW j \in Job, StartNewUpload(j) PROVE StageInv'
  <2>1. job'.phase = "mkcol"
    BY <1>5 DEF StartNewUpload, Job
  <2> QED BY <1>2, <2>1
<1>6. CASE StartUpload
  <2> DEFINE j == [Idle EXCEPT !.item = file, !.base = remote.etag]
  <2>1. j \in Job
    BY BegunIsJob
  <2> HIDE DEF j
  <2>2. CASE job' = [j EXCEPT !.phase = "listing", !.id = info.id]
    <3>1. job'.phase = "listing"
      BY <2>1, <2>2 DEF Job
    <3> QED BY <1>2, <3>1
  <2> QED BY <1>5, <1>6, <2>1, <2>2 DEF StartUpload, j
<1>7. CASE Listed
  <2>1. PICK n, rest : /\ job' = [job EXCEPT !.next = n, !.sent = n, !.toDelete = rest,
                                    !.phase = IF rest = {} THEN "ready" ELSE "deleting"]
    BY <1>7 DEF Listed
  <2>2. job'.id = job.id /\ job'.phase \in {"ready", "deleting"} /\ job.id \in dirs /\ dirs' = dirs
    BY <1>7, <2>1, JobSized DEF Job, Listed, serverVars
  <2> QED BY <2>2 DEF StageInv
<1>8. ASSUME NEW c \in job.toDelete, Deleted(c) \/ DeleteFails(c) PROVE StageInv'
  <2>1. CASE StartNewUpload(job)
    BY <1>5, <2>1, JobSized
  <2>2. CASE \/ job' = [job EXCEPT !.toDelete = @ \ {c}]
             \/ job' = [job EXCEPT !.toDelete = @ \ {c}, !.removeError = TRUE]
             \/ job' = [job EXCEPT !.toDelete = {}, !.phase = "ready"]
    <3>1. job.phase = "deleting" /\ dirs' = dirs
      BY <1>8 DEF Deleted, DeleteFails, serverVars
    <3>2. job'.id = job.id /\ job'.phase # "moving"
      BY <2>2, <3>1, JobSized DEF Job
    <3> QED BY <1>3, <3>1, <3>2
  <2> QED BY <1>8, <2>1, <2>2 DEF Deleted, DeleteFails
<1>9. CASE MkColFinished
  <2>1. job'.id = job.id /\ job'.phase = "ready" /\ job.id \in dirs'
    BY <1>9, JobSized DEF MkColFinished, Job
  <2> QED BY <2>1 DEF StageInv
<1>10. CASE StartNextChunk
  <2>1. PICK chunk : job' = [job EXCEPT !.phase = "putting", !.chunk = chunk]
    BY <1>10 DEF StartNextChunk
  <2>2. job'.id = job.id /\ job'.phase = "putting" /\ job.phase = "ready" /\ dirs' = dirs
    BY <1>10, <2>1, JobSized DEF StartNextChunk, Job, serverVars
  <2> QED BY <1>3, <2>2
<1>11. CASE PutFinished
  <2>1. CASE job' = [job EXCEPT !.phase = "ready", !.next = @ + job.chunk.size,
                                !.sent = @ + job.chunk.size, !.chunk = NoChunk]
    <3>1. job'.id = job.id /\ job'.phase = "ready" /\ job.phase = "putting" /\ dirs' = dirs
      BY <1>11, <2>1, JobSized DEF PutFinished, Job
    <3> QED BY <1>3, <3>1
  <2> QED BY <1>4, <1>11, <2>1 DEF PutFinished
<1>12. CASE DoFinalMove
  <2>1. job'.id = job.id /\ job'.next = job.next /\ job'.item = job.item
        /\ job.next = Size(job.item) /\ job.phase = "ready" /\ dirs' = dirs
    BY <1>12, JobSized DEF DoFinalMove, Job, serverVars
  <2> QED BY <2>1 DEF StageInv
<1>13. CASE PutFails \/ MoveRefused \/ Break \/ MoveFinished \/ MoveReplyLost
  BY <1>4, <1>13 DEF PutFails, MoveRefused, Break, GiveUp, MoveFinished, MoveReplyLost
<1>14. CASE ListingFails
  BY <1>5, <1>14, JobSized DEF ListingFails
<1>15. CASE ForgetUpload \/ FindNewer
  <2>1. job'.phase = "idle"
    BY <1>15 DEF ForgetUpload, FindNewer
  <2> QED BY <1>2, <2>1
<1>16. CASE \/ Edit \/ Restore \/ Discover \/ Downloaded \/ DownloadFails
            \/ (\E r \in late : LateRequest(r)) \/ UNCHANGED vars
  BY <1>1, <1>16 DEF Edit, Restore, Discover, Downloaded, DownloadFails, LateRequest, vars, serverVars
<1> QED BY <1>6, <1>7, <1>8, <1>9, <1>10, <1>11, <1>12, <1>13, <1>14, <1>15, <1>16 DEF Next

-----------------------------------------------------------------------------
(* The bytes of a job are those of its version, up to where it is. *)

\* What the job does not delete, in its directory.
Kept == {c \in chunks : c.id = job.id /\ c.start \notin job.toDelete}

\* They are what should be there, or a late request has taken from it, or added to it; which of the
\* two it is can no longer change, for the requests that are late are of one kind.
Near(B) ==
  \/ Stored(Kept) = B
  \/ Stored(Kept) \subseteq B /\ \A r \in late : r.id = job.id => r.op # "PUT"
  \/ B \subseteq Stored(Kept) /\ \A r \in late : r.id # job.id

\* A job at work on the file as it is, which will not start over.
AtWork ==
  /\ job.item = file /\ job.phase \in {"deleting", "mkcol", "ready", "putting", "moving"}
  /\ job.phase = "deleting" => ~job.removeError
OfFile(B) == \A b \in B : b.ver = file
RowInv ==
  ~checksums /\ ~LateRuns /\ AtWork =>
    \E B \in SUBSET Byte : InPlace(B, job.next) /\ OfFile(B) /\ Near(B)

LEMMA SameRow ==
    ASSUME RowInv, UNCHANGED <<file, checksums>>, AtWork' => AtWork /\ job'.id = job.id /\ job'.next = job.next,
           AtWork' => Kept' = Kept, late' \subseteq late
    PROVE  RowInv'
<1> SUFFICES ASSUME ~checksums, ~LateRuns, AtWork'
             PROVE  \E B \in SUBSET Byte : InPlace(B, job'.next) /\ OfFile(B)' /\ Near(B)'
  BY DEF RowInv
<1>1. PICK B \in SUBSET Byte : InPlace(B, job.next) /\ OfFile(B) /\ Near(B)
  BY DEF RowInv
<1>2. OfFile(B)' /\ Near(B)'
  BY <1>1 DEF OfFile, Near
<1> QED BY <1>1, <1>2

\* A new upload directory is empty, and the range before what is left to upload is missing from it.
LEMMA NewRow ==
    ASSUME TypeInv, NEW j \in Job, StartNewUpload(j), UNCHANGED file,
           chunks' \subseteq chunks, late' \subseteq late
    PROVE  RowInv'
<1> SUFFICES ASSUME AtWork'
             PROVE  \E B \in SUBSET Byte : InPlace(B, job'.next) /\ OfFile(B)' /\ Near(B)'
  BY DEF RowInv
<1>1. job'.id = nextId /\ job'.next = j.next /\ j.next \in Nat
  BY DEF StartNewUpload, Job
<1>2. (\A c \in chunks' : c.id # nextId) /\ (\A r \in late' : r.id # nextId)
  <2>1. info'.id = nextId
    BY DEF StartNewUpload
  <2> QED BY <2>1, NewUploadChunks
<1>3. Stored(Kept)' = {}
  BY <1>1, <1>2 DEF Kept, Stored
<1> DEFINE c == [id |-> 0, start |-> 0, len |-> j.next, ver |-> file]
           B == {} \cup BytesOf(c)
<1>4. c \in Chunk /\ c.start = 0 /\ c.len = j.next
  BY <1>1 DEF Chunk, TypeInv, FileOK
<1>5. B \in SUBSET Byte
  <2>1. {c} \in SUBSET Chunk /\ Stored({c}) = B
    BY <1>4 DEF Stored
  <2> QED BY <2>1, ByteTyped
<1>6. InPlace(B, 0 + j.next)
  <2> HIDE DEF c
  <2>1. {} \in SUBSET Byte /\ 0 \in Nat
    OBVIOUS
  <2> QED BY <1>4, <2>1, NothingInPlace, InPlaceExtended
<1>7. OfFile(B)'
  BY DEF OfFile, BytesOf
<1>8. Near(B)'
  BY <1>1, <1>2, <1>3 DEF Near
<1> QED BY <1>1, <1>5, <1>6, <1>7, <1>8

LEMMA NoRow == job'.phase \in {"idle", "listing"} => RowInv'
BY DEF RowInv, AtWork

LEMMA OfFileStored ==
    ASSUME TypeInv, ChunkInv, ~checksums, job.phase # "idle", job.item = file
    PROVE  /\ \A c \in ChunksOf(job.id) : OfUpload(c) /\ c \in Chunk
           /\ \A K \in SUBSET ChunksOf(job.id) : Stored(K) \in SUBSET Byte /\ OfFile(Stored(K))
<1>1. \A c \in ChunksOf(job.id) : OfUpload(c) /\ c \in Chunk
  BY DEF ChunkInv, TypeInv, JobOK, StoreOK, ChunksOf
<1>2. ASSUME NEW K \in SUBSET ChunksOf(job.id) PROVE Stored(K) \in SUBSET Byte /\ OfFile(Stored(K))
  <2>1. K \in SUBSET Chunk
    BY <1>1
  <2>2. \A c \in K : \A b \in BytesOf(c) : b.ver = file
    BY <1>1 DEF OfUpload, BytesOf
  <2> QED BY <2>1, <2>2, ByteTyped DEF OfFile, Stored
<1> QED BY <1>1, <1>2

LEMMA ListedRow ==
    ASSUME TypeInv, ChunkInv, Listed PROVE RowInv'
<1> SUFFICES ASSUME ~checksums, AtWork'
             PROVE  \E B \in SUBSET Byte : InPlace(B, job'.next) /\ OfFile(B)' /\ Near(B)'
  BY DEF RowInv, Listed, serverVars
<1>1. PICK K \in SUBSET ChunksOf(job.id), n \in 0 .. Size(job.item) :
        LET rest == {c.start : c \in ChunksOf(job.id) \ K}
        IN /\ Reuses(ChunksOf(job.id), Size(job.item), K, n)
           /\ job' = [job EXCEPT !.next = n, !.sent = n, !.toDelete = rest,
                                 !.phase = IF rest = {} THEN "ready" ELSE "deleting"]
  BY DEF Listed
<1> DEFINE rest == {c.start : c \in ChunksOf(job.id) \ K}
<1>2. n \in Nat /\ IsRow(K, n)
  BY <1>1, JobSized DEF Reuses
<1>3. job'.next = n /\ job'.toDelete = rest /\ job'.item = job.item /\ job'.id = job.id
  BY <1>1, JobSized DEF Job
<1>4. job.phase # "idle" /\ job.item = file /\ UNCHANGED <<file, chunks, late>>
  BY <1>3 DEF Listed, AtWork, serverVars
<1>5. K \in SUBSET Chunk /\ Stored(K) \in SUBSET Byte /\ OfFile(Stored(K))
  BY <1>4, OfFileStored
<1>6. \A c, d \in ChunksOf(job.id) : c.start = d.start => c = d
  BY DEF ChunksOf, TypeInv, StoreOK
<1>7. Kept' = K
  BY <1>3, <1>4, <1>6 DEF Kept, ChunksOf
<1>8. InPlace(Stored(K), n)
  BY <1>2, <1>5, RowInPlace
<1>9. Near(Stored(K))' /\ OfFile(Stored(K))'
  BY <1>4, <1>5, <1>7 DEF Near, OfFile
<1> QED BY <1>3, <1>5, <1>8, <1>9

LEMMA WrittenOne ==
    ASSUME NEW r, r.op = "PUT", r.id \in dirs
    PROVE  Written({r}) = {[id |-> r.id, start |-> r.start, len |-> r.len, ver |-> r.ver]}
BY DEF Written

LEMMA StoredMonotone == \A K, L : K \subseteq L => Stored(K) \subseteq Stored(L)
BY DEF Stored

LEMMA PutFinishedRow ==
    ASSUME TypeInv, AgeInv, ChunkInv, StageInv, RowInv, PutFinished PROVE RowInv'
<1> SUFFICES ASSUME ~checksums, ~LateRuns, AtWork'
             PROVE  \E B \in SUBSET Byte : InPlace(B, job'.next) /\ OfFile(B)' /\ Near(B)'
  BY DEF RowInv, PutFinished
<1>1. /\ job.phase = "putting" /\ UNCHANGED <<file, dirs, late>>
      /\ job' = [job EXCEPT !.phase = "ready", !.next = @ + job.chunk.size,
                            !.sent = @ + job.chunk.size, !.chunk = NoChunk]
  BY DEF PutFinished, AtWork, Idle
<1>2. /\ job'.next = job.next + job.chunk.size /\ job'.id = job.id /\ job'.item = job.item
      /\ job'.toDelete = job.toDelete /\ job.toDelete = {}
  BY <1>1, JobSized DEF Job, AgeInv
<1>3. job.item = file /\ AtWork
  BY <1>1, <1>2 DEF AtWork
<1>4. /\ job.chunk.ver = file /\ job.chunk.len = job.chunk.size /\ job.chunk.start = job.next
      /\ job.chunk.len \in Nat \ {0}
  BY <1>1, <1>3, OutstandingOfUpload
<1> DEFINE n == job.next
           c == [id |-> job.id, start |-> n, len |-> job.chunk.len, ver |-> file]
           Rest == {d \in Kept : d.start # n}
<1>5. c \in Chunk /\ c.start = n /\ c.len = job.chunk.size /\ c.ver = file
  BY <1>4, JobSized DEF Chunk, Job, TypeInv, FileOK
<1>6. Kept' = Rest \cup {c}
  <2> DEFINE r == PutRequest(job.id, n, job.chunk.len, file)
  <2>1. chunks' = Handled({r})
    BY <1>4 DEF PutFinished
  <2>2. r.op = "PUT" /\ r.id = job.id /\ r.start = n /\ r.len = job.chunk.len /\ r.ver = file
    BY DEF PutRequest
  <2>3. job.id \in dirs
    BY <1>1 DEF StageInv
  <2> HIDE DEF r
  <2>4. Written({r}) = {c}
    BY <2>2, <2>3, WrittenOne
  <2> HIDE DEF n
  <2>5. chunks' = {d \in chunks : d.id # job.id \/ d.start # n} \cup {c}
    BY <2>1, <2>2, <2>4 DEF Handled
  <2> QED BY <1>2, <2>5 DEF Kept
<1>7. PICK B \in SUBSET Byte : InPlace(B, n) /\ OfFile(B) /\ Near(B)
  BY <1>3 DEF RowInv
<1>8. n \in Nat /\ Kept = ChunksOf(job.id)
  BY <1>2, JobSized DEF Kept, ChunksOf
<1>9. \A d \in Kept : OfUpload(d) /\ d \in Chunk
  BY <1>1, <1>3, <1>8, OfFileStored
<1> DEFINE X == BytesOf(c)
<1>10. PICK C : C = B \cup X
  OBVIOUS
<1>11. C \in SUBSET Byte /\ OfFile(C)'
  <2>1. {c} \in SUBSET Chunk /\ Stored({c}) = X
    BY <1>5 DEF Stored
  <2>2. X \in SUBSET Byte
    BY <2>1, ByteTyped
  <2>3. \A x \in X : x.ver = file
    BY <1>5 DEF BytesOf
  <2> HIDE DEF X
  <2>4. C \in SUBSET Byte
    BY <1>7, <2>2, <1>10
  <2> QED BY <1>1, <1>7, <2>3, <2>4, <1>10 DEF OfFile
<1>12. InPlace(C, job'.next)
  <2> HIDE DEF c
  <2>1. InPlace(C, n + c.len)
    BY <1>5, <1>7, <1>8, <1>10, InPlaceExtended
  <2> QED BY <2>1, <1>2, <1>5
<1>13. Stored(Kept)' = Stored(Rest) \cup X
  BY <1>6 DEF Stored
<1>14. Stored(Rest) \subseteq Stored(Kept)
  BY StoredMonotone
\* What was in place before is not of a chunk of the new name.
<1>15. ASSUME NEW b \in B, b \in Stored(Kept) PROVE b \in Stored(Rest)
  <2>1. PICK d \in Kept : b \in BytesOf(d)
    BY <1>15 DEF Stored
  <2>2. b.start < b.pos /\ b.pos <= n /\ b.start \in Nat /\ b.pos \in Nat
    BY <1>7 DEF InPlace, Byte
  <2>3. b.start = d.start
    BY <2>1 DEF BytesOf
  <2>4. d \in Rest
    BY <2>2, <2>3, <1>8
  <2> QED BY <2>1, <2>4 DEF Stored
<1> HIDE DEF X, Rest, n, c
<1>16. Near(C)'
  <2>1. CASE Stored(Kept) = B
    BY <1>10, <1>13, <1>14, <1>15, <2>1 DEF Near
  <2>2. CASE Stored(Kept) \subseteq B /\ \A r \in late : r.id = job.id => r.op # "PUT"
    BY <1>1, <1>2, <1>10, <1>13, <1>14, <2>2 DEF Near
  <2>3. CASE B \subseteq Stored(Kept) /\ \A r \in late : r.id # job.id
    BY <1>1, <1>2, <1>10, <1>13, <1>15, <2>3 DEF Near
  <2> QED BY <1>7, <2>1, <2>2, <2>3 DEF Near
<1> QED BY <1>11, <1>12, <1>16

\* A late request for the directory of the job takes bytes away or adds some, and nothing else is
\* late that does the opposite.
LEMMA LateRow ==
    ASSUME TypeInv, ChunkInv, LateInv, RowInv, NEW r \in late, LateRequest(r) PROVE RowInv'
<1>0. UNCHANGED <<file, checksums, job, dirs>> /\ late' = late \ {r} /\ chunks' \in {chunks, Handled({r})}
  BY DEF LateRequest
<1>1. CASE Kept' = Kept
  BY <1>0, <1>1, SameRow DEF AtWork
<1>2. SUFFICES ASSUME ~checksums, ~LateRuns, AtWork, Kept' # Kept
               PROVE  \E B \in SUBSET Byte : InPlace(B, job'.next) /\ OfFile(B)' /\ Near(B)'
  BY <1>0, <1>1 DEF RowInv, AtWork
<1>3. chunks' = Handled({r}) /\ r.id = job.id /\ r.start \notin job.toDelete
  <2>1. chunks' = Handled({r})
    BY <1>0, <1>2 DEF Kept
  <2>2. \A c \in Written({r}) : c.id = r.id /\ c.start = r.start
    BY DEF Written
  <2> QED BY <1>0, <1>2, <2>1, <2>2 DEF Kept, Handled
<1>4. PICK B \in SUBSET Byte : InPlace(B, job.next) /\ OfFile(B) /\ Near(B)
  BY <1>2 DEF RowInv
<1>5. InPlace(B, job'.next) /\ OfFile(B)'
  BY <1>0, <1>4 DEF OfFile
<1> DEFINE Rest == {d \in Kept : d.start # r.start}
<1>6. Kept' = Rest \cup Written({r})
  <2>1. \A c \in Written({r}) : c.id = r.id /\ c.start = r.start
    BY DEF Written
  <2> QED BY <1>0, <1>3, <2>1 DEF Kept, Handled
<1>7. Stored(Rest) \subseteq Stored(Kept)
  BY StoredMonotone
<1>8. Stored(Kept) = B \/ (Stored(Kept) \subseteq B /\ r.op # "PUT")
  BY <1>3, <1>4 DEF Near
<1>9. CASE r.op # "PUT"
  <2>1. Written({r}) = {}
    BY <1>9 DEF Written
  <2>2. Stored(Kept)' \subseteq B
    BY <1>6, <1>7, <1>8, <2>1
  <2>3. \A q \in late : q.op # "PUT"
    BY <1>2, <1>9 DEF LateInv
  <2> QED BY <1>0, <1>5, <2>2, <2>3 DEF Near
<1>10. CASE r.op = "PUT"
  <2>1. late' = {}
    BY <1>0, <1>2, <1>10 DEF LateInv
  <2>2. Stored(Kept) = B
    BY <1>8, <1>10
  <2>3. SUFFICES Stored(Kept)' \subseteq B \/ B \subseteq Stored(Kept)'
    BY <1>5, <2>1 DEF Near
  <2>4. CASE r.id \notin dirs
    <3>1. Written({r}) = {}
      BY <2>4 DEF Written
    <3> QED BY <1>6, <1>7, <2>2, <3>1
  <2>5. CASE r.id \in dirs
    <3> DEFINE c == [id |-> r.id, start |-> r.start, len |-> r.len, ver |-> r.ver]
    <3>1. Written({r}) = {c}
      BY <1>10, <2>5, WrittenOne
    <3>2. r.ver = file /\ r.len \in Nat /\ r.start \in Nat
      <4>1. r \in [op : {"PUT"}, id : Nat, start : Nat, len : Nat, ver : Versions]
        BY <1>10 DEF TypeInv, StoreOK, Request
      <4>2. info # None /\ info.ver = file /\ r.id = info.id
        BY <1>2, <1>3 DEF AtWork, TypeInv, JobOK
      <4> QED BY <1>2, <1>10, <4>1, <4>2 DEF ChunkInv, OfUpload
    <3>3. Stored(Kept)' = Stored(Rest) \cup BytesOf(c)
      BY <1>6, <3>1 DEF Stored
    <3>4. CASE \A d \in Kept : d.start # r.start
      <4>1. Rest = Kept
        BY <3>4
      <4> QED BY <2>2, <3>3, <4>1
    <3>5. ASSUME NEW d \in Kept, d.start = r.start
          PROVE  Stored(Kept)' \subseteq B \/ B \subseteq Stored(Kept)'
      <4>1. d \in ChunksOf(job.id) /\ Kept \subseteq ChunksOf(job.id)
        BY DEF Kept, ChunksOf
      <4>2. d.ver = file /\ d.len \in Nat
        <5>1. job.phase # "idle" /\ job.item = file
          BY <1>2 DEF AtWork
        <5>2. OfUpload(d) /\ d \in Chunk
          BY <1>2, <4>1, <5>1, OfFileStored
        <5> QED BY <5>2 DEF OfUpload, Chunk
      <4>3. Kept = Rest \cup {d}
        BY <3>5, <4>1 DEF TypeInv, StoreOK, Kept
      <4>4. Stored(Kept) = Stored(Rest) \cup BytesOf(d)
        BY <4>3 DEF Stored
      <4>5. CASE c.len <= d.len
        <5>1. BytesOf(c) \subseteq BytesOf(d)
          BY <3>2, <3>5, <4>2, <4>5 DEF BytesOf
        <5> QED BY <2>2, <3>3, <4>4, <5>1
      <4>6. CASE d.len <= c.len
        <5>1. BytesOf(d) \subseteq BytesOf(c)
          BY <3>2, <3>5, <4>2, <4>6 DEF BytesOf
        <5> QED BY <2>2, <3>3, <4>4, <5>1
      <4> QED BY <3>2, <4>2, <4>5, <4>6
    <3> QED BY <3>4, <3>5
  <2> QED BY <2>4, <2>5
<1> QED BY <1>9, <1>10

LEMMA NextRow ==
    TypeInv /\ AgeInv /\ NewerInv /\ ChunkInv /\ LateInv /\ StageInv /\ RowInv /\ [Next]_vars => RowInv'
<1> SUFFICES ASSUME TypeInv, AgeInv, NewerInv, ChunkInv, LateInv, StageInv, RowInv, [Next]_vars PROVE RowInv'
  OBVIOUS
<1>1. CASE Edit
  <2>1. file' = latest + 1 /\ UNCHANGED job /\ latest \in Nat
    BY <1>1, Sized DEF Edit, TypeInv, FileOK
  <2>2. job.phase # "idle" => job.item \in Nat /\ job.item <= latest
    BY JobSized, Sized DEF TypeInv, JobOK, AgeInv
  <2> QED BY <2>1, <2>2 DEF RowInv, AtWork
<1>2. CASE Restore
  BY <1>2 DEF Restore, RowInv, serverVars
<1>3. CASE UNCHANGED <<file, checksums, chunks, late, job>>
  BY <1>3, SameRow DEF AtWork, Kept
<1>4. CASE ForgetUpload \/ FindNewer
  <2>1. job'.phase = "idle"
    BY <1>4 DEF ForgetUpload, FindNewer
  <2> QED BY <2>1, NoRow
<1>5. CASE StartUpload
  <2> DEFINE j == [Idle EXCEPT !.item = file, !.base = remote.etag]
  <2>1. j \in Job
    BY BegunIsJob
  <2> HIDE DEF j
  <2>2. CASE job' = [j EXCEPT !.phase = "listing", !.id = info.id]
    <3>1. job'.phase = "listing"
      BY <2>1, <2>2 DEF Job
    <3> QED BY <3>1, NoRow
  <2>3. CASE StartNewUpload(j) /\ chunks' \subseteq chunks
    BY <1>5, <2>1, <2>3, NewRow DEF StartUpload
  <2> QED BY <1>5, <2>2, <2>3 DEF StartUpload, StaleDeleted, j
<1>6. CASE ListingFails
  <2>1. StartNewUpload(job) /\ UNCHANGED <<file, chunks, late>>
    BY <1>6 DEF ListingFails, serverVars
  <2> QED BY <2>1, JobSized, NewRow
<1>7. ASSUME NEW c \in job.toDelete, Deleted(c) \/ DeleteFails(c) PROVE RowInv'
  <2>1. job.phase = "deleting" /\ UNCHANGED <<file, checksums, late>>
        /\ (chunks' = chunks \/ chunks' = {d \in chunks : d.id # job.id \/ d.start # c})
    BY <1>7 DEF Deleted, DeleteFails, serverVars, Handled, Written, DeleteRequest
  <2>2. CASE StartNewUpload(job)
    BY <2>1, <2>2, JobSized, NewRow
  <2>3. CASE job' = [job EXCEPT !.toDelete = @ \ {c}, !.removeError = TRUE]
    <3>1. job'.phase = "deleting" /\ job'.removeError
      BY <2>1, <2>3, JobSized DEF Job
    <3> QED BY <3>1 DEF RowInv, AtWork
  <2>4. CASE /\ chunks' = {d \in chunks : d.id # job.id \/ d.start # c}
             /\ \/ job' = [job EXCEPT !.toDelete = @ \ {c}]
                \/ job' = [job EXCEPT !.toDelete = {}, !.phase = "ready"] /\ job.toDelete = {c} /\ ~job.removeError
    <3>1. /\ job'.toDelete = job.toDelete \ {c} /\ job'.id = job.id /\ job'.next = job.next /\ job'.item = job.item
          /\ \/ job'.phase = job.phase /\ job'.removeError = job.removeError
             \/ job'.phase = "ready" /\ ~job.removeError
      BY <2>1, <2>4, JobSized DEF Job
    <3>2. Kept' = Kept
      BY <1>7, <2>4, <3>1 DEF Kept
    <3> QED BY <2>1, <3>1, <3>2, SameRow DEF AtWork
  <2> QED BY <1>7, <2>2, <2>3, <2>4 DEF Deleted, DeleteFails, Handled, Written, DeleteRequest
<1>8. CASE MkColFinished \/ DoFinalMove \/ StartNextChunk
  <2>1. /\ job.phase \in {"mkcol", "ready"} /\ UNCHANGED <<file, checksums, chunks, late>>
        /\ \/ job' = [job EXCEPT !.phase = "ready"]
           \/ job' = [job EXCEPT !.phase = "moving"]
           \/ \E chunk : job' = [job EXCEPT !.phase = "putting", !.chunk = chunk]
    BY <1>8 DEF MkColFinished, DoFinalMove, StartNextChunk, serverVars
  <2>2. /\ job'.toDelete = job.toDelete /\ job'.id = job.id /\ job'.next = job.next /\ job'.item = job.item
        /\ job'.phase # "deleting"
    BY <2>1, JobSized DEF Job
  <2>3. Kept' = Kept
    BY <2>1, <2>2 DEF Kept
  <2> QED BY <2>1, <2>2, <2>3, SameRow DEF AtWork
<1>9. CASE PutFails \/ MoveRefused \/ Break \/ MoveFinished \/ MoveReplyLost
  <2>1. job'.phase = "idle"
    BY <1>9, IdleIsJob DEF PutFails, MoveRefused, Break, GiveUp, MoveFinished, MoveReplyLost
  <2> QED BY <2>1, NoRow
<1>10. CASE Discover \/ DownloadFails \/ UNCHANGED vars
  BY <1>3, <1>10 DEF Discover, DownloadFails, vars, serverVars
<1>11. CASE Listed
  BY <1>11, ListedRow
<1>12. CASE PutFinished
  BY <1>12, PutFinishedRow
<1>13. CASE \E r \in late : LateRequest(r)
  BY <1>13, LateRow
<1>14. CASE Downloaded
  BY <1>14 DEF Downloaded, NewerInv, RowInv, serverVars
<1> QED BY <1>1, <1>2, <1>4, <1>5, <1>6, <1>7, <1>8, <1>9, <1>10, <1>11, <1>12, <1>13, <1>14 DEF Next

\* What the server puts together has the length of the version, so that nothing is missing from the
\* bytes that should be there, and nothing has been added.
LEMMA MovedIsWhole ==
    ASSUME TypeInv, AgeInv, StageInv, RowInv, ~checksums, ~LateRuns,
           job.phase = "moving", job.item = file, Accepts
    PROVE  Assembled(job.id) = Whole(file)
<1> DEFINE S == Stored(ChunksOf(job.id))
           n == Size(file)
<1>1. job.next = n /\ n \in Nat /\ Kept = ChunksOf(job.id) /\ AtWork
  BY JobSized DEF StageInv, AgeInv, Kept, ChunksOf, AtWork
<1>2. PICK B \in SUBSET Byte : InPlace(B, n) /\ OfFile(B) /\ Near(B)
  BY <1>1 DEF RowInv
<1>3. IsFiniteSet(B) /\ Cardinality(B) = n
  BY <1>1, <1>2, InPlaceCounted
<1>4. IsFiniteSet(S)
  BY <1>1, StoredOfUnchanged DEF TypeInv, ChunksOf
<1>5. Cardinality(S) \in Nat
  BY <1>4, FS_CardinalityType
<1>6. Assembled(job.id) = [k \in 1 .. Cardinality(S) |-> <<InOrder(S)[k].ver, InOrder(S)[k].pos>>]
  BY DEF Assembled
<1>7. Cardinality(S) = n
  <2>1. Len(Assembled(job.id)) = n
    BY DEF Accepts
  <2> HIDE DEF S
  <2>2. Len(Assembled(job.id)) = Cardinality(S)
    BY <1>5, <1>6
  <2> QED BY <2>1, <2>2
<1>8. S = B
  <2>1. S \subseteq B \/ B \subseteq S
    BY <1>1, <1>2 DEF Near
  <2> HIDE DEF S, n
  <2> QED BY <1>3, <1>4, <1>7, <2>1, FS_Subset
<1>9. \A k \in 1 .. n : InOrder(B)[k] \in B /\ InOrder(B)[k].pos = k
  BY <1>1, <1>2, InPlaceIsWhole
<1>10. \A k \in 1 .. n : <<InOrder(B)[k].ver, InOrder(B)[k].pos>> = <<file, k>>
  BY <1>2, <1>9 DEF OfFile
<1>11. Whole(file) = [k \in 1 .. n |-> <<file, k>>]
  BY DEF Whole
<1> HIDE DEF S, n
<1> QED BY <1>6, <1>7, <1>8, <1>10, <1>11

\* What the server has under the version of the file is that version.
ContentInv ==
  (checksums \/ (~LateRuns /\ remote.ver = file)) /\ remote.ver # 0 => remote.content = Whole(remote.ver)

LEMMA NextContent ==
    TypeInv /\ AgeInv /\ NewerInv /\ StageInv /\ RowInv /\ ContentInv /\ [Next]_vars => ContentInv'
<1> SUFFICES ASSUME TypeInv, AgeInv, NewerInv, StageInv, RowInv, ContentInv, [Next]_vars PROVE ContentInv'
  OBVIOUS
<1>1. CASE UNCHANGED <<checksums, remote>> /\ (checksums \/ UNCHANGED file)
  BY <1>1 DEF ContentInv, Whole, Size
<1>2. CASE Edit
  <2>1. file' = latest + 1 /\ UNCHANGED <<checksums, remote>> /\ latest \in Nat
    BY <1>2, Sized DEF Edit, serverVars, TypeInv, FileOK
  <2>2. remote.ver \in Nat /\ remote.ver <= latest
    BY Sized DEF TypeInv, FileOK, AgeInv
  <2> QED BY <1>1, <2>1, <2>2 DEF ContentInv
<1>3. CASE Restore
  BY <1>1, <1>3 DEF Restore, serverVars
<1>4. CASE MoveFinished \/ MoveReplyLost
  <2>1. /\ job.phase = "moving" /\ Accepts /\ UNCHANGED <<file, checksums>>
        /\ remote' = [ver |-> job.item, content |-> Assembled(job.id), etag |-> remote.etag + 1]
    BY <1>4 DEF MoveFinished, MoveReplyLost, ServerMoves
  <2>2. remote'.ver = job.item /\ remote'.content = Assembled(job.id)
    BY <2>1
  <2>3. checksums => Assembled(job.id) = Whole(job.item)
    BY <2>1 DEF Accepts
  <2>4. ~checksums /\ ~LateRuns /\ job.item = file => Assembled(job.id) = Whole(file)
    BY <2>1, MovedIsWhole
  <2> QED BY <2>1, <2>2, <2>3, <2>4 DEF ContentInv, Whole, Size
<1>5. CASE \/ Discover \/ ForgetUpload \/ FindNewer \/ DownloadFails
           \/ StartUpload \/ Listed \/ ListingFails \/ MkColFinished
  BY <1>1, <1>5 DEF Discover, ForgetUpload, FindNewer, DownloadFails, StartUpload, Listed, ListingFails, MkColFinished, serverVars
<1>6. CASE \E c \in job.toDelete : Deleted(c) \/ DeleteFails(c)
  BY <1>1, <1>6 DEF Deleted, DeleteFails, serverVars
<1>7. CASE StartNextChunk \/ PutFinished \/ PutFails \/ DoFinalMove \/ MoveRefused \/ Break
  BY <1>1, <1>7 DEF StartNextChunk, PutFinished, PutFails, DoFinalMove, MoveRefused, Break, serverVars
<1>8. CASE (\E r \in late : LateRequest(r)) \/ UNCHANGED vars
  BY <1>1, <1>8 DEF LateRequest, vars, serverVars
<1>9. CASE Downloaded
  BY <1>1, <1>9 DEF Downloaded, NewerInv, serverVars
<1> QED BY <1>2, <1>3, <1>4, <1>5, <1>6, <1>7, <1>8, <1>9 DEF Next

-----------------------------------------------------------------------------
(* The invariant as a whole. *)

IInv ==
  /\ TypeInv /\ FoundInv /\ EtagInv /\ NewerInv
  /\ AgeInv /\ ChunkInv /\ LateInv /\ StageInv /\ RowInv /\ ContentInv

LEMMA InitIInv == Init => IInv
<1> SUFFICES ASSUME Init PROVE IInv
  OBVIOUS
<1>1. TypeInv /\ FoundInv /\ EtagInv
  BY InitTypes, InitFound, InitEtag
<1>2. job.phase = "idle" /\ job.toDelete = {}
  BY DEF Init, Idle
<1>3. AgeInv /\ NewerInv /\ ChunkInv /\ LateInv
  BY <1>2 DEF Init, AgeInv, NewerInv, ChunkInv, LateInv
<1>4. StageInv /\ RowInv
  BY <1>2 DEF StageInv, RowInv, AtWork
<1>5. ContentInv
  BY DEF Init, ContentInv
<1> QED BY <1>1, <1>3, <1>4, <1>5 DEF IInv

LEMMA NextIInv == IInv /\ [Next]_vars => IInv'
BY NextTypes, NextFound, NextEtag, NextNewer, NextAge, NextChunks, NextLate, NextStage, NextRow, NextContent DEF IInv

LEMMA IInvImpliesBelieved == IInv /\ (checksums \/ ~LateRuns) => BelievedIsStored
<1> SUFFICES ASSUME IInv, checksums \/ ~LateRuns, synced = file, remote.etag = dbEtag
             PROVE  remote.content = Whole(file)
  BY DEF BelievedIsStored
<1>1. remote.ver = file
  BY DEF IInv, EtagInv
<1>2. file # 0
  BY Sized DEF IInv, TypeInv, FileOK
<1> QED BY <1>1, <1>2 DEF IInv, ContentInv

\* The invariant of the runs of the upload, from which what the client believes follows: types, etags,
\* ages, chunks of the version, and the bytes that are there.
THEOREM Inductive == Spec => []IInv
BY InitIInv, NextIInv, PTL DEF Spec

\* When the client takes its file for synchronised, the server has each byte of it once, in order and
\* of one version, however the upload was cut, resumed, started over, given up or overtaken by the
\* next version, as long as the requests of one run are late at a time.
THEOREM Believed == ASSUME ~LateRuns PROVE Spec => []BelievedIsStored
<1>1. IInv => BelievedIsStored
  BY IInvImpliesBelieved
<1> QED BY <1>1, Inductive, PTL

\* If the server knows checksums, the requests of any number of runs may be late.
THEOREM BelievedWithChecksums == Spec => [](checksums => BelievedIsStored)
<1>1. IInv => (checksums => BelievedIsStored)
  BY IInvImpliesBelieved
<1> QED BY <1>1, Inductive, PTL
=============================================================================
