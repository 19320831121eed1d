-------------------------- MODULE IngestionProofs --------------------------
(***************************************************************************)
(* Proofs about Ingestion, for any manuals, any texts and any number of    *)
(* commands and batches: identifiers are unique, and the chunk file has    *)
(* every text of the pages asked for.  Induction over pages is the least   *)
(* counterexample of a set of numbers (LeastNumber).                       *)
(***************************************************************************)
EXTENDS Ingestion, SequenceTheorems, FiniteSetTheorems, TLAPS

\* The chunks are a sequence.
AreChunks(s) == \E S : s \in Seq(S)

(***************************************************************************)
(* Identifiers.                                                            *)
(***************************************************************************)
\* An occurrence is a number below the count of its key, so the next one is new.
CountsInv ==
  /\ AreChunks(chunks)
  /\ \A k \in DOMAIN counts : counts[k] \in Nat
  /\ \A i \in DOMAIN chunks :
       /\ Key(chunks[i].raw) \in DOMAIN counts
       /\ chunks[i].occurrence \in Nat
       /\ chunks[i].occurrence < counts[Key(chunks[i].raw)]

IdInv == CountsInv /\ IdsAreUnique

LEMMA NothingIsUnique ==
  ASSUME chunks' = <<>>, counts' = <<>>
  PROVE  IdInv'
<1>1. chunks' \in Seq({}) /\ DOMAIN chunks' = {} /\ DOMAIN counts' = {}
  OBVIOUS
<1>2. AreChunks(chunks')
  BY <1>1 DEF AreChunks
<1>3. QED
  BY <1>1, <1>2 DEF IdInv, CountsInv, IdsAreUnique

LEMMA NormalizeIsUnique ==
  ASSUME IdInv, Normalize
  PROVE  IdInv'
<1> DEFINE raw == Head(raws)
           k   == Key(raw)
           n   == Count(counts, k)
           new == [raw |-> raw, occurrence |-> n]
<1>1. CASE UNCHANGED <<chunks, counts>>
  BY <1>1 DEF IdInv, CountsInv, IdsAreUnique
<1>2. CASE chunks' = Append(chunks, new) /\ counts' = Counted(counts, k)
  <2>1. PICK S : chunks \in Seq(S)
    BY DEF IdInv, CountsInv, AreChunks
  <2>2. n \in Nat /\ (k \in DOMAIN counts => n = counts[k])
    BY DEF IdInv, CountsInv, Count
  <2>3. /\ DOMAIN counts' = DOMAIN counts \cup {k}
        /\ counts'[k] = n + 1
        /\ \A x \in DOMAIN counts : x # k => counts'[x] = counts[x]
    BY <1>2 DEF Counted
  <2> HIDE DEF new
  <2>4. chunks \in Seq(S \cup {new})
    BY <2>1, SeqDef
  <2> DEFINE m == Len(chunks) + 1
  <2>6. /\ chunks' \in Seq(S \cup {new})
        /\ m \in DOMAIN chunks' /\ chunks'[m] = new
        /\ \A i \in DOMAIN chunks' : i # m => i \in DOMAIN chunks /\ chunks'[i] = chunks[i]
    BY <1>2, <2>4
  <2>7. AreChunks(chunks')
    BY <2>6 DEF AreChunks
  <2>8. \A x \in DOMAIN counts' : counts'[x] \in Nat
    BY <2>2, <2>3 DEF IdInv, CountsInv
  <2>9. \A i \in DOMAIN chunks :
          /\ Key(chunks[i].raw) \in DOMAIN counts' /\ chunks[i].occurrence \in Nat
          /\ chunks[i].occurrence < counts'[Key(chunks[i].raw)]
          /\ Key(chunks[i].raw) = k => chunks[i].occurrence < n
    <3> TAKE i \in DOMAIN chunks
    <3>1. /\ Key(chunks[i].raw) \in DOMAIN counts /\ chunks[i].occurrence \in Nat
          /\ chunks[i].occurrence < counts[Key(chunks[i].raw)]
      BY DEF IdInv, CountsInv
    <3>2. QED
      BY <2>2, <2>3, <3>1
  <2>10. \A i \in DOMAIN chunks' :
           /\ Key(chunks'[i].raw) \in DOMAIN counts' /\ chunks'[i].occurrence \in Nat
           /\ chunks'[i].occurrence < counts'[Key(chunks'[i].raw)]
    <3> TAKE i \in DOMAIN chunks'
    <3>1. Key(new.raw) = k /\ new.occurrence = n /\ n < n + 1
      BY <2>2 DEF new
    <3>2. CASE i = m
      BY <2>2, <2>3, <2>6, <3>1, <3>2
    <3>3. CASE i # m
      BY <2>6, <2>9, <3>3
    <3>4. QED
      BY <3>2, <3>3
  <2>11. \A i, j \in DOMAIN chunks' :
           Key(chunks'[i].raw) = Key(chunks'[j].raw)
             /\ chunks'[i].occurrence = chunks'[j].occurrence => i = j
    <3>1. \A i, j \in DOMAIN chunks :
            Key(chunks[i].raw) = Key(chunks[j].raw)
              /\ chunks[i].occurrence = chunks[j].occurrence => i = j
      BY DEF IdInv, IdsAreUnique, ChunkId
    <3>2. \A i \in DOMAIN chunks :
            Key(chunks[i].raw) # Key(new.raw) \/ chunks[i].occurrence # new.occurrence
      <4>1. Key(new.raw) = k /\ new.occurrence = n
        BY DEF new
      <4>2. QED
        BY <2>2, <2>9, <4>1
    <3>3. QED
      BY <2>6, <3>1, <3>2
  <2>12. QED
    BY <2>7, <2>8, <2>10, <2>11 DEF IdInv, CountsInv, IdsAreUnique, ChunkId
<1>3. QED
  BY <1>1, <1>2 DEF Normalize

\* The identifiers stay unique through every batch, interruption and rerun.
THEOREM IdInvariant == IngestSpec => []IdInv
<1>1. IngestInit => IdInv
  BY DEF IngestInit, IdInv, CountsInv, IdsAreUnique, AreChunks
<1>2. IdInv /\ [IngestNext]_ingestVars => IdInv'
  <2> SUFFICES ASSUME IdInv, [IngestNext]_ingestVars PROVE IdInv'
    OBVIOUS
  <2>1. ASSUME UNCHANGED <<chunks, counts>> PROVE IdInv'
    BY <2>1 DEF IdInv, CountsInv, IdsAreUnique
  <2>2. CASE Start
    BY <2>1, <2>2, NothingIsUnique DEF Start, Fail
  <2>3. CASE Convert
    BY <2>1, <2>3 DEF Convert
  <2>4. CASE Normalize
    BY <2>4, NormalizeIsUnique
  <2>5. CASE Converted
    BY <2>1, <2>5, NothingIsUnique DEF Converted, Fail
  <2>6. CASE WriteLine
    BY <2>1, <2>6 DEF WriteLine
  <2>7. CASE Replace \/ Interrupted
    BY <2>7, NothingIsUnique DEF Replace, Interrupted, Fail
  <2>8. CASE UNCHANGED ingestVars
    BY <2>1, <2>8 DEF ingestVars
  <2>9. QED
    BY <2>2, <2>3, <2>4, <2>5, <2>6, <2>7, <2>8 DEF IngestNext
<1>3. QED
  BY <1>1, <1>2, PTL DEF IngestSpec

\* No two chunks of one command get the same identifier, whatever the manual repeats.
THEOREM ChunksAreDistinct == IngestSpec => []IdsAreUnique
<1>1. IdInv => IdsAreUnique
  BY DEF IdInv
<1>2. QED
  BY <1>1, IdInvariant, PTL

\* A nonempty set of numbers has a least element.
LEMMA LeastNumber ==
  ASSUME NEW G \in SUBSET Nat, G # {}
  PROVE  \E i \in G : \A j \in G : i <= j
<1> DEFINE R == {ss \in Nat \X Nat : ss[1] < ss[2]}
<1>1. PICK i \in G : \A j \in G : ~ (<<j, i>> \in R)
  BY NatLessThanWellFounded, WFMin, Zenon DEF OpToRel
<1>2. ASSUME NEW j \in G PROVE i <= j
  <2>1. ~ (<<j, i>> \in R)
    BY <1>1
  <2>2. QED
    BY <2>1
<1> QED BY <1>2

(***************************************************************************)
(* What Docling returns.                                                   *)
(***************************************************************************)
RawChunks == [text : DOMAIN Canonical \cup {Blank}, pages : SUBSET Nat, heading : BOOLEAN]

LEMMA ManualIs ==
  ASSUME NEW m \in Manuals
  PROVE  /\ Len(m.pages) \in Nat /\ m.kind \in {"pdf", "docx"}
         /\ \A p \in 1..Len(m.pages) :
              m.pages[p] \in Seq([text : DOMAIN Canonical \cup {Blank}, located : BOOLEAN])
<1>1. m.pages \in Seq(Seq([text : DOMAIN Canonical \cup {Blank}, located : BOOLEAN]))
  BY IngestionAssumption
<1>2. QED
  BY <1>1, IngestionAssumption

LEMMA PageIs ==
  ASSUME NEW m \in Manuals, NEW p \in 1..Len(m.pages), NEW a \in Nat
  PROVE  /\ OnPage(m, a, p) \in Seq(RawChunks)
         /\ Len(OnPage(m, a, p)) = Len(m.pages[p])
         /\ \A i \in 1..Len(m.pages[p]) : OnPage(m, a, p)[i].text = m.pages[p][i].text
<1> DEFINE page == m.pages[p]
           item(i) == [text |-> page[i].text,
                       pages |-> IF page[i].located THEN {p} ELSE {},
                       heading |-> m.headingPage \in a..p]
<1>1. page \in Seq([text : DOMAIN Canonical \cup {Blank}, located : BOOLEAN])
  BY ManualIs
<1>2. DOMAIN page = 1..Len(page) /\ Len(page) \in Nat
  <2> HIDE DEF page
  <2>1. QED
    BY <1>1
<1>3. \A i \in 1..Len(page) : page[i] \in [text : DOMAIN Canonical \cup {Blank}, located : BOOLEAN]
  <2> DEFINE items == [text : DOMAIN Canonical \cup {Blank}, located : BOOLEAN]
  <2>1. page \in Seq(items)
    BY <1>1
  <2> HIDE DEF page, items
  <2>2. \A i \in 1..Len(page) : page[i] \in items
    BY <2>1
  <2>3. QED
    BY <2>2 DEF items
<1>4. \A i \in 1..Len(page) : item(i) \in RawChunks /\ item(i).text = page[i].text
  <2> TAKE i \in 1..Len(page)
  <2>1. page[i].text \in DOMAIN Canonical \cup {Blank}
    BY <1>3
  <2>2. p \in Nat
    BY ManualIs
  <2> HIDE DEF page
  <2>3. QED
    BY <2>1, <2>2 DEF RawChunks
<1>5. OnPage(m, a, p) = [i \in 1..Len(page) |-> item(i)]
  BY <1>2 DEF OnPage
<1> HIDE DEF item, page
<1>6. OnPage(m, a, p) \in Seq(RawChunks) /\ Len(OnPage(m, a, p)) = Len(page)
      /\ \A i \in 1..Len(page) : OnPage(m, a, p)[i].text = page[i].text
  BY <1>2, <1>4, <1>5
<1>7. QED
  BY <1>6 DEF page

\* The recursion of Raw as a predicate on functions: the chunks up to each page.
IsUpTo(f, m, a, n) ==
  f = [p \in 0..n |-> IF p < a THEN <<>> ELSE f[p - 1] \o OnPage(m, a, p)]

LEMMA UpToExists ==
  ASSUME NEW m \in Manuals, NEW a \in Nat \ {0}, NEW n \in 0..Len(m.pages)
  PROVE  \E f : IsUpTo(f, m, a, n)
<1> DEFINE bad == {k \in 0..Len(m.pages) : ~\E f : IsUpTo(f, m, a, k)}
<1>0. Len(m.pages) \in Nat
  BY ManualIs
<1>1. ASSUME bad # {} PROVE FALSE
  <2>1. PICK k \in bad : \A j \in bad : k <= j
    <3>1. bad \in SUBSET Nat
      BY <1>0
    <3> HIDE DEF bad
    <3>2. QED
      BY <1>1, <3>1, LeastNumber
  <2>2. k # 0
    <3> DEFINE f == [p \in 0..0 |-> <<>>]
    <3>1. IsUpTo(f, m, a, 0)
      <4>1. \A p \in 0..0 : p < a
        OBVIOUS
      <4>2. QED
        BY <4>1 DEF IsUpTo
    <3>2. QED
      BY <3>1, <2>1
  <2>3. k \in Nat /\ k - 1 \in 0..Len(m.pages) /\ k - 1 \notin bad
    BY <1>0, <2>1, <2>2
  <2>4. PICK f : IsUpTo(f, m, a, k - 1)
    BY <2>3
  <2> DEFINE P(g, p) == IF p < a THEN <<>> ELSE g[p - 1] \o OnPage(m, a, p)
             h == [p \in 0..k |-> P(f, p)]
  <2>5. \A p \in 0..(k - 1) : h[p] = f[p]
    <3>1. f = [p \in 0..(k - 1) |-> P(f, p)]
      BY <2>4 DEF IsUpTo
    <3> HIDE DEF P
    <3>2. \A p \in 0..(k - 1) : f[p] = P(f, p)
      BY <3>1
    <3>3. \A p \in 0..(k - 1) : h[p] = P(f, p)
      BY <2>3
    <3>4. QED
      BY <3>2, <3>3
  <2>6. \A p \in 0..k : P(h, p) = P(f, p)
    <3> SUFFICES ASSUME NEW p \in 0..k PROVE P(h, p) = P(f, p)
      OBVIOUS
    <3>1. CASE p < a
      BY <3>1
    <3>2. CASE ~(p < a)
      <4>1. p - 1 \in 0..(k - 1)
        BY <2>3, <3>2
      <4>2. h[p - 1] = f[p - 1]
        <5> HIDE DEF h
        <5>1. QED
          BY <2>5, <4>1
      <4> HIDE DEF h
      <4>3. QED
        BY <3>2, <4>2
    <3>3. QED
      BY <3>1, <3>2
  <2>7. h = [p \in 0..k |-> P(h, p)]
    <3> HIDE DEF P
    <3>1. QED
      BY <2>6
  <2>8. IsUpTo(h, m, a, k)
    BY <2>7 DEF IsUpTo
  <2>9. QED
    BY <2>1, <2>8
<1>2. QED
  BY <1>1

\* A page more is its chunks more.
LEMMA RawGrows ==
  ASSUME NEW m \in Manuals, NEW a \in Nat \ {0}, NEW b \in 0..Len(m.pages)
  PROVE  /\ b < a => Raw(m, <<a, b>>) = <<>>
         /\ a <= b => Raw(m, <<a, b>>) = Raw(m, <<a, b - 1>>) \o OnPage(m, a, b)
<1> DEFINE N == Len(m.pages)
           P(g, p) == IF p < a THEN <<>> ELSE g[p - 1] \o OnPage(m, a, p)
           u == CHOOSE f : f = [p \in 0..N |-> P(f, p)]
<1>0. N \in Nat /\ N \in 0..N
  BY ManualIs
<1>1. \A c : Raw(m, <<a, c>>) = u[c]
  BY DEF Raw
<1>2. PICK f : IsUpTo(f, m, a, N)
  BY <1>0, UpToExists
<1>3. f = [p \in 0..N |-> P(f, p)]
  BY <1>2 DEF IsUpTo
<1>4. u = [p \in 0..N |-> P(u, p)]
  <2> HIDE DEF P
  <2>1. QED
    BY <1>3
<1>5. u[b] = P(u, b)
  <2> HIDE DEF P, u
  <2>1. QED
    BY <1>4
<1>6. CASE b < a
  <2>1. u[b] = <<>>
    BY <1>5, <1>6
  <2> HIDE DEF u
  <2>2. QED
    BY <1>0, <1>1, <1>6, <2>1
<1>7. CASE a <= b
  <2>1. ~(b < a)
    BY <1>0, <1>7
  <2>2. P(u, b) = u[b - 1] \o OnPage(m, a, b)
    BY <2>1
  <2> HIDE DEF u, P
  <2>3. QED
    BY <1>1, <1>5, <2>1, <2>2
<1>8. QED
  BY <1>0, <1>6, <1>7

\* What the join of two sequences is.
LEMMA JoinIs ==
  ASSUME NEW S, NEW s \in Seq(S), NEW t \in Seq(S)
  PROVE  /\ Len(s) \in Nat /\ Len(t) \in Nat
         /\ s \o t \in Seq(S) /\ Len(s \o t) = Len(s) + Len(t)
         /\ \A i \in 1..Len(s) : (s \o t)[i] = s[i]
         /\ \A i \in 1..Len(t) : (s \o t)[Len(s) + i] = t[i]
OBVIOUS

LEMMA RawIsSeq ==
  ASSUME NEW m \in Manuals, NEW a \in Nat \ {0}, NEW b \in 0..Len(m.pages)
  PROVE  Raw(m, <<a, b>>) \in Seq(RawChunks)
<1> DEFINE N == Len(m.pages)
           bad == {c \in 0..N : Raw(m, <<a, c>>) \notin Seq(RawChunks)}
<1>0. N \in Nat
  BY ManualIs
<1>1. ASSUME bad # {} PROVE FALSE
  <2>1. PICK c \in bad : \A j \in bad : c <= j
    <3>1. bad \in SUBSET Nat
      BY <1>0
    <3> HIDE DEF bad
    <3>2. QED
      BY <1>1, <3>1, LeastNumber
  <2>2. c \in 0..N /\ Raw(m, <<a, c>>) \notin Seq(RawChunks)
    BY <2>1
  <2>3. a <= c
    <3>1. CASE c < a
      <4>1. Raw(m, <<a, c>>) = <<>>
        BY <2>2, <3>1, RawGrows
      <4>2. QED
        BY <2>2, <4>1
    <3>2. QED
      BY <1>0, <2>2, <3>1
  <2>4. Raw(m, <<a, c>>) = Raw(m, <<a, c - 1>>) \o OnPage(m, a, c)
    BY <2>2, <2>3, RawGrows
  <2>5. c \in 1..N /\ a \in Nat /\ c - 1 \in 0..N /\ c - 1 \notin bad
    BY <1>0, <2>1, <2>2, <2>3
  <2>6. Raw(m, <<a, c - 1>>) \in Seq(RawChunks)
    BY <2>5
  <2>7. OnPage(m, a, c) \in Seq(RawChunks)
    BY <2>5, PageIs
  <2>8. Raw(m, <<a, c - 1>>) \o OnPage(m, a, c) \in Seq(RawChunks)
    BY <2>6, <2>7, JoinIs
  <2>9. QED
    BY <2>2, <2>4, <2>8
<1>2. QED
  BY <1>1

\* The texts of a range are those of its first pages and of the pages after them.
Splits(m, a, s, e) ==
  LET front == Raw(m, <<a, s - 1>>)
      rest  == Raw(m, <<s, e>>)
      whole == Raw(m, <<a, e>>)
  IN  /\ Len(whole) = Len(front) + Len(rest)
      /\ \A i \in 1..Len(front) : whole[i].text = front[i].text
      /\ \A i \in 1..Len(rest) : whole[Len(front) + i].text = rest[i].text

LEMMA RawSplits ==
  ASSUME NEW m \in Manuals, NEW a \in Nat \ {0}, NEW s \in Nat, a <= s,
         NEW e \in Nat, s <= e + 1, e <= Len(m.pages)
  PROVE  Splits(m, a, s, e)
<1> DEFINE N == Len(m.pages)
           bad == {c \in (s - 1)..N : ~Splits(m, a, s, c)}
           front == Raw(m, <<a, s - 1>>)
<1>0. /\ N \in Nat /\ s \in Nat \ {0} /\ s - 1 \in 0..N /\ e \in (s - 1)..N
      /\ a \in Nat \ {0} /\ (s - 1)..N \in SUBSET Nat
  BY ManualIs
<1>1. front \in Seq(RawChunks) /\ Len(front) \in Nat
  <2>1. front \in Seq(RawChunks)
    BY <1>0, RawIsSeq
  <2>2. QED
    BY <2>1
<1>2. ASSUME bad # {} PROVE FALSE
  <2>1. PICK c \in bad : \A j \in bad : c <= j
    <3>1. bad \in SUBSET Nat
      BY <1>0
    <3> HIDE DEF bad
    <3>2. QED
      BY <1>2, <3>1, LeastNumber
  <2>2. c \in (s - 1)..N /\ ~Splits(m, a, s, c) /\ c \in 0..N
    BY <1>0, <2>1
  <2>3. s <= c
    <3>1. CASE c = s - 1
      <4>0. c < s
        BY <1>0, <3>1
      <4>1. Raw(m, <<s, c>>) = <<>>
        BY <1>0, <2>2, <4>0, RawGrows
      <4>2. Splits(m, a, s, c)
        <5>1. Raw(m, <<a, c>>) = front /\ Len(<<>>) = 0 /\ 1..0 = {}
          BY <3>1
        <5> HIDE DEF front
        <5>2. Len(front) = Len(front) + 0
          BY <1>1
        <5>3. QED
          BY <4>1, <5>1, <5>2 DEF Splits, front
      <4>3. QED
        BY <2>2, <4>2
    <3>2. QED
      BY <1>0, <2>2, <3>1
  <2> DEFINE rest == Raw(m, <<s, c - 1>>)
             whole == Raw(m, <<a, c - 1>>)
             pa == OnPage(m, a, c)
             ps == OnPage(m, s, c)
  <2>4. c - 1 \in (s - 1)..N /\ c - 1 \in 0..N /\ c \in 1..N /\ a <= c /\ c - 1 \notin bad
    BY <1>0, <2>1, <2>2, <2>3
  <2>5. Raw(m, <<a, c>>) = whole \o pa /\ Raw(m, <<s, c>>) = rest \o ps
    BY <1>0, <2>2, <2>3, <2>4, RawGrows
  <2>6. /\ Len(whole) = Len(front) + Len(rest)
        /\ \A i \in 1..Len(front) : whole[i].text = front[i].text
        /\ \A i \in 1..Len(rest) : whole[Len(front) + i].text = rest[i].text
    <3>1. Splits(m, a, s, c - 1)
      BY <2>4
    <3>2. QED
      BY <3>1 DEF Splits
  <2>7. whole \in Seq(RawChunks) /\ rest \in Seq(RawChunks)
    BY <1>0, <2>4, RawIsSeq
  <2>8. /\ pa \in Seq(RawChunks) /\ ps \in Seq(RawChunks) /\ Len(pa) = Len(ps)
        /\ \A i \in 1..Len(ps) : pa[i].text = ps[i].text
    <3>1. /\ pa \in Seq(RawChunks) /\ Len(pa) = Len(m.pages[c])
          /\ \A i \in 1..Len(m.pages[c]) : pa[i].text = m.pages[c][i].text
      BY <1>0, <2>4, PageIs
    <3>2. /\ ps \in Seq(RawChunks) /\ Len(ps) = Len(m.pages[c])
          /\ \A i \in 1..Len(m.pages[c]) : ps[i].text = m.pages[c][i].text
      BY <1>0, <2>4, PageIs
    <3> HIDE DEF pa, ps
    <3>3. QED
      BY <3>1, <3>2
  <2> DEFINE w == whole \o pa
             r == rest \o ps
  <2>9. /\ Len(whole) \in Nat /\ Len(pa) \in Nat /\ Len(w) = Len(whole) + Len(pa)
        /\ \A i \in 1..Len(whole) : w[i] = whole[i]
        /\ \A i \in 1..Len(pa) : w[Len(whole) + i] = pa[i]
    <3>1. whole \in Seq(RawChunks) /\ pa \in Seq(RawChunks)
      BY <2>7, <2>8
    <3> HIDE DEF whole, pa
    <3>2. QED
      BY <3>1, JoinIs
  <2>10. /\ Len(rest) \in Nat /\ Len(ps) \in Nat /\ Len(r) = Len(rest) + Len(ps)
         /\ \A i \in 1..Len(rest) : r[i] = rest[i]
         /\ \A i \in 1..Len(ps) : r[Len(rest) + i] = ps[i]
    <3> HIDE DEF rest, ps
    <3>1. QED
      BY <2>7, <2>8, JoinIs
  <2>11. Splits(m, a, s, c)
    <3> HIDE DEF w, r, whole, rest, pa, ps, front
    <3>1. Len(w) = Len(front) + Len(r)
      BY <1>1, <2>6, <2>8, <2>9, <2>10
    <3>2. \A i \in 1..Len(front) : w[i].text = front[i].text
      BY <1>1, <2>6, <2>9, <2>10
    <3>3. ASSUME NEW i \in 1..Len(r) PROVE w[Len(front) + i].text = r[i].text
      <4>1. CASE i <= Len(rest)
        <5>1. i \in 1..Len(rest) /\ Len(front) + i \in 1..Len(whole)
          BY <1>1, <2>6, <2>9, <2>10, <4>1
        <5>2. QED
          BY <2>6, <2>9, <2>10, <5>1
      <4>2. CASE ~(i <= Len(rest))
        <5>1. PICK j \in 1..Len(ps) : i = Len(rest) + j
          <6>1. i - Len(rest) \in 1..Len(ps) /\ i = Len(rest) + (i - Len(rest))
            BY <2>10, <4>2
          <6>2. QED
            BY <6>1
        <5>2. Len(front) + i = Len(whole) + j /\ j \in 1..Len(pa)
          BY <1>1, <2>6, <2>8, <2>9, <2>10, <5>1
        <5>3. w[Len(front) + i] = pa[j] /\ r[i] = ps[j]
          BY <2>9, <2>10, <5>1, <5>2
        <5>4. QED
          BY <2>8, <5>1, <5>3
      <4>3. QED
        BY <4>1, <4>2
    <3>4. Raw(m, <<a, c>>) = w /\ Raw(m, <<s, c>>) = r
      BY <2>5 DEF w, r
    <3>5. QED
      BY <3>1, <3>2, <3>3, <3>4 DEF Splits, front
  <2>12. QED
    BY <2>2, <2>11
<1>3. e \notin bad
  BY <1>2
<1>4. QED
  BY <1>0, <1>3

(***************************************************************************)
(* Texts that are kept: the place of each is the number of those up to it. *)
(***************************************************************************)
LEMMA KeptIsFinite ==
  ASSUME NEW all, NEW n \in Nat
  PROVE  IsFiniteSet(Kept(all, n)) /\ Cardinality(Kept(all, n)) \in Nat
<1>1. IsFiniteSet(1..n)
  BY FS_Interval
<1>2. Kept(all, n) \subseteq 1..n
  BY DEF Kept
<1>3. IsFiniteSet(Kept(all, n))
  BY <1>1, <1>2, FS_Subset
<1>4. QED
  BY <1>3, FS_CardinalityType

LEMMA KeptGrows ==
  ASSUME NEW all, NEW n \in Nat
  PROVE  /\ Kept(all, 0) = {} /\ Cardinality(Kept(all, 0)) = 0
         /\ all[n + 1].text = Blank => Kept(all, n + 1) = Kept(all, n)
         /\ all[n + 1].text # Blank =>
              /\ Kept(all, n + 1) = Kept(all, n) \cup {n + 1}
              /\ Cardinality(Kept(all, n + 1)) = Cardinality(Kept(all, n)) + 1
<1>1. Kept(all, 0) = {}
  BY DEF Kept
<1>2. 1..(n + 1) = 1..n \cup {n + 1} /\ n + 1 \notin 1..n
  OBVIOUS
<1>3. all[n + 1].text = Blank => Kept(all, n + 1) = Kept(all, n)
  BY <1>2 DEF Kept
<1>4. all[n + 1].text # Blank => Kept(all, n + 1) = Kept(all, n) \cup {n + 1}
  BY <1>2 DEF Kept
<1>5. n + 1 \notin Kept(all, n)
  BY <1>2 DEF Kept
<1>6. QED
  BY <1>1, <1>3, <1>4, <1>5, KeptIsFinite, FS_EmptySet, FS_AddElement

LEMMA KeptPlace ==
  ASSUME NEW all, NEW n \in Nat, NEW i \in Kept(all, n)
  PROVE  Cardinality(Kept(all, i)) \in 1..Cardinality(Kept(all, n))
<1>1. i \in 1..n /\ i \in Nat
  BY DEF Kept
<1>2. Kept(all, i) \subseteq Kept(all, n) /\ i \in Kept(all, i)
  BY <1>1 DEF Kept
<1>3. Cardinality(Kept(all, i)) <= Cardinality(Kept(all, n))
  BY <1>2, KeptIsFinite, FS_Subset
<1>4. Cardinality(Kept(all, i)) # 0
  BY <1>1, <1>2, KeptIsFinite, FS_EmptySet
<1>5. QED
  BY <1>1, <1>3, <1>4, KeptIsFinite

\* cs are the chunks of the first n that Docling returned.
Copied(cs, all, n) ==
  /\ Len(cs) = Cardinality(Kept(all, n))
  /\ \A i \in Kept(all, n) : cs[Cardinality(Kept(all, i))].raw.text = all[i].text

LEMMA NothingCopied ==
  ASSUME NEW all PROVE Copied(<<>>, all, 0)
BY KeptGrows DEF Copied

LEMMA BlankSkipped ==
  ASSUME NEW cs, NEW all, NEW n \in Nat, Copied(cs, all, n), all[n + 1].text = Blank
  PROVE  Copied(cs, all, n + 1)
BY KeptGrows DEF Copied

LEMMA OneMoreCopied ==
  ASSUME NEW cs, AreChunks(cs), NEW all, NEW n \in Nat, Copied(cs, all, n),
         all[n + 1].text # Blank, NEW chunk, chunk.raw.text = all[n + 1].text
  PROVE  Copied(Append(cs, chunk), all, n + 1)
<1> DEFINE k == Cardinality(Kept(all, n))
           more == Append(cs, chunk)
<1>1. PICK S : cs \in Seq(S)
  BY DEF AreChunks
<1>2. Len(cs) = k /\ k \in Nat
  BY KeptIsFinite DEF Copied
<1>3. /\ Len(more) = k + 1 /\ more[k + 1] = chunk
      /\ \A j \in 1..k : more[j] = cs[j]
  <2> HIDE DEF k
  <2>1. QED
    BY <1>1, <1>2
<1>4. /\ Kept(all, n + 1) = Kept(all, n) \cup {n + 1}
      /\ Cardinality(Kept(all, n + 1)) = k + 1
  BY KeptGrows
<1> HIDE DEF more
<1>5. ASSUME NEW i \in Kept(all, n + 1)
      PROVE  more[Cardinality(Kept(all, i))].raw.text = all[i].text
  <2>1. CASE i = n + 1
    <3>1. Cardinality(Kept(all, i)) = k + 1
      BY <1>4, <2>1
    <3>2. more[Cardinality(Kept(all, i))] = chunk
      BY <1>3, <3>1
    <3>3. QED
      BY <2>1, <3>2
  <2>2. CASE i # n + 1
    <3>1. i \in Kept(all, n)
      BY <1>4, <2>2
    <3>2. Cardinality(Kept(all, i)) \in 1..k
      BY <3>1, KeptPlace
    <3>3. more[Cardinality(Kept(all, i))] = cs[Cardinality(Kept(all, i))]
      BY <1>3, <3>2
    <3>4. QED
      BY <3>1, <3>3 DEF Copied
  <2>3. QED
    BY <2>1, <2>2
<1>6. Len(more) = Cardinality(Kept(all, n + 1))
  BY <1>3, <1>4
<1>7. QED
  BY <1>5, <1>6 DEF Copied, more

(***************************************************************************)
(* The batches of pages follow one another.                                *)
(***************************************************************************)
Follow(rs, s, b) ==
  /\ rs \in Seq(Nat \X Nat)
  /\ rs = <<>> => s = b + 1
  /\ rs # <<>> => rs[1][1] = s
  /\ \A k \in 1..Len(rs) :
       /\ rs[k][1] <= rs[k][2] + 1 /\ rs[k][2] <= b
       /\ IF k = Len(rs) THEN rs[k][2] = b ELSE rs[k + 1][1] = rs[k][2] + 1

LEMMA FollowOn ==
  ASSUME NEW rs, NEW s \in Nat, NEW b \in Nat, Follow(rs, s, b), rs # <<>>
  PROVE  \E e \in Nat : /\ Head(rs) = <<s, e>> /\ s <= e + 1 /\ e <= b
                        /\ Follow(Tail(rs), e + 1, b)
<1> DEFINE e == rs[1][2]
           t == Tail(rs)
<1>1. /\ rs \in Seq(Nat \X Nat) /\ rs[1][1] = s
      /\ \A k \in 1..Len(rs) :
           /\ rs[k][1] <= rs[k][2] + 1 /\ rs[k][2] <= b
           /\ IF k = Len(rs) THEN rs[k][2] = b ELSE rs[k + 1][1] = rs[k][2] + 1
  BY DEF Follow
<1>2. /\ Len(rs) \in Nat \ {0} /\ 1 \in 1..Len(rs) /\ Head(rs) = rs[1] /\ rs[1] \in Nat \X Nat
      /\ t \in Seq(Nat \X Nat) /\ Len(t) = Len(rs) - 1
      /\ \A k \in 1..Len(t) : t[k] = rs[k + 1]
  BY <1>1
<1> HIDE DEF t
<1>3. e \in Nat /\ Head(rs) = <<s, e>> /\ s <= e + 1 /\ e <= b
  <2>1. e \in Nat /\ rs[1] = <<s, e>>
    BY <1>1, <1>2
  <2>2. s <= e + 1 /\ e <= b
    BY <1>1, <1>2
  <2>3. QED
    BY <1>2, <2>1, <2>2
<1>4. t = <<>> <=> Len(t) = 0
  BY <1>2
<1>5. t = <<>> => e + 1 = b + 1
  <2>1. t = <<>> => Len(rs) = 1
    BY <1>2, <1>4
  <2>2. QED
    BY <1>1, <1>2, <2>1
<1>6. t # <<>> => t[1][1] = e + 1
  <2>1. t # <<>> => Len(rs) # 1 /\ 1 \in 1..Len(t)
    BY <1>2, <1>4
  <2>2. QED
    BY <1>1, <1>2, <2>1
<1>7. ASSUME NEW k \in 1..Len(t)
      PROVE  /\ t[k][1] <= t[k][2] + 1 /\ t[k][2] <= b
             /\ IF k = Len(t) THEN t[k][2] = b ELSE t[k + 1][1] = t[k][2] + 1
  <2>1. k + 1 \in 1..Len(rs) /\ t[k] = rs[k + 1] /\ (k + 1 = Len(rs) <=> k = Len(t))
    BY <1>2
  <2>2. CASE k = Len(t)
    BY <1>1, <2>1, <2>2
  <2>3. CASE k # Len(t)
    <3>1. k + 1 \in 1..Len(t)
      BY <1>2, <2>3
    <3>2. t[k + 1] = rs[(k + 1) + 1]
      BY <1>2, <3>1
    <3>3. QED
      BY <1>1, <2>1, <2>3, <3>2
  <2>4. QED
    BY <2>2, <2>3
<1>8. Follow(t, e + 1, b)
  BY <1>2, <1>5, <1>6, <1>7 DEF Follow
<1>9. QED
  BY <1>3, <1>8 DEF t

LEMMA ProductGrows ==
  ASSUME NEW x \in Nat, NEW y \in Nat, NEW n \in Nat, x >= y
  PROVE  x * n >= y * n
<1>1. x * n = y * n + (x - y) * n /\ (x - y) * n >= 0
  OBVIOUS
<1>2. QED
  BY <1>1

\* No page is in two batches, and none is left out.
LEMMA BatchesFollow ==
  ASSUME NEW a \in Nat \ {0}, NEW b \in Nat, a <= b, NEW n \in Nat \ {0}
  PROVE  Follow(Batches(a, b, n), a, b)
<1> DEFINE q == (b - a) \div n
           start(k) == a + (k - 1) * n
           bs == Batches(a, b, n)
<1>1. /\ q \in Nat /\ q * n <= b - a /\ b - a < (q + 1) * n
  OBVIOUS
<1>2. bs = [k \in 1..(q + 1) |-> <<start(k), BatchEnd(start(k), b, n)>>]
  BY DEF Batches
<1> HIDE DEF q
<1>3. ASSUME NEW k \in 1..(q + 1)
      PROVE  /\ start(k) \in Nat /\ BatchEnd(start(k), b, n) \in Nat
             /\ start(k) <= BatchEnd(start(k), b, n) + 1
             /\ BatchEnd(start(k), b, n) <= b
             /\ IF k = q + 1 THEN BatchEnd(start(k), b, n) = b
                ELSE start(k + 1) = BatchEnd(start(k), b, n) + 1
  <2>1. k - 1 \in Nat /\ (k - 1) * n \in Nat /\ (k - 1) * n <= q * n
    BY <1>1, ProductGrows
  <2>2. k * n = (k - 1) * n + n /\ start(k + 1) = start(k) + n
    BY <1>1
  <2>3. start(k) \in Nat /\ start(k) <= b
    BY <1>1, <2>1
  <2>4. CASE k = q + 1
    <3>1. start(k) + n - 1 >= b
      BY <1>1, <2>1, <2>2, <2>4
    <3> HIDE DEF start
    <3>2. BatchEnd(start(k), b, n) = b
      BY <2>3, <3>1 DEF BatchEnd, Least
    <3>3. QED
      BY <2>3, <2>4, <3>2
  <2>5. CASE k # q + 1
    <3>1. k * n <= q * n
      BY <1>1, <2>5, ProductGrows
    <3>2. start(k) + n - 1 < b
      BY <1>1, <2>1, <2>2, <3>1
    <3> HIDE DEF start
    <3>3. BatchEnd(start(k), b, n) = start(k) + n - 1
      BY <2>3, <3>2 DEF BatchEnd, Least
    <3>4. QED
      BY <2>2, <2>3, <2>5, <3>2, <3>3
  <2>6. QED
    BY <2>4, <2>5
<1> HIDE DEF start
<1>4. bs \in Seq(Nat \X Nat) /\ Len(bs) = q + 1 /\ bs # <<>>
  <2> DEFINE batch(k) == <<start(k), BatchEnd(start(k), b, n)>>
  <2>1. \A k \in 1..(q + 1) : batch(k) \in Nat \X Nat
    BY <1>3
  <2>2. bs = [k \in 1..(q + 1) |-> batch(k)] /\ q + 1 \in Nat \ {0}
    BY <1>1, <1>2
  <2> HIDE DEF batch, bs
  <2>3. bs \in Seq(Nat \X Nat) /\ Len(bs) = q + 1
    BY <2>1, <2>2
  <2>4. QED
    BY <2>2, <2>3
<1>5. \A k \in 1..(q + 1) : bs[k][1] = start(k) /\ bs[k][2] = BatchEnd(start(k), b, n)
  BY <1>2
<1>6. bs[1][1] = a
  <2>1. start(1) = a
    BY DEF start
  <2>2. QED
    BY <1>1, <1>5, <2>1
<1>7. ASSUME NEW k \in 1..Len(bs)
      PROVE  /\ bs[k][1] <= bs[k][2] + 1 /\ bs[k][2] <= b
             /\ IF k = Len(bs) THEN bs[k][2] = b ELSE bs[k + 1][1] = bs[k][2] + 1
  <2> HIDE DEF bs
  <2>1. k \in 1..(q + 1)
    BY <1>4
  <2>2. k # q + 1 => k + 1 \in 1..(q + 1)
    BY <1>1, <2>1
  <2>3. QED
    BY <1>3, <1>4, <1>5, <2>1, <2>2
<1> HIDE DEF bs
<1>8. QED
  BY <1>4, <1>6, <1>7 DEF Follow, bs

(***************************************************************************)
(* The inductive invariant of the output: what is converted is what is     *)
(* kept and what is still to be normalized, of the pages before the next   *)
(* batch.                                                                  *)
(***************************************************************************)
First == Wanted(manual, options)[1]
Last  == Wanted(manual, options)[2]
All   == Raw(manual, <<First, Last>>)

RangeOK ==
  /\ Wanted(manual, options) = <<First, Last>>
  /\ First \in Nat \ {0} /\ Last \in 0..Len(manual.pages) /\ First <= Last + 1

\* The first n chunks that Docling returned are normalized, raws are the next ones.
Pending(n) ==
  /\ n \in Nat /\ raws \in Seq(RawChunks)
  /\ \A i \in 1..Len(raws) : raws[i].text = All[n + i].text
  /\ Copied(chunks, All, n)

ConvertInv ==
  stage = "convert" =>
    /\ lines = <<>> /\ RangeOK
    /\ \E s \in Nat, n \in Nat :
         /\ First <= s /\ s <= Last + 1 /\ Follow(ranges, s, Last)
         /\ n + Len(raws) = Len(Raw(manual, <<First, s - 1>>))
         /\ Pending(n)

WriteInv ==
  stage = "write" =>
    /\ RangeOK /\ Copied(chunks, All, Len(All))
    /\ Len(lines) <= Len(chunks) /\ \A i \in 1..Len(lines) : lines[i] = chunks[i]

Clean == ranges = <<>> /\ raws = <<>> /\ chunks = <<>> /\ lines = <<>>

WholeInv ==
  /\ stage \in {"idle", "convert", "write"} /\ manual \in Manuals
  /\ AreChunks(chunks) /\ AreChunks(lines)
  /\ stage = "idle" => Clean
  /\ ConvertInv /\ WriteInv /\ OutputIsWhole

LEMMA EmptyAreChunks == AreChunks(<<>>)
<1>1. <<>> \in Seq({})
  OBVIOUS
<1>2. QED
  BY <1>1 DEF AreChunks

\* An error or an interruption leaves no part of a conversion.
LEMMA FailIsWhole ==
  ASSUME WholeInv, Fail, manual' \in Manuals, OutputIsWhole'
  PROVE  WholeInv'
BY EmptyAreChunks DEF WholeInv, Fail, Clean, ConvertInv, WriteInv

LEMMA RangesFollow ==
  ASSUME NEW m \in Manuals, NEW o \in [range : PageRanges(m), batch : BatchSizes \cup {NoBatch}],
         ~Refused(m, o), NEW a, NEW b, a = Wanted(m, o)[1], b = Wanted(m, o)[2]
  PROVE  /\ Wanted(m, o) = <<a, b>>
         /\ a \in Nat \ {0} /\ b \in 0..Len(m.pages) /\ a <= b + 1
         /\ Follow(Ranges(m, o), a, b)
<1> DEFINE N == Len(m.pages)
<1>1. N \in Nat /\ m.kind \in {"pdf", "docx"}
  BY ManualIs
<1>2. o.range \in PageRanges(m) /\ o.batch \in BatchSizes \cup {NoBatch}
  OBVIOUS
<1> HIDE DEF N
<1>3. Wanted(m, o) = <<a, b>> /\ a \in Nat \ {0} /\ b \in 0..N /\ a <= b + 1
      /\ (a <= b \/ o.batch = NoBatch)
  <2>1. CASE m.kind = "pdf"
    <3>1. Wanted(m, o) = <<1, N>> \/ Wanted(m, o) \in (1..(N + 1)) \X (1..(N + 1))
      BY <1>2 DEF Wanted, PageRanges, N
    <3>2. ~(N = 0 \/ Wanted(m, o)[1] < 1 \/ Wanted(m, o)[2] < Wanted(m, o)[1] \/ Wanted(m, o)[2] > N)
      BY <2>1 DEF Refused, N
    <3>3. Wanted(m, o) = <<a, b>> /\ a \in Nat /\ b \in Nat
      BY <1>1, <3>1
    <3>4. ~(a < 1) /\ ~(b < a) /\ ~(b > N)
      BY <3>2
    <3>5. QED
      BY <1>1, <3>3, <3>4
  <2>2. CASE m.kind # "pdf"
    <3>1. Wanted(m, o) = <<1, N>> /\ o.batch = NoBatch
      BY <2>2 DEF Refused, Wanted, N
    <3>2. QED
      BY <1>1, <3>1
  <2>3. QED
    BY <2>1, <2>2
<1>4. CASE o.batch = NoBatch
  <2>1. Ranges(m, o) = <<<<a, b>>>>
    BY <1>3, <1>4 DEF Ranges
  <2> DEFINE rs == <<<<a, b>>>>
  <2>2. rs \in Seq(Nat \X Nat) /\ Len(rs) = 1 /\ rs[1][1] = a /\ rs[1][2] = b /\ rs # <<>>
    BY <1>1, <1>3
  <2> HIDE DEF rs
  <2>3. \A k \in 1..Len(rs) : k = 1
    BY <2>2
  <2>4. b <= b
    BY <1>1, <1>3
  <2>5. Follow(rs, a, b)
    BY <1>3, <2>2, <2>3, <2>4 DEF Follow
  <2>6. QED
    BY <1>3, <2>1, <2>5 DEF rs, N
<1>5. CASE o.batch # NoBatch
  <2>1. o.batch \in Nat \ {0} /\ a <= b
    BY <1>2, <1>3, <1>5, IngestionAssumption
  <2>2. Ranges(m, o) = Batches(a, b, o.batch)
    BY <1>3, <1>5 DEF Ranges
  <2>3. Follow(Batches(a, b, o.batch), a, b)
    BY <1>1, <1>3, <2>1, BatchesFollow
  <2>4. QED
    BY <1>3, <2>2, <2>3 DEF N
<1>6. QED
  BY <1>4, <1>5

\* The command starts with nothing converted.
LEMMA StartIsWhole ==
  ASSUME WholeInv, Start
  PROVE  WholeInv'
<1> DEFINE Begin(m, r, b) ==
             /\ manual' = m /\ options' = [range |-> r, batch |-> b]
             /\ IF Refused(m, options')
                THEN Fail
                ELSE /\ ranges' = Ranges(m, options') /\ stage' = "convert"
                     /\ UNCHANGED <<raws, chunks, counts, lines>>
<1>0. PICK m \in Manuals : \E r \in PageRanges(m), b \in BatchSizes \cup {NoBatch} : Begin(m, r, b)
  BY DEF Start
<1>1. PICK r \in PageRanges(m), b \in BatchSizes \cup {NoBatch} : Begin(m, r, b)
  BY <1>0
<1>2. OutputIsWhole'
  BY DEF WholeInv, Start, OutputIsWhole
<1>3. CASE Refused(m, options')
  BY <1>1, <1>2, <1>3, FailIsWhole
<1>4. CASE ~Refused(m, options')
  <2>1. options' \in [range : PageRanges(m), batch : BatchSizes \cup {NoBatch}]
    BY <1>1
  <2>2. First' = Wanted(m, options')[1] /\ Last' = Wanted(m, options')[2]
    BY <1>1 DEF First, Last
  <2>3. /\ Wanted(m, options') = <<First', Last'>>
        /\ First' \in Nat \ {0} /\ Last' \in 0..Len(m.pages) /\ First' <= Last' + 1
        /\ Follow(Ranges(m, options'), First', Last')
    BY <1>4, <2>1, <2>2, RangesFollow
  <2>4. RangeOK' /\ Follow(ranges', First', Last')
    BY <1>1, <1>4, <2>3 DEF RangeOK
  <2>5. raws' = <<>> /\ chunks' = <<>> /\ lines' = <<>> /\ stage' = "convert"
    BY <1>1, <1>4 DEF Start, WholeInv, Clean
  <2>6. Raw(manual, <<First, First - 1>>)' = <<>>
    <3>1. PICK a \in Nat \ {0}, z \in 0..Len(m.pages) : a = First' /\ z = Last' /\ a <= z + 1
      BY <2>3
    <3>2. a - 1 \in 0..Len(m.pages) /\ a - 1 < a
      BY <3>1, ManualIs
    <3>3. Raw(m, <<a, a - 1>>) = <<>>
      BY <3>2, RawGrows
    <3>4. QED
      BY <1>1, <3>1, <3>3
  <2>7. Pending(0)'
    <3>1. Copied(<<>>, All', 0)
      BY NothingCopied
    <3>2. QED
      BY <2>5, <3>1 DEF Pending
  <2>8. 0 + Len(raws') = Len(Raw(manual, <<First, First - 1>>)')
    BY <2>5, <2>6
  <2>9. First' \in Nat /\ 0 \in Nat /\ First' <= First' /\ First' <= Last' + 1
    <3>1. PICK a \in Nat \ {0} : a = First' /\ a <= Last' + 1
      BY <2>3
    <3>2. a <= a /\ a \in Nat
      OBVIOUS
    <3>3. QED
      BY <3>1, <3>2
  <2>10. ConvertInv'
    BY <2>4, <2>5, <2>7, <2>8, <2>9 DEF ConvertInv
  <2>11. QED
    BY <1>1, <1>2, <2>5, <2>10, EmptyAreChunks DEF WholeInv, WriteInv, Clean
<1>5. QED
  BY <1>3, <1>4

\* What a step that leaves the manual and the command line leaves.
LEMMA SameManual ==
  ASSUME UNCHANGED <<manual, options>>
  PROVE  First' = First /\ Last' = Last /\ All' = All /\ (RangeOK' <=> RangeOK)
<1>1. First' = First /\ Last' = Last
  BY DEF First, Last
<1>2. QED
  BY <1>1 DEF All, RangeOK

LEMMA AllIs ==
  ASSUME manual \in Manuals, RangeOK
  PROVE  All \in Seq(RawChunks) /\ Len(All) \in Nat
<1>1. All \in Seq(RawChunks)
  BY RawIsSeq DEF All, RangeOK
<1>2. QED
  BY <1>1

\* A batch converted gives the chunks that come next.
LEMMA ConvertIsWhole ==
  ASSUME WholeInv, Convert
  PROVE  WholeInv'
<1>1. /\ stage = "convert" /\ raws = <<>> /\ ranges # <<>> /\ raws' = Raw(manual, Head(ranges))
      /\ ranges' = Tail(ranges) /\ UNCHANGED <<stage, manual, options, chunks, lines, output>>
  BY DEF Convert
<1>2. /\ manual \in Manuals /\ lines = <<>> /\ RangeOK
  BY <1>1 DEF WholeInv, ConvertInv
<1>3. PICK s \in Nat, n \in Nat :
        /\ First <= s /\ s <= Last + 1 /\ Follow(ranges, s, Last)
        /\ n + Len(raws) = Len(Raw(manual, <<First, s - 1>>)) /\ Pending(n)
  BY <1>1 DEF WholeInv, ConvertInv
<1>4. PICK a \in Nat \ {0}, b \in 0..Len(manual.pages) : a = First /\ b = Last /\ a <= b + 1
  BY <1>2 DEF RangeOK
<1>5. Len(manual.pages) \in Nat /\ b \in Nat /\ b <= Len(manual.pages)
  BY <1>2, <1>4, ManualIs
<1>6. PICK e \in Nat : /\ Head(ranges) = <<s, e>> /\ s <= e + 1 /\ e <= b
                       /\ Follow(Tail(ranges), e + 1, b)
  BY <1>1, <1>3, <1>4, <1>5, FollowOn
<1>7. Splits(manual, a, s, e)
  <2>1. a <= s /\ e <= Len(manual.pages)
    BY <1>3, <1>4, <1>5, <1>6
  <2>2. QED
    BY <1>2, <1>6, <2>1, RawSplits
<1>8. Splits(manual, a, e + 1, b)
  <2>1. a <= e + 1 /\ e + 1 \in Nat /\ e + 1 <= b + 1
    BY <1>3, <1>4, <1>5, <1>6
  <2>2. QED
    BY <1>2, <1>5, <2>1, RawSplits
<1> DEFINE front == Raw(manual, <<a, s - 1>>)
           now   == Raw(manual, <<a, e>>)
           new   == Raw(manual, <<s, e>>)
<1>9. /\ Len(now) = Len(front) + Len(new)
      /\ \A i \in 1..Len(new) : now[Len(front) + i].text = new[i].text
  BY <1>7 DEF Splits
<1>10. \A i \in 1..Len(now) : All[i].text = now[i].text
  <2>1. (e + 1) - 1 = e
    OBVIOUS
  <2>2. All = Raw(manual, <<a, b>>)
    BY <1>4 DEF All
  <2>3. QED
    BY <1>8, <2>1, <2>2 DEF Splits
<1>11. n = Len(front)
  <2>1. Len(raws) = 0
    BY <1>1
  <2> HIDE DEF front
  <2>2. QED
    BY <1>3, <1>4, <2>1 DEF front
<1>12. new \in Seq(RawChunks) /\ Len(new) \in Nat
  <2>1. e \in 0..Len(manual.pages) /\ s \in Nat \ {0}
    BY <1>3, <1>4, <1>5, <1>6
  <2>2. new \in Seq(RawChunks)
    BY <1>2, <2>1, RawIsSeq
  <2>3. QED
    BY <2>2
<1> HIDE DEF front, now, new
<1>13. raws' = new
  BY <1>1, <1>6 DEF new
<1>14. /\ First' = a /\ Last' = b /\ All' = All /\ RangeOK'
  BY <1>1, <1>2, <1>4, SameManual
<1>15. Pending(n)'
  <2>1. \A i \in 1..Len(new) : new[i].text = All[n + i].text
    <3> TAKE i \in 1..Len(new)
    <3>1. n + i \in 1..Len(now) /\ now[n + i].text = new[i].text
      BY <1>9, <1>11, <1>12
    <3>2. QED
      BY <1>10, <3>1
  <2>2. Copied(chunks', All', n)
    BY <1>1, <1>3, <1>14 DEF Pending
  <2>3. QED
    BY <1>12, <1>13, <1>14, <2>1, <2>2 DEF Pending
<1>16. n + Len(raws') = Len(Raw(manual, <<First, (e + 1) - 1>>)')
  <2>1. (e + 1) - 1 = e
    OBVIOUS
  <2>2. Raw(manual, <<First, (e + 1) - 1>>)' = now
    BY <1>1, <1>14, <2>1 DEF now
  <2>3. QED
    BY <1>9, <1>11, <1>13, <2>2
<1>17. e + 1 \in Nat /\ First' <= e + 1 /\ e + 1 <= Last' + 1 /\ Follow(ranges', e + 1, Last')
  <2>1. a <= e + 1 /\ e + 1 <= b + 1
    BY <1>3, <1>4, <1>5, <1>6
  <2>2. QED
    BY <1>1, <1>6, <1>14, <2>1
<1>18. ConvertInv'
  <2>1. lines' = <<>>
    BY <1>1, <1>2
  <2>2. QED
    BY <1>14, <1>15, <1>16, <1>17, <2>1 DEF ConvertInv
<1>19. QED
  BY <1>1, <1>18 DEF WholeInv, WriteInv, OutputIsWhole

\* A chunk normalized is kept unless it is blank.
LEMMA NormalizeIsWhole ==
  ASSUME WholeInv, Normalize
  PROVE  WholeInv'
<1> DEFINE raw == Head(raws)
           more(c) == Append(chunks, [raw |-> raw, occurrence |-> c])
<1>1. /\ stage = "convert" /\ raws # <<>> /\ raws' = Tail(raws)
      /\ UNCHANGED <<stage, manual, options, ranges, lines, output>>
      /\ IF raw.text = Blank THEN chunks' = chunks ELSE \E c : chunks' = more(c)
  BY DEF Normalize
<1>2. /\ manual \in Manuals /\ lines = <<>> /\ RangeOK /\ AreChunks(chunks)
  BY <1>1 DEF WholeInv, ConvertInv
<1>3. PICK s \in Nat, n \in Nat :
        /\ First <= s /\ s <= Last + 1 /\ Follow(ranges, s, Last)
        /\ n + Len(raws) = Len(Raw(manual, <<First, s - 1>>)) /\ Pending(n)
  BY <1>1 DEF WholeInv, ConvertInv
<1>4. /\ raws \in Seq(RawChunks) /\ Copied(chunks, All, n)
      /\ \A i \in 1..Len(raws) : raws[i].text = All[n + i].text
  BY <1>3 DEF Pending
<1>5. /\ Len(raws) \in Nat \ {0} /\ raw = raws[1]
      /\ raws' \in Seq(RawChunks) /\ Len(raws') = Len(raws) - 1
      /\ \A i \in 1..Len(raws') : raws'[i] = raws[i + 1]
  BY <1>1, <1>4
<1> HIDE DEF raw
<1>6. raw.text = All[n + 1].text
  BY <1>4, <1>5
<1>7. Copied(chunks', All, n + 1) /\ AreChunks(chunks')
  <2>1. CASE raw.text = Blank
    <3>1. chunks' = chunks
      BY <1>1, <2>1
    <3>2. QED
      BY <1>2, <1>4, <1>6, <2>1, <3>1, BlankSkipped
  <2>2. CASE raw.text # Blank
    <3>1. PICK c : chunks' = more(c)
      BY <1>1, <2>2
    <3> DEFINE chunk == [raw |-> raw, occurrence |-> c]
    <3>2. chunk.raw.text = All[n + 1].text
      BY <1>6
    <3> HIDE DEF chunk
    <3>3. chunks' = Append(chunks, chunk)
      BY <3>1 DEF chunk
    <3>4. Copied(chunks', All, n + 1)
      BY <1>2, <1>4, <1>6, <2>2, <3>2, <3>3, OneMoreCopied
    <3>5. AreChunks(chunks')
      <4>1. PICK S : chunks \in Seq(S)
        BY <1>2 DEF AreChunks
      <4>2. chunks \in Seq(S \cup {chunk})
        BY <4>1, SeqDef
      <4>3. chunks' \in Seq(S \cup {chunk})
        BY <3>3, <4>2
      <4>4. QED
        BY <4>3 DEF AreChunks
    <3>6. QED
      BY <3>4, <3>5
  <2>3. QED
    BY <2>1, <2>2
<1>8. First' = First /\ Last' = Last /\ All' = All /\ RangeOK'
  BY <1>1, <1>2, SameManual
<1>9. Pending(n + 1)'
  <2>1. \A i \in 1..Len(raws') : raws'[i].text = All[(n + 1) + i].text
    <3> TAKE i \in 1..Len(raws')
    <3>1. i + 1 \in 1..Len(raws) /\ n + (i + 1) = (n + 1) + i
      BY <1>5
    <3>2. raws'[i].text = All[n + (i + 1)].text
      BY <1>4, <1>5, <3>1
    <3>3. QED
      BY <3>1, <3>2
  <2>2. n + 1 \in Nat
    OBVIOUS
  <2>3. QED
    BY <1>5, <1>7, <1>8, <2>1, <2>2 DEF Pending
<1>10. (n + 1) + Len(raws') = Len(Raw(manual, <<First, s - 1>>)')
  <2>1. (n + 1) + Len(raws') = n + Len(raws)
    BY <1>5
  <2>2. QED
    BY <1>1, <1>3, <1>8, <2>1
<1>11. ConvertInv'
  <2>1. n + 1 \in Nat /\ lines' = <<>> /\ ranges' = ranges
    BY <1>1, <1>2
  <2>2. QED
    BY <1>3, <1>8, <1>9, <1>10, <2>1 DEF ConvertInv
<1>12. QED
  BY <1>1, <1>7, <1>11 DEF WholeInv, WriteInv, OutputIsWhole

\* What is written is everything.
LEMMA ConvertedIsWhole ==
  ASSUME WholeInv, Converted
  PROVE  WholeInv'
<1>1. /\ stage = "convert" /\ raws = <<>> /\ ranges = <<>> /\ UNCHANGED <<manual, options, output>>
  BY DEF Converted
<1>2. manual' \in Manuals /\ OutputIsWhole'
  BY <1>1 DEF WholeInv, OutputIsWhole
<1>3. CASE Fail
  BY <1>2, <1>3, FailIsWhole
<1>4. CASE ~Fail
  <2>1. stage' = "write" /\ UNCHANGED <<ranges, raws, chunks, lines>>
    BY <1>4 DEF Converted
  <2>2. /\ manual \in Manuals /\ lines = <<>> /\ RangeOK /\ AreChunks(chunks) /\ AreChunks(lines)
    BY <1>1 DEF WholeInv, ConvertInv
  <2>3. PICK s \in Nat, n \in Nat :
          /\ Follow(ranges, s, Last)
          /\ n + Len(raws) = Len(Raw(manual, <<First, s - 1>>)) /\ Pending(n)
    BY <1>1 DEF WholeInv, ConvertInv
  <2>4. s - 1 = Last
    <3>1. s = Last + 1 /\ Last \in Nat
      <4>1. PICK b \in 0..Len(manual.pages) : b = Last
        BY <2>2 DEF RangeOK
      <4>2. b \in Nat
        BY <2>2, ManualIs
      <4>3. QED
        BY <1>1, <2>3, <4>1, <4>2 DEF Follow
    <3>2. QED
      BY <3>1
  <2>5. n = Len(All)
    <3>1. Len(raws) = 0
      BY <1>1
    <3>2. QED
      BY <2>3, <2>4, <3>1 DEF All
  <2>6. Copied(chunks, All, Len(All))
    BY <2>3, <2>5 DEF Pending
  <2>7. All' = All /\ RangeOK'
    BY <1>1, <2>2, SameManual
  <2>8. Len(lines) <= Len(chunks) /\ \A i \in 1..Len(lines) : lines[i] = chunks[i]
    <3>1. PICK S : chunks \in Seq(S)
      BY <2>2 DEF AreChunks
    <3>2. Len(chunks) \in Nat /\ Len(lines) = 0
      BY <2>2, <3>1
    <3>3. QED
      BY <3>2
  <2>9. WriteInv'
    BY <2>1, <2>6, <2>7, <2>8 DEF WriteInv
  <2>10. QED
    BY <1>2, <2>1, <2>2, <2>9 DEF WholeInv, ConvertInv
<1>5. QED
  BY <1>3, <1>4

LEMMA WriteLineIsWhole ==
  ASSUME WholeInv, WriteLine
  PROVE  WholeInv'
<1> DEFINE line == chunks[Len(lines) + 1]
<1>1. /\ stage = "write" /\ Len(lines) < Len(chunks) /\ lines' = Append(lines, line)
      /\ UNCHANGED <<stage, manual, options, ranges, raws, chunks, output>>
  BY DEF WriteLine
<1>2. /\ AreChunks(chunks) /\ AreChunks(lines)
      /\ RangeOK /\ Copied(chunks, All, Len(All))
      /\ \A i \in 1..Len(lines) : lines[i] = chunks[i]
  BY <1>1 DEF WholeInv, WriteInv
<1>3. PICK S : lines \in Seq(S)
  BY <1>2 DEF AreChunks
<1>4. Len(chunks) \in Nat
  <2>1. PICK C : chunks \in Seq(C)
    BY <1>2 DEF AreChunks
  <2>2. QED
    BY <2>1
<1>5. /\ lines' \in Seq(S \cup {line}) /\ Len(lines) \in Nat /\ Len(lines') = Len(lines) + 1
      /\ lines'[Len(lines) + 1] = line /\ \A i \in 1..Len(lines) : lines'[i] = lines[i]
  <2> HIDE DEF line
  <2>1. lines \in Seq(S \cup {line})
    BY <1>3, SeqDef
  <2>2. QED
    BY <1>1, <2>1
<1>6. AreChunks(lines')
  BY <1>5 DEF AreChunks
<1>7. Len(lines') <= Len(chunks)
  BY <1>1, <1>4, <1>5
<1>8. \A i \in 1..Len(lines') : lines'[i] = chunks[i]
  BY <1>2, <1>5
<1>9. All' = All /\ RangeOK'
  BY <1>1, <1>2, SameManual
<1>10. WriteInv'
  BY <1>1, <1>2, <1>7, <1>8, <1>9 DEF WriteInv
<1>11. QED
  BY <1>1, <1>6, <1>10 DEF WholeInv, ConvertInv, OutputIsWhole

\* The rename puts all of it in the place of the file.
LEMMA ReplaceIsWhole ==
  ASSUME WholeInv, Replace
  PROVE  WholeInv'
<1>1. /\ stage = "write" /\ Len(lines) = Len(chunks) /\ Fail
      /\ output' = [manual |-> manual, range |-> Wanted(manual, options), chunks |-> lines]
      /\ UNCHANGED <<manual, options>>
  BY DEF Replace
<1>2. /\ manual \in Manuals /\ RangeOK /\ Copied(chunks, All, Len(All)) /\ AreChunks(chunks)
      /\ \A i \in 1..Len(lines) : lines[i] = chunks[i]
  BY <1>1 DEF WholeInv, WriteInv
<1>3. /\ output'.manual = manual /\ output'.range = <<First, Last>> /\ output'.chunks = lines
  BY <1>1, <1>2 DEF RangeOK
<1>4. Raw(output'.manual, output'.range) = All
  BY <1>3 DEF All
<1>5. Len(All) \in Nat
  BY <1>2, AllIs
<1>6. Len(lines) = Cardinality(Kept(All, Len(All)))
  BY <1>1, <1>2 DEF Copied
<1>7. ASSUME NEW i \in Kept(All, Len(All))
      PROVE  lines[Cardinality(Kept(All, i))].raw.text = All[i].text
  <2>1. Cardinality(Kept(All, i)) \in 1..Len(lines)
    BY <1>5, <1>6, KeptPlace
  <2>2. QED
    BY <1>2, <2>1 DEF Copied
<1>8. OutputIsWhole'
  BY <1>3, <1>4, <1>6, <1>7 DEF OutputIsWhole
<1>9. QED
  BY <1>1, <1>2, <1>8, FailIsWhole

LEMMA InterruptedIsWhole ==
  ASSUME WholeInv, Interrupted
  PROVE  WholeInv'
<1>1. Fail /\ UNCHANGED <<manual, output>>
  BY DEF Interrupted
<1>2. manual' \in Manuals /\ OutputIsWhole'
  BY <1>1 DEF WholeInv, OutputIsWhole
<1>3. QED
  BY <1>1, <1>2, FailIsWhole

\* What a conversion has and what it will write agree with the pages, through every
\* batch, error and interruption.
THEOREM WholeInvariant == IngestSpec => []WholeInv
<1>1. IngestInit => WholeInv
  BY EmptyAreChunks DEF IngestInit, WholeInv, Clean, ConvertInv, WriteInv, OutputIsWhole
<1>2. WholeInv /\ [IngestNext]_ingestVars => WholeInv'
  <2> SUFFICES ASSUME WholeInv, [IngestNext]_ingestVars PROVE WholeInv'
    OBVIOUS
  <2>1. CASE UNCHANGED ingestVars
    <3>1. UNCHANGED <<stage, manual, options, ranges, raws, chunks, lines, output>>
      BY <2>1 DEF ingestVars
    <3>2. First' = First /\ Last' = Last /\ All' = All /\ (RangeOK' <=> RangeOK)
      BY <3>1, SameManual
    <3>3. \A n : Pending(n)' <=> Pending(n)
      BY <3>1, <3>2 DEF Pending
    <3>4. ConvertInv'
      BY <3>1, <3>2, <3>3 DEF WholeInv, ConvertInv
    <3>5. WriteInv'
      BY <3>1, <3>2 DEF WholeInv, WriteInv
    <3>6. QED
      BY <3>1, <3>4, <3>5 DEF WholeInv, Clean, OutputIsWhole
  <2>2. QED
    BY <2>1, StartIsWhole, ConvertIsWhole, NormalizeIsWhole, ConvertedIsWhole,
       WriteLineIsWhole, ReplaceIsWhole, InterruptedIsWhole DEF IngestNext
<1>3. QED
  BY <1>1, <1>2, PTL DEF IngestSpec

\* The chunk file has every text of the pages asked for, in order and once, for any
\* manual, page range and batch size (pipeline.py:62-81, documents.py:68-85).
THEOREM OutputAlwaysWhole == IngestSpec => []OutputIsWhole
<1>1. WholeInv => OutputIsWhole
  BY DEF WholeInv
<1>2. QED
  BY <1>1, WholeInvariant, PTL
=============================================================================
