---------------------------- MODULE ServiceProofs ----------------------------
(***************************************************************************)
(* What the model catalog hands out, and what ingestion stores.  The       *)
(* arguments: only the holder of the lock has a refresh under way, so what *)
(* it fetched is not older than the snapshot (Ordered); the chunks made so *)
(* far are a chain that reaches up to start (Chunked); sorted rows are in  *)
(* the order of the texts (Vectored).                                      *)
(***************************************************************************)
EXTENDS ModelServices, FiniteSetTheorems, SequenceTheorems, TLAPS

(* The catalog *)

\* Versions and times can be compared.
Dated ==
  /\ now \in Nat /\ refreshed \in Nat /\ published \in Nat
  /\ snapshot \in Nat \cup {None}
  /\ queue \in Seq(Callers)
  /\ phase \in [Callers -> Phase]
  /\ fetched \in [Callers -> Nat \cup {None}]
  /\ DOMAIN reply = Callers

\* The cached list is one that was published; its clock is that of its refresh.
Cached == snapshot # None => snapshot <= published /\ cachedAt = refreshed

\* A refresh under way is the lock holder's, and what it fetched is not older
\* than the snapshot.
Ordered(c) ==
  /\ phase[c] \in {"fetching", "answered"} => Holds(c)
  /\ phase[c] = "answered" =>
       /\ fetched[c] # None /\ fetched[c] <= published
       /\ snapshot # None => snapshot <= fetched[c]

\* What a caller was given: not newer than the cached list, and either stale,
\* young or just stored.
Given(c) ==
  reply[c] # None =>
    /\ snapshot # None /\ reply[c].version \in Nat /\ reply[c].version <= snapshot
    /\ ~reply[c].stale => reply[c].age < Ttl \/ reply[c].age = 0

CatalogInv == Dated /\ Cached /\ \A c \in Callers : Ordered(c) /\ Given(c)

-----------------------------------------------------------------------------
\* Before any request nothing is cached, fetched or given.
LEMMA CatalogInitially == Init => CatalogInv
  BY CatalogAssumption
  DEF Init, ProviderInit, CatalogInit, CatalogInv, Dated, Cached, Ordered, Given, Phase

\* A request joins the queue behind the holder (Ask).
LEMMA AskOrders ==
  ASSUME CatalogInv, NEW c \in Callers, Ask(c)
  PROVE  CatalogInv'
  <1>1. queue' \in Seq(Callers) /\ \A d \in Callers : Holds(d) => Holds(d)'
    BY DEF CatalogInv, Dated, Ask, Holds
  <1> QED
    BY <1>1 DEF CatalogInv, Dated, Cached, Ordered, Given, Ask, Phase, provider

\* The holder of the lock is alone with its refresh.
LEMMA OneRefresh ==
  ASSUME CatalogInv, NEW c \in Callers, Holds(c)
  PROVE  \A d \in Callers : d # c => phase[d] \notin {"fetching", "answered"}
  BY DEF CatalogInv, Ordered, Holds

\* A fresh snapshot is handed out as such (get_snapshot).
LEMMA ServeCachedOrders ==
  ASSUME CatalogInv, NEW c \in Callers, ServeCached(c)
  PROVE  CatalogInv'
  <1>1. /\ Holds(c) /\ snapshot # None /\ now - cachedAt < Ttl /\ cachedAt = refreshed
        /\ queue' = Tail(queue) /\ queue' \in Seq(Callers)
    BY DEF CatalogInv, Dated, Cached, ServeCached, Fresh, Returns, Released, Holds
  <1>2. \A d \in Callers : d # c => phase[d] \notin {"fetching", "answered"}
    BY <1>1, OneRefresh
  <1>3. /\ phase' = [phase EXCEPT ![c] = "served"]
        /\ reply' = [reply EXCEPT ![c] = [version |-> snapshot, stale |-> FALSE,
                                          age |-> now - refreshed]]
        /\ UNCHANGED <<up, published, now, snapshot, cachedAt, fetched, decided, refreshed>>
    BY DEF ServeCached, Returns, provider
  <1>4. Dated' /\ Cached'
    BY <1>1, <1>3 DEF CatalogInv, Dated, Cached, Phase
  <1>5. ASSUME NEW d \in Callers PROVE Ordered(d)' /\ Given(d)'
    BY <1>1, <1>2, <1>3 DEF CatalogInv, Dated, Ordered, Given, Phase
  <1> QED
    BY <1>4, <1>5 DEF CatalogInv

\* A refresh begins (get_snapshot).
LEMMA StartFetchOrders ==
  ASSUME CatalogInv, NEW c \in Callers, StartFetch(c)
  PROVE  CatalogInv'
  BY DEF CatalogInv, Dated, Cached, Ordered, Given, StartFetch, Holds, Phase, provider

\* It is answered with the list published now (_fetch).
LEMMA FetchAnsweredOrders ==
  ASSUME CatalogInv, NEW c \in Callers, FetchAnswered(c)
  PROVE  CatalogInv'
  <1>1. None \notin Nat
    BY CatalogAssumption
  <1> QED
    BY <1>1 DEF CatalogInv, Dated, Cached, Ordered, Given, FetchAnswered, Holds, Phase, provider

\* The fetched list replaces the snapshot, which is not newer (get_snapshot).
LEMMA StoreSnapshotOrders ==
  ASSUME CatalogInv, NEW c \in Callers, StoreSnapshot(c)
  PROVE  CatalogInv'
  <1>1. /\ Holds(c) /\ fetched[c] \in Nat /\ fetched[c] <= published
        /\ snapshot # None => snapshot <= fetched[c]
        /\ queue' = Tail(queue) /\ queue' \in Seq(Callers)
    BY DEF CatalogInv, Dated, Ordered, StoreSnapshot, Returns, Released, Holds
  <1>2. \A d \in Callers : d # c => phase[d] \notin {"fetching", "answered"}
    BY <1>1, OneRefresh
  <1>3. /\ phase' = [phase EXCEPT ![c] = "served"]
        /\ reply' = [reply EXCEPT ![c] = [version |-> fetched[c], stale |-> FALSE,
                                          age |-> now - now]]
        /\ snapshot' = fetched[c] /\ cachedAt' = now /\ refreshed' = now
        /\ fetched' = [fetched EXCEPT ![c] = None]
        /\ UNCHANGED <<up, published, now, decided>>
    BY DEF StoreSnapshot, Returns, provider
  <1>4. snapshot' # None
    BY <1>1, <1>3, CatalogAssumption
  <1>5. Dated' /\ Cached'
    BY <1>1, <1>3 DEF CatalogInv, Dated, Cached, Phase
  <1>6. ASSUME NEW d \in Callers PROVE Ordered(d)' /\ Given(d)'
    <2>1. Ordered(d)'
      BY <1>1, <1>2, <1>3 DEF CatalogInv, Dated, Ordered, Phase
    <2>2. CASE d = c
      BY <1>1, <1>3, <1>4, <2>1, <2>2 DEF CatalogInv, Dated, Given
    <2>3. CASE d # c
      BY <1>1, <1>3, <1>4, <2>1, <2>3 DEF CatalogInv, Dated, Given
    <2> QED
      BY <2>2, <2>3
  <1> QED
    BY <1>5, <1>6 DEF CatalogInv

\* The last good list is handed out as stale, or nothing is (get_snapshot).
LEMMA FetchFailsOrders ==
  ASSUME CatalogInv, NEW c \in Callers, FetchFails(c)
  PROVE  CatalogInv'
  <1>1. /\ Holds(c) /\ queue' = Tail(queue) /\ queue' \in Seq(Callers)
    <2>1. Holds(c)
      BY DEF CatalogInv, Ordered, FetchFails
    <2>2. queue' = Tail(queue)
      BY DEF FetchFails, Returns, Released
    <2> QED
      BY <2>1, <2>2 DEF CatalogInv, Dated, Holds
  <1>2. \A d \in Callers : d # c => phase[d] \notin {"fetching", "answered"}
    BY <1>1, OneRefresh
  <1>3. UNCHANGED <<up, published, now, snapshot, cachedAt, fetched, decided, refreshed>>
    BY DEF FetchFails, provider
  <1>4. CASE snapshot # None /\ Returns(c, snapshot, TRUE, refreshed)
    <2>1. /\ phase' = [phase EXCEPT ![c] = "served"]
          /\ reply' = [reply EXCEPT ![c] = [version |-> snapshot, stale |-> TRUE,
                                            age |-> now - refreshed]]
      BY <1>4 DEF Returns
    <2>2. Dated' /\ Cached'
      BY <1>1, <1>3, <2>1 DEF CatalogInv, Dated, Cached, Phase
    <2>3. ASSUME NEW d \in Callers PROVE Ordered(d)' /\ Given(d)'
      BY <1>1, <1>2, <1>3, <1>4, <2>1 DEF CatalogInv, Dated, Ordered, Given, Phase
    <2> QED
      BY <2>2, <2>3 DEF CatalogInv
  <1>5. CASE snapshot = None /\ Refused(c)
    BY <1>1, <1>2, <1>3, <1>5 DEF CatalogInv, Dated, Cached, Ordered, Given, Refused, Phase
  <1> QED
    BY <1>4, <1>5 DEF FetchFails

\* A run is created from what was given (resolve_model_decision).
LEMMA ResolveOrders ==
  ASSUME CatalogInv, NEW c \in Callers, ResolveModelDecision(c)
  PROVE  CatalogInv'
  BY DEF CatalogInv, Dated, Cached, Ordered, Given, ResolveModelDecision, Holds, Phase, provider

\* Ingestion, the provider and the clock leave the catalog as it is.
LEMMA OthersOrder ==
  ASSUME CatalogInv,
         \/ KnowledgeNext /\ UNCHANGED catalog
         \/ ProviderStep /\ UNCHANGED <<catalog, knowledge>>
         \/ Tick
         \/ UNCHANGED vars
  PROVE  CatalogInv'
  <1>1. CASE KnowledgeNext /\ UNCHANGED catalog
    <2>1. UNCHANGED provider
      BY <1>1 DEF KnowledgeNext, CreateKnowledgeBase, IngestDocument, ChunkText,
                  ComputeEmbeddings, StoreDocument
    <2> QED
      BY <1>1, <2>1 DEF CatalogInv, Dated, Cached, Ordered, Given, Holds, catalog, provider
  <1>2. CASE ProviderStep /\ UNCHANGED <<catalog, knowledge>>
    <2>1. published' \in Nat /\ published <= published'
      BY <1>2 DEF CatalogInv, Dated, ProviderStep, Outage, Recover, Publish
    <2>2. Dated' /\ Cached'
      BY <1>2, <2>1 DEF CatalogInv, Dated, Cached, catalog
    <2>3. ASSUME NEW c \in Callers PROVE Ordered(c)' /\ Given(c)'
      BY <1>2, <2>1 DEF CatalogInv, Dated, Ordered, Given, Holds, catalog
    <2> QED
      BY <2>2, <2>3 DEF CatalogInv
  <1>3. CASE Tick
    BY <1>3 DEF CatalogInv, Dated, Cached, Ordered, Given, Holds, Tick, provider
  <1>4. CASE UNCHANGED vars
    BY <1>4 DEF CatalogInv, Dated, Cached, Ordered, Given, Holds, vars, catalog, provider
  <1> QED
    BY <1>1, <1>2, <1>3, <1>4

LEMMA CatalogStep == CatalogInv /\ [Next]_vars => CatalogInv'
  <1> SUFFICES ASSUME CatalogInv, [Next]_vars PROVE CatalogInv'
    OBVIOUS
  <1>1. CASE \E c \in Callers : Ask(c) \/ Progress(c)
    BY <1>1, AskOrders, ServeCachedOrders, StartFetchOrders, FetchAnsweredOrders,
       StoreSnapshotOrders, FetchFailsOrders, ResolveOrders DEF Progress
  <1>2. CASE ~ \E c \in Callers : Ask(c) \/ Progress(c)
    BY <1>2, OthersOrder DEF Next, CatalogNext
  <1> QED
    BY <1>1, <1>2

\* NeverGoesBack for any number of requests, lists and ticks: refreshes never
\* overtake one another (get_snapshot holds its lock across _fetch).
THEOREM CatalogNeverGoesBack == Spec => []NeverGoesBack
  <1>1. CatalogInv => NeverGoesBack
    BY DEF CatalogInv, Given, NeverGoesBack
  <1> QED
    BY <1>1, CatalogInitially, CatalogStep, PTL DEF Spec

\* StaleIsMarked for any number of requests, lists and ticks: what is handed out
\* as fresh is (get_snapshot does not restart its clock when a refresh fails).
THEOREM StaleIsAlwaysMarked == Spec => []StaleIsMarked
  <1>1. CatalogInv => StaleIsMarked
    BY DEF CatalogInv, Given, StaleIsMarked
  <1> QED
    BY <1>1, CatalogInitially, CatalogStep, PTL DEF Spec
-----------------------------------------------------------------------------
(* The embedding call *)

\* As many rows as texts, each with an index of its own, come in every order;
\* sorted, they are in the order of the texts.
LEMMA RowsSorted ==
  ASSUME NEW n \in Nat, NEW rows \in Answers(n), Len(rows) = n
  PROVE  ByIndex(rows) = [i \in 1 .. n |-> i]
  <1>1. rows \in [1 .. n -> 1 .. n]
    <2>1. PICK k \in 0 .. n : rows \in [1 .. k -> 1 .. n]
      BY DEF Answers
    <2>2. rows \in Seq(1 .. n) /\ Len(rows) = k
      BY <2>1, k \in Nat, SeqDef, LenProperties
    <2> QED
      BY <2>1, <2>2
  <1>2. \A i, j \in 1 .. n : rows[i] = rows[j] => i = j
    BY <1>1 DEF Answers
  <1> DEFINE given == {rows[k] : k \in DOMAIN rows}
  <1>3. given = 1 .. n
    <2>1. rows \in Surjection(1 .. n, given) /\ rows \in Injection(1 .. n, given)
      BY <1>1, <1>2 DEF Surjection, Injection, IsInjective
    <2>2. IsFiniteSet(1 .. n) /\ given \subseteq 1 .. n
      BY <1>1, FS_Interval
    <2> HIDE DEF given
    <2>3. Cardinality(given) = Cardinality(1 .. n)
      BY <2>1, <2>2, FS_Surjection
    <2> QED
      BY <2>2, <2>3, FS_Subset
  <1>4. ASSUME NEW r \in 1 .. n
        PROVE  Cardinality({s \in 1 .. n : s < r}) = r - 1
    <2>1. {s \in 1 .. n : s < r} = 1 .. r - 1
      OBVIOUS
    <2>2. r - 1 \in Nat /\ Cardinality(1 .. r - 1) = r - 1
      BY FS_Interval
    <2> QED
      BY <2>1, <2>2
  <1>5. \A i \in 1 .. n : (CHOOSE r \in 1 .. n : Cardinality({s \in 1 .. n : s < r}) = i - 1) = i
    BY <1>4
  <1>6. DOMAIN rows = 1 .. n
    BY <1>1
  <1>7. ByIndex(rows) = [i \in DOMAIN rows |->
                           CHOOSE r \in given : Cardinality({s \in given : s < r}) = i - 1]
    BY DEF ByIndex
  <1> HIDE DEF given
  <1> QED
    BY <1>3, <1>5, <1>6, <1>7
-----------------------------------------------------------------------------
(* Ingestion *)

\* Neighbouring chunks share overlap characters, and each starts further on.
Chain(chunks, overlap) ==
  \A i \in 1 .. Len(chunks) - 1 :
    /\ chunks[i + 1].start + overlap = chunks[i].end
    /\ chunks[i].start < chunks[i + 1].start

Covers(chunks, overlap, n) ==
  /\ chunks # << >>
  /\ chunks[1].start = 0 /\ chunks[Len(chunks)].end = n
  /\ Chain(chunks, overlap)

\* A base has usable parameters, and before there is one nothing happens.
Sized ==
  /\ base # Nil => /\ base.size \in Nat /\ base.overlap \in Nat
                   /\ base.overlap < base.size
  /\ DOMAIN stage = Writers /\ DOMAIN document = Writers
  /\ length \in [Writers -> Nat] /\ start \in [Writers -> Nat]
  /\ pieces \in [Writers -> Seq(Piece)]
  /\ base = Nil => \A w \in Writers : stage[w] = "idle" /\ document[w] = Nil

\* The chunks made so far reach up to start, where the next one overlaps them.
Chunked(w) ==
  /\ Len(pieces[w]) <= length[w]
  /\ stage[w] = "chunk" =>
       /\ start[w] < length[w] /\ Len(pieces[w]) <= start[w]
       /\ Chain(pieces[w], base.overlap)
       /\ pieces[w] = << >> => start[w] = 0
       /\ pieces[w] # << >> => LET last == pieces[w][Len(pieces[w])]
                               IN /\ pieces[w][1].start = 0
                                  /\ last.end = start[w] + base.overlap
                                  /\ last.start < start[w]
  /\ stage[w] \in {"embed", "store"} /\ length[w] > 0 =>
       Covers(pieces[w], base.overlap, length[w])

Stored(w) ==
  document[w] # Nil /\ document[w].length > 0 =>
    Covers(document[w].chunks, base.overlap, document[w].length)

KnowledgeInv == Sized /\ \A w \in Writers : Chunked(w) /\ Stored(w)

\* A chain stays one when a chunk is appended that fits its last.
LEMMA ChainGrows ==
  ASSUME NEW chunks \in Seq(Piece), NEW piece \in Piece, NEW overlap \in Nat,
         Chain(chunks, overlap),
         chunks # << >> => /\ chunks[Len(chunks)].end = piece.start + overlap
                           /\ chunks[Len(chunks)].start < piece.start
  PROVE  Chain(Append(chunks, piece), overlap)
  <1> SUFFICES ASSUME NEW i \in 1 .. Len(chunks)
               PROVE  /\ Append(chunks, piece)[i + 1].start + overlap = Append(chunks, piece)[i].end
                      /\ Append(chunks, piece)[i].start < Append(chunks, piece)[i + 1].start
    BY DEF Chain
  <1>1. Append(chunks, piece)[i] = chunks[i]
    OBVIOUS
  <1>2. CASE i = Len(chunks)
    <2>1. Append(chunks, piece)[i + 1] = piece /\ chunks # << >>
      BY <1>2
    <2> QED
      BY <1>1, <1>2, <2>1 DEF Piece
  <1>3. CASE i # Len(chunks)
    <2>1. i \in 1 .. Len(chunks) - 1 /\ Append(chunks, piece)[i + 1] = chunks[i + 1]
      BY <1>3
    <2> QED
      BY <1>1, <2>1 DEF Chain
  <1> QED
    BY <1>2, <1>3

LEMMA KnowledgeInitially == Init => KnowledgeInv
  <1> SUFFICES ASSUME Init PROVE KnowledgeInv
    OBVIOUS
  <1>1. Sized
    BY DEF Init, KnowledgeInit, Sized
  <1>2. ASSUME NEW w \in Writers PROVE Chunked(w) /\ Stored(w)
    BY DEF Init, KnowledgeInit, Chunked, Stored
  <1> QED
    BY <1>1, <1>2 DEF KnowledgeInv

\* A writer nobody touches stays as it is.
LEMMA Untouched ==
  ASSUME NEW w \in Writers, Chunked(w), Stored(w), base' = base,
         stage'[w] = stage[w], length'[w] = length[w], start'[w] = start[w],
         pieces'[w] = pieces[w], document'[w] = document[w]
  PROVE  Chunked(w)' /\ Stored(w)'
  BY DEF Chunked, Stored

\* The endpoint accepts an overlap that is smaller than the chunks.
LEMMA CreateKeeps ==
  ASSUME KnowledgeInv, CreateKnowledgeBase
  PROVE  KnowledgeInv'
  <1>1. /\ base = Nil
        /\ base'.size \in Nat /\ base'.overlap \in Nat /\ base'.overlap < base'.size
        /\ UNCHANGED <<stage, length, start, pieces, document>>
    BY KnowledgeAssumption DEF CreateKnowledgeBase
  <1>2. Sized'
    BY <1>1 DEF KnowledgeInv, Sized
  <1>3. ASSUME NEW w \in Writers PROVE Chunked(w)' /\ Stored(w)'
    BY <1>1 DEF KnowledgeInv, Sized, Chunked, Stored
  <1> QED
    BY <1>2, <1>3 DEF KnowledgeInv

\* A document is begun with no chunks, at its start (ingest_document).
LEMMA IngestKeeps ==
  ASSUME KnowledgeInv, NEW w \in Writers, IngestDocument(w)
  PROVE  KnowledgeInv'
  <1> USE DEF IngestDocument
  <1>1. PICK n \in Lengths :
          /\ length' = [length EXCEPT ![w] = n]
          /\ stage' = [stage EXCEPT ![w] = IF n = 0 THEN "embed" ELSE "chunk"]
    OBVIOUS
  <1>2. n \in Nat
    BY KnowledgeAssumption
  <1>3. Sized'
    BY <1>1, <1>2 DEF KnowledgeInv, Sized
  <1>4. Chunked(w)' /\ Stored(w)'
    <2>1. /\ length'[w] = n /\ stage'[w] = (IF n = 0 THEN "embed" ELSE "chunk")
          /\ start'[w] = 0 /\ pieces'[w] = << >>
          /\ document'[w] = document[w] /\ base' = base
      BY <1>1 DEF KnowledgeInv, Sized
    <2>2. Chunked(w)'
      BY <1>2, <2>1 DEF Chunked, Chain
    <2>3. Stored(w)'
      BY <2>1 DEF KnowledgeInv, Stored
    <2> QED
      BY <2>2, <2>3
  <1>5. ASSUME NEW d \in Writers, d # w PROVE Chunked(d)' /\ Stored(d)'
    BY <1>1, <1>5, Untouched DEF KnowledgeInv, Sized
  <1> QED
    BY <1>3, <1>4, <1>5 DEF KnowledgeInv

\* A round of the loop adds a chunk that fits the last one, and starts the next
\* further on, or ends with the text (chunk_text).
LEMMA ChunkKeeps ==
  ASSUME KnowledgeInv, NEW w \in Writers, ChunkText(w)
  PROVE  KnowledgeInv'
  <1> DEFINE end   == IF start[w] + base.size < length[w] THEN start[w] + base.size ELSE length[w]
             piece == [start |-> start[w], end |-> end]
  <1>1. /\ stage[w] = "chunk" /\ base # Nil
        /\ base.size \in Nat /\ base.overlap \in Nat /\ base.overlap < base.size
        /\ start[w] \in Nat /\ length[w] \in Nat /\ pieces[w] \in Seq(Piece)
    BY DEF KnowledgeInv, Sized, ChunkText
  <1>2. Chunked(w) /\ Stored(w)
    BY DEF KnowledgeInv
  <1>3. /\ piece \in Piece /\ end \in Nat
        /\ piece.start = start[w] /\ piece.end = end
    BY <1>1 DEF Piece
  <1>4. pieces' = [pieces EXCEPT ![w] = Append(pieces[w], piece)]
        /\ UNCHANGED <<base, length, document>>
    BY DEF ChunkText
  <1>5. Chain(Append(pieces[w], piece), base.overlap)
    <2>1. pieces[w] # << >> => /\ pieces[w][Len(pieces[w])].end = piece.start + base.overlap
                               /\ pieces[w][Len(pieces[w])].start < piece.start
      BY <1>1, <1>2, <1>3 DEF Chunked
    <2>2. Chain(pieces[w], base.overlap)
      BY <1>1, <1>2 DEF Chunked
    <2> HIDE DEF piece
    <2> QED
      BY <1>1, <1>3, <2>1, <2>2, ChainGrows
  <1>6. /\ Append(pieces[w], piece) \in Seq(Piece)
        /\ Append(pieces[w], piece) # << >>
        /\ Len(Append(pieces[w], piece)) = Len(pieces[w]) + 1
        /\ Append(pieces[w], piece)[Len(Append(pieces[w], piece))] = piece
        /\ Append(pieces[w], piece)[1].start = 0
    <2>1. pieces[w] # << >> => pieces[w][1].start = 0 /\ Len(pieces[w]) > 0
      BY <1>1, <1>2 DEF Chunked
    <2>2. pieces[w] = << >> => piece.start = 0
      BY <1>1, <1>2, <1>3 DEF Chunked
    <2> HIDE DEF piece
    <2> QED
      BY <1>1, <1>3, <2>1, <2>2
  <1>7. start[w] < length[w] /\ Len(pieces[w]) <= start[w] /\ Len(pieces[w]) \in Nat
    BY <1>1, <1>2 DEF Chunked
  <1>8. pieces'[w] = Append(pieces[w], piece) /\ pieces' \in [Writers -> Seq(Piece)]
    BY <1>4, <1>6 DEF KnowledgeInv, Sized
  <1>9. CASE end >= length[w]
    <2>1. stage' = [stage EXCEPT ![w] = "embed"] /\ UNCHANGED start
      BY <1>9 DEF ChunkText
    <2>2. stage'[w] = "embed" /\ end = length[w]
      BY <1>1, <1>9, <2>1 DEF KnowledgeInv, Sized
    <2>3. Sized'
      BY <1>1, <1>4, <1>8, <2>1 DEF KnowledgeInv, Sized
    <2>4. Chunked(w)'
      <3> HIDE DEF piece, end
      <3> QED
        BY <1>1, <1>3, <1>4, <1>5, <1>6, <1>7, <1>8, <2>2 DEF Chunked, Covers
    <2>5. Stored(w)'
      BY <1>2, <1>4 DEF Stored
    <2>6. ASSUME NEW d \in Writers, d # w PROVE Chunked(d)' /\ Stored(d)'
      BY <1>4, <2>1, <2>6, Untouched DEF KnowledgeInv, Sized
    <2> QED
      BY <2>3, <2>4, <2>5, <2>6 DEF KnowledgeInv
  <1>10. CASE ~(end >= length[w])
    <2>1. end = start[w] + base.size /\ end < length[w] /\ ~(end < base.overlap)
      BY <1>1, <1>10
    <2>2. start' = [start EXCEPT ![w] = end - base.overlap] /\ UNCHANGED stage
      BY <1>10, <2>1 DEF ChunkText
    <2>3. /\ start'[w] = end - base.overlap /\ stage'[w] = "chunk"
          /\ start'[w] \in Nat /\ start' \in [Writers -> Nat]
      <3> HIDE DEF end
      <3> QED
        BY <1>1, <1>3, <2>1, <2>2 DEF KnowledgeInv, Sized
    <2>4. start[w] < start'[w] /\ start'[w] < length[w] /\ end = start'[w] + base.overlap
      <3> HIDE DEF end
      <3> QED
        BY <1>1, <1>3, <1>7, <2>1, <2>3
    <2>5. Sized'
      BY <1>1, <1>4, <1>8, <2>2, <2>3 DEF KnowledgeInv, Sized
    <2>6. Chunked(w)'
      <3> HIDE DEF piece, end
      <3>1. length'[w] = length[w] /\ base' = base /\ stage'[w] = "chunk"
        BY <1>4, <2>3
      <3>2. Len(pieces'[w]) <= start'[w] /\ Len(pieces'[w]) <= length'[w]
        BY <1>1, <1>6, <1>7, <1>8, <2>3, <2>4, <3>1
      <3>3. Chain(pieces'[w], base'.overlap) /\ pieces'[w] # << >>
        BY <1>5, <1>6, <1>8, <3>1
      <3>4. pieces'[w][1].start = 0 /\ pieces'[w][Len(pieces'[w])] = piece
        BY <1>6, <1>8
      <3>5. piece.end = start'[w] + base'.overlap /\ piece.start < start'[w]
        BY <1>3, <2>4, <3>1
      <3>6. start'[w] < length'[w]
        BY <2>4, <3>1
      <3> QED
        BY <3>1, <3>2, <3>3, <3>4, <3>5, <3>6 DEF Chunked, Chain
    <2>7. Stored(w)'
      BY <1>2, <1>4 DEF Stored
    <2>8. ASSUME NEW d \in Writers, d # w PROVE Chunked(d)' /\ Stored(d)'
      BY <1>4, <2>2, <2>8, Untouched DEF KnowledgeInv, Sized
    <2> QED
      BY <2>5, <2>6, <2>7, <2>8 DEF KnowledgeInv
  <1> QED
    BY <1>9, <1>10

\* The vectors come, or the ingestion fails; the chunks stay (compute_embeddings).
LEMMA EmbedKeeps ==
  ASSUME KnowledgeInv, NEW w \in Writers, ComputeEmbeddings(w)
  PROVE  KnowledgeInv'
  <1>1. /\ stage[w] = "embed" /\ base # Nil
        /\ \/ stage' = [stage EXCEPT ![w] = "store"]
           \/ stage' = [stage EXCEPT ![w] = "failed"]
        /\ UNCHANGED <<base, length, start, pieces, document>>
    BY DEF ComputeEmbeddings, Fail, KnowledgeInv, Sized
  <1>2. Sized'
    BY <1>1 DEF KnowledgeInv, Sized
  <1>3. Chunked(w)' /\ Stored(w)'
    BY <1>1 DEF KnowledgeInv, Sized, Chunked, Stored
  <1>4. ASSUME NEW d \in Writers, d # w PROVE Chunked(d)' /\ Stored(d)'
    BY <1>1, <1>4, Untouched DEF KnowledgeInv, Sized
  <1> QED
    BY <1>2, <1>3, <1>4 DEF KnowledgeInv

\* What is stored is what was cut (ingest_document).
LEMMA StoreKeeps ==
  ASSUME KnowledgeInv, NEW w \in Writers, StoreDocument(w)
  PROVE  KnowledgeInv'
  <1>1. /\ stage[w] = "store" /\ base # Nil
        /\ UNCHANGED <<base, length, start, pieces>>
    BY DEF StoreDocument, KnowledgeInv, Sized
  <1>2. /\ \A d \in Writers : d # w => stage'[d] = stage[d] /\ document'[d] = document[d]
        /\ stage'[w] \in {"idle", "failed"}
        /\ DOMAIN stage' = Writers /\ DOMAIN document' = Writers
        /\ \/ document'[w] = document[w]
           \/ document'[w] = [length |-> length[w], count |-> Len(pieces[w]),
                              chunks |-> pieces[w], vectors |-> vectors[w]]
    BY DEF StoreDocument, Fail, KnowledgeInv, Sized
  <1>3. Sized'
    BY <1>1, <1>2 DEF KnowledgeInv, Sized
  <1>4. Chunked(w)' /\ Stored(w)'
    BY <1>1, <1>2 DEF KnowledgeInv, Chunked, Stored
  <1>5. ASSUME NEW d \in Writers, d # w PROVE Chunked(d)' /\ Stored(d)'
    BY <1>1, <1>2, <1>5, Untouched DEF KnowledgeInv
  <1> QED
    BY <1>3, <1>4, <1>5 DEF KnowledgeInv

LEMMA KnowledgeStep == KnowledgeInv /\ [Next]_vars => KnowledgeInv'
  <1> SUFFICES ASSUME KnowledgeInv, [Next]_vars PROVE KnowledgeInv'
    OBVIOUS
  <1>1. CASE KnowledgeNext
    BY <1>1, CreateKeeps, IngestKeeps, ChunkKeeps, EmbedKeeps, StoreKeeps DEF KnowledgeNext
  <1>2. CASE UNCHANGED knowledge
    BY <1>2 DEF KnowledgeInv, Sized, Chunked, Stored, knowledge
  <1> QED
    BY <1>1, <1>2 DEF Next, vars

\* ChunkingEnds for every text and every size and overlap the endpoint accepts
\* (chunk_text's loop, create_knowledge_base's check).
THEOREM ChunkingAlwaysEnds == Spec => []ChunkingEnds
  <1>1. KnowledgeInv => ChunkingEnds
    BY DEF KnowledgeInv, Chunked, ChunkingEnds
  <1> QED
    BY <1>1, KnowledgeInitially, KnowledgeStep, PTL DEF Spec

\* ChunksCoverText for every text and every size and overlap the endpoint
\* accepts (chunk_text, ingest_document).
THEOREM ChunksAlwaysCoverText == Spec => []ChunksCoverText
  <1>1. KnowledgeInv => ChunksCoverText
    BY DEF KnowledgeInv, Stored, Covers, Chain, ChunksCoverText
  <1> QED
    BY <1>1, KnowledgeInitially, KnowledgeStep, PTL DEF Spec

-----------------------------------------------------------------------------
(* What is stored with the chunks *)

\* The vectors of a document, about to be stored or stored, are those of its
\* chunks; a text is one of those the documents have.
Vectored(w) ==
  /\ stage[w] \in {"chunk", "embed", "store"} => length[w] \in Lengths
  /\ stage[w] = "store" => vectors[w] = [i \in 1 .. Len(pieces[w]) |-> i]
  /\ document[w] # Nil =>
       /\ document[w].count = Len(document[w].chunks)
       /\ document[w].vectors = [i \in DOMAIN document[w].chunks |-> i]

VectorsInv == KnowledgeTypeOK /\ \A w \in Writers : Vectored(w)

\* Numbers in a row are a sequence of numbers.
LEMMA RowIsSeq ==
  ASSUME NEW n \in Nat
  PROVE  [i \in 1 .. n |-> i] \in Seq(Nat)
  BY SeqDef

LEMMA VectorsInitially == Init => VectorsInv
  <1> SUFFICES ASSUME Init PROVE VectorsInv
    OBVIOUS
  <1>1. KnowledgeTypeOK
    BY DEF Init, KnowledgeInit, KnowledgeTypeOK
  <1> QED
    BY <1>1 DEF Init, KnowledgeInit, VectorsInv, Vectored

\* Another writer's step changes nothing of this one's.
LEMMA VectorsUntouched ==
  ASSUME NEW w \in Writers, Vectored(w),
         stage'[w] = stage[w], length'[w] = length[w], pieces'[w] = pieces[w],
         vectors'[w] = vectors[w], document'[w] = document[w]
  PROVE  Vectored(w)'
  BY DEF Vectored

LEMMA IngestVectors ==
  ASSUME VectorsInv, NEW w \in Writers, IngestDocument(w)
  PROVE  VectorsInv'
  <1>1. KnowledgeTypeOK'
    BY DEF VectorsInv, KnowledgeTypeOK, IngestDocument
  <1>2. Vectored(w)'
    BY DEF VectorsInv, KnowledgeTypeOK, Vectored, IngestDocument
  <1>3. ASSUME NEW d \in Writers, d # w PROVE Vectored(d)'
    BY <1>3, VectorsUntouched DEF VectorsInv, KnowledgeTypeOK, IngestDocument
  <1> QED
    BY <1>1, <1>2, <1>3 DEF VectorsInv

LEMMA ChunkVectors ==
  ASSUME VectorsInv, KnowledgeInv', NEW w \in Writers, ChunkText(w)
  PROVE  VectorsInv'
  <1>1. /\ pieces' \in [Writers -> Seq(Piece)] /\ start' \in [Writers -> Nat]
        /\ UNCHANGED <<base, length, vectors, document>>
    <2>1. pieces' = [d \in Writers |-> pieces'[d]] /\ start' = [d \in Writers |-> start'[d]]
      BY DEF VectorsInv, KnowledgeTypeOK, ChunkText
    <2> QED
      BY <2>1 DEF KnowledgeInv, Sized, ChunkText
  <1>2. /\ stage[w] = "chunk" /\ stage'[w] \in {"chunk", "embed"}
        /\ stage' \in [Writers -> {"idle", "chunk", "embed", "store", "failed"}]
        /\ \A d \in Writers : d # w => stage'[d] = stage[d] /\ pieces'[d] = pieces[d]
    BY DEF VectorsInv, KnowledgeTypeOK, ChunkText
  <1>3. KnowledgeTypeOK'
    BY <1>1, <1>2 DEF VectorsInv, KnowledgeTypeOK
  <1>4. Vectored(w)'
    BY <1>1, <1>2 DEF VectorsInv, Vectored
  <1>5. ASSUME NEW d \in Writers, d # w PROVE Vectored(d)'
    BY <1>1, <1>2, <1>5, VectorsUntouched DEF VectorsInv
  <1> QED
    BY <1>3, <1>4, <1>5 DEF VectorsInv

\* A complete answer is sorted; an incomplete one ends the ingestion
\* (compute_embeddings).
LEMMA EmbedVectors ==
  ASSUME VectorsInv, NEW w \in Writers, ComputeEmbeddings(w)
  PROVE  VectorsInv'
  <1> DEFINE n == Len(pieces[w])
  <1>1. n \in Nat /\ pieces[w] \in Seq(Piece)
    BY DEF VectorsInv, KnowledgeTypeOK
  <1>2. UNCHANGED <<base, length, start, pieces, document>> /\ stage[w] = "embed"
    BY DEF ComputeEmbeddings
  <1>3. CASE stage' = [stage EXCEPT ![w] = "failed"] /\ UNCHANGED vectors
    <2>1. KnowledgeTypeOK'
      BY <1>2, <1>3 DEF VectorsInv, KnowledgeTypeOK
    <2>2. Vectored(w)'
      BY <1>2, <1>3 DEF VectorsInv, KnowledgeTypeOK, Vectored
    <2>3. ASSUME NEW d \in Writers, d # w PROVE Vectored(d)'
      BY <1>2, <1>3, <2>3, VectorsUntouched DEF VectorsInv, KnowledgeTypeOK
    <2> QED
      BY <2>1, <2>2, <2>3 DEF VectorsInv
  <1>4. ASSUME NEW rows \in Answers(n), Len(rows) = n,
               vectors' = [vectors EXCEPT ![w] = ByIndex(rows)],
               stage' = [stage EXCEPT ![w] = "store"]
        PROVE  VectorsInv'
    <2> HIDE DEF n
    <2>1. ByIndex(rows) = [i \in 1 .. n |-> i] /\ ByIndex(rows) \in Seq(Nat)
      BY <1>1, <1>4, RowsSorted, RowIsSeq
    <2>2. KnowledgeTypeOK'
      BY <1>2, <1>4, <2>1 DEF VectorsInv, KnowledgeTypeOK
    <2>3. Vectored(w)'
      <3>1. vectors'[w] = [i \in 1 .. Len(pieces[w]) |-> i] /\ stage'[w] = "store"
        BY <1>4, <2>1 DEF VectorsInv, KnowledgeTypeOK, n
      <3> QED
        BY <1>2, <3>1 DEF VectorsInv, Vectored
    <2>4. ASSUME NEW d \in Writers, d # w PROVE Vectored(d)'
      BY <1>2, <1>4, <2>4, VectorsUntouched DEF VectorsInv, KnowledgeTypeOK
    <2> QED
      BY <2>2, <2>3, <2>4 DEF VectorsInv
  <1> QED
    BY <1>3, <1>4 DEF ComputeEmbeddings, Fail

LEMMA StoreVectors ==
  ASSUME VectorsInv, NEW w \in Writers, StoreDocument(w)
  PROVE  VectorsInv'
  <1>1. /\ stage[w] = "store" /\ UNCHANGED <<base, length, start, pieces, vectors>>
        /\ pieces[w] \in Seq(Piece) /\ vectors[w] \in Seq(Nat) /\ length[w] \in Lengths
        /\ vectors[w] = [i \in 1 .. Len(pieces[w]) |-> i]
    BY DEF StoreDocument, VectorsInv, KnowledgeTypeOK, Vectored
  <1> DEFINE new == [length |-> length[w], count |-> Len(pieces[w]),
                     chunks |-> pieces[w], vectors |-> vectors[w]]
  <1>2. new \in [length : Lengths, count : Nat, chunks : Seq(Piece), vectors : Seq(Nat)]
    BY <1>1
  <1>3. /\ stage' \in [Writers -> {"idle", "chunk", "embed", "store", "failed"}]
        /\ stage'[w] \in {"idle", "failed"}
        /\ document' \in {document, [document EXCEPT ![w] = new]}
        /\ \A d \in Writers : d # w => stage'[d] = stage[d]
    BY DEF StoreDocument, Fail, VectorsInv, KnowledgeTypeOK
  <1>4. new.count = Len(new.chunks) /\ new.vectors = [i \in DOMAIN new.chunks |-> i]
    BY <1>1
  <1> HIDE DEF new
  <1>5. KnowledgeTypeOK'
    <2> DEFINE Record == [length : Lengths, count : Nat, chunks : Seq(Piece),
                          vectors : Seq(Nat)]
    <2>1. document \in [Writers -> Record \cup {Nil}] /\ new \in Record
      BY <1>2 DEF VectorsInv, KnowledgeTypeOK
    <2> HIDE DEF Record
    <2>2. document' \in [Writers -> Record \cup {Nil}]
      BY <1>3, <2>1
    <2> QED
      BY <1>1, <1>3, <2>2 DEF VectorsInv, KnowledgeTypeOK, Record
  <1>6. /\ document'[w] \in {document[w], new}
        /\ \A d \in Writers : d # w => document'[d] = document[d]
    BY <1>3 DEF VectorsInv, KnowledgeTypeOK
  <1>7. Vectored(w)'
    BY <1>3, <1>4, <1>6 DEF VectorsInv, Vectored
  <1>8. ASSUME NEW d \in Writers, d # w PROVE Vectored(d)'
    BY <1>1, <1>3, <1>6, <1>8, VectorsUntouched DEF VectorsInv
  <1> QED
    BY <1>5, <1>7, <1>8 DEF VectorsInv

LEMMA VectorsStep == VectorsInv /\ KnowledgeInv' /\ [Next]_vars => VectorsInv'
  <1> SUFFICES ASSUME VectorsInv, KnowledgeInv', [Next]_vars PROVE VectorsInv'
    OBVIOUS
  <1>1. CASE CreateKnowledgeBase
    <2>1. KnowledgeTypeOK'
      BY <1>1 DEF VectorsInv, KnowledgeTypeOK, CreateKnowledgeBase
    <2>2. ASSUME NEW w \in Writers PROVE Vectored(w)'
      BY <1>1, VectorsUntouched DEF VectorsInv, CreateKnowledgeBase
    <2> QED
      BY <2>1, <2>2 DEF VectorsInv
  <1>2. CASE UNCHANGED knowledge
    BY <1>2 DEF VectorsInv, KnowledgeTypeOK, Vectored, knowledge
  <1> QED
    BY <1>1, <1>2, IngestVectors, ChunkVectors, EmbedVectors, StoreVectors
    DEF Next, vars, KnowledgeNext

LEMMA VectorsHold == Spec => []VectorsInv
  BY VectorsInitially, VectorsStep, KnowledgeInitially, KnowledgeStep, PTL DEF Spec

\* VectorsMatchChunks for every text and every answer of the provider (embed's
\* sort, compute_embeddings' count).
THEOREM VectorsAlwaysMatch == Spec => []VectorsMatchChunks
  <1>1. VectorsInv => VectorsMatchChunks
    BY DEF VectorsInv, Vectored, VectorsMatchChunks
  <1> QED
    BY <1>1, VectorsHold, PTL

-----------------------------------------------------------------------------
(* Types of the catalog.  Nobody is twice in the queue of the lock, and only *)
(* requests that wait or refresh are in it.                                  *)

Queued ==
  /\ \A i, j \in DOMAIN queue : queue[i] = queue[j] => i = j
  /\ \A i \in DOMAIN queue : phase[queue[i]] \in {"waiting", "fetching", "answered"}

Reply == [version : Versions, stale : BOOLEAN, age : 0 .. MaxTime]

\* A refresh that was answered has a list, and so has who is served; the clock
\* runs on.
Timed ==
  /\ refreshed <= now
  /\ \A c \in Callers : phase[c] = "answered" => fetched[c] # None
  /\ \A c \in Callers : phase[c] = "served" => reply[c] \in Reply

TypesInv == CatalogTypeOK /\ Queued /\ Timed

LEMMA TypesInitially == Init => TypesInv
  <1> SUFFICES ASSUME Init PROVE TypesInv
    OBVIOUS
  <1>1. 1 \in Versions
    BY ProviderAssumption DEF Versions
  <1>2. CatalogTypeOK
    BY <1>1, CatalogAssumption DEF Init, ProviderInit, CatalogInit, CatalogTypeOK, Phase
  <1> QED
    BY <1>2 DEF Init, CatalogInit, TypesInv, Queued, Timed

\* Whoever joins the queue was not in it (Ask).
LEMMA AskTypes ==
  ASSUME TypesInv, NEW c \in Callers, Ask(c)
  PROVE  TypesInv'
  <1>1. /\ queue \in Seq(Callers) /\ queue' = Append(queue, c) /\ phase[c] = "idle"
        /\ \A i \in DOMAIN queue : queue[i] # c
        /\ phase' = [phase EXCEPT ![c] = "waiting"]
    BY DEF TypesInv, CatalogTypeOK, Queued, Ask
  <1>2. /\ queue' \in Seq(Callers) /\ Len(queue') = Len(queue) + 1
        /\ \A i \in DOMAIN queue : queue'[i] = queue[i]
        /\ queue'[Len(queue) + 1] = c
        /\ DOMAIN queue = 1 .. Len(queue) /\ DOMAIN queue' = 1 .. Len(queue) + 1
        /\ Len(queue) \in Nat
    BY <1>1
  <1>3. \A i \in DOMAIN queue' : i \in DOMAIN queue \/ i = Len(queue) + 1
    BY <1>2
  <1>4. Queued'
    BY <1>1, <1>2, <1>3 DEF TypesInv, CatalogTypeOK, Queued
  <1>5. CatalogTypeOK' /\ Timed'
    BY <1>1, <1>2, <1>4 DEF TypesInv, CatalogTypeOK, Queued, Timed, Ask, Phase, provider
  <1> QED
    BY <1>4, <1>5 DEF TypesInv

\* The holder leaves the queue, which stays one (Released).
LEMMA ReleaseTypes ==
  ASSUME TypesInv, NEW c \in Callers, Holds(c), queue' = Tail(queue),
         \A d \in Callers : d # c => phase'[d] = phase[d]
  PROVE  queue' \in Seq(Callers) /\ Queued'
  <1>1. /\ queue \in Seq(Callers) /\ queue # << >> /\ queue[1] = c
        /\ DOMAIN queue = 1 .. Len(queue) /\ Len(queue) \in Nat \ {0}
    BY DEF TypesInv, CatalogTypeOK, Holds
  <1>2. /\ queue' \in Seq(Callers) /\ Len(queue') = Len(queue) - 1
        /\ DOMAIN queue' = 1 .. Len(queue) - 1
        /\ \A i \in 1 .. Len(queue) - 1 : queue'[i] = queue[i + 1]
    BY <1>1
  <1>3. \A i \in DOMAIN queue' : i + 1 \in DOMAIN queue /\ i + 1 # 1 /\ queue'[i] = queue[i + 1]
    BY <1>1, <1>2
  <1>4. \A i \in DOMAIN queue' : queue'[i] # c /\ queue'[i] \in Callers
    BY <1>1, <1>3 DEF TypesInv, Queued, CatalogTypeOK
  <1>5. \A i, j \in DOMAIN queue' : queue'[i] = queue'[j] => i = j
    BY <1>1, <1>2, <1>3 DEF TypesInv, Queued
  <1>6. \A i \in DOMAIN queue' : phase'[queue'[i]] \in {"waiting", "fetching", "answered"}
    BY <1>3, <1>4 DEF TypesInv, Queued
  <1> QED
    BY <1>2, <1>5, <1>6 DEF Queued

\* A list is handed out with its age (Returns).
LEMMA ReturnTypes ==
  ASSUME TypesInv, NEW c \in Callers, Holds(c), NEW version \in Versions,
         NEW stale \in BOOLEAN, NEW since \in 0 .. now, Returns(c, version, stale, since)
  PROVE  /\ queue' \in Seq(Callers) /\ Queued'
         /\ phase' \in [Callers -> Phase]
         /\ reply' \in [Callers -> Reply \cup {None}]
         /\ \A d \in Callers : phase'[d] = "answered" => phase[d] = "answered"
         /\ \A d \in Callers : phase'[d] = "served" => reply'[d] \in Reply
  <1> DEFINE r == [version |-> version, stale |-> stale, age |-> now - since]
  <1>1. now - since \in 0 .. MaxTime
    BY CatalogAssumption DEF TypesInv, CatalogTypeOK
  <1>2. r \in Reply
    BY <1>1 DEF Reply
  <1>3. /\ phase' = [phase EXCEPT ![c] = "served"] /\ reply' = [reply EXCEPT ![c] = r]
        /\ queue' = Tail(queue)
    BY DEF Returns, Released
  <1>4. phase \in [Callers -> Phase] /\ reply \in [Callers -> Reply \cup {None}]
    BY DEF TypesInv, CatalogTypeOK, Reply
  <1> HIDE DEF r
  <1>5. queue' \in Seq(Callers) /\ Queued'
    BY <1>3, <1>4, ReleaseTypes
  <1>6. phase' \in [Callers -> Phase] /\ reply' \in [Callers -> Reply \cup {None}]
    BY <1>2, <1>3, <1>4 DEF Phase
  <1>7. \A d \in Callers : phase'[d] = "answered" => phase[d] = "answered"
    BY <1>3, <1>4
  <1>8. \A d \in Callers : phase'[d] = "served" => reply'[d] \in Reply
    BY <1>2, <1>3, <1>4 DEF TypesInv, Timed
  <1> QED
    BY <1>5, <1>6, <1>7, <1>8

\* The step of a request leaves the provider and the clock alone.
LEMMA ServeTypes ==
  ASSUME TypesInv, CatalogInv, NEW c \in Callers, ServeCached(c)
  PROVE  TypesInv'
  <1>1. /\ Holds(c) /\ snapshot \in Versions /\ refreshed \in 0 .. now
        /\ Returns(c, snapshot, FALSE, refreshed)
        /\ UNCHANGED <<up, published, now, snapshot, cachedAt, fetched, decided, refreshed>>
    <2>1. refreshed \in 0 .. now
      BY DEF TypesInv, CatalogTypeOK, Timed
    <2>2. snapshot \in Versions
      BY DEF TypesInv, CatalogTypeOK, ServeCached, Fresh
    <2> QED
      BY <2>1, <2>2 DEF ServeCached, provider
  <1>2. Queued' /\ Timed'
    BY <1>1, ReturnTypes DEF TypesInv, Timed
  <1>3. CatalogTypeOK'
    BY <1>1, <1>2, ReturnTypes DEF TypesInv, CatalogTypeOK, Queued, Reply
  <1> QED
    BY <1>2, <1>3 DEF TypesInv

LEMMA StartFetchTypes ==
  ASSUME TypesInv, NEW c \in Callers, StartFetch(c)
  PROVE  TypesInv'
  BY DEF TypesInv, CatalogTypeOK, Queued, Timed, Phase, StartFetch, provider

LEMMA FetchAnsweredTypes ==
  ASSUME TypesInv, NEW c \in Callers, FetchAnswered(c)
  PROVE  TypesInv'
  <1>1. published # None
    BY ProviderAssumption, CatalogAssumption DEF TypesInv, CatalogTypeOK, Versions
  <1> QED
    BY <1>1 DEF TypesInv, CatalogTypeOK, Queued, Timed, Phase, FetchAnswered, provider

LEMMA StoreSnapshotTypes ==
  ASSUME TypesInv, CatalogInv, NEW c \in Callers, StoreSnapshot(c)
  PROVE  TypesInv'
  <1>1. /\ Holds(c) /\ fetched[c] \in Versions /\ now \in 0 .. now
        /\ Returns(c, fetched[c], FALSE, now)
        /\ snapshot' = fetched[c] /\ cachedAt' = now /\ refreshed' = now
        /\ fetched' = [fetched EXCEPT ![c] = None]
        /\ UNCHANGED <<up, published, now, decided>>
    <2>1. Holds(c) /\ fetched[c] \in Versions /\ fetched[c] # None
      BY DEF TypesInv, CatalogTypeOK, Timed, CatalogInv, Ordered, StoreSnapshot
    <2>2. now \in 0 .. now
      BY DEF TypesInv, CatalogTypeOK
    <2> QED
      BY <2>1, <2>2 DEF StoreSnapshot, provider
  <1>2. phase'[c] = "served"
    BY <1>1 DEF Returns, TypesInv, CatalogTypeOK
  <1>3. Queued' /\ Timed'
    <2>1. /\ Queued'
          /\ \A d \in Callers : phase'[d] = "answered" => phase[d] = "answered"
          /\ \A d \in Callers : phase'[d] = "served" => reply'[d] \in Reply
      BY <1>1, ReturnTypes
    <2>2. \A d \in Callers : d # c => fetched'[d] = fetched[d]
      BY <1>1 DEF TypesInv, CatalogTypeOK
    <2>3. refreshed' <= now'
      BY <1>1
    <2>4. Reply' = Reply
      BY DEF Reply, Versions
    <2> QED
      BY <1>2, <2>1, <2>2, <2>3, <2>4 DEF TypesInv, Timed
  <1>4. CatalogTypeOK'
    BY <1>1, <1>3, ReturnTypes DEF TypesInv, CatalogTypeOK, Queued, Reply
  <1> QED
    BY <1>3, <1>4 DEF TypesInv

LEMMA FetchFailsTypes ==
  ASSUME TypesInv, CatalogInv, NEW c \in Callers, FetchFails(c)
  PROVE  TypesInv'
  <1>1. /\ Holds(c) /\ refreshed \in 0 .. now
        /\ UNCHANGED <<up, published, now, snapshot, cachedAt, fetched, decided, refreshed>>
    BY DEF TypesInv, CatalogTypeOK, Timed, CatalogInv, Ordered, FetchFails, provider
  <1>2. CASE snapshot # None /\ Returns(c, snapshot, TRUE, refreshed)
    <2>1. snapshot \in Versions
      BY <1>2 DEF TypesInv, CatalogTypeOK
    <2>2. Queued' /\ Timed'
      BY <1>1, <1>2, <2>1, ReturnTypes DEF TypesInv, Timed
    <2>3. CatalogTypeOK'
      BY <1>1, <1>2, <2>1, <2>2, ReturnTypes DEF TypesInv, CatalogTypeOK, Queued, Reply
    <2> QED
      BY <2>2, <2>3 DEF TypesInv
  <1>3. CASE Refused(c) /\ queue' = Released
    <2>1. /\ phase' = [phase EXCEPT ![c] = "idle"] /\ UNCHANGED reply /\ queue' = Tail(queue)
          /\ phase \in [Callers -> Phase]
      BY <1>3 DEF Refused, Released, TypesInv, CatalogTypeOK
    <2>2. queue' \in Seq(Callers) /\ Queued'
      BY <1>1, <2>1, ReleaseTypes
    <2>3. CatalogTypeOK' /\ Timed'
      BY <1>1, <2>1, <2>2 DEF TypesInv, CatalogTypeOK, Queued, Timed, Phase
    <2> QED
      BY <2>2, <2>3 DEF TypesInv
  <1> QED
    BY <1>2, <1>3 DEF FetchFails

\* What is decided is a model of a list (resolve_model_policy).
LEMMA ResolveTypes ==
  ASSUME TypesInv, NEW c \in Callers, ResolveModelDecision(c)
  PROVE  TypesInv'
  <1>1. /\ phase[c] = "served" /\ reply[c].version \in Versions
        /\ phase' = [phase EXCEPT ![c] = "idle"] /\ reply' = [reply EXCEPT ![c] = None]
        /\ UNCHANGED <<up, published, now, snapshot, cachedAt, queue, fetched, refreshed>>
    BY DEF TypesInv, Timed, Reply, ResolveModelDecision, provider
  <1>2. decided' \in [Callers -> Models \cup {None}]
    <2>1. \A policy, supervised : Resolutions(policy, reply[c].version, supervised) \subseteq Models
      BY <1>1 DEF Resolutions, Selectable, Models
    <2>2. decided \in [Callers -> Models \cup {None}]
      BY DEF TypesInv, CatalogTypeOK
    <2>3. \/ decided' = decided
          \/ \E policy, supervised : \E m \in Resolutions(policy, reply[c].version, supervised) :
               decided' = [decided EXCEPT ![c] = m]
      BY DEF ResolveModelDecision
    <2> QED
      BY <2>1, <2>2, <2>3
  <1>3. Queued' /\ Timed'
    BY <1>1 DEF TypesInv, CatalogTypeOK, Queued, Timed
  <1>4. CatalogTypeOK'
    BY <1>1, <1>2, <1>3 DEF TypesInv, CatalogTypeOK, Queued, Phase
  <1> QED
    BY <1>3, <1>4 DEF TypesInv

LEMMA TypesStep == TypesInv /\ CatalogInv /\ [Next]_vars => TypesInv'
  <1> SUFFICES ASSUME TypesInv, CatalogInv, [Next]_vars PROVE TypesInv'
    OBVIOUS
  <1>1. CASE ProviderStep /\ UNCHANGED <<catalog, knowledge>>
    <2>1. up' \in BOOLEAN /\ published' \in Versions
      <3>1. Len(Lists) \in Nat /\ Versions = 1 .. Len(Lists)
        BY ProviderAssumption DEF Versions
      <3>2. up \in BOOLEAN /\ published \in 1 .. Len(Lists)
        BY <3>1 DEF TypesInv, CatalogTypeOK
      <3>3. up' \in BOOLEAN
        BY <1>1, <3>2 DEF ProviderStep, Outage, Recover, Publish
      <3>4. published' = published \/ (published < Len(Lists) /\ published' = published + 1)
        BY <1>1 DEF ProviderStep, Outage, Recover, Publish
      <3>5. published' \in 1 .. Len(Lists)
        BY <3>1, <3>2, <3>4
      <3> QED
        BY <3>1, <3>3, <3>5
    <2> QED
      BY <1>1, <2>1 DEF TypesInv, CatalogTypeOK, Queued, Timed, Reply, catalog
  <1>2. CASE Tick
    <2>1. now' \in 0 .. MaxTime /\ refreshed <= now'
      BY <1>2, CatalogAssumption DEF Tick, TypesInv, CatalogTypeOK, Timed
    <2> QED
      BY <1>2, <2>1 DEF Tick, TypesInv, CatalogTypeOK, Queued, Timed, Reply, provider
  <1>3. CASE UNCHANGED <<provider, catalog>>
    BY <1>3 DEF TypesInv, CatalogTypeOK, Queued, Timed, Reply, catalog, provider
  <1>4. CASE KnowledgeNext /\ UNCHANGED catalog
    <2>1. UNCHANGED provider
      BY <1>4 DEF KnowledgeNext, CreateKnowledgeBase, IngestDocument, ChunkText,
                  ComputeEmbeddings, StoreDocument
    <2> QED
      BY <1>3, <1>4, <2>1
  <1>5. CASE \E c \in Callers : Ask(c) \/ Progress(c)
    BY <1>5, AskTypes, ServeTypes, StartFetchTypes, FetchAnsweredTypes, StoreSnapshotTypes,
       FetchFailsTypes, ResolveTypes DEF Progress
  <1> QED
    BY <1>1, <1>2, <1>3, <1>4, <1>5 DEF Next, vars, CatalogNext

\* Every variable of the services keeps its type: no caller is in the lock's
\* queue twice, and every list, age and model is one there is.
THEOREM ServicesTypeCorrect == Spec => []TypeOK
  <1>1. TypesInv /\ VectorsInv => TypeOK
    BY DEF TypesInv, VectorsInv, TypeOK
  <1>2. Spec => []TypesInv
    BY TypesInitially, TypesStep, CatalogInitially, CatalogStep, PTL DEF Spec
  <1> QED
    BY <1>1, <1>2, VectorsHold, PTL
=============================================================================
