------------------------------ MODULE Knowledge ------------------------------
(***************************************************************************)
(* Ingestion of documents into a knowledge base: the text is cut into      *)
(* overlapping chunks, the chunks are embedded in one call, and document   *)
(* and chunks are stored in one transaction.  A text is its length; a      *)
(* piece is the part [start, end) of it; a vector is the position, in the  *)
(* call, of the text it stands for.                                        *)
(***************************************************************************)
EXTENDS ModelProvider, FiniteSets

CONSTANTS
  Writers,      (* concurrent ingestions                                   *)
  Lengths,      (* lengths of the documents' texts                         *)
  Sizes,        (* chunk_size a client may ask for: 64 .. 8192 in the code *)
  Overlaps,     (* chunk_overlap: 0 .. 2048 in the code                    *)
  Nil

ASSUME KnowledgeAssumption ==
  Lengths \subseteq Nat /\ Sizes \subseteq Nat \ {0} /\ Overlaps \subseteq Nat

VARIABLES
  base,         (* the knowledge base: its chunk_size and chunk_overlap    *)
  stage,        (* where each ingestion is                                 *)
  length,       (* the length of its text                                  *)
  start,        (* chunk_text's start                                      *)
  pieces,       (* chunk_text's chunks                                     *)
  vectors,      (* what compute_embeddings returned                        *)
  document      (* the last document it stored                             *)

knowledge == <<base, stage, length, start, pieces, vectors, document>>

Piece == [start : Nat, end : Nat]

KnowledgeTypeOK ==
  /\ base \in [size : Sizes, overlap : Overlaps] \cup {Nil}
  /\ stage \in [Writers -> {"idle", "chunk", "embed", "store", "failed"}]
  /\ length \in [Writers -> Lengths \cup {0}]
  /\ start \in [Writers -> Nat]
  /\ pieces \in [Writers -> Seq(Piece)]
  /\ vectors \in [Writers -> Seq(Nat)]
  /\ document \in [Writers -> [length : Lengths, count : Nat, chunks : Seq(Piece),
                               vectors : Seq(Nat)] \cup {Nil}]

KnowledgeInit ==
  /\ base = Nil
  /\ stage = [w \in Writers |-> "idle"]
  /\ length = [w \in Writers |-> 0] /\ start = [w \in Writers |-> 0]
  /\ pieces = [w \in Writers |-> << >>] /\ vectors = [w \in Writers |-> << >>]
  /\ document = [w \in Writers |-> Nil]
-----------------------------------------------------------------------------
\* Mutant: the overlap is not checked.
CreateAnyBase ==
  /\ base = Nil
  /\ \E size \in Sizes, overlap \in Overlaps : base' = [size |-> size, overlap |-> overlap]
  /\ UNCHANGED <<provider, stage, length, start, pieces, vectors, document>>

\* 422 unless the overlap is smaller than the chunks.
CreateKnowledgeBase ==
  /\ base = Nil
  /\ \E size \in Sizes, overlap \in Overlaps :
       overlap < size /\ base' = [size |-> size, overlap |-> overlap]
  /\ UNCHANGED <<provider, stage, length, start, pieces, vectors, document>>

\* 404 without a base; an empty text has no chunks.
IngestDocument(w) ==
  /\ stage[w] \in {"idle", "failed"} /\ base # Nil
  /\ \E n \in Lengths :
       /\ length' = [length EXCEPT ![w] = n]
       /\ stage' = [stage EXCEPT ![w] = IF n = 0 THEN "embed" ELSE "chunk"]
  /\ start' = [start EXCEPT ![w] = 0]
  /\ pieces' = [pieces EXCEPT ![w] = << >>] /\ vectors' = [vectors EXCEPT ![w] = << >>]
  /\ UNCHANGED <<provider, base, document>>

\* Mutant: the next chunk starts behind the overlap.
ChunkTextSkips(w) ==
  /\ stage[w] = "chunk"
  /\ LET end == IF start[w] + base.size < length[w] THEN start[w] + base.size ELSE length[w]
     IN /\ pieces' = [pieces EXCEPT ![w] = Append(@, [start |-> start[w], end |-> end])]
        /\ IF end >= length[w]
           THEN stage' = [stage EXCEPT ![w] = "embed"] /\ UNCHANGED start
           ELSE start' = [start EXCEPT ![w] = end + base.overlap] /\ UNCHANGED stage
  /\ UNCHANGED <<provider, base, length, vectors, document>>

\* One round of chunk_text's loop.
ChunkText(w) ==
  /\ stage[w] = "chunk"
  /\ LET end == IF start[w] + base.size < length[w] THEN start[w] + base.size ELSE length[w]
     IN /\ pieces' = [pieces EXCEPT ![w] = Append(@, [start |-> start[w], end |-> end])]
        /\ IF end >= length[w]
           THEN stage' = [stage EXCEPT ![w] = "embed"] /\ UNCHANGED start
           ELSE /\ start' = [start EXCEPT ![w] = IF end < base.overlap THEN 0 ELSE end - base.overlap]
                /\ UNCHANGED stage
  /\ UNCHANGED <<provider, base, length, vectors, document>>

\* Mutant: the rows are taken as they come.
AsTheyCome(rows) == rows

\* The gateway sorts the rows by the index each carries, no two the same.
ByIndex(rows) ==
  LET given == {rows[k] : k \in DOMAIN rows}
  IN [i \in DOMAIN rows |-> CHOOSE r \in given : Cardinality({s \in given : s < r}) = i - 1]

\* The provider returns a row for each text, in any order, or too few rows.
Answers(n) == {rows \in UNION {[1 .. k -> 1 .. n] : k \in 0 .. n} :
                 \A i, j \in DOMAIN rows : rows[i] = rows[j] => i = j}

Fail(w) == stage' = [stage EXCEPT ![w] = "failed"]

\* compute_embeddings: no text, no call; a failed call and a missing row end
\* the ingestion.
ComputeEmbeddings(w) ==
  /\ stage[w] = "embed"
  /\ LET n == Len(pieces[w])
     IN \/ ~up /\ n > 0 /\ Fail(w) /\ UNCHANGED vectors
        \/ \E rows \in Answers(n) :
             /\ up \/ n = 0
             /\ IF Len(rows) = n
                THEN /\ vectors' = [vectors EXCEPT ![w] = ByIndex(rows)]
                     /\ stage' = [stage EXCEPT ![w] = "store"]
                ELSE Fail(w) /\ UNCHANGED vectors
  /\ UNCHANGED <<provider, base, length, start, pieces, document>>

\* The transaction commits, or fails and leaves nothing.
StoreDocument(w) ==
  /\ stage[w] = "store"
  /\ \/ /\ document' = [document EXCEPT ![w] = [length |-> length[w], count |-> Len(pieces[w]),
                                                chunks |-> pieces[w], vectors |-> vectors[w]]]
        /\ stage' = [stage EXCEPT ![w] = "idle"]
     \/ Fail(w) /\ UNCHANGED document
  /\ UNCHANGED <<provider, base, length, start, pieces, vectors>>

KnowledgeNext ==
  \/ CreateKnowledgeBase
  \/ \E w \in Writers : \/ IngestDocument(w) \/ ChunkText(w)
                        \/ ComputeEmbeddings(w) \/ StoreDocument(w)
-----------------------------------------------------------------------------
(* Properties *)

\* chunk_text makes at most one chunk for each character, so it ends: each
\* round starts further on, which the check of the endpoint is needed for.
ChunkingEnds == \A w \in Writers : Len(pieces[w]) <= length[w]

\* The stored chunks, in order, are the text: the first starts and the last ends
\* with it, and each one repeats exactly chunk_overlap characters of the one
\* before (chunk_text, ingest_document).
ChunksCoverText ==
  \A w \in Writers : document[w] # Nil /\ document[w].length > 0 =>
    LET chunks == document[w].chunks
    IN /\ chunks # << >>
       /\ chunks[1].start = 0 /\ chunks[Len(chunks)].end = document[w].length
       /\ \A i \in 1 .. Len(chunks) - 1 :
            /\ chunks[i + 1].start + base.overlap = chunks[i].end
            /\ chunks[i].start < chunks[i + 1].start

\* Every stored chunk has the embedding of its own text, in whatever order the
\* provider returned the rows (embed's sort, compute_embeddings' count).
VectorsMatchChunks ==
  \A w \in Writers : document[w] # Nil =>
    /\ document[w].count = Len(document[w].chunks)
    /\ document[w].vectors = [i \in DOMAIN document[w].chunks |-> i]
=============================================================================
