-------------------------------- MODULE Chunking --------------------------------
(***************************************************************************)
(* How the text of a document becomes chunks                               *)
(* (pipelines/ingestion/chunker.py).  A text is the sequence of the sizes  *)
(* of its sentences: words and tokens are not told apart, and white space  *)
(* has none.  A chunk is the sequence of the parts of sentences it joins,  *)
(* each a pair of the sentence's position in the document and of the part: *)
(* 0 for the whole sentence, or the number of a piece of a long one.       *)
(***************************************************************************)
EXTENDS Integers, SequencesExt

CONSTANTS
  Documents,      \* the documents: source and pages
  MaxTokens,      \* max_tokens and max_chunk_tokens (512)
  OverlapTokens,  \* overlap_tokens (64)
  PieceWords,     \* the words of a piece of a long sentence (100)
  LongPdf         \* the pages above which a PDF is long (50)

Sources == {"pdf", "docx", "image", "csv", "text", "url"}
Levels == {"none", "h1", "h2", "h3"}
Pages == [level : Levels, table : BOOLEAN, sizes : Seq(Nat \ {0})]

ASSUME ChunkingAssumption ==
  /\ \A d \in Documents : d.source \in Sources /\ d.pages \in Seq(Pages)
  /\ MaxTokens \in Nat \ {0} /\ OverlapTokens \in 0..MaxTokens
  /\ PieceWords \in Nat \ {0} /\ LongPdf \in Nat

VARIABLES
  document,  \* what is chunked, or the empty record
  strategy,  \* how
  chunks     \* its chunks

chunkVars == <<document, strategy, chunks>>

Sum(s) ==
  LET sum[i \in 0..Len(s)] == IF i = 0 THEN 0 ELSE sum[i - 1] + s[i]
  IN sum[Len(s)]
Sizes(d) == FlattenSeq([i \in DOMAIN d.pages |-> d.pages[i].sizes])
Chunk(text, parent) == [text |-> text, parent |-> parent]
Whole(from, to) == [i \in 1..(to - from + 1) |-> <<from + i - 1, 0>>]
PartSize(sizes, part) ==
  LET size == sizes[part[1]] rest == size - (part[2] - 1) * PieceWords
  IN IF part[2] = 0 THEN size ELSE IF rest < PieceWords THEN rest ELSE PieceWords
SizeOf(sizes, text) == Sum([i \in DOMAIN text |-> PartSize(sizes, text[i])])

-----------------------------------------------------------------------------
(* chunk_fixed_size *)

Pieces(sizes, i) ==
  [k \in 1..((sizes[i] + PieceWords - 1) \div PieceWords) |-> Chunk(<< <<i, k>> >>, 0)]

(* The last sentences of a chunk that the next one begins with *)
Overlap(sizes, text) ==
  LET suffix(n) == SubSeq(text, Len(text) - n + 1, Len(text))
      fits == {n \in 0..Len(text) : SizeOf(sizes, suffix(n)) <= OverlapTokens}
  IN suffix(CHOOSE n \in fits : \A m \in fits : m <= n)

(* One sentence more: a long one is cut into pieces, before what is pending *)
Take(sizes, state, i) ==
  LET s == << <<i, 0>> >> IN
  IF sizes[i] > MaxTokens THEN [state EXCEPT !.done = @ \o Pieces(sizes, i)]
  ELSE IF SizeOf(sizes, state.pending \o s) <= MaxTokens
    THEN [state EXCEPT !.pending = @ \o s]
    ELSE [done |-> Append(state.done, Chunk(state.pending, 0)),
          pending |-> Overlap(sizes, state.pending) \o s]

(* Mutant of Flush: what is pending at the end is lost if it is short.     *)
FlushLong(state) ==
  IF Len(state.pending) < 2 THEN state.done ELSE Append(state.done, Chunk(state.pending, 0))

Flush(state) ==
  IF state.pending = <<>> THEN state.done ELSE Append(state.done, Chunk(state.pending, 0))

NoChunks == [done |-> <<>>, pending |-> <<>>]
FixedSize(sizes) ==
  LET state[i \in 0..Len(sizes)] ==
        IF i = 0 THEN NoChunks ELSE Take(sizes, state[i - 1], i)
  IN Flush(state[Len(sizes)])

-----------------------------------------------------------------------------
(* chunk_semantic: a new chunk where a sentence does not resemble the one  *)
(* before it, or does not fit; a long one is not cut.                      *)
TakeSimilar(sizes, similar, state, i) ==
  LET s == << <<i, 0>> >> IN
  IF state.pending # <<>> /\ (~similar[i] \/ SizeOf(sizes, state.pending \o s) > MaxTokens)
    THEN [done |-> Append(state.done, Chunk(state.pending, 0)), pending |-> s]
    ELSE [state EXCEPT !.pending = @ \o s]

Semantic(sizes, similar) ==
  LET state[i \in 0..Len(sizes)] ==
        IF i = 0 THEN NoChunks ELSE TakeSimilar(sizes, similar, state[i - 1], i)
  IN Flush(state[Len(sizes)])

(* chunk_hierarchical: a chunk per page, under the last section before it  *)
Hierarchical(pages) ==
  LET first(i) == Sum([j \in 1..(i - 1) |-> Len(pages[j].sizes)]) + 1
      sections(i) == {j \in 1..(i - 1) : pages[j].level \in {"h1", "h2"}}
      parent(i) == IF pages[i].level \in {"h1", "h2"} \/ sections(i) = {} THEN 0
                   ELSE CHOOSE j \in sections(i) : \A l \in sections(i) : l <= j
  IN [i \in DOMAIN pages |->
        Chunk(Whole(first(i), first(i) + Len(pages[i].sizes) - 1), parent(i))]

(* chunk_document *)
StrategyFor(d) ==
  IF \A i \in DOMAIN d.pages : d.pages[i].table THEN "fixed"
  ELSE IF d.source = "docx" /\ \E i \in DOMAIN d.pages : d.pages[i].level # "none"
    THEN "hierarchical"
  ELSE IF d.source = "pdf" /\ Len(d.pages) > LongPdf THEN "semantic"
  ELSE "fixed"

Nothing == [source |-> "none", pages |-> <<>>]
ChunkInit == document = Nothing /\ strategy = "none" /\ chunks = <<>>

ChunkDocument(d) ==
  /\ document' = d
  /\ \/ /\ strategy' = StrategyFor(d) /\ strategy' # "semantic"
        /\ chunks' = IF strategy' = "fixed" THEN FixedSize(Sizes(d)) ELSE Hierarchical(d.pages)
     \/ /\ StrategyFor(d) = "semantic" /\ strategy' = "semantic"
        /\ \E similar \in [DOMAIN Sizes(d) -> BOOLEAN] : chunks' = Semantic(Sizes(d), similar)
     \/ StrategyFor(d) = "semantic" /\ strategy' = "fixed"  \* no embeddings
        /\ chunks' = FixedSize(Sizes(d))

ChunkNext == document = Nothing /\ \E d \in Documents : ChunkDocument(d)

-----------------------------------------------------------------------------
(* Properties *)

(* The chunks that hold whole sentences *)
Joined == {c \in DOMAIN chunks : chunks[c].text # <<>> /\ chunks[c].text[1][2] = 0}
Ends(c) == chunks[c].text[Len(chunks[c].text)][1]
Parts(i) == {k \in 0..Sizes(document)[i] : \E c \in DOMAIN chunks :
               <<i, k>> \in Range(chunks[c].text)}

(* No text is lost and none is repeated, but for overlaps: every sentence   *)
(* is in a chunk, whole or with all its pieces; of two chunks of sentences  *)
(* the later one goes further in the text, begins no earlier, skips only    *)
(* long sentences, and shares with the one before at most what the overlap  *)
(* allows.  A chunk is larger than the limit by no more than the overlap,   *)
(* unless it is a page of its own or a sentence that resembles none, and a  *)
(* chunk's parent is an earlier section.                                    *)
TextCovered ==
  LET sizes == Sizes(document)
      long(i) == strategy = "fixed" /\ sizes[i] > MaxTokens
      shared(b, c) == Sum([k \in DOMAIN chunks[c].text |->
                             IF chunks[c].text[k] \in Range(chunks[b].text)
                               THEN PartSize(sizes, chunks[c].text[k]) ELSE 0])
  IN
  /\ \A i \in DOMAIN sizes :
       Parts(i) = IF long(i) THEN 1..((sizes[i] + PieceWords - 1) \div PieceWords) ELSE {0}
  /\ \A b, c \in Joined : b < c => Ends(b) < Ends(c) /\ chunks[b].text[1][1] <= chunks[c].text[1][1]
  /\ \A c \in Joined : \A i \in chunks[c].text[1][1]..Ends(c) :
       <<i, 0>> \in Range(chunks[c].text) \/ long(i)
  /\ \A b, c \in Joined : b < c => shared(b, c) <= OverlapTokens
  /\ \A c \in Joined :
       \/ SizeOf(sizes, chunks[c].text) <= MaxTokens + (IF strategy = "fixed" THEN OverlapTokens ELSE 0)
       \/ strategy = "semantic" /\ Len(chunks[c].text) = 1
       \/ strategy = "hierarchical"
  /\ \A c \in DOMAIN chunks : chunks[c].parent # 0 =>
       chunks[c].parent < c /\ document.pages[chunks[c].parent].level \in {"h1", "h2"}
=============================================================================
