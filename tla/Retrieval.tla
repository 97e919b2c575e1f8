-------------------------------- MODULE Retrieval --------------------------------
(***************************************************************************)
(* From the chunks of a document to the citations of an answer: the three  *)
(* searches and their fusion (pipelines/retrieval/retriever.py, fusion.py),*)
(* the reranking (reranker.py), the context (context_assembler.py), and    *)
(* the resolution of what the answer cites (generation/citations.py).      *)
(* A chunk is identified with its position in the document.                *)
(***************************************************************************)
EXTENDS Chunking

CONSTANTS
  K,             \* the results of a search and of the retrieval (20)
  RankConstant,  \* k of the fusion (60)
  TopFused,      \* the results that are reranked (40)
  Relevances,    \* what the reranker may make of a chunk; 0 if it fails
  HeaderTokens,  \* the size of the label of a source
  TokenBudget,   \* token_budget (4000)
  Searched,      \* the documents of which the chunks are searched
  MaxCited       \* bound on the citations of an answer

ASSUME RetrievalAssumption ==
  /\ K \in Nat \ {0} /\ RankConstant \in Nat /\ TopFused \in Nat \ {0}
  /\ Relevances \subseteq Nat /\ 0 \in Relevances
  /\ HeaderTokens \in Nat /\ TokenBudget \in Nat
  /\ Searched \subseteq Documents /\ MaxCited \in Nat

VARIABLES
  stage,      \* where the query is
  found,      \* what the dense, sparse and metadata searches give
  fused,      \* reciprocal_rank_fusion of these
  score,      \* what the reranker makes of each chunk
  ranked,     \* the chunks that are retrieved
  context,    \* the blocks of the context
  citations   \* the numbers cited, each with a chunk, or 0 if it is invalid

queryVars == <<stage, found, fused, score, ranked, context, citations>>
vars == <<chunkVars, queryVars>>

Init ==
  /\ ChunkInit
  /\ stage = "idle"
  /\ found = <<>> /\ fused = <<>> /\ score = <<>> /\ ranked = <<>>
  /\ context = <<>> /\ citations = <<>>

Follows(from, to) == stage = from /\ stage' = to
First(n, s) == SubSeq(s, 1, IF n < Len(s) THEN n ELSE Len(s))
Sorted(S, before(_, _)) ==
  CHOOSE s \in SetToSeqs(S) : \A i, j \in DOMAIN s : i < j => before(s[i], s[j])
Position(s, c) == CHOOSE i \in DOMAIN s : s[i] = c /\ \A j \in DOMAIN s : s[j] = c => i <= j

-----------------------------------------------------------------------------
(* retrieve: each search gives any chunks, in any order, or none if it     *)
(* fails (or if the query has no filters).                                 *)
Rankings == {s \in SetToAllKPermutations(DOMAIN chunks) : Len(s) <= K}
Search ==
  /\ Follows("idle", "fuse")
  /\ document \in Searched
  /\ found' \in [1..3 -> Rankings]
  /\ UNCHANGED <<chunkVars, fused, score, ranked, context, citations>>

(* 1 / (k + rank), over a common denominator *)
Denominator ==
  LET product[r \in 0..K] == IF r = 0 THEN 1 ELSE product[r - 1] * (RankConstant + r)
  IN product[K]
Reciprocal(s, c) ==
  IF c \in Range(s) THEN Denominator \div (RankConstant + Position(s, c)) ELSE 0
Fusion(c) == Sum([l \in 1..3 |-> Reciprocal(found[l], c)])

(* Mutant of Ahead: the best rank decides. *)
AheadOnce(c, d) ==
  LET best(x) == CHOOSE n \in {Reciprocal(found[l], x) : l \in 1..3} :
                   \A l \in 1..3 : Reciprocal(found[l], x) <= n
  IN best(c) > best(d) \/ (best(c) = best(d) /\ c < d)

(* The sort is stable: equals stay in the order in which they were seen.   *)
Ahead(c, d) ==
  LET seen == FlattenSeq(found) IN
  \/ Fusion(c) > Fusion(d)
  \/ Fusion(c) = Fusion(d) /\ Position(seen, c) < Position(seen, d)
Fuse ==
  /\ Follows("fuse", "rerank")
  /\ fused' = Sorted(Range(FlattenSeq(found)), Ahead)
  /\ UNCHANGED <<chunkVars, found, score, ranked, context, citations>>

(* rerank, again stable; a score that cannot be had is 0. *)
Above(relevance, c, d) ==
  \/ relevance[c] > relevance[d]
  \/ relevance[c] = relevance[d] /\ Position(fused, c) < Position(fused, d)
Rerank ==
  /\ Follows("rerank", "assemble")
  /\ \E relevance \in [Range(First(TopFused, fused)) -> Relevances] :
       /\ score' = relevance
       /\ ranked' = LET above(c, d) == Above(relevance, c, d)
                     IN First(K, Sorted(DOMAIN relevance, above))
  /\ UNCHANGED <<chunkVars, found, fused, context, citations>>

-----------------------------------------------------------------------------
(* assemble_context *)

Block(n, c, parts) == [source |-> n, chunk |-> c, parts |-> parts]
Tokens(c, parts) == HeaderTokens + SizeOf(Sizes(document), First(parts, chunks[c].text))

(* Whole chunks as long as they fit, then as many sentences of the next    *)
(* one as fit, and no further chunk, even if it would fit.                 *)
AddSource(state, n) ==
  LET c == ranked[n]
      whole == Len(chunks[c].text)
      fits(parts) == state.tokens + Tokens(c, parts) <= TokenBudget
      most == CHOOSE m \in 0..whole : /\ \A p \in 1..m : fits(p)
                                      /\ m < whole => ~fits(m + 1)
  IN IF state.full THEN state
     ELSE [blocks |-> IF fits(whole) \/ most > 0
                        THEN Append(state.blocks, Block(n, c, IF fits(whole) THEN whole ELSE most))
                        ELSE state.blocks,
           tokens |-> state.tokens + Tokens(c, whole),
           full |-> ~fits(whole)]

Assemble ==
  /\ Follows("assemble", "cite")
  /\ LET state[n \in 0..Len(ranked)] ==
           IF n = 0 THEN [blocks |-> <<>>, tokens |-> 0, full |-> FALSE]
           ELSE AddSource(state[n - 1], n)
     IN context' = state[Len(ranked)].blocks
  /\ UNCHANGED <<chunkVars, found, fused, score, ranked, citations>>

-----------------------------------------------------------------------------
(* parse_citations: each number once; valid if so many chunks were         *)
(* retrieved, in the context or not                                        *)
Resolve(n) == <<n, IF n \in 1..Len(ranked) THEN ranked[n] ELSE 0>>
Cite ==
  /\ Follows("cite", "answered")
  /\ \E numbers \in BoundedSeq(0..(Len(ranked) + 1), MaxCited) :
       LET fresh(i) == \A j \in 1..(i - 1) : numbers[j] # numbers[i]
           once == SelectSeq([i \in DOMAIN numbers |-> i], fresh)
       IN citations' = [i \in DOMAIN once |-> Resolve(numbers[once[i]])]
  /\ UNCHANGED <<chunkVars, found, fused, score, ranked, context>>

Next ==
  \/ ChunkNext /\ UNCHANGED queryVars
  \/ Search \/ Fuse \/ Rerank \/ Assemble \/ Cite
Spec == Init /\ [][Next]_vars

-----------------------------------------------------------------------------
(* Properties *)

(* A chunk c comes before a chunk d after the fusion if its ranks in the    *)
(* searches are better than those of d, whichever searches the ranks are    *)
(* from; and after the reranking unless that scores c lower; no chunk is    *)
(* there twice.  The later stages do not change the rankings.               *)
Rank(l, c) == IF c \in Range(found[l]) THEN Position(found[l], c) ELSE K + 1
Reorderings == Bijection(1..3, 1..3)
Agreed(c, d) ==
  \E p \in Reorderings : /\ \A l \in 1..3 : Rank(l, c) <= Rank(p[l], d)
                        /\ \E l \in 1..3 : Rank(l, c) < Rank(p[l], d)
Before(s, c, d) == c \in Range(s) /\ (d \in Range(s) => Position(s, c) < Position(s, d))
RankedByAgreement ==
  stage \in {"rerank", "assemble"} =>
  /\ IsInjective(fused) /\ IsInjective(ranked)
  /\ \A c, d \in Range(fused) : Agreed(c, d) =>
       /\ Before(fused, c, d)
       /\ d \in Range(ranked) /\ score[c] >= score[d] => Before(ranked, c, d)

(* The context has the first chunks retrieved, each under its number and    *)
(* all but the last whole, and the budget is kept, whitespace aside; a      *)
(* number that is cited is resolved to the chunk which the context shows    *)
(* under it, and refused only if no chunk of that number was retrieved.     *)
SourcesResolve ==
  /\ RankedByAgreement
  /\ \A b \in DOMAIN context :
       /\ context[b].source = b /\ context[b].chunk = ranked[b]
       /\ b < Len(context) => context[b].parts = Len(chunks[ranked[b]].text)
  /\ Sum([b \in DOMAIN context |-> Tokens(context[b].chunk, context[b].parts)]) <= TokenBudget
  /\ \A i \in DOMAIN citations :
       /\ citations[i][2] = 0 <=> citations[i][1] \notin 1..Len(ranked)
       /\ \A b \in DOMAIN context : context[b].source = citations[i][1] =>
            context[b].chunk = citations[i][2]
=============================================================================
