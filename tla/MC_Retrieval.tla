------------------------------ MODULE MC_Retrieval ------------------------------
(* Model-checking instance of Retrieval, over chunks of short documents.     *)
EXTENDS Retrieval

Page(level, table, sizes) == [level |-> level, table |-> table, sizes |-> sizes]
Short == {<<>>, <<2>>, <<1, 7>>}
Texts == UNION {[1..n -> {1, 2, 4, 7}] : n \in 0..5}
Docs ==
  {[source |-> "url", pages |-> <<Page("none", FALSE, t)>>] : t \in Texts}
  \cup {[source |-> s, pages |-> [i \in 1..3 |-> Page(ls[i], table, ts[i])]] :
         s \in {"docx", "pdf"}, ls \in [1..3 -> {"none", "h1", "h3"}],
         table \in BOOLEAN, ts \in [1..3 -> Short]}

(* Documents of one chunk, of two that overlap, and of four *)
Few == {[source |-> "url", pages |-> <<Page("none", FALSE, t)>>] :
          t \in {<<2, 2>>, <<2, 2, 1>>, <<4, 2, 4, 4>>}}
=============================================================================
