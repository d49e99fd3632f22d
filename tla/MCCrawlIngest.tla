--------------------------- MODULE MCCrawlIngest ---------------------------
(***************************************************************************)
(* CrawlIngest on editions that tell apart the ways an announcement moves: *)
(* new content with another file, and the same content with another file.  *)
(***************************************************************************)
EXTENDS CrawlIngest, TLC

CONSTANTS u1, u2, hA, hB

MCEdition ==
    {[hash |-> hA, urls |-> {u1}],
     [hash |-> hA, urls |-> {u2}],
     [hash |-> hB, urls |-> {u1, u2}]}

\* Crawls are interchangeable, and so are the two files: MCEdition names both alike.
Symmetry == {p @@ q : p \in Permutations(Crawl), q \in Permutations({u1, u2})}

=============================================================================
