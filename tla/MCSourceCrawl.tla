---------------------------- MODULE MCSourceCrawl ----------------------------
(***************************************************************************)
(* SourceCrawl with interchangeable readers.                               *)
(***************************************************************************)
EXTENDS SourceCrawl, AnnouncementChecks

Symmetry == Permutations(Reader)

=============================================================================
