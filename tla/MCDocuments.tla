---------------------------- MODULE MCDocuments ----------------------------
(***************************************************************************)
(* Documents on a readable file of exactly the cap, a scan, and a file     *)
(* that is over the cap.                                                   *)
(***************************************************************************)
EXTENDS Documents

CONSTANTS exact, scan, large

\* Two announcements of one file, and of different ones.
MCServed == {<<exact, exact>>, <<exact, scan>>, <<large, exact>>}

MCSize == [f \in File |->
    CASE f = exact -> MaxBytes [] f = scan -> 1 [] f = large -> MaxBytes + 1]

MCVerdict == [f \in File |-> IF f = scan THEN "INSUFFICIENT_TEXT" ELSE "COMPLETED"]

=============================================================================
