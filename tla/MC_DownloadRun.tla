--------------------------- MODULE MC_DownloadRun ---------------------------
(* Two runs of one profile over a cache.  Three files just fit; the budget *)
(* allows two of them at a time at their worst, then the last one with no  *)
(* byte to spare.                                                          *)
EXTENDS DownloadRun

MCSize(f) == IF f = 1 THEN 2 ELSE 1
=============================================================================
