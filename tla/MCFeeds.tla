------------------------------- MODULE MCFeeds -------------------------------
(* One fetcher of a feed of three records, the last two of which the audit   *)
(* anticipates; pages of one record, so that a window takes several.         *)
EXTENDS Feeds
CONSTANTS p1, p2

One == {p1}
Two == {p1, p2}
=============================================================================
