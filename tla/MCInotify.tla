----------------------------- MODULE MCInotify -----------------------------
(* Run of Inotify: a name padded by one cell and two padded by a whole      *)
(* header, whose second bytes no UTF-8 text has at that place.              *)
EXTENDS Inotify

ShortNames == {<<97>>, <<97, 128>>, <<97, 129>>}

\* A byte that starts no character becomes U+FFFD: two of the names collapse.
Replaced(n) == [i \in DOMAIN n |-> IF n[i] < 128 THEN n[i] ELSE 65533]
=============================================================================
