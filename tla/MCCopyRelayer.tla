---------------------------- MODULE MCCopyRelayer ----------------------------
(* Small instances of CopyRelayer: two sessions that follow one Leader.      *)
EXTENDS CopyRelayer, TLC

CONSTANTS s1, s2

DustFirst == {<<s1, 1>>}

\* A new deployment, and one that may find an old row of the first session.
NothingLeft == {<<>>}
MayBeLeft == {<<>>, <<s1>>}

=============================================================================
