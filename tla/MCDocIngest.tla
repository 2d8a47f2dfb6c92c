---------------------------- MODULE MCDocIngest ----------------------------
(***************************************************************************)
(* Instances of DocIngest for TLC: the length of each content.               *)
(***************************************************************************)
EXTENDS DocIngest, TLC

CONSTANTS short, long

\* "long" takes two requests of two points each, "short" one.
MCChunkCount == (short :> 1) @@ (long :> 2)

MCSymmetry == Permutations(KBs) \cup Permutations(Docs)

\* Documents one after another: no call is made while another is at work, and
\* nothing fails.
QuietNext ==
    \/ /\ \A c \in CallIds : ~ Busy(c)
       /\ \E c \in CallIds, r \in RunIds, k \in KBs, d \in Docs, x \in Contents :
             FirstDocument(c, r, k, d, x) \/ NextDocument(c, r, d, x)
    \/ \E c \in CallIds : Step(c)

QuietSpec == Init /\ [][QuietNext]_vars

=============================================================================
