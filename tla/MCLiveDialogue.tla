--------------------------- MODULE MCLiveDialogue ---------------------------
EXTENDS LiveDialogue, TLC
CONSTANTS s1, s2, g
Sockets == Permutations({s1, s2})
MCTemplates ==
    {<<[key |-> "topics_assessment", count |-> 1],
       [key |-> "coding", count |-> 1],
       [key |-> "coding_round", count |-> 1]>>,
     <<[key |-> "topics_assessment", count |-> 2],
       [key |-> "self_introduction", count |-> 0]>>,
     <<[key |-> "behavioral", count |-> 0]>>}
=============================================================================
