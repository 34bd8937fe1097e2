---------------------------- MODULE MCRingBuffer ----------------------------
(* Two application threads, the reporting thread and the shutdown hook.    *)
EXTENDS RingBuffer, TLC

CONSTANTS p1, p2, daemon, hook

MCProducer == {p1, p2}
MCDrainer == {daemon, hook}

\* Threads of one kind run the same code and no property names one of them.
ThreadSymmetry == Permutations(MCProducer) \cup Permutations(MCDrainer)
=============================================================================
