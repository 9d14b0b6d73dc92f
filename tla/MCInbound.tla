----------------------------- MODULE MCInbound -----------------------------
(* An instance of Inbound: a1 and a2 deliver message a, b1 message b.        *)
EXTENDS Inbound, TLC
CONSTANTS a, b
MCMessages == {a, b}
MCMessageOf == [c \in Copies |-> IF c = "b1" THEN b ELSE a]
MCRequests == Copies \X (1..Parts)
\* A repetition, or another message: what the platform delivers beside a1.
TwoCopies == copy["a2"] = "away" \/ copy["b1"] = "away"
=============================================================================
