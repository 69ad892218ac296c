----------------------------- MODULE MCConsole -----------------------------
(* Instances of Console for TLC. *)
EXTENDS Console

CONSTANT a

OneLetter == {a}
Nobody == {}
First == {1}
Both == VC
Everywhere == Locations
\* Key interrupts are held off while a thread goes to sleep or stores a character.
OutsideWait == Locations \ {"link", "fill", "write", "store"}
\* They are held off only while a thread stores a character.
OutsideStore == Locations \ {"store"}
=============================================================================
