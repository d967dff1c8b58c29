------------------------------- MODULE TcpSeq -------------------------------
(***************************************************************************)
(* 32-bit TCP sequence numbers: arithmetic modulo SeqSpace and the         *)
(* circular comparisons of transport/tcp/TCPConnection.h.  The code's      *)
(* SeqSpace is 2^32; the models use a small one, so that numbers do wrap.  *)
(***************************************************************************)
EXTENDS Integers

CONSTANT SeqSpace

ASSUME SeqSpaceAssumption == SeqSpace \in Nat /\ SeqSpace >= 4 /\ SeqSpace % 2 = 0

SeqNo == 0 .. (SeqSpace - 1)

(* uint32 addition and subtraction. *)
Plus(a, n)  == (a + n) % SeqSpace
Minus(a, b) == (a - b) % SeqSpace

seqLess(a, b)    == a # b /\ Minus(b, a) < SeqSpace \div 2
seqLE(a, b)      == Minus(b, a) < SeqSpace \div 2
seqGreater(a, b) == a # b /\ Minus(a, b) < SeqSpace \div 2
seqGE(a, b)      == Minus(a, b) < SeqSpace \div 2
=============================================================================
