------------------------------- MODULE Stacks -------------------------------
(***************************************************************************)
(* std::stack as a sequence whose last element is the top.                 *)
(***************************************************************************)
EXTENDS Integers, Sequences

Top(s) == s[Len(s)]
Pop(s) == SubSeq(s, 1, Len(s) - 1)
Push(s, e) == Append(s, e)
InStack(e, s) == \E i \in 1 .. Len(s) : s[i] = e
=============================================================================
