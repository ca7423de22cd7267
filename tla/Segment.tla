------------------------------ MODULE Segment ------------------------------
(***************************************************************************)
(* The MSS clamp (internal/policy/mss.go): it cuts the MSS a SYN announces *)
(* to what a tunnel carries and mends the checksum by the word it changed. *)
(*                                                                         *)
(* Bytes and words have their real widths.  Of a segment only the options  *)
(* are looked at one by one; the other words count by their sum, rest.     *)
(* syn says that it is a SYN, whole and with a valid header.  There is no  *)
(* state here.                                                             *)
(***************************************************************************)
EXTENDS Integers, Sequences

Byte == {n \in Nat : n < 256}
Word == {n \in Nat : n < 65536}

Seg == [syn : BOOLEAN, opts : Seq(Byte), rest : Nat, sum : Word]

----------------------------------------------------------------------------
(***************************************************************************)
(* Ones' complement sums.                                                  *)
(***************************************************************************)
Not(w) == 65535 - w

\* Carries are added back until none is left.
Carry[x \in Nat] == IF x < 65536 THEN x ELSE Carry[(x % 65536) + (x \div 65536)]

WordAt(o, i) == 256 * o[i] + o[i + 1]

SumOf(o) ==
  LET upto[n \in 0..(Len(o) \div 2)] == IF n = 0 THEN 0 ELSE upto[n - 1] + WordAt(o, 2 * n - 1)
  IN  upto[Len(o) \div 2]

ChecksumOf(o, rest) == Not(Carry[SumOf(o) + rest])

\* What the receiving TCP looks at.
Verifies(s) == Carry[SumOf(s.opts) + s.rest + s.sum] = 65535
----------------------------------------------------------------------------
(***************************************************************************)
(* ClampMSS.                                                               *)
(***************************************************************************)
NoMss == 0

\* Mutant of MssFrom: the length byte of an option is not checked.
MssFromUnchecked(o) ==
  LET from[i \in Nat] ==
        IF i + 3 > Len(o) \/ o[i] = 0 THEN NoMss
        ELSE IF o[i] = 1 THEN from[i + 1]
        ELSE IF o[i] = 2 THEN i
        ELSE from[i + (IF o[i + 1] < 2 THEN 2 ELSE o[i + 1])]
  IN  from[1]

\* Where the walk over the options finds an MSS, or NoMss.
MssFrom(o) ==
  LET from[i \in 1..(Len(o) + 1)] ==
        IF i > Len(o) \/ o[i] = 0 THEN NoMss
        ELSE IF o[i] = 1 THEN from[i + 1]
        ELSE IF i = Len(o) \/ o[i + 1] < 2 \/ i + o[i + 1] > Len(o) + 1 THEN NoMss
        ELSE IF o[i] = 2 /\ o[i + 1] = 4 THEN i
        ELSE from[i + o[i + 1]]
  IN  from[1]

\* Mutant of fixChecksum: one carry is forgotten.
fixChecksumNoCarry(sum, old, cur) == Not((Not(sum) + Not(old) + cur) % 65536)

fixChecksum(sum, old, cur) == Not(Carry[Not(sum) + Not(old) + cur])

Cut(s, i, max) ==
  [s EXCEPT !.opts = [@ EXCEPT ![i + 2] = max \div 256, ![i + 3] = max % 256],
            !.sum = fixChecksum(@, WordAt(s.opts, i + 2), max)]

\* Mutant of ClampMSS: what is announced is set, also where it was less.
ClampMSSAlways(s, max) ==
  LET i == MssFrom(s.opts)
  IN  IF ~ s.syn \/ i = NoMss THEN s ELSE Cut(s, i, max)

ClampMSS(s, max) ==
  LET i == MssFrom(s.opts)
  IN  IF ~ s.syn \/ i = NoMss THEN s
      ELSE IF WordAt(s.opts, i + 2) <= max THEN s ELSE Cut(s, i, max)
----------------------------------------------------------------------------
(***************************************************************************)
(* The first MSS among the options, without a walk: i starts an option if  *)
(* the options before it fill the bytes up to it.                          *)
(***************************************************************************)
LengthAt(o, i) == IF o[i] = 1 THEN 1 ELSE IF i < Len(o) THEN o[i + 1] ELSE 0

WellFormed(o, i) ==
  o[i] # 0 /\ LengthAt(o, i) > (IF o[i] = 1 THEN 0 ELSE 1) /\ i + LengthAt(o, i) <= Len(o) + 1

Starts(o, i) ==
  \E before \in SUBSET (1..(i - 1)) :
    /\ 1 \in before \cup {i}
    /\ \A j \in before :
         /\ WellFormed(o, j)
         /\ j + LengthAt(o, j) \in before \cup {i}
         /\ \A k \in before : k <= j \/ k >= j + LengthAt(o, j)

IsMss(o, i) == o[i] = 2 /\ WellFormed(o, i) /\ LengthAt(o, i) = 4 /\ Starts(o, i)

FirstMss(o, i) == IsMss(o, i) /\ \A j \in 1..(i - 1) : ~ IsMss(o, j)
=============================================================================
