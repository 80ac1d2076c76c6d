-------------------------------- MODULE OpsCode --------------------------------
(***************************************************************************)
(* The decoders of drone_bridge/vision_lock.py, from the microseconds a    *)
(* radio channel carries to a 6-bit position, a flat ops code or a         *)
(* normalized box coordinate, in exact integer arithmetic.                 *)
(*                                                                         *)
(* The encoders at the end are the phone's, as quantize_64 describes them. *)
(***************************************************************************)
EXTENDS Integers

WideMin == 988
WideMax == 2012
WidePosMax == 63
MinGuard == 1000
MaxGuard == 2000
NormRange == 1024
OpsCodeMax == 15

(* Python's round() of n / d: to the nearest, a half to the even neighbour.*)
RoundHalfEven(n, d) ==
  LET q == n \div d
      twice == 2 * (n - q * d)
  IN IF twice < d \/ (twice = d /\ q % 2 = 0) THEN q ELSE q + 1

Quantize64(us) ==
  IF us <= MinGuard THEN 0
  ELSE IF us >= MaxGuard THEN WidePosMax
  ELSE RoundHalfEven((us - WideMin) * WidePosMax, WideMax - WideMin)

\* Mutant: the position is cut down to a multiple of 4, not rounded.
DecodeOpsCode_Cut(us) ==
  IF us <= MinGuard THEN 0
  ELSE IF us >= MaxGuard THEN OpsCodeMax
  ELSE Quantize64(us) \div 4

DecodeOpsCode(us) ==
  IF us <= MinGuard THEN 0
  ELSE IF us >= MaxGuard THEN OpsCodeMax
  ELSE LET code == (Quantize64(us) + 2) \div 4
       IN IF code > OpsCodeMax THEN OpsCodeMax ELSE code

DecodeBoxNorm(us) ==
  RoundHalfEven(Quantize64(us) * (NormRange - 1), WidePosMax)

-----------------------------------------------------------------------------
(* The phone: positions on the wire, codes four positions apart.           *)

PosUs(pos) == RoundHalfEven(WideMin * WidePosMax + pos * (WideMax - WideMin), WidePosMax)

CodeUs(code) == PosUs(4 * code)

NormPos(norm) == RoundHalfEven(norm * WidePosMax, NormRange - 1)
================================================================================
