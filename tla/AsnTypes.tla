------------------------------ MODULE AsnTypes ------------------------------
(***************************************************************************)
(* The integer types of lib/snmpy/agentx.py that values are served in.     *)
(***************************************************************************)
EXTENDS Integers

CONSTANT Half   \* 2^32; small for TLC

ASSUME HalfAssumption == Half \in Nat \ {0} /\ Half % 2 = 0

\* Counter64.split_int and get_value, for what is not negative and below 2^64.
Split(n) == [high |-> n \div Half, low |-> n % Half]
Join(c) == c.high * Half + c.low

\* Mutant: the highest bit is no sign.
Unsigned(n) == n % Half

\* Integer32: a c_int keeps the low 32 bits and takes the highest as the sign.
Signed(n) == ((n + Half \div 2) % Half) - Half \div 2
=============================================================================
