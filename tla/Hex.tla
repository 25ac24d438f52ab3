--------------------------------- MODULE Hex ---------------------------------
(***************************************************************************)
(* Block heights as pkg/x/types holds them: strings "0x" followed by the   *)
(* digits of the number, without leading zeros when they come from         *)
(* HexFromInt or from a node.  A height is represented by its number; what *)
(* the string form adds is that Go compares strings from the left.         *)
(***************************************************************************)
EXTENDS Integers

\* Number of hexadecimal digits that fmt's %x prints for n, one for 0.
HasDigits(n, k) == n < 16^k /\ \A j \in 1..(k-1) : 16^j <= n
Digits(n) == CHOOSE k \in 1..16 : HasDigits(n, k)

\* The Go expression a >= b on two Hex strings.  The shorter one is compared
\* with as many leading digits of the longer; when they agree it is the less.
StringGeq(a, b) ==
  LET la == Digits(a)
      lb == Digits(b)
  IN IF la >= lb THEN a \div 16^(la - lb) >= b
     ELSE a > b \div 16^(lb - la)

\* Hex.Add goes through int64.
Add(a, n) == a + n
=============================================================================
