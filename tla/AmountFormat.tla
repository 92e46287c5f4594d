---------------------------- MODULE AmountFormat ----------------------------
(***************************************************************************)
(* Currency.format_value: how an amount is shown.  Shown is the number a   *)
(* reader takes the text for, in wei.                                      *)
(***************************************************************************)
EXTENDS Amounts

Mega == 1000 * 1000
Giga == 1000 * Mega
Tera == 1000 * Giga
Peta == 1000 * Tera
Exa == 1000 * Peta

\* The powers of ten below Exa.
Powers == {a * b : a \in {1, 10, 100}, b \in {1, 1000, Mega, Giga, Tera, Peta}}

\* The wei of what the amount is counted in: whole tokens, Twei, Gwei, Mwei or wei.
Unit(n) ==
  IF n >= Peta THEN Exa ELSE IF n >= Tera THEN Tera ELSE IF n >= Giga THEN Giga
  ELSE IF n >= Mega THEN Mega ELSE 1

Integral(n) == n \div Unit(n)
Frac(n) == n % Unit(n)

\* The power of ten of the first digit.
Lead(f) == CHOOSE p \in Powers : p <= f /\ f < 10 * p

\* The format .3g: three digits.
ThreeDigits(f) == IF f < 100 THEN f ELSE RoundTo(f, Lead(f) \div 100)

\* The text of the fraction without its first character.  That is a zero, or the one of a
\* fraction rounded up to 1.00, or the first digit of one below 10^-6, which is written
\* d.dde-k: what is left of it stands behind the integral part and scales it.
Shown(n) ==
  LET u == Unit(n)
      i == Integral(n)
      r == ThreeDigits(Frac(n)) IN
  IF r = 0 \/ r = u THEN i * u
  ELSE IF Mega * r >= u THEN i * u + r
  ELSE i * Lead(r) + (r % Lead(r))
=============================================================================
