------------------------------- MODULE Shamir -------------------------------
(***************************************************************************)
(* The secret sharing of src/src/shamir.rs over GF(2^Bits): split and      *)
(* reconstruct, with the arithmetic as the code does it.  The 64 bytes of  *)
(* a secret are shared independently of each other; the model shares one.  *)
(***************************************************************************)
EXTENDS GaloisField, Sequences, FiniteSets, SequencesExt

CONSTANTS
  MaxCoeffs,  \* length of the coefficient array; 32 in the code
  MaxN        \* bound: shares of the largest split; 255 in the code

ASSUME ShamirAssumption ==
  MaxCoeffs \in Nat \ {0, 1} /\ MaxN \in 1 .. 2 ^ Bits - 1

None == -1

VARIABLES
  sharing,   \* "idle", "shared", "rebuilt" or "over"
  secret, parties, t,  \* the arguments of split
  shares,  \* index -> data, as split returned them
  given,   \* indices of the shares handed to reconstruct, in their order
  outcome, \* how the last split ended
  value    \* what the last reconstruct returned

shamirVars == <<sharing, secret, parties, t, shares, given, outcome, value>>

ShamirInit ==
  /\ sharing = "idle" /\ secret = 0 /\ parties = 0 /\ t = 0
  /\ shares = << >> /\ given = << >> /\ outcome = "none" /\ value = None

----------------------------------------------------------------------------
(* Arithmetic                                                              *)

\* The products and the sums of all pairs.
Mul == [p \in Field \X Field |-> gf_mul(p[1], p[2])]
Add == [p \in Field \X Field |-> Xor(p[1], p[2])]

\* Square and multiply with a given exponent.
Power(x, e) ==
  LET base[i \in 0 .. Bits] == IF i = 0 THEN x ELSE Mul[<<base[i - 1], base[i - 1]>>]
      acc[i \in 0 .. Bits] ==
        IF i = 0 THEN 1
        ELSE IF Bit(e, i - 1) = 1 THEN Mul[<<acc[i - 1], base[i - 1]>>] ELSE acc[i - 1]
  IN  acc[Bits]

\* Mutant of gf_inv: the exponent is off by one.
gf_inv_off(x) == Power(x, 2 ^ Bits - 1)

\* gf_inv: Fermat's little theorem, x^(2^Bits - 2).
gf_inv(x) == Power(x, 2 ^ Bits - 2)

\* gf_eval: the polynomial with the given coefficients, constant term first.
gf_eval(coeffs, x) ==
  LET x_pow[i \in 0 .. Len(coeffs)] == IF i = 0 THEN 1 ELSE Mul[<<x_pow[i - 1], x>>]
      acc[i \in 0 .. Len(coeffs)] ==
        IF i = 0 THEN 0 ELSE Add[<<acc[i - 1], Mul[<<coeffs[i], x_pow[i - 1]>>]>>]
  IN  acc[Len(coeffs)]

----------------------------------------------------------------------------
(* split                                                                   *)

Invalid(m, k) == m < 1 \/ k < 2 \/ k > m

\* A call that returns no shares.
NoShares(s, m, k, why) ==
  /\ sharing = "idle" /\ sharing' = "over"
  /\ secret' = s /\ parties' = m /\ t' = k /\ outcome' = why
  /\ UNCHANGED <<shares, given, value>>

SplitRefused(s, m, k) == Invalid(m, k) /\ NoShares(s, m, k, "refused")

\* getrandom answers with an error.
SplitFails(s, m, k) == ~Invalid(m, k) /\ NoShares(s, m, k, "rng")

\* coeffs[j] with j = MaxCoeffs is out of bounds: the process aborts.
SplitAborts(s, m, k) ==
  ~Invalid(m, k) /\ k > MaxCoeffs /\ NoShares(s, m, k, "abort")

\* Mutant of Coefficients: the last one is never drawn.
CoefficientsOneShort(k) == {a \in [1 .. k - 1 -> Field] : a[k - 1] = 0}

\* The random coefficients of a polynomial of degree k - 1.
Coefficients(k) == [1 .. k - 1 -> Field]

\* The x-coordinates of the shares.
Indices(m) == 1 .. m

SplitOk(s, m, k) ==
  /\ sharing = "idle" /\ ~Invalid(m, k) /\ k <= MaxCoeffs
  /\ \E a \in Coefficients(k) :
       shares' = [i \in Indices(m) |-> gf_eval(<<s>> \o a, i)]
  /\ sharing' = "shared" /\ secret' = s /\ parties' = m /\ t' = k /\ outcome' = "some"
  /\ UNCHANGED <<given, value>>

----------------------------------------------------------------------------
(* reconstruct                                                             *)

\* Product of the field elements of a sequence.
Product(s) ==
  LET p[i \in 0 .. Len(s)] == IF i = 0 THEN 1 ELSE Mul[<<p[i - 1], s[i]>>] IN p[Len(s)]

\* The Lagrange basis polynomial of the i-th share of g at zero; None if the
\* denominator has no inverse.
Basis(g, i) ==
  LET others == RemoveAt(g, i)
      num == Product(others)
      den_inv == gf_inv(Product([j \in DOMAIN others |-> Add[<<g[i], others[j]>>]]))
  IN  IF den_inv = 0 THEN None ELSE Mul[<<num, den_inv>>]

Duplicates(g) == \E i, j \in DOMAIN g : i # j /\ g[i] = g[j]

\* The value that reconstruct returns for the shares with the indices g.
Rebuilt(g) ==
  LET value_[i \in 0 .. Len(g)] ==
        IF i = 0 THEN 0 ELSE Add[<<value_[i - 1], Mul[<<shares[g[i]], Basis(g, i)>>]>>]
  IN  IF g = << >> \/ Duplicates(g) \/ \E i \in DOMAIN g : Basis(g, i) = None THEN None
      ELSE value_[Len(g)]

Reconstruct(g) ==
  /\ sharing = "shared"
  /\ sharing' = "rebuilt" /\ given' = g /\ value' = Rebuilt(g)
  /\ UNCHANGED <<secret, parties, t, shares, outcome>>

\* The caller drops what it holds; a Share wipes its data.
DropShares ==
  /\ sharing \in {"rebuilt", "over"}
  /\ sharing' = "idle" /\ secret' = 0 /\ parties' = 0 /\ t' = 0
  /\ shares' = << >> /\ given' = << >> /\ outcome' = "none" /\ value' = None

ShamirNext ==
  \/ /\ sharing = "idle"
     /\ \E s \in Field, m \in 0 .. MaxN, k \in 0 .. MaxN + 1 :
            \/ SplitRefused(s, m, k) \/ SplitFails(s, m, k)
          \/ SplitAborts(s, m, k) \/ SplitOk(s, m, k)
  \/ sharing = "shared" /\ \E g \in BoundedSeq(1 .. parties, parties) : Reconstruct(g)
  \/ DropShares

ShamirSpec == ShamirInit /\ [][ShamirNext]_shamirVars

----------------------------------------------------------------------------
(* Properties                                                              *)

\* Whatever shares reconstruct is given, in whatever order and number, if they are
\* distinct and at least as many as the threshold then it returns the secret that
\* split was given, and it refuses a list in which an index occurs twice, wherever
\* the two stand.
RoundTrip ==
  sharing = "rebuilt" =>
    IF Cardinality(Range(given)) < Len(given) THEN value = None
    ELSE Len(given) >= t => value = secret

\* One share less than the threshold tells nothing of the secret: whatever the
\* holders of t - 1 shares have seen, every secret has exactly one draw of the
\* coefficients behind it that agrees with their shares.
Secrecy ==
  sharing = "shared" =>
    \A I \in kSubset(t - 1, DOMAIN shares), s \in Field :
      Cardinality({a \in Coefficients(t) :
                     \A i \in I : gf_eval(<<s>> \o a, i) = shares[i]}) = 1

\* split keeps its promise for every threshold that its documentation allows: a
\* call with 2 <= t <= parties returns, with shares or with None.
SplitAlwaysReturns == ~Invalid(parties, t) => outcome # "abort"
=============================================================================
