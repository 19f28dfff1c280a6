--------------------------- MODULE MailboxCallsProofs ---------------------------
(***************************************************************************)
(* The calls through the mailbox, for every call, set of arguments and       *)
(* sink: the caller is given what it asked for (CallsAnswered), and the      *)
(* data it is handed a pointer to is left alone until the next reply         *)
(* (DataKept).  First the layouts: numbers of one, two and four bytes, four  *)
(* at most, are read back as they were laid out, whatever a byte holds.  The *)
(* invariant then follows the calls on their way: which of them each message *)
(* is, and the registers as they are between one and the next.              *)
(***************************************************************************)
EXTENDS MailboxCalls, SequenceTheorems, TLAPS

LEMMA DivMod ==
  ASSUME NEW n \in Int, NEW m \in Nat \ {0}
  PROVE  n \div m \in Int /\ n % m \in 0 .. m - 1 /\ n = m * (n \div m) + (n % m)
  OBVIOUS

-----------------------------------------------------------------------------
(* The layouts.                                                            *)

LEMMA RadixType == Radix \in Nat /\ Radix > 17
  <1>1. "GetHpdStatus" \in Calls BY DEF Calls, Header
  <1>2. Header["GetHpdStatus"][1] = 17 BY DEF Header
  <1> QED BY <1>1, <1>2, RadixAssumption

LEMMA Weights ==
  /\ Weight[1] = 1 /\ Weight[2] = Radix /\ Weight[3] = Radix * Radix
  /\ Weight[4] = Radix * Radix * Radix /\ Weight[5] = Radix * Radix * Radix * Radix
  BY Zenon DEF Weight

(* A quotient is what leaves a remainder below the divisor.                 *)
LEMMA Quotient ==
  ASSUME NEW d \in Nat \ {0}, NEW q \in Int, NEW r \in 0 .. d - 1
  PROVE  (d * q + r) \div d = q
  <1> DEFINE n == d * q + r
             p == n \div d
  <1>1. n \in Int OBVIOUS
  <1>2. p \in Int /\ n % d \in 0 .. d - 1 /\ n = d * p + (n % d) BY <1>1, DivMod
  <1> HIDE DEF p
  <1>3. CASE p < q
    <2>1. p + 1 <= q BY <1>2, <1>3
    <2>2. d * (p + 1) <= d * q BY <1>2, <2>1
    <2>3. d * (p + 1) = d * p + d BY <1>2
    <2> QED BY <1>2, <2>2, <2>3
  <1>4. CASE p > q
    <2>1. q + 1 <= p BY <1>2, <1>4
    <2>2. d * (q + 1) <= d * p BY <1>2, <2>1
    <2>3. d * (q + 1) = d * q + d OBVIOUS
    <2> QED BY <1>2, <2>2, <2>3
  <1> QED BY <1>2, <1>3, <1>4 DEF p

LEMMA Remainder ==
  ASSUME NEW d \in Nat \ {0}, NEW n \in 0 .. d - 1
  PROVE  n % d = n
  <1>1. (d * 0 + n) \div d = 0 BY Quotient
  <1>2. d * 0 + n = n /\ d * 0 = 0 OBVIOUS
  <1>3. n \div d = 0 BY <1>1, <1>2
  <1>4. n = d * (n \div d) + (n % d) /\ n % d \in 0 .. d - 1 BY DivMod
  <1> QED BY <1>2, <1>3, <1>4

(* To take off two numbers at once is to take off one and then the other.   *)
LEMMA TwoQuotients ==
  ASSUME NEW n \in Nat, NEW d \in Nat \ {0}, NEW e \in Nat \ {0}
  PROVE  n \div (d * e) = (n \div d) \div e
  <1> DEFINE p == n \div d
             r == n % d
             q == p \div e
             s == p % e
  <1>1. p \in Int /\ r \in 0 .. d - 1 /\ n = d * p + r BY DivMod
  <1> HIDE DEF p, r
  <1>2. q \in Int /\ s \in 0 .. e - 1 /\ p = e * q + s BY <1>1, DivMod
  <1> HIDE DEF q, s
  <1>3. n = d * (e * q + s) + r BY <1>1, <1>2
  <1>4. d * (e * q + s) = (d * e) * q + d * s BY <1>1, <1>2
  <1>5. d * s + r \in 0 .. d * e - 1
    <2>1. d * s >= 0 BY <1>2
    <2>2. s + 1 <= e BY <1>2
    <2>3. d * (s + 1) <= d * e BY <1>2, <2>2
    <2>4. d * (s + 1) = d * s + d BY <1>2
    <2>5. d * s \in Int /\ d * e \in Int BY <1>2
    <2> QED BY <1>1, <2>1, <2>3, <2>4, <2>5
  <1> DEFINE f == d * e
             t == d * s + r
  <1>6. f \in Nat \ {0} /\ t \in 0 .. f - 1
    <2>1. d * e \in Nat /\ d * e # 0 OBVIOUS
    <2> QED BY <2>1, <1>5
  <1>7. n = f * q + t
    <2>1. (d * e) * q \in Int /\ d * s \in Int BY <1>2
    <2> QED BY <1>1, <1>2, <1>3, <1>4, <2>1
  <1> HIDE DEF f, t
  <1>8. (f * q + t) \div f = q BY <1>2, <1>6, Quotient
  <1> QED BY <1>7, <1>8 DEF f, p, q

(* What internal_itobe() laid out, internal_betoi() reads back, for any     *)
(* value of the bytes in use.                                              *)
Readable == {1, 2, 4}

LEMMA NumberReadBack ==
  ASSUME NEW size \in Readable, NEW n \in 0 .. Weight[size + 1] - 1, NEW src,
         \A i \in 1 .. size : src[i] = internal_itobe(n, size)[i]
  PROVE  internal_betoi(src, size) = n
  <1> DEFINE R == Radix
             q1 == n \div R
             q2 == q1 \div R
             q3 == q2 \div R
             b(i) == IF i <= size THEN src[i] * Weight[size - i + 1] ELSE 0
  <1>0. R \in Nat \ {0} BY RadixType
  <1>1. n \in Nat
    <2>1. Weight[size + 1] \in Nat BY Weights, RadixType DEF Readable
    <2> QED BY <2>1
  <1>2. /\ q1 \in Int /\ n % R \in 0 .. R - 1 /\ n = R * q1 + (n % R)
        /\ q2 \in Int /\ q1 % R \in 0 .. R - 1 /\ q1 = R * q2 + (q1 % R)
        /\ q3 \in Int /\ q2 % R \in 0 .. R - 1 /\ q2 = R * q3 + (q2 % R)
    BY <1>0, <1>1, DivMod
  <1>3. n \div 1 = n BY <1>1
  <1>q. q1 \in Nat /\ q2 \in Nat
    <2>1. q1 >= 0
      <3>1. CASE q1 < 0
        <4>1. R * q1 <= R * (-1) BY <1>0, <1>2, <3>1
        <4> QED BY <1>0, <1>1, <1>2, <4>1
      <3> QED BY <1>2, <3>1
    <2>2. q2 >= 0
      <3>1. CASE q2 < 0
        <4>1. R * q2 <= R * (-1) BY <1>0, <1>2, <3>1
        <4> QED BY <1>0, <1>2, <4>1, <2>1
      <3> QED BY <1>2, <3>1
    <2> QED BY <1>2, <2>1, <2>2
  <1>4. n \div (R * R) = q2 BY <1>0, <1>1, TwoQuotients
  <1>5. n \div (R * R * R) = q3
    <2>1. R * R \in Nat \ {0} BY <1>0
    <2>2. n \div (R * R * R) = (n \div (R * R)) \div R BY <1>0, <1>1, <2>1, TwoQuotients, Zenon
    <2> QED BY <1>4, <2>2
  <1> HIDE DEF q1, q2, q3, R
  <1>6. \A i \in 1 .. size : src[i] = (n \div Weight[size - i + 1]) % R
    BY DEF internal_itobe, Readable, R
  <1>w. /\ Weight[1] = 1 /\ Weight[2] = R /\ Weight[3] = R * R
        /\ Weight[4] = R * R * R /\ Weight[5] = R * R * R * R
    BY Weights DEF R
  <1>7. internal_betoi(src, size) = b(1) + b(2) + b(3) + b(4) BY Zenon DEF internal_betoi
  <1>8. CASE size = 1
    <2>1. src[1] = n % R BY <1>6, <1>8, <1>3, <1>w
    <2>2. n < R BY <1>w, <1>8, <1>0
    <2>3. src[1] = n BY <2>1, <2>2, <1>0, <1>1, Remainder
    <2> QED BY <1>7, <1>8, <1>w, <2>3, <1>1
  <1>9. CASE size = 2
    <2>1. src[1] = q1 % R /\ src[2] = n % R BY <1>6, <1>9, <1>3, <1>w DEF q1
    <2>2. n < R * R BY <1>w, <1>9, <1>0
    <2>3. q1 < R
      <3>1. CASE q1 >= R
        <4>1. R * q1 >= R * R BY <1>0, <1>2, <3>1
        <4>2. R * R \in Int /\ R * q1 \in Int BY <1>0, <1>2
        <4> QED BY <1>0, <1>1, <1>2, <2>2, <4>1, <4>2
      <3> QED BY <3>1, <1>0, <1>2
    <2>4. src[1] = q1 BY <2>1, <2>3, <1>0, <1>q, Remainder
    <2>5. b(1) = q1 * R /\ b(2) = n % R /\ b(3) = 0 /\ b(4) = 0
      BY <1>9, <1>w, <2>1, <2>4, <1>0, <1>2
    <2> QED BY <1>7, <2>5, <1>2, <1>0
  <1>10. CASE size = 4
    <2>1. src[1] = q3 % R /\ src[2] = q2 % R /\ src[3] = q1 % R /\ src[4] = n % R
      <3>1. n \div Weight[4] = q3 /\ n \div Weight[3] = q2 /\ n \div Weight[2] = q1 /\ n \div Weight[1] = n
        BY <1>3, <1>4, <1>5, <1>w DEF q1
      <3> QED BY <1>6, <1>10, <3>1
    <2>2. n < R * R * R * R BY <1>w, <1>10, <1>0
    <2> DEFINE c == R * R * R
               r2 == q2 % R
               r1 == q1 % R
               r0 == n % R
    <2>t. q3 \in Int /\ r2 \in 0 .. R - 1 /\ r1 \in 0 .. R - 1 /\ r0 \in 0 .. R - 1 BY <1>2
    <2>7. n = R * (R * (R * q3 + r2) + r1) + r0 BY <1>2
    <2>c. c \in Nat /\ c * R = R * R * R * R BY <1>0
    <2> HIDE DEF r2, r1, r0
    <2>8. R * (R * (R * q3 + r2) + r1) = q3 * c + r2 * (R * R) + r1 * R BY <1>0, <2>t
    <2> HIDE DEF c
    <2>3. q3 < R
      <3>1. CASE q3 >= R
        <4>3. r2 * (R * R) >= 0 /\ r1 * R >= 0 /\ r0 >= 0 BY <2>t, <1>0
        <4>4. q3 * c >= R * c BY <2>c, <1>0, <2>t, <3>1
        <4>5. R * c = c * R BY <2>c, <1>0
        <4>6. r2 * (R * R) \in Int /\ r1 * R \in Int /\ q3 * c \in Int /\ c * R \in Int
          BY <1>0, <2>t, <2>c
        <4> QED BY <2>2, <2>7, <2>8, <4>3, <4>4, <4>5, <4>6, <2>c, <2>t, <1>1
      <3> QED BY <3>1, <1>0, <2>t
    <2>4. q3 >= 0
      <3>1. CASE q3 < 0
        <4>1. R * q3 <= R * (-1) BY <1>0, <1>2, <3>1
        <4> QED BY <1>0, <1>2, <4>1, <1>q
      <3> QED BY <1>2, <3>1
    <2>5. q3 \in 0 .. R - 1 BY <1>0, <2>3, <2>4, <2>t
    <2>6. src[1] = q3 BY <2>1, <2>5, <1>0, Remainder
    <2>9. b(1) = q3 * c BY <1>10, <1>w, <2>6 DEF c
    <2>10. b(2) = r2 * (R * R) BY <1>10, <1>w, <2>1 DEF r2
    <2>11. b(3) = r1 * R BY <1>10, <1>w, <2>1 DEF r1
    <2>12. b(4) = r0 BY <1>10, <1>w, <2>1, <2>t DEF r0
    <2> HIDE DEF b
    <2> QED BY <1>7, <2>7, <2>8, <2>9, <2>10, <2>11, <2>12
  <1> QED BY <1>8, <1>9, <1>10 DEF Readable

(* Its bytes are bytes.                                                    *)
LEMMA NumberIsBytes ==
  ASSUME NEW size \in Readable, NEW n \in 0 .. Weight[size + 1] - 1
  PROVE  /\ DOMAIN internal_itobe(n, size) = 1 .. size
         /\ \A i \in 1 .. size : internal_itobe(n, size)[i] \in Bytes
  <1>1. \A i \in 1 .. 5 : Weight[i] \in Nat \ {0} BY Weights, RadixType
  <1>2. n \in Nat BY <1>1 DEF Readable
  <1>3. ASSUME NEW i \in 1 .. size PROVE (n \div Weight[size - i + 1]) % Radix \in Bytes
    <2> DEFINE w == Weight[size - i + 1]
               m == n \div w
    <2>1. w \in Nat \ {0} BY <1>1 DEF Readable
    <2> HIDE DEF w
    <2>2. m \in Int BY <1>2, <2>1, DivMod
    <2> HIDE DEF m
    <2>3. Radix \in Nat \ {0} BY RadixType
    <2>4. m % Radix \in 0 .. Radix - 1 BY <2>2, <2>3, DivMod
    <2> QED BY <2>4 DEF Bytes, m, w
  <1> QED BY <1>3 DEF internal_itobe

(* Four numbers of one, two or four bytes at most, one behind the other.    *)
LayoutSizes == {s \in Seq(Readable) : Len(s) <= 4}

LEMMA Places ==
  ASSUME NEW sizes \in LayoutSizes
  PROVE  /\ Len(sizes) \in 0 .. 4
         /\ Before(sizes, 1) = 0 /\ Total(sizes) = Before(sizes, Len(sizes) + 1)
         /\ \A k \in 1 .. Len(sizes) :
               /\ sizes[k] \in Readable /\ sizes[k] \in 1 .. 4
               /\ Before(sizes, k) \in Nat
               /\ Before(sizes, k + 1) = Before(sizes, k) + sizes[k]
  <1> DEFINE n == Len(sizes)
             size(i, j) == IF i < j /\ i <= n THEN sizes[i] ELSE 0
             before(j) == size(1, j) + size(2, j) + size(3, j) + size(4, j)
  <1>1. n \in 0 .. 4
    <2>1. sizes \in Seq(Readable) /\ n <= 4 BY DEF LayoutSizes
    <2>2. n \in Nat BY <2>1
    <2> HIDE DEF n
    <2> QED BY <2>1, <2>2
  <1>2. \A i \in 1 .. n : sizes[i] \in Readable BY ElementOfSeq DEF LayoutSizes
  <1>3. \A i \in 1 .. n : sizes[i] \in 1 .. 4 BY <1>2 DEF Readable
  <1>4. \A j : Before(sizes, j) = before(j) BY Zenon DEF Before
  <1>5. \A i \in 1 .. 4, j \in 1 .. 5 :
          /\ i < j /\ i <= n => size(i, j) = sizes[i]
          /\ ~(i < j /\ i <= n) => size(i, j) = 0
    BY <1>1
  <1> HIDE DEF size, n
  <1>6. before(1) = 0 BY <1>1, <1>5
  <1>7. \A k \in 1 .. n : before(k + 1) = before(k) + sizes[k] /\ before(k) \in Nat
    <2> SUFFICES ASSUME NEW k \in 1 .. n
                 PROVE  before(k + 1) = before(k) + sizes[k] /\ before(k) \in Nat
      OBVIOUS
    <2>1. k \in 1 .. 4 /\ k <= n BY <1>1
    <2>2. \A i \in 1 .. 4 : size(i, k + 1) = (IF i = k THEN sizes[k] ELSE size(i, k))
      BY <1>1, <1>5, <2>1
    <2>3. \A i \in 1 .. 4 : size(i, k) \in Nat /\ (i >= k => size(i, k) = 0)
      BY <1>1, <1>3, <1>5, <2>1
    <2>4. sizes[k] \in Nat BY <1>3
    <2>5. CASE k = 1 BY <2>2, <2>3, <2>4, <2>5
    <2>6. CASE k = 2 BY <2>2, <2>3, <2>4, <2>6
    <2>7. CASE k = 3 BY <2>2, <2>3, <2>4, <2>7
    <2>8. CASE k = 4 BY <2>2, <2>3, <2>4, <2>8
    <2> QED BY <2>1, <2>5, <2>6, <2>7, <2>8
  <1> HIDE DEF before
  <1> QED BY <1>1, <1>2, <1>3, <1>4, <1>6, <1>7 DEF n, Total

LEMMA PlacesApart ==
  ASSUME NEW sizes \in LayoutSizes, NEW k \in 1 .. Len(sizes)
  PROVE  /\ sizes[k] \in Readable /\ Before(sizes, k) \in Nat
         /\ \A j \in 1 .. Len(sizes) :
               j > k => Before(sizes, k) + sizes[k] <= Before(sizes, j)
         /\ Before(sizes, k) + sizes[k] <= Total(sizes)
  <1> DEFINE n == Len(sizes)
             before(j) == Before(sizes, j)
  <1>1. /\ n \in 0 .. 4
        /\ \A i \in 1 .. n : sizes[i] \in 1 .. 4 /\ before(i) \in Nat /\ before(i + 1) = before(i) + sizes[i]
        /\ Total(sizes) = before(n + 1) /\ sizes[k] \in Readable
    BY Places
  <1> HIDE DEF n, before
  <1>2. \A j \in 1 .. n + 1 : before(j) \in Int /\ (j <= n => before(j) < before(j + 1))
    <2>1. CASE n = 0 BY <2>1 DEF n
    <2>2. CASE n # 0
      <3>1. n \in 1 .. n BY <1>1, <2>2
      <3>2. before(n + 1) = before(n) + sizes[n] /\ before(n) \in Nat /\ sizes[n] \in 1 .. 4
        BY <1>1, <3>1
      <3>3. before(n + 1) \in Int BY <3>2
      <3> SUFFICES ASSUME NEW j \in 1 .. n + 1
                   PROVE  before(j) \in Int /\ (j <= n => before(j) < before(j + 1))
        OBVIOUS
      <3>4. CASE j = n + 1 BY <1>1, <3>3, <3>4
      <3>5. CASE j # n + 1
        <4>1. j \in 1 .. n BY <1>1, <3>5
        <4>2. sizes[j] \in 1 .. 4 /\ before(j) \in Nat /\ before(j + 1) = before(j) + sizes[j]
          BY <1>1, <4>1
        <4> QED BY <4>2
      <3> QED BY <3>4, <3>5
    <2> QED BY <2>1, <2>2
  <1>3. ASSUME NEW j \in 1 .. n + 1, j > k PROVE before(k) + sizes[k] <= before(j)
    <2>0. k \in 1 .. n BY DEF n
    <2>1. k \in 1 .. 4 /\ k <= n /\ n \in 1 .. 4 /\ before(k + 1) = before(k) + sizes[k]
      BY <1>1, <2>0
    <2>2. before(k + 1) <= before(j)
      <3>1. CASE j = k + 1 BY <1>2, <2>1, <3>1
      <3>2. CASE j = k + 2 BY <1>2, <2>1, <3>2
      <3>3. CASE j = k + 3 BY <1>2, <2>1, <3>3
      <3>4. CASE j = k + 4 BY <1>2, <2>1, <3>4
      <3> QED BY <1>3, <2>1, <3>1, <3>2, <3>3, <3>4
    <2> QED BY <2>1, <2>2
  <1>4. n + 1 \in 1 .. n + 1 /\ n + 1 > k /\ k \in 1 .. n /\ \A j \in 1 .. n : j \in 1 .. n + 1
    BY <1>1 DEF n
  <1> QED BY <1>1, <1>3, <1>4 DEF n, before

(* And every byte is one of a number.                                      *)
LEMMA PlacesCover ==
  ASSUME NEW sizes \in LayoutSizes
  PROVE  /\ Total(sizes) \in Nat
         /\ \A p \in 1 .. Total(sizes) :
               \E k \in 1 .. Len(sizes) : p - Before(sizes, k) \in 1 .. sizes[k]
  <1> DEFINE n == Len(sizes)
             before(j) == Before(sizes, j)
  <1>1. /\ n \in 0 .. 4 /\ before(1) = 0
        /\ \A i \in 1 .. n : sizes[i] \in 1 .. 4 /\ before(i) \in Nat /\ before(i + 1) = before(i) + sizes[i]
        /\ Total(sizes) = before(n + 1)
    BY Places
  <1> HIDE DEF n, before
  <1>2. before(n + 1) \in Nat
    <2>1. CASE n = 0 BY <1>1, <2>1
    <2>2. CASE n # 0
      <3>1. n \in 1 .. n BY <1>1, <2>2
      <3>2. before(n + 1) = before(n) + sizes[n] /\ before(n) \in Nat /\ sizes[n] \in 1 .. 4
        BY <1>1, <3>1
      <3> QED BY <3>2
    <2> QED BY <2>1, <2>2
  <1>3. ASSUME NEW p \in 1 .. before(n + 1)
        PROVE  \E k \in 1 .. n : p - before(k) \in 1 .. sizes[k]
    <2>1. CASE n = 0 BY <1>1, <2>1
    <2>2. CASE n = 1 BY <1>1, <2>2
    <2>3. CASE n = 2 BY <1>1, <2>3
    <2>4. CASE n = 3 BY <1>1, <2>4
    <2>5. CASE n = 4 BY <1>1, <2>5
    <2> QED BY <1>1, <2>1, <2>2, <2>3, <2>4, <2>5
  <1> QED BY <1>1, <1>2, <1>3 DEF n, before

(* So each byte is of one number only.                                     *)
LEMMA LayoutAt ==
  ASSUME NEW sizes \in LayoutSizes, NEW numbers, NEW k \in 1 .. Len(sizes),
         NEW i \in 1 .. sizes[k]
  PROVE  /\ Before(sizes, k) + i \in 1 .. Total(sizes)
         /\ Layout(numbers, sizes)[Before(sizes, k) + i] = internal_itobe(numbers[k], sizes[k])[i]
  <1> DEFINE p == Before(sizes, k) + i
             at(x) == CHOOSE j \in 1 .. Len(sizes) : x - Before(sizes, j) \in 1 .. sizes[j]
  <1>1. p \in 1 .. Total(sizes)
    <2>1. Before(sizes, k) \in Nat /\ sizes[k] \in Nat /\ Before(sizes, k) + sizes[k] <= Total(sizes)
      BY PlacesApart DEF Readable
    <2>2. Total(sizes) \in Nat BY PlacesCover
    <2> QED BY <2>1, <2>2
  <1>2. p - Before(sizes, k) \in 1 .. sizes[k] BY PlacesApart DEF Readable
  <1>3. ASSUME NEW j \in 1 .. Len(sizes), p - Before(sizes, j) \in 1 .. sizes[j] PROVE j = k
    <2>1. sizes[j] \in Nat /\ sizes[k] \in Nat /\ Before(sizes, j) \in Nat /\ Before(sizes, k) \in Nat
      BY PlacesApart DEF Readable
    <2>2. CASE j > k
      <3>1. Before(sizes, k) + sizes[k] <= Before(sizes, j) BY <2>2, PlacesApart
      <3> QED BY <1>3, <2>1, <3>1
    <2>3. CASE k > j
      <3>1. Before(sizes, j) + sizes[j] <= Before(sizes, k) BY <2>3, PlacesApart
      <3> QED BY <1>3, <2>1, <3>1
    <2>4. Len(sizes) \in Nat BY DEF LayoutSizes
    <2> QED BY <2>2, <2>3, <2>4
  <1>4. at(p) = k
    <2> DEFINE Here(j) == p - Before(sizes, j) \in 1 .. sizes[j]
    <2>1. \E j \in 1 .. Len(sizes) : Here(j) BY <1>2
    <2>2. at(p) \in 1 .. Len(sizes) /\ Here(at(p)) BY <2>1, Zenon
    <2> QED BY <2>2, <1>3, Zenon
  <1>5. Layout(numbers, sizes)[p] =
          internal_itobe(numbers[at(p)], sizes[at(p)])[p - Before(sizes, at(p))]
    BY <1>1, Zenon DEF Layout
  <1>6. p - Before(sizes, k) = i BY PlacesApart DEF Readable
  <1> HIDE DEF at, p
  <1>7. Layout(numbers, sizes)[p] = internal_itobe(numbers[k], sizes[k])[i] BY <1>4, <1>5, <1>6, Zenon
  <1> QED BY <1>1, <1>7 DEF p

LEMMA LayoutIsBytes ==
  ASSUME NEW sizes \in LayoutSizes, NEW numbers, Fit(numbers, sizes)
  PROVE  Layout(numbers, sizes) \in Seq(Bytes) /\ Len(Layout(numbers, sizes)) = Total(sizes)
  <1> DEFINE l == Layout(numbers, sizes)
             at(x) == CHOOSE j \in 1 .. Len(sizes) : x - Before(sizes, j) \in 1 .. sizes[j]
  <1>1. ASSUME NEW p \in 1 .. Total(sizes) PROVE l[p] \in Bytes
    <2>1. \E k \in 1 .. Len(sizes) : p - Before(sizes, k) \in 1 .. sizes[k]
      BY PlacesCover
    <2>2. PICK k \in 1 .. Len(sizes) : p - Before(sizes, k) \in 1 .. sizes[k] BY <2>1
    <2> DEFINE i == p - Before(sizes, k)
    <2>3. i \in 1 .. sizes[k] BY <2>2
    <2>4. p = Before(sizes, k) + i BY PlacesApart
    <2> HIDE DEF i
    <2>5. l[p] = internal_itobe(numbers[k], sizes[k])[i] BY <2>3, <2>4, LayoutAt
    <2>6. sizes[k] \in Readable BY PlacesApart
    <2>7. numbers[k] \in 0 .. Weight[sizes[k] + 1] - 1 BY DEF Fit
    <2>8. internal_itobe(numbers[k], sizes[k])[i] \in Bytes BY <2>3, <2>6, <2>7, NumberIsBytes
    <2> QED BY <2>5, <2>8
  <1>2. l = [p \in 1 .. Total(sizes) |-> l[p]] BY DEF Layout
  <1>3. Total(sizes) \in Nat BY PlacesCover
  <1> HIDE DEF l
  <1>4. l \in Seq(Bytes) BY <1>1, <1>2, <1>3, IsASeq
  <1>5. Len(l) = Total(sizes) BY <1>2, <1>3, <1>4
  <1> QED BY <1>4, <1>5 DEF l

(* What was laid out is read back, from wherever the bytes are.             *)
LEMMA LayoutReadBack ==
  ASSUME NEW sizes \in LayoutSizes, NEW numbers, NEW cells, Fit(numbers, sizes),
         numbers = [k \in 1 .. Len(sizes) |-> numbers[k]],
         \A p \in 1 .. Total(sizes) : cells[p] = Layout(numbers, sizes)[p]
  PROVE  Numbers(cells, sizes) = numbers
  <1>1. ASSUME NEW k \in 1 .. Len(sizes)
        PROVE internal_betoi([i \in 1 .. sizes[k] |-> cells[Before(sizes, k) + i]], sizes[k]) = numbers[k]
    <2> DEFINE src == [i \in 1 .. sizes[k] |-> cells[Before(sizes, k) + i]]
    <2>1. \A i \in 1 .. sizes[k] : src[i] = internal_itobe(numbers[k], sizes[k])[i] BY LayoutAt
    <2>2. sizes[k] \in Readable BY PlacesApart
    <2>3. numbers[k] \in 0 .. Weight[sizes[k] + 1] - 1 BY DEF Fit
    <2> HIDE DEF src
    <2>4. internal_betoi(src, sizes[k]) = numbers[k] BY <2>1, <2>2, <2>3, NumberReadBack
    <2> QED BY <2>4 DEF src
  <1> QED BY <1>1 DEF Numbers

-----------------------------------------------------------------------------
(* Requests and replies.                                                   *)

LEMMA BytesAreNat == Bytes \subseteq Nat /\ Bytes = 0 .. Radix - 1
  BY RadixType DEF Bytes

LEMMA MessageParts ==
  ASSUME NEW a \in Nat, NEW b \in Nat, NEW payload \in Seq(Nat)
  PROVE  /\ Len(Message(<<a, b>>, payload)) = HEAD + Len(payload)
         /\ Message(<<a, b>>, payload)[1] = a /\ Message(<<a, b>>, payload)[2] = b
         /\ SubSeq(Message(<<a, b>>, payload), 1, 2) = <<a, b>>
         /\ \A i \in 1 .. Len(payload) : Message(<<a, b>>, payload)[HEAD + i] = payload[i]
         /\ Rest(Message(<<a, b>>, payload)) = payload
  <1> DEFINE n == Len(payload)
             d1 == (n \div Weight[2]) % Radix
             d2 == (n \div Weight[1]) % Radix
             len == internal_itobe(n, 2)
  <1>1. len = <<d1, d2>>
    <2>1. len = [i \in 1 .. 2 |-> (n \div Weight[2 - i + 1]) % Radix] BY Zenon DEF internal_itobe
    <2> DEFINE d(i) == (n \div Weight[2 - i + 1]) % Radix
    <2>2. 2 - 1 + 1 = 2 /\ 2 - 2 + 1 = 1 OBVIOUS
    <2>3. d(1) = d1 /\ d(2) = d2 BY <2>2, Zenon
    <2>4. len = [i \in 1 .. 2 |-> d(i)] BY <2>1
    <2> HIDE DEF d, len, d1, d2
    <2>5. [i \in 1 .. 2 |-> d(i)] = <<d(1), d(2)>> OBVIOUS
    <2> QED BY <2>3, <2>4, <2>5
  <1>2. d1 \in Nat /\ d2 \in Nat
    <2>1. Weight[1] \in Nat \ {0} /\ Weight[2] \in Nat \ {0} /\ Radix \in Nat \ {0}
      BY Weights, RadixType
    <2> HIDE DEF n
    <2>2. n \in Int BY DEF n
    <2> DEFINE e1 == n \div Weight[2]
               e2 == n \div Weight[1]
    <2>3. e1 \in Int /\ e2 \in Int BY <2>1, <2>2, DivMod
    <2> HIDE DEF e1, e2
    <2>4. e1 % Radix \in 0 .. Radix - 1 /\ e2 % Radix \in 0 .. Radix - 1 BY <2>1, <2>3, DivMod
    <2>5. e1 % Radix \in Nat /\ e2 % Radix \in Nat BY <2>1, <2>4
    <2> QED BY <2>5 DEF e1, e2
  <1> DEFINE msg == Message(<<a, b>>, payload)
  <1>3. msg = <<a, b>> \o <<d1, d2>> \o payload BY <1>1 DEF Message
  <1> HIDE DEF d1, d2, msg
  <1> DEFINE head == <<a, b>> \o <<d1, d2>>
  <1>4. head \in Seq(Nat) /\ Len(head) = 4 /\ head[1] = a /\ head[2] = b BY <1>2
  <1>5. msg = head \o payload BY <1>3
  <1> HIDE DEF head
  <1>6. /\ head \o payload \in Seq(Nat)
        /\ Len(head \o payload) = Len(head) + Len(payload)
        /\ \A i \in 1 .. Len(head) + Len(payload) :
              (head \o payload)[i] = IF i <= Len(head) THEN head[i] ELSE payload[i - Len(head)]
    BY <1>4, ConcatProperties, Zenon
  <1>7. msg \in Seq(Nat) /\ Len(msg) = 4 + n BY <1>4, <1>5, <1>6
  <1>n. n \in Nat OBVIOUS
  <1> HIDE DEF n
  <1>f. \A i \in 1 .. 4 + n : msg[i] = IF i <= 4 THEN head[i] ELSE payload[i - 4]
    BY <1>4, <1>5, <1>6 DEF n
  <1>8. msg[1] = a /\ msg[2] = b
    <2>1. 1 \in 1 .. 4 + n /\ 2 \in 1 .. 4 + n BY <1>n
    <2>2. msg[1] = head[1] /\ msg[2] = head[2] BY <1>f, <2>1
    <2> QED BY <1>4, <2>2
  <1>9. \A i \in 1 .. n : msg[4 + i] = payload[i]
    <2> SUFFICES ASSUME NEW i \in 1 .. n PROVE msg[4 + i] = payload[i] OBVIOUS
    <2>1. 4 + i \in 1 .. 4 + n /\ ~(4 + i <= 4) /\ 4 + i - 4 = i BY <1>n
    <2> QED BY <1>f, <2>1
  <1>10. SubSeq(msg, 1, 2) = <<a, b>>
    <2> DEFINE u == SubSeq(msg, 1, 2)
    <2>1. u \in Seq(Nat) /\ Len(u) = 2 /\ u[1] = a /\ u[2] = b BY <1>7, <1>8
    <2> HIDE DEF u
    <2>2. u = <<a, b>> BY <2>1
    <2> QED BY <2>2 DEF u
  <1>11. Rest(msg) = payload
    <2>1. SubSeq(msg, 5, 4 + n) \in Seq(Nat) /\ Len(SubSeq(msg, 5, 4 + n)) = n BY <1>7, <1>n
    <2>2. \A i \in 1 .. n : SubSeq(msg, 5, 4 + n)[i] = msg[4 + i] BY <1>7, <1>n
    <2>3. SubSeq(msg, 5, 4 + n) = payload BY <1>9, <2>1, <2>2, SeqEqual DEF n
    <2>4. Rest(msg) = SubSeq(msg, 5, 4 + n)
      <3>1. HEAD + 1 = 5 BY DEF HEAD
      <3> QED BY <1>7, <3>1, Zenon DEF Rest
    <2> QED BY <2>3, <2>4
  <1> QED BY <1>7, <1>8, <1>9, <1>10, <1>11 DEF HEAD, n, msg

LEMMA Headers ==
  /\ \A fn \in Calls : /\ Header[fn] = <<Header[fn][1], Header[fn][2]>>
                       /\ Header[fn][1] \in Nat /\ Header[fn][2] \in Nat
  /\ \A f, g \in Calls : Header[f] = Header[g] => f = g
  BY DEF Calls, Header, GENERAL, HDMI_TX

LEMMA CallSizes ==
  /\ \A fn \in Calls : RequestSizes[fn] \in LayoutSizes
  /\ \A fn \in Calls \ NoReply : ReplySizes[fn] \in LayoutSizes
  <1> DEFINE Used == {<<>>, <<1>>, <<4>>, <<1, 1>>, <<4, 4>>, <<1, 1, 2>>, <<4, 1, 1, 4>>, <<1, 1, 1, 2>>}
  <1>1. \A s \in Used : s \in LayoutSizes
    <2>1. 1 \in Readable /\ 2 \in Readable /\ 4 \in Readable BY DEF Readable
    <2>2. <<>> \in LayoutSizes BY <2>1 DEF LayoutSizes
    <2>3. <<1>> \in LayoutSizes BY <2>1 DEF LayoutSizes
    <2>4. <<4>> \in LayoutSizes BY <2>1 DEF LayoutSizes
    <2>5. <<1, 1>> \in LayoutSizes BY <2>1 DEF LayoutSizes
    <2>6. <<4, 4>> \in LayoutSizes BY <2>1 DEF LayoutSizes
    <2>7. <<1, 1, 2>> \in LayoutSizes BY <2>1 DEF LayoutSizes
    <2>8. <<4, 1, 1, 4>> \in LayoutSizes BY <2>1 DEF LayoutSizes
    <2>9. <<1, 1, 1, 2>> \in LayoutSizes BY <2>1 DEF LayoutSizes
    <2> QED BY <2>2, <2>3, <2>4, <2>5, <2>6, <2>7, <2>8, <2>9
  <1>2. \A fn \in Calls : RequestSizes[fn] \in Used BY DEF Calls, Header, RequestSizes
  <1>3. \A fn \in Calls \ NoReply : ReplySizes[fn] \in Used
    BY DEF Calls, Header, NoReply, ReplySizes
  <1> QED BY <1>1, <1>2, <1>3

LEMMA PayloadParts ==
  ASSUME NEW sizes \in LayoutSizes, NEW numbers, Fit(numbers, sizes), NEW data \in Seq(Nat)
  PROVE  /\ Layout(numbers, sizes) \o data \in Seq(Nat)
         /\ Len(Layout(numbers, sizes) \o data) = Total(sizes) + Len(data)
         /\ \A p \in 1 .. Total(sizes) :
               (Layout(numbers, sizes) \o data)[p] = Layout(numbers, sizes)[p]
         /\ \A i \in 1 .. Len(data) : (Layout(numbers, sizes) \o data)[Total(sizes) + i] = data[i]
         /\ SubSeq(Layout(numbers, sizes) \o data, Total(sizes) + 1,
                   Len(Layout(numbers, sizes) \o data)) = data
  <1> DEFINE l == Layout(numbers, sizes)
             t == Total(sizes)
             n == Len(data)
             payload == l \o data
  <1>1. l \in Seq(Nat) /\ Len(l) = t /\ t \in Nat
    <2>1. l \in Seq(Bytes) /\ Len(l) = t BY LayoutIsBytes
    <2> QED BY <2>1, PlacesCover, BytesAreNat, SeqMonotonic
  <1> HIDE DEF l, t
  <1>2. n \in Nat OBVIOUS
  <1>3. /\ payload \in Seq(Nat) /\ Len(payload) = t + n
        /\ \A i \in 1 .. t + n : payload[i] = IF i <= t THEN l[i] ELSE data[i - t]
    <2>1. /\ l \o data \in Seq(Nat) /\ Len(l \o data) = Len(l) + Len(data)
          /\ \A i \in 1 .. Len(l) + Len(data) :
                (l \o data)[i] = IF i <= Len(l) THEN l[i] ELSE data[i - Len(l)]
      BY <1>1, ConcatProperties, Zenon
    <2> QED BY <1>1, <2>1
  <1> HIDE DEF n, payload
  <1>4. \A p \in 1 .. t : payload[p] = l[p] BY <1>1, <1>2, <1>3
  <1>5. \A i \in 1 .. n : payload[t + i] = data[i] BY <1>1, <1>2, <1>3
  <1> DEFINE u == SubSeq(payload, t + 1, t + n)
  <1>6. u \in Seq(Nat) /\ Len(u) = n /\ \A i \in 1 .. n : u[i] = payload[t + i]
    <2>1. \A i \in t + 1 .. t + n : i \in 1 .. t + n BY <1>1, <1>2
    <2>2. \A i \in t + 1 .. t + n : payload[i] \in Nat BY <1>3, <2>1, ElementOfSeq
    <2>3. /\ u \in Seq(Nat)
          /\ Len(u) = IF t + 1 <= t + n THEN (t + n) - (t + 1) + 1 ELSE 0
          /\ \A i \in 1 .. (t + n) - (t + 1) + 1 : u[i] = payload[(t + 1) + i - 1]
      BY <1>1, <1>2, <2>2, SubSeqProperties
    <2>4. (t + n) - (t + 1) + 1 = n /\ \A i \in 1 .. n : (t + 1) + i - 1 = t + i BY <1>1, <1>2
    <2> HIDE DEF u
    <2> QED BY <1>1, <1>2, <2>3, <2>4
  <1> HIDE DEF u
  <1>7. u = data BY <1>5, <1>6, SeqEqual DEF n
  <1> QED BY <1>3, <1>4, <1>5, <1>7 DEF l, t, n, u, payload

(* The calls that are made, and that the firmware takes each for itself.    *)
MadeCalls == UNION {[fn : {fn}, args : Args[fn]] : fn \in Calls}

LEMMA MadeFacts ==
  ASSUME NEW c \in MadeCalls
  PROVE  /\ c.fn \in Calls /\ c.args \in Args[c.fn] /\ c = [fn |-> c.fn, args |-> c.args]
         /\ ArgsFit(c) /\ DataSent(c) \in Seq(Nat)
  <1>1. /\ c.fn \in Calls /\ c.args \in Args[c.fn] /\ c = [fn |-> c.fn, args |-> c.args]
    BY DEF MadeCalls
  <1>2. ArgsFit(c) BY <1>1, ArgsAssumption
  <1>3. DataSent(c) \in Seq(Nat)
    <2>1. CASE c.fn = "DDC_WRITE"
      <3>1. c.args[4] \in Seq(Bytes) BY <1>2, <2>1 DEF ArgsFit
      <3> QED BY <2>1, <3>1, BytesAreNat, SeqMonotonic DEF DataSent
    <2>2. CASE c.fn # "DDC_WRITE" BY <2>2 DEF DataSent
    <2> QED BY <2>1, <2>2
  <1> QED BY <1>1, <1>2, <1>3

LEMMA RequestRead ==
  ASSUME NEW c \in MadeCalls
  PROVE  /\ CallOf(Request(c)) = c.fn
         /\ ArgsOf(Request(c)) = Sent(c)
         /\ DataOf(Request(c)) = DataSent(c)
  <1> DEFINE sizes == RequestSizes[c.fn]
             payload == Layout(Sent(c), sizes) \o DataSent(c)
             msg == Request(c)
             a == Header[c.fn][1]
             b == Header[c.fn][2]
  <1>1. c.fn \in Calls /\ sizes \in LayoutSizes /\ Fit(Sent(c), sizes) /\ DataSent(c) \in Seq(Nat)
    BY MadeFacts, CallSizes DEF ArgsFit
  <1>2. Header[c.fn] = <<a, b>> /\ a \in Nat /\ b \in Nat BY <1>1, Headers
  <1>3. /\ payload \in Seq(Nat)
        /\ \A p \in 1 .. Total(sizes) : payload[p] = Layout(Sent(c), sizes)[p]
        /\ SubSeq(payload, Total(sizes) + 1, Len(payload)) = DataSent(c)
    <2> HIDE DEF sizes
    <2> QED BY <1>1, PayloadParts, Zenon
  <1> HIDE DEF payload, a, b
  <1>4. msg = Message(<<a, b>>, payload) BY <1>2 DEF Request, payload
  <1>5. SubSeq(msg, 1, 2) = <<a, b>> /\ Rest(msg) = payload
    <2>1. /\ SubSeq(Message(<<a, b>>, payload), 1, 2) = <<a, b>>
          /\ Rest(Message(<<a, b>>, payload)) = payload
      BY <1>2, <1>3, MessageParts
    <2> QED BY <1>4, <2>1, Zenon
  <1> HIDE DEF msg
  <1>6. CallOf(msg) = c.fn
    <2>1. Header[CallOf(msg)] = <<a, b>> /\ CallOf(msg) \in Calls
      <3>1. \E fn \in Calls : Header[fn] = SubSeq(msg, 1, 2) BY <1>1, <1>2, <1>5
      <3>2. Header[CallOf(msg)] = SubSeq(msg, 1, 2) /\ CallOf(msg) \in Calls BY <3>1, Zenon DEF CallOf
      <3> QED BY <1>5, <3>2
    <2> QED BY <1>1, <1>2, <2>1, Headers
  <1>7. Sent(c) = [k \in 1 .. Len(sizes) |-> Sent(c)[k]] BY DEF Sent
  <1> HIDE DEF sizes
  <1>8. Numbers(payload, sizes) = Sent(c) BY <1>1, <1>3, <1>7, LayoutReadBack
  <1>9. ArgsOf(msg) = Sent(c) BY <1>5, <1>6, <1>8 DEF ArgsOf, sizes
  <1>10. DataOf(msg) = DataSent(c) BY <1>3, <1>5, <1>6 DEF DataOf, sizes
  <1> QED BY <1>6, <1>9, <1>10 DEF msg

(* And the driver a reply.                                                 *)
WellFormed(ans) ==
    /\ ans.fn \in Calls \ NoReply
    /\ ans.numbers = [k \in 1 .. Len(ReplySizes[ans.fn]) |-> ans.numbers[k]]
    /\ Fit(ans.numbers, ReplySizes[ans.fn])
    /\ ans.data \in Seq(Nat)

InBuffer(msg) == \A i \in 1 .. Len(msg) : rxbuffer[i - 1] = msg[i]

LEMMA ReplyRead ==
  ASSUME NEW ans, WellFormed(ans), InBuffer(Reply(ans))
  PROVE  /\ rxbuffer[0] = Header[ans.fn][1] /\ rxbuffer[1] = Header[ans.fn][2]
         /\ ReadMsg(ReplySizes[ans.fn]) = ans.numbers
         /\ Cells(BuffAt(ReplySizes[ans.fn]), Len(ans.data)) = ans.data
  <1> DEFINE sizes == ReplySizes[ans.fn]
             payload == Layout(ans.numbers, sizes) \o ans.data
             msg == Reply(ans)
             a == Header[ans.fn][1]
             b == Header[ans.fn][2]
             t == Total(sizes)
  <1>1. /\ ans.fn \in Calls /\ sizes \in LayoutSizes /\ Fit(ans.numbers, sizes) /\ ans.data \in Seq(Nat)
        /\ ans.numbers = [k \in 1 .. Len(sizes) |-> ans.numbers[k]]
    BY CallSizes DEF WellFormed
  <1>2. Header[ans.fn] = <<a, b>> /\ a \in Nat /\ b \in Nat BY <1>1, Headers
  <1> HIDE DEF sizes
  <1>t. t \in Nat /\ Len(ans.data) \in Nat BY <1>1, PlacesCover
  <1>3. /\ payload \in Seq(Nat) /\ Len(payload) = t + Len(ans.data)
        /\ \A p \in 1 .. t : payload[p] = Layout(ans.numbers, sizes)[p]
        /\ \A i \in 1 .. Len(ans.data) : payload[t + i] = ans.data[i]
    <2> DEFINE numbers == ans.numbers
               data == ans.data
    <2>1. sizes \in LayoutSizes /\ Fit(numbers, sizes) /\ data \in Seq(Nat) BY <1>1
    <2> HIDE DEF numbers, data
    <2>2. /\ Layout(numbers, sizes) \o data \in Seq(Nat)
          /\ Len(Layout(numbers, sizes) \o data) = Total(sizes) + Len(data)
          /\ \A p \in 1 .. Total(sizes) :
                (Layout(numbers, sizes) \o data)[p] = Layout(numbers, sizes)[p]
          /\ \A i \in 1 .. Len(data) : (Layout(numbers, sizes) \o data)[Total(sizes) + i] = data[i]
      BY <2>1, PayloadParts, ZenonT(60)
    <2> QED BY <2>2, Zenon DEF numbers, data
  <1> HIDE DEF payload, a, b
  <1>4. msg = Message(<<a, b>>, payload) BY <1>2 DEF Reply, payload, sizes
  <1>5. /\ Len(msg) = HEAD + Len(payload) /\ msg[1] = a /\ msg[2] = b
        /\ \A i \in 1 .. Len(payload) : msg[HEAD + i] = payload[i]
    <2>1. /\ Len(Message(<<a, b>>, payload)) = HEAD + Len(payload)
          /\ Message(<<a, b>>, payload)[1] = a /\ Message(<<a, b>>, payload)[2] = b
          /\ \A i \in 1 .. Len(payload) : Message(<<a, b>>, payload)[HEAD + i] = payload[i]
      BY <1>2, <1>3, MessageParts
    <2> QED BY <1>4, <2>1, Zenon
  <1>6. \A i \in 1 .. Len(msg) : rxbuffer[i - 1] = msg[i] BY DEF InBuffer
  <1> HIDE DEF msg, t
  <1>l. Len(msg) \in Nat /\ Len(msg) = 4 + (t + Len(ans.data)) BY <1>3, <1>5, <1>t DEF HEAD
  <1>7. rxbuffer[0] = a /\ rxbuffer[1] = b
    <2>1. rxbuffer[1 - 1] = msg[1] /\ rxbuffer[2 - 1] = msg[2] BY <1>6, <1>l, <1>t
    <2> QED BY <1>5, <2>1
  <1>8. \A i \in 1 .. t + Len(ans.data) : rxbuffer[HEAD + i - 1] = payload[i]
    <2> TAKE i \in 1 .. t + Len(ans.data)
    <2>1. i \in 1 .. Len(payload) BY <1>3
    <2>2. HEAD + i \in 1 .. Len(msg) BY <1>l, <1>t DEF HEAD
    <2>3. msg[HEAD + i] = payload[i] BY <1>5, <2>1
    <2>4. rxbuffer[HEAD + i - 1] = msg[HEAD + i]
      <3>1. i \in Nat BY <1>t
      <3> QED BY <1>6, <1>l, <2>2, <3>1 DEF HEAD
    <2> QED BY <2>3, <2>4
  <1>9. ReadMsg(sizes) = ans.numbers
    <2>1. \A p \in 1 .. t : Cells(HEAD, t)[p] = Layout(ans.numbers, sizes)[p]
      <3>1. \A p \in 1 .. t : Cells(HEAD, t)[p] = rxbuffer[HEAD + p - 1] BY DEF Cells
      <3>2. \A p \in 1 .. t : p \in 1 .. t + Len(ans.data) BY <1>t
      <3> QED BY <1>3, <1>8, <3>1, <3>2
    <2>2. Numbers(Cells(HEAD, t), sizes) = ans.numbers BY <2>1, <1>1, LayoutReadBack DEF t
    <2> QED BY <2>2 DEF ReadMsg, t
  <1>10. Cells(HEAD + t, Len(ans.data)) = ans.data
    <2> DEFINE n == Len(ans.data)
               cells == Cells(HEAD + t, n)
    <2>1. cells = [i \in 1 .. n |-> rxbuffer[HEAD + t + i - 1]] BY DEF Cells
    <2>2. \A i \in 1 .. n : rxbuffer[HEAD + t + i - 1] = ans.data[i]
      BY <1>3, <1>8, <1>t DEF HEAD
    <2>3. cells = [i \in 1 .. n |-> ans.data[i]] BY <2>1, <2>2
    <2>4. ans.data = [i \in 1 .. n |-> ans.data[i]] BY <1>1
    <2> QED BY <2>3, <2>4
  <1> QED BY <1>7, <1>9, <1>10 DEF BuffAt, sizes, t, a, b

LEMMA ReplyLength ==
  ASSUME NEW ans, WellFormed(ans)
  PROVE  Len(Reply(ans)) \in Nat
  <1> DEFINE sizes == ReplySizes[ans.fn]
             numbers == ans.numbers
             data == ans.data
             payload == Layout(numbers, sizes) \o data
             a == Header[ans.fn][1]
             b == Header[ans.fn][2]
  <1>1. ans.fn \in Calls /\ sizes \in LayoutSizes /\ Fit(numbers, sizes) /\ data \in Seq(Nat)
    BY CallSizes DEF WellFormed
  <1>2. Header[ans.fn] = <<a, b>> /\ a \in Nat /\ b \in Nat BY <1>1, Headers
  <1>3. Reply(ans) = Message(<<a, b>>, payload) BY <1>2 DEF Reply
  <1> HIDE DEF sizes, numbers, data, a, b
  <1>4. payload \in Seq(Nat) BY <1>1, PayloadParts
  <1> HIDE DEF payload
  <1>5. Len(Message(<<a, b>>, payload)) = HEAD + Len(payload) BY <1>2, <1>4, MessageParts
  <1> QED BY <1>3, <1>4, <1>5 DEF HEAD

(* Each answer fits its reply.                                             *)
FirmwareType ==
    /\ regs \in [Registers -> Words]
    /\ ddc \in [DOMAIN Edid -> Bytes]
    /\ hpd \in {0, 1}

LEMMA AnswerCases ==
  ASSUME NEW a, NEW words
  PROVE  /\ AnswerNumbers("test_echo", a, words) = <<a[1]>>
         /\ AnswerNumbers("maincontrol", a, words) = <<a[1]>>
         /\ AnswerNumbers("apbconf", a, words) =
              <<(a[1] % 2) + 2 * ((a[1] \div 4) % 2) + 4 * ((a[1] \div 16) % 2)>>
         /\ AnswerNumbers("read_register", a, words) = <<a[1], words[a[1]]>>
         /\ AnswerNumbers("phy_test_access", a, words) = <<1>>
         /\ AnswerNumbers("GetHpdStatus", a, words) = <<hpd>>
         /\ AnswerNumbers("ReadEvents", a, words) = <<Radix * Radix * hpd + 1>>
         /\ \A fn \in {"DDC_READ", "DDC_WRITE"} :
              AnswerNumbers(fn, a, words) =
                <<IF a[1] \in Slaves THEN ACK ELSE NACK, a[1], a[2],
                  IF a[1] \in Slaves THEN a[3] ELSE 0>>
         /\ AnswerNumbers("DDC_UPDATE_READ", a, words) = <<ACK>>
         /\ AnswerNumbers("READ_EDID", a, words) = <<ACK, a[1], a[2], 2>>
  BY Zenon DEF AnswerNumbers

LEMMA DataCases ==
  ASSUME NEW a
  PROVE  /\ AnswerData("DDC_READ", a) = Slice(ddc, a[2], IF a[1] \in Slaves THEN a[3] ELSE 0)
         /\ AnswerData("DDC_UPDATE_READ", a) = Slice(ddc, 0, 2)
         /\ AnswerData("READ_EDID", a) = Slice(Edid, 2 * a[1], 2)
         /\ \A fn : fn \notin HandsOutBuff => AnswerData(fn, a) = <<>>
  BY Zenon DEF AnswerData, HandsOutBuff

WellNumbers(numbers, sizes) ==
    numbers = [k \in 1 .. Len(sizes) |-> numbers[k]] /\ Fit(numbers, sizes)

LEMMA NumbersFit ==
  ASSUME NEW x, NEW y, NEW z, NEW w, x \in 0 .. Weight[2] - 1
  PROVE  /\ WellNumbers(<<x>>, <<1>>)
         /\ y \in 0 .. Weight[5] - 1 => WellNumbers(<<y>>, <<4>>)
         /\ y \in 0 .. Weight[5] - 1 /\ z \in 0 .. Weight[5] - 1 => WellNumbers(<<y, z>>, <<4, 4>>)
         /\ y \in 0 .. Weight[2] - 1 /\ z \in 0 .. Weight[2] - 1 /\ w \in 0 .. Weight[3] - 1
              => WellNumbers(<<x, y, z, w>>, <<1, 1, 1, 2>>)
  <1> DEFINE W(i) == Weight[i]
  <1>1. \A i : W(i) = Weight[i] OBVIOUS
  <1> HIDE DEF W
  <1>2. WellNumbers(<<x>>, <<1>>)
    <2>1. W(1 + 1) = W(2) OBVIOUS
    <2> QED BY <1>1, <2>1 DEF WellNumbers, Fit
  <1>3. y \in 0 .. Weight[5] - 1 => WellNumbers(<<y>>, <<4>>)
    BY <1>1 DEF WellNumbers, Fit
  <1>4. y \in 0 .. Weight[5] - 1 /\ z \in 0 .. Weight[5] - 1 => WellNumbers(<<y, z>>, <<4, 4>>)
    BY <1>1 DEF WellNumbers, Fit
  <1>5. y \in 0 .. Weight[2] - 1 /\ z \in 0 .. Weight[2] - 1 /\ w \in 0 .. Weight[3] - 1
              => WellNumbers(<<x, y, z, w>>, <<1, 1, 1, 2>>)
    BY <1>1 DEF WellNumbers, Fit
  <1> QED BY <1>2, <1>3, <1>4, <1>5

LEMMA SentFits ==
  ASSUME NEW c \in MadeCalls, NEW k \in 1 .. Len(RequestSizes[c.fn])
  PROVE  Sent(c)[k] \in 0 .. Weight[RequestSizes[c.fn][k] + 1] - 1
  BY MadeFacts DEF ArgsFit, Fit

LEMMA AnswerNumbersFit ==
  ASSUME NEW c \in MadeCalls, c.fn \notin NoReply, FirmwareType, NEW words \in [Registers -> Words]
  PROVE  WellNumbers(AnswerNumbers(c.fn, Sent(c), words), ReplySizes[c.fn])
  <1> DEFINE fn == c.fn
             a == Sent(c)
  <1>1. fn \in Calls BY MadeFacts
  <1>w. /\ \A i \in 1 .. 5 : Weight[i] \in Nat
        /\ 0 \in 0 .. Weight[2] - 1 /\ 1 \in 0 .. Weight[2] - 1 /\ 2 \in 0 .. Weight[3] - 1
        /\ 0 \in 0 .. Weight[3] - 1
    <2>1. Radix * Radix >= Radix BY RadixType
    <2> QED BY <2>1, RadixType, Weights
  <1>2. CASE fn = "test_echo"
    <2>1. RequestSizes[fn] = <<4>> /\ ReplySizes[fn] = <<4>> BY <1>2 DEF RequestSizes, ReplySizes
    <2>2. a[1] \in 0 .. Weight[5] - 1
      <3>1. 1 \in 1 .. Len(RequestSizes[fn]) /\ RequestSizes[fn][1] = 4 BY <2>1
      <3>2. a[1] \in 0 .. Weight[4 + 1] - 1 BY <3>1, SentFits
      <3> QED BY <3>2
    <2> QED BY <1>2, <1>w, <2>1, <2>2, AnswerCases, NumbersFit, ZenonT(60)
  <1>3. CASE fn = "maincontrol"
    <2>1. RequestSizes[fn] = <<1>> /\ ReplySizes[fn] = <<1>> BY <1>3 DEF RequestSizes, ReplySizes
    <2>2. a[1] \in 0 .. Weight[2] - 1
      <3>1. a[1] \in 0 .. Weight[1 + 1] - 1 BY <2>1, SentFits
      <3> QED BY <3>1
    <2> QED BY <1>3, <2>1, <2>2, AnswerCases, NumbersFit, ZenonT(60)
  <1>4. CASE fn = "apbconf"
    <2>1. ReplySizes[fn] = <<1>> BY <1>4 DEF ReplySizes
    <2>2. a[1] \in Nat
      <3>1. RequestSizes[fn] = <<1>> BY <1>4 DEF RequestSizes
      <3>2. 1 \in 1 .. Len(RequestSizes[fn]) /\ RequestSizes[fn][1] = 1 BY <3>1
      <3>3. a[1] \in 0 .. Weight[1 + 1] - 1 BY <3>2, SentFits
      <3> QED BY <3>3, <1>w
    <2> DEFINE x == (a[1] % 2) + 2 * ((a[1] \div 4) % 2) + 4 * ((a[1] \div 16) % 2)
    <2>3. x \in 0 .. 7
      <3> DEFINE m == a[1]
      <3>1. m \in Nat BY <2>2
      <3> HIDE DEF m
      <3>2. m % 2 \in 0 .. 1 /\ (m \div 4) % 2 \in 0 .. 1 /\ (m \div 16) % 2 \in 0 .. 1 BY <3>1
      <3>3. (m % 2) + 2 * ((m \div 4) % 2) + 4 * ((m \div 16) % 2) \in 0 .. 7 BY <3>2
      <3> QED BY <3>3 DEF m
    <2> HIDE DEF x
    <2>4. x \in 0 .. Weight[2] - 1 BY <2>3, RadixType, Weights
    <2>5. AnswerNumbers(fn, a, words) = <<x>> BY <1>4, AnswerCases DEF x
    <2> QED BY <2>1, <2>4, <2>5, NumbersFit
  <1>5. CASE fn = "read_register"
    <2>1. RequestSizes[fn] = <<4>> /\ ReplySizes[fn] = <<4, 4>> BY <1>5 DEF RequestSizes, ReplySizes
    <2>2. a[1] \in 0 .. Weight[5] - 1
      <3>1. 1 \in 1 .. Len(RequestSizes[fn]) /\ RequestSizes[fn][1] = 4 BY <2>1
      <3>2. a[1] \in 0 .. Weight[4 + 1] - 1 BY <3>1, SentFits
      <3> QED BY <3>2
    <2>3. a[1] \in Registers
      <3>1. a[1] = c.args[1] BY <1>5, <2>1 DEF Sent
      <3> QED BY <1>5, <3>1, MadeFacts DEF ArgsFit
    <2>4. words[a[1]] \in 0 .. Weight[5] - 1 BY <2>3 DEF Words
    <2> QED BY <1>5, <1>w, <2>1, <2>2, <2>4, AnswerCases, NumbersFit, ZenonT(60)
  <1>6. CASE fn = "phy_test_access"
    <2>1. ReplySizes[fn] = <<1>> BY <1>6 DEF ReplySizes
    <2> QED BY <1>6, <1>w, <2>1, AnswerCases, NumbersFit, ZenonT(60)
  <1>7. CASE fn = "GetHpdStatus"
    <2>1. ReplySizes[fn] = <<1>> BY <1>7 DEF ReplySizes
    <2>2. hpd \in 0 .. Weight[2] - 1 BY <1>w DEF FirmwareType
    <2> QED BY <1>7, <2>1, <2>2, AnswerCases, NumbersFit
  <1>8. CASE fn = "ReadEvents"
    <2>1. ReplySizes[fn] = <<4>> BY <1>8 DEF ReplySizes
    <2> DEFINE x == Radix * Radix * hpd + 1
               s == Radix * Radix
    <2>2. x \in 0 .. Weight[5] - 1
      <3>1. s \in Nat /\ s >= 18 * 18 /\ s * s = Radix * Radix * Radix * Radix
        <4>1. Radix >= 18 BY RadixType
        <4>2. Radix * Radix >= 18 * 18 BY <4>1, RadixType
        <4> QED BY <4>2, RadixType
      <3> HIDE DEF s
      <3>2. hpd = 0 \/ hpd = 1 BY DEF FirmwareType
      <3>3. s * s >= 324 * s BY <3>1
      <3>4. x = s * hpd + 1 BY DEF s
      <3> HIDE DEF x
      <3>5. x = 1 \/ x = s + 1 BY <3>1, <3>2, <3>4
      <3>6. x \in Nat /\ x < s * s /\ s * s \in Int BY <3>1, <3>3, <3>5
      <3>7. Weight[5] = s * s BY <3>1, Weights
      <3> QED BY <3>6, <3>7
    <2> HIDE DEF x
    <2>3. AnswerNumbers(fn, a, words) = <<x>> BY <1>8, AnswerCases DEF x
    <2> QED BY <2>1, <2>2, <2>3, <1>w, NumbersFit
  <1>9. CASE fn \in {"DDC_READ", "DDC_WRITE"}
    <2>1. RequestSizes[fn] = <<1, 1, 2>> /\ ReplySizes[fn] = <<1, 1, 1, 2>>
      BY <1>9 DEF RequestSizes, ReplySizes
    <2>2. a[1] \in 0 .. Weight[2] - 1 /\ a[2] \in 0 .. Weight[2] - 1 /\ a[3] \in 0 .. Weight[3] - 1
      <3>0. /\ 1 \in 1 .. Len(RequestSizes[fn]) /\ RequestSizes[fn][1] = 1
            /\ 2 \in 1 .. Len(RequestSizes[fn]) /\ RequestSizes[fn][2] = 1
            /\ 3 \in 1 .. Len(RequestSizes[fn]) /\ RequestSizes[fn][3] = 2
        BY <2>1
      <3>1. a[1] \in 0 .. Weight[1 + 1] - 1 BY <3>0, SentFits
      <3>2. a[2] \in 0 .. Weight[1 + 1] - 1 BY <3>0, SentFits
      <3>3. a[3] \in 0 .. Weight[2 + 1] - 1 BY <3>0, SentFits
      <3> QED BY <3>1, <3>2, <3>3
    <2> DEFINE x == IF a[1] \in Slaves THEN ACK ELSE NACK
               w == IF a[1] \in Slaves THEN a[3] ELSE 0
    <2>3. x \in 0 .. Weight[2] - 1 /\ w \in 0 .. Weight[3] - 1 BY <1>w, <2>2 DEF ACK, NACK
    <2>4. AnswerNumbers(fn, a, words) = <<x, a[1], a[2], w>> BY <1>9, AnswerCases
    <2> HIDE DEF x, w, a
    <2>5. WellNumbers(<<x, a[1], a[2], w>>, <<1, 1, 1, 2>>) BY <2>2, <2>3, NumbersFit
    <2> QED BY <2>1, <2>4, <2>5 DEF a
  <1>10. CASE fn = "DDC_UPDATE_READ"
    <2>1. ReplySizes[fn] = <<1>> BY <1>10 DEF ReplySizes
    <2> QED BY <1>10, <1>w, <2>1, AnswerCases, NumbersFit DEF ACK
  <1>11. CASE fn = "READ_EDID"
    <2>1. RequestSizes[fn] = <<1, 1>> /\ ReplySizes[fn] = <<1, 1, 1, 2>>
      BY <1>11 DEF RequestSizes, ReplySizes
    <2>2. a[1] \in 0 .. Weight[2] - 1 /\ a[2] \in 0 .. Weight[2] - 1
      <3>0. /\ 1 \in 1 .. Len(RequestSizes[fn]) /\ RequestSizes[fn][1] = 1
            /\ 2 \in 1 .. Len(RequestSizes[fn]) /\ RequestSizes[fn][2] = 1
        BY <2>1
      <3>1. a[1] \in 0 .. Weight[1 + 1] - 1 BY <3>0, SentFits
      <3>2. a[2] \in 0 .. Weight[1 + 1] - 1 BY <3>0, SentFits
      <3> QED BY <3>1, <3>2
    <2>3. AnswerNumbers(fn, a, words) = <<ACK, a[1], a[2], 2>> BY <1>11, AnswerCases
    <2> QED BY <1>w, <2>1, <2>2, <2>3, NumbersFit DEF ACK
  <1> QED BY <1>1, <1>2, <1>3, <1>4, <1>5, <1>6, <1>7, <1>8, <1>9, <1>10, <1>11
       DEF Calls, Header, NoReply

LEMMA SliceIsBytes ==
  ASSUME NEW bytes, NEW offset \in Nat, NEW len \in Nat,
         \A o \in offset .. offset + len - 1 : bytes[o] \in Bytes
  PROVE  Slice(bytes, offset, len) \in Seq(Nat)
  <1>1. \A i \in 1 .. len : offset + i - 1 \in offset .. offset + len - 1 OBVIOUS
  <1>2. \A i \in 1 .. len : bytes[offset + i - 1] \in Nat BY <1>1, BytesAreNat
  <1> QED BY <1>2, IsASeq DEF Slice

LEMMA AnswerDataFits ==
  ASSUME NEW c \in MadeCalls, FirmwareType
  PROVE  AnswerData(c.fn, Sent(c)) \in Seq(Nat)
  <1> DEFINE fn == c.fn
             a == Sent(c)
  <1>e. /\ {0, 1} \subseteq DOMAIN Edid
        /\ \A o \in DOMAIN Edid : Edid[o] \in Bytes
        /\ \A o \in DOMAIN Edid : ddc[o] \in Bytes
    BY EdidAssumption DEF FirmwareType
  <1>w. \A i \in 1 .. 5 : Weight[i] \in Nat BY RadixType, Weights
  <1>1. CASE fn \notin HandsOutBuff
    <2>1. AnswerData(fn, a) = <<>> BY <1>1, DataCases
    <2> QED BY <2>1
  <1>2. CASE fn = "DDC_READ"
    <2>1. RequestSizes[fn] = <<1, 1, 2>> BY <1>2 DEF RequestSizes
    <2>2. a[2] \in Nat /\ a[3] \in Nat
      <3>0. /\ 2 \in 1 .. Len(RequestSizes[fn]) /\ RequestSizes[fn][2] = 1
            /\ 3 \in 1 .. Len(RequestSizes[fn]) /\ RequestSizes[fn][3] = 2
        BY <2>1
      <3>1. a[2] \in 0 .. Weight[1 + 1] - 1 BY <3>0, SentFits
      <3>2. a[3] \in 0 .. Weight[2 + 1] - 1 BY <3>0, SentFits
      <3> QED BY <3>1, <3>2, <1>w
    <2>3. a[1] = c.args[1] /\ a[2] = c.args[2] /\ a[3] = c.args[3] BY <1>2, <2>1 DEF Sent
    <2>4. a[1] \in Slaves => a[2] .. a[2] + a[3] - 1 \subseteq DOMAIN Edid
      BY <1>2, <2>3, MadeFacts DEF ArgsFit
    <2> DEFINE n == IF a[1] \in Slaves THEN a[3] ELSE 0
    <2>5. n \in Nat /\ a[2] .. a[2] + n - 1 \subseteq DOMAIN Edid BY <2>2, <2>4
    <2>6. AnswerData(fn, a) = Slice(ddc, a[2], n) BY <1>2, DataCases
    <2> HIDE DEF n, a
    <2>7. \A o \in a[2] .. a[2] + n - 1 : ddc[o] \in Bytes BY <1>e, <2>5
    <2> QED BY <2>2, <2>5, <2>6, <2>7, SliceIsBytes DEF a
  <1>3. CASE fn = "DDC_UPDATE_READ"
    <2>1. \A o \in 0 .. 0 + 2 - 1 : ddc[o] \in Bytes BY <1>e
    <2>2. Slice(ddc, 0, 2) \in Seq(Nat) BY <2>1, SliceIsBytes
    <2>3. AnswerData(fn, a) = Slice(ddc, 0, 2) BY <1>3, DataCases
    <2> QED BY <2>2, <2>3
  <1>4. CASE fn = "READ_EDID"
    <2>1. RequestSizes[fn] = <<1, 1>> BY <1>4 DEF RequestSizes
    <2>2. a[1] \in Nat
      <3>1. a[1] \in 0 .. Weight[1 + 1] - 1 BY <2>1, SentFits
      <3> QED BY <3>1, <1>w
    <2>3. a[1] = c.args[1] BY <1>4, <2>1 DEF Sent
    <2>4. {2 * a[1], 2 * a[1] + 1} \subseteq DOMAIN Edid BY <1>4, <2>3, MadeFacts DEF ArgsFit
    <2> DEFINE p == 2 * a[1]
    <2>5. p \in Nat BY <2>2
    <2>6. AnswerData(fn, a) = Slice(Edid, p, 2) BY <1>4, DataCases
    <2>7. {p, p + 1} \subseteq DOMAIN Edid BY <2>4
    <2> HIDE DEF p
    <2>8. \A o \in p .. p + 2 - 1 : Edid[o] \in Bytes BY <1>e, <2>5, <2>7
    <2>9. Slice(Edid, p, 2) \in Seq(Nat) BY <2>5, <2>8, SliceIsBytes
    <2> QED BY <2>6, <2>9
  <1> QED BY <1>1, <1>2, <1>3, <1>4 DEF HandsOutBuff

LEMMA AnswerFits ==
  ASSUME NEW c \in MadeCalls, c.fn \notin NoReply, FirmwareType, NEW words \in [Registers -> Words]
  PROVE  WellFormed(Answer(c.fn, Sent(c), words)) /\ Answer(c.fn, Sent(c), words).fn = c.fn
  <1>1. c.fn \in Calls \ NoReply BY MadeFacts
  <1> QED BY <1>1, AnswerNumbersFit, AnswerDataFits DEF Answer, WellFormed, WellNumbers

-----------------------------------------------------------------------------
(* The invariant.  at: the calls whose messages are on their way to the     *)
(* firmware, of which only the last can be one that is waited for; words:   *)
(* the registers before, between and behind them.                          *)
OnTheWay(at, words) ==
    /\ at \in Seq(MadeCalls) /\ Len(at) = Len(to_fw)
    /\ \A i \in 1 .. Len(at) :
          /\ to_fw[i] = Request(at[i])
          /\ at[i].fn \notin NoReply => i = Len(at) /\ at[i] = call
          /\ words[i + 1] = Written(at[i], words[i])
    /\ call # Idle /\ at # <<>> => at[Len(at)] = call
    /\ words \in Seq([Registers -> Words]) /\ Len(words) = Len(at) + 1
    /\ words[1] = regs /\ words[Len(words)] = shadow

(* The call waited for is on its way, or its reply is, or has come in.      *)
Replied == WellFormed(asked) /\ asked.fn = call.fn

InPhase ==
    IF call = Idle THEN to_host = <<>>
    ELSE /\ call \in MadeCalls /\ call.fn \notin NoReply
         /\ to_fw # <<>> => to_host = <<>>
         /\ to_fw = <<>> =>
               /\ Replied
               /\ \/ to_host = <<Reply(asked)>>
                  \/ to_host = <<>> /\ InBuffer(Reply(asked))

CallsInv ==
    /\ FirmwareType /\ rxi = 0
    /\ to_fw \in Seq({Request(c) : c \in MadeCalls})
    /\ \E at, words : OnTheWay(at, words)
    /\ InPhase
    /\ Answered /\ BuffKept

LEMMA NotIdle ==
  \A c \in MadeCalls : c # Idle
  BY MadeFacts, SMTT(30) DEF Calls, Header, Idle

LEMMA WrittenType ==
  ASSUME NEW c \in MadeCalls, NEW r \in [Registers -> Words]
  PROVE  Written(c, r) \in [Registers -> Words]
  <1>1. CASE c.fn \notin NoReply BY <1>1 DEF Written
  <1>2. CASE c.fn = "write_register"
    <2>1. RequestSizes[c.fn] = <<4, 4>> BY <1>2 DEF RequestSizes
    <2>2. 2 \in 1 .. Len(RequestSizes[c.fn]) /\ RequestSizes[c.fn][2] = 4 BY <2>1
    <2>3. Sent(c)[2] \in 0 .. Weight[4 + 1] - 1 BY <2>2, SentFits
    <2>4. Sent(c)[2] = c.args[2] BY <1>2, <2>2 DEF Sent
    <2>5. c.args[2] \in Words BY <2>3, <2>4 DEF Words
    <2>6. Written(c, r) = [r EXCEPT ![c.args[1]] = c.args[2]] BY <1>2 DEF Written, NoReply
    <2> QED BY <2>5, <2>6
  <1>3. CASE c.fn = "write_field"
    <2>1. \A word \in Words : WithField(word, c.args[2], c.args[3], c.args[4]) \in Words
      BY <1>3, MadeFacts DEF ArgsFit
    <2>2. Written(c, r) =
            [r EXCEPT ![c.args[1]] = WithField(r[c.args[1]], c.args[2], c.args[3], c.args[4])]
      BY <1>3 DEF Written, NoReply
    <2> QED BY <2>1, <2>2
  <1> QED BY <1>1, <1>2, <1>3 DEF NoReply

(* The firmware writes what was asked for, where it has such a register.    *)
LEMMA WrittenAsSent ==
  ASSUME NEW c \in MadeCalls, NEW r \in [Registers -> Words]
  PROVE  Written(c, r) = IF c.fn \in NoReply /\ Sent(c)[1] \in Registers
                         THEN Written([fn |-> c.fn, args |-> Sent(c)], r) ELSE r
  <1>1. CASE c.fn \notin NoReply BY <1>1 DEF Written
  <1>2. CASE c.fn = "write_register"
    <2>1. RequestSizes[c.fn] = <<4, 4>> BY <1>2 DEF RequestSizes
    <2>2. Sent(c)[1] = c.args[1] /\ Sent(c)[2] = c.args[2] BY <1>2, <2>1 DEF Sent
    <2>3. Written(c, r) = [r EXCEPT ![c.args[1]] = c.args[2]] BY <1>2 DEF Written, NoReply
    <2>4. Written([fn |-> c.fn, args |-> Sent(c)], r) = [r EXCEPT ![c.args[1]] = c.args[2]]
      BY <1>2, <2>2 DEF Written, NoReply
    <2> QED BY <1>2, <2>2, <2>3, <2>4 DEF NoReply
  <1>3. CASE c.fn = "write_field"
    <2>1. RequestSizes[c.fn] = <<4, 1, 1, 4>> BY <1>3 DEF RequestSizes
    <2>2. /\ Sent(c)[1] = c.args[1] /\ Sent(c)[2] = c.args[2]
          /\ Sent(c)[3] = c.args[3] /\ Sent(c)[4] = c.args[4] BY <1>3, <2>1 DEF Sent
    <2> DEFINE v == WithField(r[c.args[1]], c.args[2], c.args[3], c.args[4])
    <2>3. Written(c, r) = [r EXCEPT ![c.args[1]] = v] BY <1>3 DEF Written, NoReply
    <2>4. Written([fn |-> c.fn, args |-> Sent(c)], r) = [r EXCEPT ![c.args[1]] = v]
      BY <1>3, <2>2 DEF Written, NoReply
    <2> HIDE DEF v
    <2> QED BY <1>3, <2>2, <2>3, <2>4 DEF NoReply
  <1> QED BY <1>1, <1>2, <1>3 DEF NoReply

LEMMA InitStep == Init => CallsInv
  <1> SUFFICES ASSUME Init PROVE CallsInv OBVIOUS
  <1>1. 0 \in Words
    <2>1. Weight[5] \in Nat \ {0} BY RadixType, Weights
    <2> QED BY <2>1 DEF Words
  <1>2. FirmwareType BY <1>1, EdidAssumption DEF Init, FirmwareType
  <1>3. OnTheWay(<<>>, <<regs>>) BY <1>2 DEF Init, OnTheWay, FirmwareType
  <1>4. InPhase BY DEF Init, InPhase
  <1>5. Answered /\ BuffKept BY DEF Init, Answered, BuffKept
  <1>6. rxi = 0 /\ to_fw \in Seq({Request(c) : c \in MadeCalls}) BY DEF Init
  <1> QED BY <1>2, <1>3, <1>4, <1>5, <1>6 DEF CallsInv

LEMMA ApiInitStep == CallsInv /\ cdn_api_init => CallsInv'
  <1> SUFFICES ASSUME CallsInv, cdn_api_init PROVE CallsInv' OBVIOUS
  <1>1. FirmwareType' /\ rxi' = 0 /\ to_fw' \in Seq({Request(c) : c \in MadeCalls})
    BY DEF CallsInv, cdn_api_init, FirmwareType, firmware
  <1>2. PICK at, words : OnTheWay(at, words) BY DEF CallsInv
  <1>3. OnTheWay(at, words)' BY <1>2 DEF cdn_api_init, OnTheWay, firmware
  <1>4. InPhase' BY DEF CallsInv, cdn_api_init, InPhase
  <1>5. Answered' /\ BuffKept' BY DEF CallsInv, cdn_api_init, Answered, BuffKept
  <1> QED BY <1>1, <1>3, <1>4, <1>5 DEF CallsInv

LEMMA SendStep ==
  ASSUME CallsInv, NEW c \in MadeCalls, Send(c)
  PROVE  CallsInv'
  <1>1. /\ call = Idle /\ to_fw' = Append(to_fw, Request(c))
        /\ shadow' = Written(c, shadow) /\ UNCHANGED <<rxbuffer, rxi, buff, to_host, regs, ddc, hpd, asked>>
        /\ IF c.fn \in NoReply THEN call' = Idle /\ out'.fn = c.fn ELSE call' = c
    BY DEF Send, firmware
  <1>2. FirmwareType' /\ rxi' = 0 BY <1>1 DEF CallsInv, FirmwareType
  <1>3. to_fw' \in Seq({Request(d) : d \in MadeCalls}) BY <1>1, AppendProperties DEF CallsInv
  <1>4. PICK at, words : OnTheWay(at, words) BY DEF CallsInv
  <1> DEFINE more == Append(at, c)
             n == Len(at)
  <1>a. PICK after : after = Append(words, Written(c, shadow)) OBVIOUS
  <1>5. /\ at \in Seq(MadeCalls) /\ n = Len(to_fw) /\ n \in Nat
        /\ words \in Seq([Registers -> Words]) /\ Len(words) = n + 1 /\ words[n + 1] = shadow
        /\ words[1] = regs
    BY <1>4 DEF OnTheWay
  <1>6. Written(c, shadow) \in [Registers -> Words]
    <2>1. shadow \in [Registers -> Words] BY <1>5, ElementOfSeq
    <2> QED BY <2>1, WrittenType
  <1>7. /\ more \in Seq(MadeCalls) /\ Len(more) = n + 1 /\ more[n + 1] = c
        /\ \A i \in 1 .. n : more[i] = at[i]
    BY <1>5, AppendProperties
  <1>8. /\ after \in Seq([Registers -> Words]) /\ Len(after) = n + 2
        /\ after[n + 2] = Written(c, shadow) /\ \A i \in 1 .. n + 1 : after[i] = words[i]
    BY <1>5, <1>6, <1>a, AppendProperties
  <1>9. /\ Len(to_fw') = n + 1 /\ to_fw'[n + 1] = Request(c)
        /\ \A i \in 1 .. n : to_fw'[i] = to_fw[i]
    BY <1>1, <1>5, AppendProperties DEF CallsInv
  <1>10. \A i \in 1 .. n : /\ to_fw[i] = Request(at[i])
                           /\ at[i].fn \in NoReply
                           /\ words[i + 1] = Written(at[i], words[i])
    <2> SUFFICES ASSUME NEW i \in 1 .. n
                 PROVE  /\ to_fw[i] = Request(at[i]) /\ at[i].fn \in NoReply
                        /\ words[i + 1] = Written(at[i], words[i])
      OBVIOUS
    <2>1. at[i] \in MadeCalls BY <1>5, ElementOfSeq
    <2>2. at[i] # call BY <1>1, <2>1, NotIdle
    <2> QED BY <1>4, <2>2 DEF OnTheWay
  <1> HIDE DEF more, n
  <1>11. OnTheWay(more, after)'
    <2>1. ASSUME NEW i \in 1 .. n + 1
          PROVE  /\ to_fw'[i] = Request(more[i])
                 /\ more[i].fn \notin NoReply => i = n + 1 /\ more[i] = call'
                 /\ after[i + 1] = Written(more[i], after[i])
      <3>1. CASE i \in 1 .. n
        <4>1. i + 1 \in 1 .. n + 1 /\ i \in 1 .. n + 1 BY <1>5, <3>1
        <4> QED BY <1>7, <1>8, <1>9, <1>10, <3>1, <4>1
      <3>2. CASE i = n + 1
        <4>1. n + 1 \in 1 .. n + 1 /\ n + 1 + 1 = n + 2 BY <1>5
        <4>2. after[n + 1] = shadow BY <1>5, <1>8, <4>1
        <4> QED BY <1>1, <1>7, <1>8, <1>9, <3>2, <4>1, <4>2
      <3> QED BY <1>5, <3>1, <3>2
    <2>2. call' # Idle => more[n + 1] = call' BY <1>1, <1>7
    <2>3. after[1] = regs' /\ after[n + 2] = shadow'
      <3>1. 1 \in 1 .. n + 1 BY <1>5
      <3> QED BY <1>1, <1>5, <1>8, <3>1
    <2>4. Len(more) = n + 1 /\ Len(after) = Len(more) + 1 /\ Len(after) = n + 2 BY <1>5, <1>7, <1>8
    <2>5. \A i \in 1 .. Len(more) :
             /\ to_fw'[i] = Request(more[i])
             /\ more[i].fn \notin NoReply => i = Len(more) /\ more[i] = call'
             /\ after[i + 1] = Written(more[i], after[i])
      BY <2>1, <2>4
    <2>6. call' # Idle /\ more # <<>> => more[Len(more)] = call' BY <2>2, <2>4
    <2>7. after[1] = regs' /\ after[Len(after)] = shadow' BY <2>3, <2>4
    <2>8. Len(more) = Len(to_fw') BY <1>7, <1>9
    <2> QED BY <1>7, <1>8, <2>4, <2>5, <2>6, <2>7, <2>8, Zenon DEF OnTheWay
  <1>12. InPhase'
    <2>1. to_fw' # <<>> BY <1>5, <1>9
    <2>2. to_host' = <<>> BY <1>1 DEF CallsInv, InPhase
    <2> QED BY <1>1, <2>1, <2>2 DEF InPhase
  <1>13. Answered'
    <2>1. CASE c.fn \in NoReply BY <1>1, <2>1 DEF Answered
    <2>2. CASE c.fn \notin NoReply
      <3>1. call' # Idle BY <1>1, <2>2, NotIdle
      <3> QED BY <3>1 DEF Answered
    <2> QED BY <2>1, <2>2
  <1>14. BuffKept' BY <1>1 DEF CallsInv, BuffKept, Cells
  <1> QED BY <1>2, <1>3, <1>11, <1>12, <1>13, <1>14 DEF CallsInv

LEMMA ReceiveStep == CallsInv /\ Receive => CallsInv'
  <1> SUFFICES ASSUME CallsInv, Receive PROVE CallsInv' OBVIOUS
  <1>1. /\ call # Idle /\ to_host # <<>> /\ rxbuffer' = Store(Head(to_host)) /\ rxi' = 0
        /\ to_host' = Tail(to_host) /\ buff' = NoBuff
        /\ UNCHANGED <<call, out, to_fw, regs, ddc, hpd, asked, shadow>>
    BY DEF Receive, firmware, NextRxi
  <1>2. /\ call \in MadeCalls /\ call.fn \notin NoReply /\ to_fw = <<>>
        /\ Replied /\ to_host = <<Reply(asked)>>
    BY <1>1 DEF CallsInv, InPhase
  <1> DEFINE msg == Reply(asked)
  <1>3. rxbuffer' = Store(msg) /\ to_host' = <<>> BY <1>1, <1>2
  <1>4. InBuffer(msg)'
    <2>1. rxi = 0 BY DEF CallsInv
    <2>2. Len(msg) \in Nat BY <1>2, ReplyLength DEF Replied
    <2>3. \A i \in 1 .. Len(msg) : rxbuffer'[i - 1] = msg[i] BY <1>3, <2>1, <2>2 DEF Store
    <2> QED BY <1>1, <2>3 DEF InBuffer
  <1> HIDE DEF msg
  <1>5. FirmwareType' /\ to_fw' \in Seq({Request(c) : c \in MadeCalls})
    BY <1>1 DEF CallsInv, FirmwareType
  <1>6. \E at, words : OnTheWay(at, words)'
    <2>1. PICK at, words : OnTheWay(at, words) BY DEF CallsInv
    <2>2. OnTheWay(at, words)' BY <1>1, <2>1 DEF OnTheWay
    <2> QED BY <2>2
  <1>7. InPhase'
    <2>1. Replied' BY <1>1, <1>2 DEF Replied, WellFormed
    <2>2. InBuffer(Reply(asked))' BY <1>1, <1>4 DEF msg, InBuffer
    <2> QED BY <1>1, <1>2, <1>3, <2>1, <2>2 DEF InPhase
  <1>8. Answered' BY <1>1 DEF Answered
  <1>9. BuffKept' BY <1>1 DEF BuffKept
  <1> QED BY <1>1, <1>5, <1>6, <1>7, <1>8, <1>9 DEF CallsInv

(* The byte stored into a wider status is its remainder.                    *)
LEMMA LowByte ==
  ASSUME NEW p \in Nat, NEW x \in 0 .. Radix - 1
  PROVE  (p * Radix + x) % Radix = x
  <1> DEFINE n == p * Radix + x
             q == n \div Radix
  <1>1. Radix \in Nat \ {0} BY RadixType
  <1>2. n = Radix * p + x /\ n \in Int BY <1>1
  <1>3. (Radix * p + x) \div Radix = p BY <1>1, Quotient
  <1>4. q = p BY <1>2, <1>3
  <1>5. n = Radix * q + (n % Radix) /\ n % Radix \in 0 .. Radix - 1 BY <1>1, <1>2, DivMod
  <1> HIDE DEF n, q
  <1>6. Radix * p \in Int BY <1>1
  <1>7. n % Radix = x BY <1>1, <1>2, <1>4, <1>5, <1>6
  <1> QED BY <1>7 DEF n

LEMMA FinishStep == CallsInv /\ Finish => CallsInv'
  <1> SUFFICES ASSUME CallsInv, Finish PROVE CallsInv' OBVIOUS
  <1> DEFINE fn == call.fn
             sizes == ReplySizes[fn]
             numbers == asked.numbers
  <1>1. /\ call # Idle /\ to_fw = <<>> /\ to_host = <<>> /\ call' = Idle
        /\ UNCHANGED <<rxbuffer, rxi, to_fw, to_host, regs, ddc, hpd, asked, shadow>>
    BY DEF Finish, Received, firmware
  <1>2. Replied /\ InBuffer(Reply(asked)) /\ fn \in Calls \ NoReply
    BY <1>1 DEF CallsInv, InPhase, Replied, WellFormed
  <1>3. HeadOk /\ ReadMsg(sizes) = numbers /\ Cells(BuffAt(sizes), Len(asked.data)) = asked.data
    BY <1>2, ReplyRead DEF Replied, HeadOk
  <1>4. /\ \E p \in Prior :
               out' = [fn |-> fn, numbers |-> IF fn \in HasStatus
                                              THEN [numbers EXCEPT ![1] = p * Radix + numbers[1]]
                                              ELSE numbers]
        /\ buff' = IF fn \in HandsOutBuff
                   THEN [at |-> BuffAt(sizes), bytes |-> asked.data] ELSE NoBuff
    BY <1>3, Zenon DEF Finish
  <1>5. FirmwareType' /\ rxi' = 0 /\ to_fw' \in Seq({Request(c) : c \in MadeCalls})
    BY <1>1 DEF CallsInv, FirmwareType
  <1>6. \E at, words : OnTheWay(at, words)'
    <2>1. PICK at, words : OnTheWay(at, words) BY DEF CallsInv
    <2>2. at = <<>> BY <1>1, <2>1 DEF OnTheWay
    <2>3. OnTheWay(at, words)' BY <1>1, <2>1, <2>2 DEF OnTheWay
    <2> QED BY <2>3
  <1>7. InPhase' BY <1>1 DEF InPhase
  <1>8. Answered'
    <2>1. PICK p \in Prior :
             out' = [fn |-> fn, numbers |-> IF fn \in HasStatus
                                            THEN [numbers EXCEPT ![1] = p * Radix + numbers[1]]
                                            ELSE numbers]
      BY <1>4
    <2>2. p \in Nat BY PriorAssumption
    <2>3. /\ asked.fn = fn /\ Len(sizes) \in Nat /\ numbers = [k \in 1 .. Len(sizes) |-> numbers[k]]
          /\ Fit(numbers, sizes)
      <3>1. Len(sizes) \in Nat BY <1>2, CallSizes, Places
      <3> QED BY <1>2, <3>1 DEF Replied, WellFormed
    <2>4. out'.fn = fn /\ asked' = asked BY <1>1, <2>1
    <2>5. CASE fn \notin HasStatus BY <2>1, <2>3, <2>4, <2>5 DEF Answered
    <2>6. CASE fn \in HasStatus
      <3>1. Len(sizes) >= 1 /\ sizes[1] = 1
        <4>1. sizes \in {<<1>>, <<1, 1, 1, 2>>} BY <2>6 DEF HasStatus, HandsOutBuff, ReplySizes
        <4> HIDE DEF sizes
        <4> QED BY <4>1
      <3>2. numbers[1] \in 0 .. Radix - 1
        <4>1. 1 \in 1 .. Len(sizes) /\ sizes[1] + 1 = 2 BY <2>3, <3>1
        <4>2. numbers[1] \in 0 .. Weight[2] - 1 BY <2>3, <4>1 DEF Fit
        <4> QED BY <4>2, Weights
      <3> DEFINE status == p * Radix + numbers[1]
      <3>3. status % Radix = numbers[1] BY <2>2, <3>2, LowByte
      <3>4. out'.numbers = [numbers EXCEPT ![1] = status] BY <2>1, <2>6
      <3> HIDE DEF status, numbers, sizes
      <3>5. Len(out'.numbers) = Len(numbers) BY <2>3, <3>4
      <3>6. \A k \in 1 .. Len(out'.numbers) :
               numbers[k] = IF k = 1 THEN out'.numbers[k] % Radix ELSE out'.numbers[k]
        BY <2>3, <3>3, <3>4
      <3>7. numbers = asked'.numbers BY <2>4 DEF numbers
      <3> QED BY <2>3, <2>4, <2>6, <3>5, <3>6, <3>7 DEF Answered
    <2> QED BY <2>5, <2>6
  <1>9. BuffKept'
    <2>1. CASE fn \in HandsOutBuff
      <3>1. buff'.at = BuffAt(sizes) /\ buff'.bytes = asked.data BY <1>4, <2>1
      <3>2. rxbuffer' = rxbuffer BY <1>1
      <3> QED BY <1>3, <3>1, <3>2 DEF BuffKept, Cells
    <2>2. CASE fn \notin HandsOutBuff BY <1>4, <2>2 DEF BuffKept
    <2> QED BY <2>1, <2>2
  <1> QED BY <1>5, <1>6, <1>7, <1>8, <1>9 DEF CallsInv

LEMMA HotPlugStep == CallsInv /\ HotPlug => CallsInv'
  <1> SUFFICES ASSUME CallsInv, HotPlug PROVE CallsInv' OBVIOUS
  <1> USE DEF CallsInv, HotPlug
  <1>1. FirmwareType' BY DEF FirmwareType
  <1>2. \E at, words : OnTheWay(at, words)'
    <2>1. PICK at, words : OnTheWay(at, words) OBVIOUS
    <2>2. OnTheWay(at, words)' BY <2>1 DEF OnTheWay
    <2> QED BY <2>2
  <1>3. InPhase' BY DEF InPhase, Replied, WellFormed, InBuffer
  <1>4. Answered' BY DEF Answered
  <1>5. BuffKept' BY DEF BuffKept, Cells
  <1> QED BY <1>1, <1>2, <1>3, <1>4, <1>5

LEMMA StutterStep == CallsInv /\ UNCHANGED vars => CallsInv'
  <1> SUFFICES ASSUME CallsInv, UNCHANGED vars PROVE CallsInv' OBVIOUS
  <1> USE DEF CallsInv, vars, firmware
  <1>1. FirmwareType' BY DEF FirmwareType
  <1>2. \E at, words : OnTheWay(at, words)'
    <2>1. PICK at, words : OnTheWay(at, words) OBVIOUS
    <2>2. OnTheWay(at, words)' BY <2>1 DEF OnTheWay
    <2> QED BY <2>2
  <1>3. InPhase' BY DEF InPhase, Replied, WellFormed, InBuffer
  <1>4. Answered' BY DEF Answered
  <1>5. BuffKept' BY DEF BuffKept, Cells
  <1> QED BY <1>1, <1>2, <1>3, <1>4, <1>5

(* The firmware takes the first of the messages for the call it was.        *)
LEMMA ExecuteStep == CallsInv /\ Execute => CallsInv'
  <1> SUFFICES ASSUME CallsInv, Execute PROVE CallsInv' OBVIOUS
  <1>1. PICK at, words : OnTheWay(at, words) BY DEF CallsInv
  <1> DEFINE n == Len(at)
             c == at[1]
             rest == Tail(at)
             left == Tail(words)
  <1>2. /\ at \in Seq(MadeCalls) /\ n = Len(to_fw) /\ n \in Nat /\ n # 0
        /\ words \in Seq([Registers -> Words]) /\ Len(words) = n + 1
        /\ words[1] = regs /\ words[n + 1] = shadow
        /\ to_fw \in Seq({Request(d) : d \in MadeCalls}) /\ to_fw # <<>>
    BY <1>1 DEF OnTheWay, Execute, CallsInv
  <1>3. 1 \in 1 .. n /\ c \in MadeCalls /\ Head(to_fw) = Request(c) /\ words[2] = Written(c, regs)
    <2>1. 1 \in 1 .. n BY <1>2
    <2>2. to_fw[1] = Request(c) /\ words[1 + 1] = Written(c, words[1]) BY <1>1, <2>1 DEF OnTheWay
    <2>3. c \in MadeCalls BY <1>2, <2>1, ElementOfSeq
    <2> QED BY <1>2, <2>1, <2>2, <2>3
  <1>4. /\ CallOf(Head(to_fw)) = c.fn /\ ArgsOf(Head(to_fw)) = Sent(c)
        /\ DataOf(Head(to_fw)) = DataSent(c)
    BY <1>3, RequestRead
  <1>5. /\ regs' = IF c.fn \in NoReply /\ Sent(c)[1] \in Registers
                   THEN Written([fn |-> c.fn, args |-> Sent(c)], regs) ELSE regs
        /\ ddc' = IF c.fn = "DDC_WRITE" /\ Sent(c)[1] \in Slaves
                  THEN [o \in DOMAIN ddc |-> IF o >= Sent(c)[2] /\ o < Sent(c)[2] + Sent(c)[3]
                                             THEN DataSent(c)[o - Sent(c)[2] + 1] ELSE ddc[o]]
                  ELSE ddc
        /\ IF c.fn \in NoReply THEN UNCHANGED <<to_host, asked>>
           ELSE /\ to_host' = Append(to_host, Reply(Answer(c.fn, Sent(c), regs)))
                /\ asked' = Answer(call.fn, Sent(call), shadow)
        /\ to_fw' = Tail(to_fw)
        /\ UNCHANGED <<call, out, rxbuffer, rxi, buff, hpd, shadow>>
    BY <1>4, Zenon DEF Execute
  <1>6. regs' = words[2] /\ words[2] \in [Registers -> Words]
    <2>1. regs \in [Registers -> Words] BY DEF CallsInv, FirmwareType
    <2> QED BY <1>3, <1>5, <2>1, WrittenAsSent, WrittenType
  <1>7. FirmwareType'
    <2>1. ddc' \in [DOMAIN Edid -> Bytes]
      <3>0. ddc \in [DOMAIN Edid -> Bytes] BY DEF CallsInv, FirmwareType
      <3>1. CASE c.fn = "DDC_WRITE"
        <4> DEFINE a == Sent(c)
                   data == DataSent(c)
        <4>1. RequestSizes[c.fn] = <<1, 1, 2>> BY <3>1 DEF RequestSizes
        <4>2. a[3] = c.args[3] BY <3>1, <4>1 DEF Sent
        <4>3. data \in Seq(Bytes) /\ Len(data) = a[3]
          BY <1>3, <3>1, <4>2, MadeFacts DEF ArgsFit, DataSent
        <4>4. a[2] \in Nat
          <5>1. 2 \in 1 .. Len(RequestSizes[c.fn]) /\ RequestSizes[c.fn][2] = 1 BY <4>1
          <5>2. a[2] \in 0 .. Weight[1 + 1] - 1 BY <1>3, <5>1, SentFits
          <5> QED BY <5>2, Weights, RadixType
        <4> HIDE DEF a, data
        <4>5. DOMAIN Edid \subseteq Int BY EdidAssumption
        <4>6. \A o \in DOMAIN Edid : o >= a[2] /\ o < a[2] + a[3] => data[o - a[2] + 1] \in Bytes
          <5> SUFFICES ASSUME NEW o \in DOMAIN Edid, o >= a[2], o < a[2] + a[3]
                       PROVE  data[o - a[2] + 1] \in Bytes
            OBVIOUS
          <5>1. a[3] \in Nat BY <4>3
          <5>2. o - a[2] + 1 \in 1 .. Len(data) BY <4>3, <4>4, <4>5, <5>1
          <5> QED BY <4>3, <5>2, ElementOfSeq
        <4> QED BY <1>5, <3>0, <4>6 DEF a, data
      <3> QED BY <1>5, <3>0, <3>1
    <2> QED BY <1>5, <1>6, <2>1 DEF CallsInv, FirmwareType
  <1>8. /\ rest \in Seq(MadeCalls) /\ Len(rest) = n - 1 /\ \A i \in 1 .. n - 1 : rest[i] = at[i + 1]
        /\ left \in Seq([Registers -> Words]) /\ Len(left) = n
        /\ \A i \in 1 .. n : left[i] = words[i + 1]
        /\ to_fw' \in Seq({Request(d) : d \in MadeCalls}) /\ Len(to_fw') = n - 1
        /\ \A i \in 1 .. n - 1 : to_fw'[i] = to_fw[i + 1]
    BY <1>2, <1>5
  <1> HIDE DEF n, rest, left
  <1>9. OnTheWay(rest, left)'
    <2>1. ASSUME NEW i \in 1 .. n - 1
          PROVE  /\ to_fw'[i] = Request(rest[i])
                 /\ rest[i].fn \notin NoReply => i = n - 1 /\ rest[i] = call'
                 /\ left[i + 1] = Written(rest[i], left[i])
      <3>1. i + 1 \in 1 .. n /\ i \in 1 .. n BY <1>2
      <3>2. /\ to_fw[i + 1] = Request(at[i + 1])
            /\ at[i + 1].fn \notin NoReply => i + 1 = n /\ at[i + 1] = call
            /\ words[i + 1 + 1] = Written(at[i + 1], words[i + 1])
        BY <1>1, <3>1 DEF OnTheWay, n
      <3>3. /\ rest[i] = at[i + 1] /\ left[i] = words[i + 1] /\ left[i + 1] = words[i + 1 + 1]
            /\ to_fw'[i] = to_fw[i + 1] /\ (i + 1 = n => i = n - 1)
        BY <1>2, <1>8, <3>1
      <3> QED BY <1>5, <3>2, <3>3
    <2>2. call' # Idle /\ rest # <<>> => rest[Len(rest)] = call'
      <3> SUFFICES ASSUME call # Idle, rest # <<>> PROVE rest[Len(rest)] = call BY <1>5
      <3>1. Len(rest) # 0 BY <1>8
      <3>2. n - 1 \in 1 .. n - 1 /\ n - 1 + 1 = n BY <1>2, <1>8, <3>1
      <3>3. at # <<>> BY <1>2 DEF n
      <3>4. at[n] = call BY <1>1, <3>3 DEF OnTheWay, n
      <3> QED BY <1>8, <3>2, <3>4
    <2>3. left[1] = regs' /\ left[n] = shadow'
      <3>1. 1 \in 1 .. n /\ n \in 1 .. n BY <1>2
      <3>2. left[1] = words[1 + 1] /\ left[n] = words[n + 1] BY <1>8, <3>1
      <3> QED BY <1>2, <1>5, <1>6, <3>2
    <2>4. Len(rest) = n - 1 /\ Len(left) = Len(rest) + 1 /\ Len(rest) = Len(to_fw') BY <1>2, <1>8
    <2>5. \A i \in 1 .. Len(rest) :
             /\ to_fw'[i] = Request(rest[i])
             /\ rest[i].fn \notin NoReply => i = Len(rest) /\ rest[i] = call'
             /\ left[i + 1] = Written(rest[i], left[i])
      BY <2>1, <2>4
    <2>6. left[1] = regs' /\ left[Len(left)] = shadow' BY <2>3, <1>8
    <2> QED BY <1>8, <2>2, <2>4, <2>5, <2>6, Zenon DEF OnTheWay
  <1>10. CASE c.fn \in NoReply
    <2>1. UNCHANGED <<to_host, asked>> BY <1>5, <1>10
    <2>2. InPhase'
      <3>1. CASE call = Idle BY <1>5, <2>1, <3>1 DEF CallsInv, InPhase
      <3>2. CASE call # Idle
        <4>1. to_host = <<>> /\ call \in MadeCalls /\ call.fn \notin NoReply
          BY <1>2, <3>2 DEF CallsInv, InPhase
        <4>2. n # 1
          <5>1. at # <<>> BY <1>2 DEF n
          <5>2. at[n] = call BY <1>1, <3>2, <5>1 DEF OnTheWay, n
          <5> QED BY <1>10, <4>1, <5>2
        <4>3. to_fw' # <<>> BY <1>2, <1>8, <4>2
        <4> QED BY <1>5, <2>1, <3>2, <4>1, <4>3 DEF InPhase
      <3> QED BY <3>1, <3>2
    <2>3. Answered' BY <1>5, <2>1 DEF CallsInv, Answered
    <2>4. BuffKept' BY <1>5 DEF CallsInv, BuffKept, Cells
    <2>5. rxi' = 0 BY <1>5 DEF CallsInv
    <2> QED BY <1>7, <1>8, <1>9, <2>2, <2>3, <2>4, <2>5 DEF CallsInv
  <1>11. CASE c.fn \notin NoReply
    <2>1. n = 1 /\ c = call BY <1>1, <1>3, <1>11 DEF OnTheWay, n
    <2>2. call # Idle BY <1>3, <2>1, NotIdle
    <2>3. regs = shadow
      <3>1. Written(c, regs) = regs BY <1>11 DEF Written
      <3>2. words[2] = shadow BY <1>2, <2>1
      <3> QED BY <1>3, <3>1, <3>2
    <2>4. to_host = <<>> BY <1>2, <2>2 DEF CallsInv, InPhase
    <2> DEFINE ans == Answer(c.fn, Sent(c), regs)
    <2>5. asked' = ans BY <1>5, <1>11, <2>1, <2>3
    <2>6. to_host' = <<Reply(ans)>>
      <3>1. to_host' = Append(<<>>, Reply(ans)) BY <1>5, <1>11, <2>4
      <3> HIDE DEF ans
      <3> QED BY <3>1
    <2>7. WellFormed(ans) /\ ans.fn = c.fn
      BY <1>3, <1>11, AnswerFits DEF CallsInv, FirmwareType
    <2> HIDE DEF ans
    <2>8. Replied' BY <1>5, <2>1, <2>5, <2>7 DEF Replied, WellFormed
    <2>9. to_fw' = <<>> BY <1>8, <2>1
    <2>10. to_host' = <<Reply(asked')>> BY <2>5, <2>6
    <2>11. InPhase' BY <1>3, <1>5, <1>11, <2>1, <2>2, <2>8, <2>9, <2>10 DEF InPhase
    <2>12. Answered' BY <1>5, <2>2 DEF Answered
    <2>13. BuffKept' BY <1>5 DEF CallsInv, BuffKept, Cells
    <2>14. rxi' = 0 BY <1>5 DEF CallsInv
    <2> QED BY <1>7, <1>8, <1>9, <2>11, <2>12, <2>13, <2>14 DEF CallsInv
  <1> QED BY <1>10, <1>11

LEMMA Invariance == Spec => []CallsInv
  <1>1. CallsInv /\ [Next]_vars => CallsInv'
    <2> SUFFICES ASSUME CallsInv, [Next]_vars PROVE CallsInv' OBVIOUS
    <2>1. ASSUME NEW fn \in Calls, NEW args \in Args[fn], Send([fn |-> fn, args |-> args])
          PROVE  CallsInv'
      <3>1. [fn |-> fn, args |-> args] \in MadeCalls BY DEF MadeCalls
      <3> QED BY <2>1, <3>1, SendStep
    <2> QED BY <2>1, ApiInitStep, ReceiveStep, FinishStep, ExecuteStep, HotPlugStep, StutterStep
         DEF Next, Driver
  <1> QED BY <1>1, InitStep, PTL DEF Spec

(* Every call tells its caller what it asked for.                           *)
THEOREM CallsAnswered == Spec => []Answered
  <1>1. CallsInv => Answered BY DEF CallsInv
  <1> QED BY <1>1, Invariance, PTL

(* And the data handed out stays where it is until the next reply.          *)
THEOREM DataKept == Spec => []BuffKept
  <1>1. CallsInv => BuffKept BY DEF CallsInv
  <1> QED BY <1>1, Invariance, PTL

=============================================================================
