--------------------------- MODULE EndToEndProofs ----------------------------
(***************************************************************************)
(* Proofs about module EndToEnd: for any hashes, clocks, delays and        *)
(* batches, no more copies of a packet are called forged than the network  *)
(* injected, and none dropped that it did not lose.                        *)
(*                                                                         *)
(* The state does not say which of the copies of a hash were lost, nor     *)
(* which of those that Bob caught are fakes, so the invariant says that    *)
(* there is a history that explains the state: for the n-th copy that      *)
(* Alice sent, the time out[n], and gone[n] as the number of those up to   *)
(* it that were lost; for the n-th copy that Bob caught, the time in[n],   *)
(* and fake[n] as the number of those up to it that were injected.         *)
(***************************************************************************)
EXTENDS EndToEnd, LedgerProofs

-----------------------------------------------------------------------------
(* What the network has done, for one hash *)

\* f counts some of the things that it is given, one after the other.
Counts(f) ==
    /\ f \in [Nat -> Nat] /\ f[0] = 0
    /\ \A m, n \in Nat : m <= n => f[m] <= f[n] /\ f[n] + m <= f[m] + n

\* At time t, sends copies were sent, the first through of them delivered or
\* lost, and caught copies were caught.
Typed(out, gone, in, fake, sends, through, caught, t) ==
    /\ out \in [Nat -> Nat] /\ in \in [Nat -> Nat] /\ Counts(gone) /\ Counts(fake)
    /\ sends \in Nat /\ through \in Nat /\ caught \in Nat /\ t \in Nat /\ through <= sends

\* What was not lost nor is on its way was caught.
Kept(gone, fake, through, caught) ==
    /\ \A n \in Nat : n >= through => gone[n] = gone[through]
    /\ \A n \in Nat : n >= caught => fake[n] = fake[caught]
    /\ through + fake[caught] = caught + gone[through]

\* Nothing has happened later than now, and nothing is on its way for too long.
Timely(out, in, sends, through, caught, t) ==
    /\ \A n \in Nat : 1 <= n /\ n <= sends => out[n] <= t
    /\ \A n \in Nat : 1 <= n /\ n <= caught => in[n] <= t
    /\ \A n \in Nat : through < n /\ n <= sends => t <= out[n] + MaxDelay

\* If the first r copies sent do not give as many as are among the first c
\* caught, the c-th was caught after the next one had been sent.
AfterSending(out, gone, in, fake, through, caught) ==
    \A r, c \in Nat :
        r < through /\ 1 <= c /\ c <= caught /\ r + fake[c] < c + gone[r] => out[r + 1] <= in[c]

\* If they give more, the next one was caught in time.
WithinDelay(out, gone, in, fake, through, caught) ==
    \A r, c \in Nat :
        1 <= r /\ r <= through /\ c < caught /\ c + gone[r] < r + fake[c] =>
            in[c + 1] <= out[r] + MaxDelay

Fates(out, gone, in, fake, sends, through, caught, t) ==
    /\ Typed(out, gone, in, fake, sends, through, caught, t)
    /\ Kept(gone, fake, through, caught)
    /\ Timely(out, in, sends, through, caught, t)
    /\ AfterSending(out, gone, in, fake, through, caught)
    /\ WithinDelay(out, gone, in, fake, through, caught)

\* A count is a number.
LEMMA CountsNat ==
    ASSUME NEW f, Counts(f)
    PROVE  \A n \in Nat : f[n] \in Nat
BY DEF Counts

\* A function with one more time.
LEMMA OneMore ==
    ASSUME NEW f \in [Nat -> Nat], NEW n \in Nat, NEW t \in Nat
    PROVE  /\ [f EXCEPT ![n + 1] = t] \in [Nat -> Nat]
           /\ [f EXCEPT ![n + 1] = t][n + 1] = t
           /\ \A m \in Nat : m <= n => [f EXCEPT ![n + 1] = t][m] = f[m]
OBVIOUS

\* A copy is sent.
LEMMA FatesSend ==
    ASSUME NEW out, NEW gone, NEW in, NEW fake, NEW sends, NEW through, NEW caught, NEW t,
           Fates(out, gone, in, fake, sends, through, caught, t)
    PROVE  Fates([out EXCEPT ![sends + 1] = t], gone, in, fake, sends + 1, through, caught, t)
<1> DEFINE o == [out EXCEPT ![sends + 1] = t]
<1>0. MaxDelay \in Nat
  BY EndToEndConstants
<1>1. Typed(out, gone, in, fake, sends, through, caught, t)
  BY DEF Fates
<1>2. o \in [Nat -> Nat] /\ o[sends + 1] = t /\ \A n \in Nat : n <= sends => o[n] = out[n]
  BY <1>1, OneMore DEF Typed
<1> HIDE DEF o
<1>3. Typed(o, gone, in, fake, sends + 1, through, caught, t)
  BY <1>1, <1>2 DEF Typed
<1>4. Timely(o, in, sends + 1, through, caught, t)
  <2>1. Timely(out, in, sends, through, caught, t)
    BY DEF Fates
  <2>2. ASSUME NEW n \in Nat, n <= sends + 1
        PROVE  n = sends + 1 \/ (n <= sends /\ o[n] = out[n])
    BY <1>1, <1>2, <2>2 DEF Typed
  <2>3. t <= t + MaxDelay /\ t <= t
    BY <1>0, <1>1 DEF Typed
  <2>4. ASSUME NEW n \in Nat, 1 <= n, n <= sends + 1
        PROVE  o[n] <= t
    BY <1>2, <2>1, <2>2, <2>3, <2>4 DEF Timely
  <2>5. ASSUME NEW n \in Nat, through < n, n <= sends + 1
        PROVE  t <= o[n] + MaxDelay
    BY <1>2, <2>1, <2>2, <2>3, <2>5 DEF Timely
  <2> QED
    BY <2>1, <2>4, <2>5 DEF Timely
<1>5. AfterSending(o, gone, in, fake, through, caught)
  <2>1. AfterSending(out, gone, in, fake, through, caught)
    BY DEF Fates
  <2>2. ASSUME NEW n \in Nat, n < through
        PROVE  o[n + 1] = out[n + 1]
    BY <1>1, <1>2, <2>2 DEF Typed
  <2> QED
    BY <2>1, <2>2 DEF AfterSending
<1>6. WithinDelay(o, gone, in, fake, through, caught)
  BY <1>1, <1>2 DEF Fates, WithinDelay, Typed
<1> QED
  BY <1>3, <1>4, <1>5, <1>6 DEF Fates, o

\* One that is through at last is caught.
LEMMA FatesDeliver ==
    ASSUME NEW out, NEW gone, NEW in, NEW fake, NEW sends, NEW through, NEW caught, NEW t,
           Fates(out, gone, in, fake, sends, through, caught, t), through < sends
    PROVE  Fates(out, gone, [in EXCEPT ![caught + 1] = t], fake, sends, through + 1, caught + 1, t)
<1> DEFINE i == [in EXCEPT ![caught + 1] = t]
<1>0. MaxDelay \in Nat
  BY EndToEndConstants
<1>1. Typed(out, gone, in, fake, sends, through, caught, t)
  BY DEF Fates
<1>2. i \in [Nat -> Nat] /\ i[caught + 1] = t /\ \A n \in Nat : n <= caught => i[n] = in[n]
  BY <1>1, OneMore DEF Typed
<1> HIDE DEF i
<1>3. Typed(out, gone, i, fake, sends, through + 1, caught + 1, t)
  BY <1>1, <1>2 DEF Typed
<1>4. Kept(gone, fake, through + 1, caught + 1)
  <2>1. /\ \A n \in Nat : n >= through => gone[n] = gone[through]
        /\ \A n \in Nat : n >= caught => fake[n] = fake[caught]
        /\ through + fake[caught] = caught + gone[through]
    BY DEF Fates, Kept
  <2>2. /\ through \in Nat /\ through + 1 \in Nat /\ caught \in Nat /\ caught + 1 \in Nat
        /\ gone[through] \in Nat /\ fake[caught] \in Nat
    BY <1>1 DEF Typed, Counts
  <2>3. gone[through + 1] = gone[through] /\ fake[caught + 1] = fake[caught]
    BY <2>1, <2>2
  <2>4. (through + 1) + fake[caught] = (caught + 1) + gone[through]
    BY <2>1, <2>2
  <2>5. \A n \in Nat : (n >= through + 1 => n >= through) /\ (n >= caught + 1 => n >= caught)
    BY <2>2
  <2> QED
    BY <2>1, <2>3, <2>4, <2>5 DEF Kept
<1>5. Timely(out, i, sends, through + 1, caught + 1, t)
  BY <1>1, <1>2 DEF Fates, Timely, Typed
<1>6. \A r, c \in Nat : r >= through /\ c <= caught => c + gone[r] <= r + fake[c]
  BY <1>1 DEF Fates, Kept, Typed, Counts
<1>7. \A r, c \in Nat : r <= through /\ c >= caught => r + fake[c] <= c + gone[r]
  BY <1>1 DEF Fates, Kept, Typed, Counts
<1>8. AfterSending(out, gone, i, fake, through + 1, caught + 1)
  <2> SUFFICES ASSUME NEW r \in Nat, NEW c \in Nat, r < through + 1, 1 <= c, c <= caught + 1,
                      r + fake[c] < c + gone[r]
               PROVE  out[r + 1] <= i[c]
    BY DEF AfterSending
  <2>1. CASE c = caught + 1
    BY <1>1, <1>2, <2>1 DEF Fates, Timely, Typed
  <2>2. CASE c <= caught
    BY <1>1, <1>2, <1>6, <2>2 DEF Fates, AfterSending, Typed, Counts
  <2> QED
    BY <1>1, <2>1, <2>2 DEF Typed
<1>9. WithinDelay(out, gone, i, fake, through + 1, caught + 1)
  <2> SUFFICES ASSUME NEW r \in Nat, NEW c \in Nat, 1 <= r, r <= through + 1, c < caught + 1,
                      c + gone[r] < r + fake[c]
               PROVE  i[c + 1] <= out[r] + MaxDelay
    BY DEF WithinDelay
  <2>1. i[c + 1] \in Nat /\ i[c + 1] <= t
    <3>1. CASE c = caught
      BY <1>1, <1>2, <3>1 DEF Typed
    <3>2. CASE c < caught
      <4>1. c + 1 \in Nat /\ 1 <= c + 1 /\ c + 1 <= caught
        BY <1>1, <3>2 DEF Typed
      <4> QED
        BY <1>1, <1>2, <4>1 DEF Fates, Timely, Typed
    <3> QED
      BY <1>1, <3>1, <3>2 DEF Typed
  <2>2. CASE r = through + 1
    BY <1>0, <1>1, <2>1, <2>2 DEF Fates, Timely, Typed
  <2>3. CASE r <= through /\ c < caught
    <3>1. c + 1 \in Nat /\ c + 1 <= caught
      BY <1>1, <2>3 DEF Typed
    <3>2. in[c + 1] <= out[r] + MaxDelay
      BY <2>3 DEF Fates, WithinDelay
    <3> QED
      BY <1>2, <3>1, <3>2
  <2>4. CASE r <= through /\ c = caught
    BY <1>1, <1>7, <2>4 DEF Typed, Counts
  <2> QED
    BY <1>1, <2>2, <2>3, <2>4 DEF Typed
<1> QED
  BY <1>3, <1>4, <1>5, <1>8, <1>9 DEF Fates, i

\* A count that stands still from k on may go on by one after it.
LEMMA CountOn ==
    ASSUME NEW f, Counts(f), NEW k \in Nat, \A n \in Nat : n >= k => f[n] = f[k]
    PROVE  \E more : /\ Counts(more) /\ \A n \in Nat : f[n] <= more[n]
                     /\ \A n \in Nat : n <= k => more[n] = f[n]
                     /\ \A n \in Nat : n > k => more[n] = f[k] + 1
<1> DEFINE more == [n \in Nat |-> IF n <= k THEN f[n] ELSE f[k] + 1]
<1>1. \A n \in Nat : f[n] \in Nat
  BY DEF Counts
<1>2. /\ more \in [Nat -> Nat]
      /\ \A n \in Nat : n <= k => more[n] = f[n]
      /\ \A n \in Nat : n > k => more[n] = f[k] + 1
  BY <1>1
<1> HIDE DEF more
<1>3. \A n \in Nat : f[n] <= more[n]
  BY <1>1, <1>2
<1>4. more[0] = 0
  BY <1>2 DEF Counts
<1>5. ASSUME NEW m \in Nat, NEW n \in Nat, m <= n
      PROVE  more[m] <= more[n] /\ more[n] + m <= more[m] + n
  <2>1. f[m] <= f[n] /\ f[n] + m <= f[m] + n
    BY <1>5 DEF Counts
  <2>2. CASE n <= k
    BY <1>1, <1>2, <1>5, <2>1, <2>2
  <2>3. CASE m > k
    BY <1>1, <1>2, <1>5, <2>3
  <2>4. CASE m <= k /\ n > k
    <3>1. more[m] = f[m] /\ more[n] = f[k] + 1
      BY <1>2, <2>4
    <3>2. f[m] <= f[k] /\ f[k] + m <= f[m] + k
      BY <2>4 DEF Counts
    <3>3. k + 1 <= n
      BY <2>4
    <3> QED
      BY <1>1, <3>1, <3>2, <3>3
  <2> QED
    BY <1>5, <2>2, <2>3, <2>4
<1>6. Counts(more)
  BY <1>2, <1>4, <1>5 DEF Counts
<1> QED
  BY <1>2, <1>3, <1>6

\* One that is lost is through, too.
LEMMA FatesLose ==
    ASSUME NEW out, NEW gone, NEW in, NEW fake, NEW sends, NEW through, NEW caught, NEW t,
           Fates(out, gone, in, fake, sends, through, caught, t), through < sends
    PROVE  \E more :
              /\ Fates(out, more, in, fake, sends, through + 1, caught, t)
              /\ \A n \in Nat : gone[n] <= more[n]
              /\ more[through + 1] = gone[through] + 1
<1>0. MaxDelay \in Nat
  BY EndToEndConstants
<1>1. Typed(out, gone, in, fake, sends, through, caught, t)
  BY DEF Fates
<1>2. /\ \A n \in Nat : gone[n] \in Nat /\ fake[n] \in Nat
      /\ through \in Nat /\ through + 1 \in Nat /\ caught \in Nat
  BY <1>1, CountsNat DEF Typed
<1>3. \A n \in Nat : n >= through => gone[n] = gone[through]
  BY DEF Fates, Kept
<1>4. PICK more : /\ Counts(more) /\ \A n \in Nat : gone[n] <= more[n]
                  /\ \A n \in Nat : n <= through => more[n] = gone[n]
                  /\ \A n \in Nat : n > through => more[n] = gone[through] + 1
  BY <1>1, <1>2, <1>3, CountOn DEF Typed
<1>7. Typed(out, more, in, fake, sends, through + 1, caught, t)
  BY <1>1, <1>4 DEF Typed
<1>8. Kept(more, fake, through + 1, caught)
  <2>1. more[through + 1] = gone[through] + 1
    BY <1>2, <1>4
  <2>2. \A n \in Nat : n >= through + 1 => more[n] = gone[through] + 1
    BY <1>2, <1>4
  <2>3. /\ through + fake[caught] = caught + gone[through]
        /\ \A n \in Nat : n >= caught => fake[n] = fake[caught]
    BY DEF Fates, Kept
  <2>4. (through + 1) + fake[caught] = caught + (gone[through] + 1)
    BY <1>2, <2>3
  <2> QED
    BY <2>1, <2>2, <2>3, <2>4 DEF Kept
<1>9. Timely(out, in, sends, through + 1, caught, t)
  BY <1>1 DEF Fates, Timely, Typed
<1>10. \A c \in Nat : c <= caught => c + gone[through] <= through + fake[c]
  BY <1>1 DEF Fates, Kept, Typed, Counts
<1>11. AfterSending(out, more, in, fake, through + 1, caught)
  <2> SUFFICES ASSUME NEW r \in Nat, NEW c \in Nat, r < through + 1, 1 <= c, c <= caught,
                      r + fake[c] < c + more[r]
               PROVE  out[r + 1] <= in[c]
    BY DEF AfterSending
  <2>1. r <= through /\ more[r] = gone[r]
    BY <1>2, <1>4
  <2>2. r # through
    BY <1>2, <1>10, <2>1
  <2>3. r < through
    BY <1>2, <2>1, <2>2
  <2> QED
    BY <2>1, <2>3 DEF Fates, AfterSending
<1>12. WithinDelay(out, more, in, fake, through + 1, caught)
  <2> SUFFICES ASSUME NEW r \in Nat, NEW c \in Nat, 1 <= r, r <= through + 1, c < caught,
                      c + more[r] < r + fake[c]
               PROVE  in[c + 1] <= out[r] + MaxDelay
    BY DEF WithinDelay
  <2>1. CASE r <= through
    <3>1. more[r] = gone[r]
      BY <1>4, <2>1
    <3> QED
      BY <2>1, <3>1 DEF Fates, WithinDelay
  <2>2. CASE r = through + 1
    <3>1. c + 1 \in Nat /\ 1 <= c + 1 /\ c + 1 <= caught
      BY <1>2
    <3>2. in[c + 1] <= t /\ in[c + 1] \in Nat
      BY <1>1, <3>1 DEF Fates, Timely, Typed
    <3>3. r \in Nat /\ through < r /\ r <= sends
      BY <1>1, <2>2 DEF Typed
    <3>4. t <= out[r] + MaxDelay /\ out[r] \in Nat /\ t \in Nat
      BY <1>1, <3>3 DEF Fates, Timely, Typed
    <3> QED
      BY <1>0, <3>2, <3>4
  <2> QED
    BY <1>2, <2>1, <2>2
<1> QED
  BY <1>2, <1>4, <1>7, <1>8, <1>9, <1>11, <1>12 DEF Fates

\* The times in i are the first n of in, and then t.
OneTimeMore(in, i, n, t) ==
    i \in [Nat -> Nat] /\ i[n + 1] = t /\ \A m \in Nat : m <= n => i[m] = in[m]

\* A copy that Bob catches and nobody has sent.
LEMMA FatesInject ==
    ASSUME NEW out, NEW gone, NEW in, NEW fake, NEW sends, NEW through, NEW caught, NEW t,
           Fates(out, gone, in, fake, sends, through, caught, t),
           NEW i, OneTimeMore(in, i, caught, t)
    PROVE  \E more :
              /\ Fates(out, gone, i, more, sends, through, caught + 1, t)
              /\ \A n \in Nat : fake[n] <= more[n]
              /\ more[caught + 1] = fake[caught] + 1
<1>0. MaxDelay \in Nat
  BY EndToEndConstants
<1>1. Typed(out, gone, in, fake, sends, through, caught, t)
  BY DEF Fates
<1>2. /\ \A n \in Nat : gone[n] \in Nat /\ fake[n] \in Nat
      /\ through \in Nat /\ caught \in Nat /\ caught + 1 \in Nat /\ t \in Nat
  BY <1>1, CountsNat DEF Typed
<1>3. i \in [Nat -> Nat] /\ i[caught + 1] = t /\ \A n \in Nat : n <= caught => i[n] = in[n]
  BY DEF OneTimeMore
<1>4. \A n \in Nat : n >= caught => fake[n] = fake[caught]
  BY DEF Fates, Kept
<1>5. PICK more : /\ Counts(more) /\ \A n \in Nat : fake[n] <= more[n]
                  /\ \A n \in Nat : n <= caught => more[n] = fake[n]
                  /\ \A n \in Nat : n > caught => more[n] = fake[caught] + 1
  BY <1>1, <1>2, <1>4, CountOn DEF Typed
<1>7. Typed(out, gone, i, more, sends, through, caught + 1, t)
  BY <1>1, <1>3, <1>5 DEF Typed
<1>8. Kept(gone, more, through, caught + 1)
  <2>1. more[caught + 1] = fake[caught] + 1
    BY <1>2, <1>5
  <2>2. \A n \in Nat : n >= caught + 1 => more[n] = fake[caught] + 1
    BY <1>2, <1>5
  <2>3. /\ through + fake[caught] = caught + gone[through]
        /\ \A n \in Nat : n >= through => gone[n] = gone[through]
    BY DEF Fates, Kept
  <2>4. through + (fake[caught] + 1) = (caught + 1) + gone[through]
    BY <1>2, <2>3
  <2> QED
    BY <2>1, <2>2, <2>3, <2>4 DEF Kept
<1>9. Timely(out, i, sends, through, caught + 1, t)
  <2>1. Timely(out, in, sends, through, caught, t)
    BY DEF Fates
  <2>2. ASSUME NEW n \in Nat, 1 <= n, n <= caught + 1
        PROVE  i[n] <= t
    <3>1. CASE n = caught + 1
      BY <1>2, <1>3, <3>1
    <3>2. CASE n <= caught
      BY <1>3, <2>1, <2>2, <3>2 DEF Timely
    <3> QED
      BY <1>2, <2>2, <3>1, <3>2
  <2> QED
    BY <2>1, <2>2 DEF Timely
<1>10. \A r \in Nat : r <= through => r + fake[caught] <= caught + gone[r]
  BY <1>1 DEF Fates, Kept, Typed, Counts
<1>11. AfterSending(out, gone, i, more, through, caught + 1)
  <2> SUFFICES ASSUME NEW r \in Nat, NEW c \in Nat, r < through, 1 <= c, c <= caught + 1,
                      r + more[c] < c + gone[r]
               PROVE  out[r + 1] <= i[c]
    BY DEF AfterSending
  <2>1. CASE c = caught + 1
    <3>1. r + 1 \in Nat /\ 1 <= r + 1 /\ r + 1 <= sends
      BY <1>1 DEF Typed
    <3> QED
      BY <1>3, <2>1, <3>1 DEF Fates, Timely
  <2>2. CASE c <= caught
    <3>1. more[c] = fake[c] /\ i[c] = in[c]
      BY <1>3, <1>5, <2>2
    <3> QED
      BY <2>2, <3>1 DEF Fates, AfterSending
  <2> QED
    BY <1>2, <2>1, <2>2
<1>12. WithinDelay(out, gone, i, more, through, caught + 1)
  <2> SUFFICES ASSUME NEW r \in Nat, NEW c \in Nat, 1 <= r, r <= through, c < caught + 1,
                      c + gone[r] < r + more[c]
               PROVE  i[c + 1] <= out[r] + MaxDelay
    BY DEF WithinDelay
  <2>1. c <= caught /\ more[c] = fake[c]
    BY <1>2, <1>5
  <2>2. c # caught
    BY <1>2, <1>10, <2>1
  <2>3. c < caught /\ c + 1 \in Nat /\ c + 1 <= caught
    BY <1>2, <2>1, <2>2
  <2>4. in[c + 1] <= out[r] + MaxDelay
    BY <2>1, <2>3 DEF Fates, WithinDelay
  <2> QED
    BY <1>3, <2>3, <2>4
<1> QED
  BY <1>2, <1>5, <1>7, <1>8, <1>9, <1>11, <1>12 DEF Fates

\* Time passes, while nothing on its way is about to be overdue.
LEMMA FatesTick ==
    ASSUME NEW out, NEW gone, NEW in, NEW fake, NEW sends, NEW through, NEW caught, NEW t,
           Fates(out, gone, in, fake, sends, through, caught, t),
           \A n \in Nat : through < n /\ n <= sends => t < out[n] + MaxDelay
    PROVE  Fates(out, gone, in, fake, sends, through, caught, t + 1)
<1>0. MaxDelay \in Nat
  BY EndToEndConstants
<1>1. Typed(out, gone, in, fake, sends, through, caught, t + 1)
  BY DEF Fates, Typed
<1>2. Timely(out, in, sends, through, caught, t + 1)
  <2>1. t \in Nat /\ \A n \in Nat : out[n] \in Nat /\ in[n] \in Nat
    BY DEF Fates, Typed
  <2>2. Timely(out, in, sends, through, caught, t)
    BY DEF Fates
  <2> QED
    BY <1>0, <2>1, <2>2 DEF Timely
<1> QED
  BY <1>1, <1>2 DEF Fates

-----------------------------------------------------------------------------
(* What the verdicts rest on *)

\* If k copies are cancelled, no more dropped than were lost of the first k + d
\* sent, and the next one sent after the last one now forged was caught, then all
\* that are called forged are fakes among the first k + f caught.
LEMMA ForgedAreFake ==
    ASSUME NEW out, NEW gone, NEW in, NEW fake, NEW sends, NEW through, NEW caught, NEW t,
           Fates(out, gone, in, fake, sends, through, caught, t),
           NEW k \in Nat, NEW f \in Nat, NEW d \in Nat,
           1 <= k + f, k + f <= caught, d <= gone[k + d],
           k + d < through => in[k + f] < out[k + d + 1]
    PROVE  f <= fake[k + f]
<1>1. Typed(out, gone, in, fake, sends, through, caught, t)
  BY DEF Fates
<1>2. /\ \A n \in Nat : gone[n] \in Nat /\ fake[n] \in Nat /\ out[n] \in Nat /\ in[n] \in Nat
      /\ through \in Nat /\ caught \in Nat
  BY <1>1, CountsNat DEF Typed
<1> SUFFICES ASSUME f > fake[k + f]
             PROVE  FALSE
  BY <1>2
<1> DEFINE r == k + d
           c == k + f
<1>3. r \in Nat /\ c \in Nat /\ r + fake[c] < c + gone[r] /\ 1 <= c /\ c <= caught
  BY <1>2
<1> HIDE DEF r, c
<1>4. CASE r < through
  <2>1. out[r + 1] <= in[c]
    BY <1>3, <1>4 DEF Fates, AfterSending
  <2>2. in[c] < out[r + 1]
    BY <1>4 DEF r, c
  <2> QED
    BY <1>2, <1>3, <2>1, <2>2
<1>5. CASE r >= through
  <2>1. gone[r] = gone[through] /\ through + fake[caught] = caught + gone[through]
    BY <1>3, <1>5 DEF Fates, Kept
  <2>2. fake[caught] + c <= fake[c] + caught
    BY <1>1, <1>2, <1>3 DEF Typed, Counts
  <2> QED
    BY <1>2, <1>3, <1>5, <2>1, <2>2
<1> QED
  BY <1>2, <1>3, <1>4, <1>5

\* Likewise, if all of those now dropped are through, and would have been caught
\* before the next one that Bob reports.
LEMMA DroppedAreLost ==
    ASSUME NEW out, NEW gone, NEW in, NEW fake, NEW sends, NEW through, NEW caught, NEW t,
           Fates(out, gone, in, fake, sends, through, caught, t),
           NEW k \in Nat, NEW f \in Nat, NEW d \in Nat,
           1 <= k + d, k + d <= through, k + f <= caught, f <= fake[k + f],
           k + f < caught => out[k + d] + MaxDelay < in[k + f + 1]
    PROVE  d <= gone[k + d]
<1>0. MaxDelay \in Nat
  BY EndToEndConstants
<1>1. Typed(out, gone, in, fake, sends, through, caught, t)
  BY DEF Fates
<1>2. /\ \A n \in Nat : gone[n] \in Nat /\ fake[n] \in Nat /\ out[n] \in Nat /\ in[n] \in Nat
      /\ through \in Nat /\ caught \in Nat
  BY <1>1, CountsNat DEF Typed
<1> SUFFICES ASSUME d > gone[k + d]
             PROVE  FALSE
  BY <1>2
<1> DEFINE r == k + d
           c == k + f
<1>3. r \in Nat /\ c \in Nat /\ c + gone[r] < r + fake[c] /\ 1 <= r /\ r <= through /\ c <= caught
  BY <1>2
<1> HIDE DEF r, c
<1>4. CASE c < caught
  <2>1. in[c + 1] <= out[r] + MaxDelay
    BY <1>3, <1>4 DEF Fates, WithinDelay
  <2>2. out[r] + MaxDelay < in[c + 1]
    BY <1>4 DEF r, c
  <2> QED
    BY <1>0, <1>2, <1>3, <2>1, <2>2
<1>5. CASE c = caught
  <2>1. through + fake[caught] = caught + gone[through]
    BY DEF Fates, Kept
  <2>2. gone[through] + r <= gone[r] + through
    BY <1>1, <1>2, <1>3 DEF Typed, Counts
  <2> QED
    BY <1>2, <1>3, <1>5, <2>1, <2>2
<1> QED
  BY <1>2, <1>3, <1>4, <1>5

-----------------------------------------------------------------------------
(* What a client has queued *)

Captures == Hash \X Nat

\* Copies of h among the first j packets of a queue.
Copies(q, h, j) == Cardinality({i \in 1..j : q[i][1] = h})

\* Captured one after the other, none after top.
Queued(q, top) ==
    /\ q \in Seq(Captures)
    /\ \A i, j \in 1..Len(q) : i <= j => q[i][2] <= q[j][2]
    /\ \A i \in 1..Len(q) : q[i][2] <= top

\* The copies of h in the queue are those after the first n, at the times of at
\* and by a clock that is ahead by e: those up to the j-th packet of the queue
\* were captured at its time or before, the others no earlier.
Stamped(q, h, n, at, e) ==
    \A j \in 1..Len(q) :
        /\ \A m \in Nat : 1 <= m /\ m <= Copies(q, h, j) => at[n + m] + e <= q[j][2]
        /\ \A m \in Nat : Copies(q, h, j - 1) < m /\ m <= Copies(q, h, Len(q)) =>
              q[j][2] <= at[n + m] + e

\* Some of the first n numbers are finitely many.
LEMMA SomeOf ==
    ASSUME NEW n \in Nat, NEW S, S \subseteq 1..n
    PROVE  IsFiniteSet(S) /\ Cardinality(S) \in Nat
<1>1. IsFiniteSet(1..n)
  BY FS_Interval
<1> QED
  BY <1>1, FS_Subset, FS_CardinalityType

\* Counting goes on by at most one for each packet.
LEMMA CopiesCount ==
    ASSUME NEW q, NEW h, NEW j \in Nat
    PROVE  /\ Copies(q, h, j) \in Nat /\ Copies(q, h, 0) = 0
           /\ Copies(q, h, j + 1) = IF q[j + 1][1] = h THEN Copies(q, h, j) + 1 ELSE Copies(q, h, j)
<1> DEFINE S(n) == {i \in 1..n : q[i][1] = h}
<1>1. IsFiniteSet(S(j)) /\ Cardinality(S(j)) \in Nat
  BY SomeOf
<1>2. S(0) = {}
  OBVIOUS
<1>3. q[j + 1][1] = h => S(j + 1) = S(j) \cup {j + 1}
  OBVIOUS
<1>4. q[j + 1][1] # h => S(j + 1) = S(j)
  OBVIOUS
<1>5. j + 1 \notin S(j)
  OBVIOUS
<1> QED
  BY <1>1, <1>2, <1>3, <1>4, <1>5, FS_EmptySet, FS_AddElement, ZenonT(40) DEF Copies

\* Counting depends on the packets that are counted only.
LEMMA CopiesSame ==
    ASSUME NEW q, NEW p, NEW h, NEW j \in Nat, \A i \in 1..j : p[i] = q[i]
    PROVE  Copies(p, h, j) = Copies(q, h, j)
<1>1. {i \in 1..j : p[i][1] = h} = {i \in 1..j : q[i][1] = h}
  OBVIOUS
<1> QED
  BY <1>1 DEF Copies

\* The count of a queue's second part is the rest.
LEMMA CopiesAfter ==
    ASSUME NEW q, NEW p, NEW h, NEW k \in Nat, NEW j \in Nat, \A i \in 1..j : p[i] = q[k + i]
    PROVE  Copies(p, h, j) + Copies(q, h, k) = Copies(q, h, k + j)
<1> DEFINE S == {i \in 1..j : p[i][1] = h}
           T == {i \in (k + 1)..(k + j) : q[i][1] = h}
           A == {i \in 1..k : q[i][1] = h}
           B == {i \in 1..(k + j) : q[i][1] = h}
           f == [i \in S |-> k + i]
<1>1. IsFiniteSet(S) /\ IsFiniteSet(A)
  BY SomeOf
<1>2. f \in Bijection(S, T)
  <2>1. f \in [S -> T]
    OBVIOUS
  <2>2. \A a, b \in S : f[a] = f[b] => a = b
    OBVIOUS
  <2>3. ASSUME NEW i \in T
        PROVE  \E a \in S : f[a] = i
    <3>1. i - k \in 1..j /\ k + (i - k) = i
      OBVIOUS
    <3>2. i - k \in S
      BY <3>1
    <3> QED
      BY <3>1, <3>2
  <2> HIDE DEF S, T, f
  <2> QED
    BY <2>1, <2>2, <2>3 DEF Bijection, Injection, Surjection, IsInjective
<1>3. IsFiniteSet(T) /\ Cardinality(T) = Cardinality(S)
  <2>1. ExistsBijection(S, T)
    BY <1>2 DEF ExistsBijection
  <2> HIDE DEF S, T
  <2> QED
    BY <1>1, <2>1, FS_Bijection
<1>4. B = A \cup T /\ A \cap T = {}
  OBVIOUS
<1> HIDE DEF S, T, A, B
<1>5. Cardinality(B) = Cardinality(A) + Cardinality(T) - 0
  BY <1>1, <1>3, <1>4, FS_Union, FS_EmptySet
<1>6. Cardinality(A) \in Nat /\ Cardinality(T) \in Nat
  BY <1>1, <1>3, FS_CardinalityType
<1> QED
  BY <1>3, <1>5, <1>6 DEF Copies, S, A, B

\* A longer part of a queue holds no fewer copies.
LEMMA CopiesGrow ==
    ASSUME NEW q, NEW h, NEW j \in Nat, NEW k \in Nat, j <= k
    PROVE  Copies(q, h, j) <= Copies(q, h, k)
<1> DEFINE S(n) == {i \in 1..n : q[i][1] = h}
<1>1. IsFiniteSet(S(k)) /\ S(j) \subseteq S(k)
  BY SomeOf
<1> QED
  BY <1>1, FS_Subset DEF Copies

\* p is q with one packet more, of hash g and with the given stamp.
Longer(q, p, g, stamp) ==
    /\ Queued(p, stamp)
    /\ Len(q) \in Nat /\ Len(p) = Len(q) + 1
    /\ \A i \in 1..Len(q) : p[i] = q[i]
    /\ p[Len(q) + 1][1] = g /\ p[Len(q) + 1][2] = stamp

\* p is q without its first k packets.
Shorter(q, p, k, top) ==
    /\ Queued(p, top)
    /\ Len(q) \in Nat /\ k \in 1..Len(q) /\ Len(p) = Len(q) - k
    /\ \A i \in 1..(Len(q) - k) : p[i] = q[k + i]
    /\ \A i \in 1..Len(p) : q[k][2] <= p[i][2]

\* A packet that is not older than those before it can be queued.
LEMMA QueuedLonger ==
    ASSUME NEW q, NEW top \in Nat, Queued(q, top), NEW stamp \in Nat, top <= stamp,
           NEW p \in Seq(Captures), NEW n \in Nat, Len(q) = n, Len(p) = n + 1,
           \A i \in 1..n : p[i] = q[i], p[n + 1][2] = stamp
    PROVE  Queued(p, stamp)
<1>1. \A i \in 1..Len(q) : q[i][2] \in Nat /\ q[i][2] <= stamp
  <2>1. \A i \in 1..Len(q) : q[i] \in Captures
    BY DEF Queued
  <2> QED
    BY <2>1 DEF Queued, Captures
<1>2. \A i \in 1..Len(p) : (i \in 1..Len(q) /\ p[i] = q[i]) \/ i = n + 1
  OBVIOUS
<1>3. ASSUME NEW i \in 1..Len(p)
      PROVE  p[i][2] <= stamp
  BY <1>1, <1>2
<1>4. ASSUME NEW i \in 1..Len(p), NEW j \in 1..Len(p), i <= j
      PROVE  p[i][2] <= p[j][2]
  <2>1. CASE j = n + 1
    BY <1>3, <2>1
  <2>2. CASE j \in 1..Len(q) /\ p[j] = q[j]
    <3>1. i \in 1..Len(q) /\ p[i] = q[i]
      BY <1>2, <1>4, <2>2
    <3> QED
      BY <1>4, <2>2, <3>1 DEF Queued
  <2> QED
    BY <1>2, <2>1, <2>2
<1> QED
  BY <1>3, <1>4 DEF Queued

\* The parts of a capture.
LEMMA CaptureParts ==
    ASSUME NEW g \in Hash, NEW stamp \in Nat
    PROVE  <<g, stamp>> \in Captures /\ <<g, stamp>>[1] = g /\ <<g, stamp>>[2] = stamp
BY DEF Captures

\* A packet is captured at the end of a queue.
LEMMA CaptureAppends ==
    ASSUME NEW q, NEW top \in Nat, Queued(q, top), NEW g \in Hash, NEW stamp \in Nat, top <= stamp
    PROVE  Longer(q, Capture(q, g, stamp), g, stamp)
<1>1. PICK x \in Captures : x = <<g, stamp>> /\ x[1] = g /\ x[2] = stamp
  BY CaptureParts
<1>2. PICK p : p = Capture(q, g, stamp)
  OBVIOUS
<1>3. q \in Seq(Captures) /\ Len(q) \in Nat
  BY DEF Queued
<1>4. p = Append(q, x)
  BY <1>1, <1>2 DEF Capture
<1>5. /\ p \in Seq(Captures) /\ Len(p) = Len(q) + 1
      /\ \A i \in 1..Len(q) : p[i] = q[i]
      /\ p[Len(q) + 1] = x
  BY <1>3, <1>4, AppendProperties
<1>6. p[Len(q) + 1][1] = g /\ p[Len(q) + 1][2] = stamp
  BY <1>1, <1>3, <1>5
<1>7. Queued(p, stamp)
  BY <1>3, <1>5, <1>6, QueuedLonger
<1>8. Longer(q, p, g, stamp)
  BY <1>3, <1>5, <1>6, <1>7 DEF Longer
<1> QED
  BY <1>2, <1>8

\* It is one copy more of its hash.
LEMMA CopiesLonger ==
    ASSUME NEW q, NEW p, NEW g, NEW stamp, Longer(q, p, g, stamp), NEW h
    PROVE  /\ Copies(q, h, Len(q)) \in Nat
           /\ g = h => Copies(p, h, Len(p)) = Copies(q, h, Len(q)) + 1
           /\ g # h => Copies(p, h, Len(p)) = Copies(q, h, Len(q))
           /\ \A j \in 0..Len(q) : /\ Copies(p, h, j) = Copies(q, h, j)
                                   /\ Copies(q, h, j) \in Nat
                                   /\ Copies(q, h, j) <= Copies(q, h, Len(q))
<1>1. Len(q) \in Nat /\ Len(p) = Len(q) + 1 /\ p[Len(q) + 1][1] = g
  BY DEF Longer
<1>2. ASSUME NEW j \in 0..Len(q)
      PROVE  /\ Copies(p, h, j) = Copies(q, h, j)
             /\ Copies(q, h, j) \in Nat
             /\ Copies(q, h, j) <= Copies(q, h, Len(q))
  <2>1. j \in Nat /\ j <= Len(q) /\ \A i \in 1..j : p[i] = q[i]
    BY <1>1 DEF Longer
  <2>2. Copies(p, h, j) = Copies(q, h, j)
    BY <2>1, CopiesSame
  <2>3. Copies(q, h, j) \in Nat
    BY <2>1, CopiesCount
  <2>4. Copies(q, h, j) <= Copies(q, h, Len(q))
    BY <1>1, <2>1, CopiesGrow
  <2> QED
    BY <2>2, <2>3, <2>4
<1>3. Len(q) \in 0..Len(q)
  BY <1>1
<1>4. PICK n \in Nat : n = Len(q)
  BY <1>1
<1>5. Copies(p, h, n + 1) = IF p[n + 1][1] = h THEN Copies(p, h, n) + 1 ELSE Copies(p, h, n)
  BY CopiesCount
<1> QED
  BY <1>1, <1>2, <1>3, <1>4, <1>5

\* The times in new go on from the first k of at, with t if one is added.
GoesOn(at, new, k, t, added) ==
    /\ at \in [Nat -> Nat] /\ new \in [Nat -> Nat]
    /\ \A m \in Nat : m <= k => new[m] = at[m]
    /\ \A m \in Nat : 1 <= m /\ m <= k => at[m] <= t
    /\ added => new[k + 1] = t

\* What is captured at true time t has a stamp that says so.
LEMMA StampedCapture ==
    ASSUME NEW q, NEW p, NEW g, NEW e \in Nat, NEW t \in Nat, Longer(q, p, g, t + e), NEW h,
           NEW n \in Nat, NEW at, NEW new, Stamped(q, h, n, at, e),
           GoesOn(at, new, n + Copies(q, h, Len(q)), t, g = h)
    PROVE  Stamped(p, h, n, new, e)
<1> DEFINE c == Copies(q, h, Len(q))
           d == Copies(p, h, Len(p))
<1>1. /\ c \in Nat
      /\ g = h => d = c + 1
      /\ g # h => d = c
      /\ \A j \in 0..Len(q) : Copies(p, h, j) = Copies(q, h, j) /\ Copies(q, h, j) \in Nat /\ Copies(q, h, j) <= c
  BY CopiesLonger
<1>0. GoesOn(at, new, n + c, t, g = h)
  OBVIOUS
<1>2. /\ \A m \in Nat : m <= n + c => new[m] = at[m]
      /\ \A m \in Nat : 1 <= m /\ m <= n + c => at[m] <= t
      /\ g = h => new[n + c + 1] = t
      /\ \A m \in Nat : at[m] \in Nat
  BY <1>0 DEF GoesOn
<1>9. /\ Len(q) \in Nat /\ Len(p) = Len(q) + 1
        /\ \A i \in 1..Len(q) : p[i] = q[i]
      /\ p[Len(q) + 1][2] = t + e
      /\ \A j \in 1..Len(p) : p[j][2] <= t + e
  BY DEF Longer, Queued
<1>3. ASSUME NEW j \in 1..Len(q)
      PROVE  /\ \A m \in Nat : 1 <= m /\ m <= Copies(q, h, j) => at[n + m] + e <= q[j][2]
             /\ \A m \in Nat : Copies(q, h, j - 1) < m /\ m <= c => q[j][2] <= at[n + m] + e
  BY DEF Stamped
<1>4. Copies(p, h, Len(q) + 1) = d
  BY <1>9
<1> HIDE DEF c, d
<1>5. ASSUME NEW m \in Nat, 1 <= m, m <= c
      PROVE  new[n + m] = at[n + m] /\ new[n + m] \in Nat /\ new[n + m] <= t
  <2>1. n + m \in Nat /\ 1 <= n + m /\ n + m <= n + c
    BY <1>1, <1>5
  <2> QED
    BY <1>2, <2>1
<1>6. ASSUME NEW m \in Nat, c < m, m <= d
      PROVE  new[n + m] = t
  <2>1. g = h
    BY <1>1, <1>6
  <2>2. n + m = n + c + 1
    BY <1>1, <1>6, <2>1
  <2> QED
    BY <1>2, <2>1, <2>2
<1>7. ASSUME NEW j \in 1..Len(p), NEW m \in Nat, 1 <= m, m <= Copies(p, h, j)
      PROVE  new[n + m] + e <= p[j][2]
  <2>1. CASE j = Len(q) + 1
    <3>1. m <= d
      BY <1>4, <1>7, <2>1
    <3>2. new[n + m] \in Nat /\ new[n + m] <= t
      <4>1. CASE m <= c
        BY <1>5, <1>7, <4>1
      <4>2. CASE m > c
        BY <1>6, <3>1, <4>2
      <4> QED
        BY <1>1, <4>1, <4>2
    <3>3. p[j][2] = t + e
      BY <1>9, <2>1
    <3> QED
      BY <3>2, <3>3
  <2>2. CASE j \in 1..Len(q)
    <3>1. j \in 0..Len(q) /\ j \in 1..Len(q) /\ p[j] = q[j]
      BY <1>9, <2>2
    <3>2. m <= Copies(q, h, j) /\ m <= c
      BY <1>1, <1>7, <3>1
    <3>3. at[n + m] + e <= q[j][2]
      BY <1>3, <1>7, <3>1, <3>2
    <3> QED
      BY <1>5, <1>7, <3>1, <3>2, <3>3
  <2> QED
    BY <1>9, <2>1, <2>2
<1>8. ASSUME NEW j \in 1..Len(p), NEW m \in Nat, Copies(p, h, j - 1) < m, m <= d
      PROVE  p[j][2] <= new[n + m] + e
  <2>1. p[j][2] <= t + e
    BY <1>9
  <2>2. CASE m > c
    BY <1>6, <1>8, <2>1, <2>2
  <2>3. CASE m <= c
    <3>1. j # Len(q) + 1
      <4>1. Len(q) \in 0..Len(q) /\ (Len(q) + 1) - 1 = Len(q)
        BY <1>9
      <4>2. Copies(p, h, Len(q)) = c
        BY <1>1, <4>1 DEF c
      <4> QED
        BY <1>1, <1>8, <2>3, <4>1, <4>2, SMTT(30)
    <3>2. j \in 1..Len(q) /\ p[j] = q[j] /\ j - 1 \in 0..Len(q)
      BY <1>9, <3>1
    <3>3. Copies(q, h, j - 1) < m /\ m >= 1
      BY <1>1, <1>8, <3>2
    <3>4. q[j][2] <= at[n + m] + e
      BY <1>3, <2>3, <3>2, <3>3
    <3> QED
      BY <1>5, <2>3, <3>2, <3>3, <3>4
  <2> QED
    BY <1>1, <2>2, <2>3
<1> QED
  BY <1>7, <1>8 DEF Stamped, d

\* A report takes the first k packets.
LEMMA ReportTakes ==
    ASSUME NEW q, NEW top, Queued(q, top), NEW k \in 1..Len(q)
    PROVE  Shorter(q, SubSeq(q, k + 1, Len(q)), k, top)
<1>1. /\ q \in Seq(Captures) /\ Len(q) \in Nat
      /\ k \in Nat /\ 1 <= k /\ k <= Len(q)
  BY DEF Queued
<1>2. PICK p : p = SubSeq(q, k + 1, Len(q))
  OBVIOUS
<1>3. \A i \in (k + 1)..Len(q) : q[i] \in Captures
  BY <1>1
<1>4. /\ p \in Seq(Captures) /\ Len(p) = Len(q) - k
      /\ \A i \in 1..(Len(q) - k) : p[i] = q[k + i]
  BY <1>1, <1>2, <1>3, SubSeqProperties
<1>6. \A i \in 1..Len(p) : k + i \in 1..Len(q) /\ p[i] = q[k + i] /\ k <= k + i /\ i \in Nat
  BY <1>1, <1>4
<1>7. Queued(p, top) /\ \A i \in 1..Len(p) : q[k][2] <= p[i][2]
  <2>1. \A i, j \in 1..Len(p) : i <= j => k + i <= k + j
    BY <1>1, <1>6
  <2> QED
    BY <1>4, <1>6, <2>1 DEF Queued
<1>8. Shorter(q, p, k, top)
  BY <1>1, <1>4, <1>7 DEF Shorter
<1> QED
  BY <1>2, <1>8

\* It takes the copies that are among them.
LEMMA CopiesShorter ==
    ASSUME NEW q, NEW p, NEW k, NEW top, Shorter(q, p, k, top), NEW h
    PROVE  /\ Copies(q, h, k) \in Nat
           /\ \A j \in 0..Len(p) : /\ Copies(p, h, j) + Copies(q, h, k) = Copies(q, h, k + j)
                                   /\ Copies(p, h, j) \in Nat
<1>1. k \in Nat /\ Len(p) = Len(q) - k /\ Len(q) \in Nat
  BY DEF Shorter
<1>2. Copies(q, h, k) \in Nat
  BY <1>1, CopiesCount
<1>3. ASSUME NEW j \in 0..Len(p)
      PROVE  Copies(p, h, j) + Copies(q, h, k) = Copies(q, h, k + j) /\ Copies(p, h, j) \in Nat
  <2>1. j \in Nat /\ \A i \in 1..j : p[i] = q[k + i]
    BY <1>1 DEF Shorter
  <2>2. PICK x \in Nat : x = k
    BY <1>1
  <2>4. Copies(p, h, j) + Copies(q, h, x) = Copies(q, h, x + j)
    BY <2>1, <2>2, CopiesAfter
  <2>3. Copies(p, h, j) \in Nat
    BY <2>1, CopiesCount
  <2> QED
    BY <2>2, <2>3, <2>4
<1> QED
  BY <1>2, <1>3

\* What is left is stamped as before.
LEMMA StampedReport ==
    ASSUME NEW q, NEW p, NEW k, NEW top, Shorter(q, p, k, top), NEW h,
           NEW n \in Nat, NEW at, NEW e \in Nat, Stamped(q, h, n, at, e)
    PROVE  Stamped(p, h, n + Copies(q, h, k), at, e)
<1> DEFINE c == Copies(q, h, k)
<1>1. /\ Len(q) \in Nat /\ k \in Nat /\ 1 <= k /\ Len(p) = Len(q) - k /\ Len(p) \in Nat
        /\ \A i \in 1..(Len(q) - k) : p[i] = q[k + i]
      /\ k + Len(p) = Len(q)
  BY DEF Shorter
<1>2. c \in Nat /\ \A j \in 0..Len(p) : Copies(p, h, j) + c = Copies(q, h, k + j) /\ Copies(p, h, j) \in Nat
  BY CopiesShorter
<1> HIDE DEF c
<1> SUFFICES ASSUME NEW j \in 1..Len(p), NEW m \in Nat
             PROVE  /\ 1 <= m /\ m <= Copies(p, h, j) => at[(n + c) + m] + e <= p[j][2]
                    /\ Copies(p, h, j - 1) < m /\ m <= Copies(p, h, Len(p)) =>
                          p[j][2] <= at[(n + c) + m] + e
  BY DEF Stamped, c
<1>4. /\ j \in 0..Len(p) /\ j - 1 \in 0..Len(p) /\ Len(p) \in 0..Len(p)
      /\ k + j \in 1..Len(q) /\ p[j] = q[k + j] /\ k + (j - 1) = (k + j) - 1
  BY <1>1
<1>5. /\ Copies(p, h, j) + c = Copies(q, h, k + j) /\ Copies(p, h, j) \in Nat
      /\ Copies(p, h, j - 1) + c = Copies(q, h, (k + j) - 1) /\ Copies(p, h, j - 1) \in Nat
      /\ Copies(p, h, Len(p)) + c = Copies(q, h, Len(q)) /\ Copies(p, h, Len(p)) \in Nat
  BY <1>1, <1>2, <1>4
<1>6. c + m \in Nat /\ n + (c + m) = (n + c) + m
  BY <1>2
<1>7. /\ \A x \in Nat : 1 <= x /\ x <= Copies(q, h, k + j) => at[n + x] + e <= q[k + j][2]
      /\ \A x \in Nat : Copies(q, h, (k + j) - 1) < x /\ x <= Copies(q, h, Len(q)) =>
            q[k + j][2] <= at[n + x] + e
  BY <1>4 DEF Stamped
<1>8. ASSUME 1 <= m, m <= Copies(p, h, j)
      PROVE  at[(n + c) + m] + e <= p[j][2]
  <2>1. 1 <= c + m /\ c + m <= Copies(q, h, k + j)
    BY <1>2, <1>5, <1>8
  <2>2. at[n + (c + m)] + e <= q[k + j][2]
    BY <1>6, <1>7, <2>1
  <2> QED
    BY <1>4, <1>6, <2>2
<1>9. ASSUME Copies(p, h, j - 1) < m, m <= Copies(p, h, Len(p))
      PROVE  p[j][2] <= at[(n + c) + m] + e
  <2>1. Copies(q, h, (k + j) - 1) < c + m /\ c + m <= Copies(q, h, Len(q))
    BY <1>2, <1>5, <1>9
  <2>2. q[k + j][2] <= at[n + (c + m)] + e
    BY <1>6, <1>7, <2>1
  <2> QED
    BY <1>4, <1>6, <2>2
<1> QED
  BY <1>8, <1>9
-----------------------------------------------------------------------------
(* What the account says of the history, for one hash *)

\* p is q without its first n entries.
Trimmed(q, p, n) ==
    /\ Len(q) \in Nat /\ n \in 0..Len(q) /\ Len(p) = Len(q) - n
    /\ \A i \in 1..Len(p) : p[i] = q[n + i]

\* p is q with n entries more, all of them t.
Filled(q, p, n, t) ==
    /\ Len(q) \in Nat /\ n \in Nat /\ Len(p) = Len(q) + n
    /\ \A i \in 1..Len(q) : p[i] = q[i]
    /\ \A i \in (Len(q) + 1)..(Len(q) + n) : p[i] = t

\* The entries of q are those of the copies after the n-th: by a clock that is
\* ahead by e, these copies were there when they were reported.
Entered(q, n, at, e) ==
    \A i \in 1..Len(q) : at[n + i] \in Nat /\ q[i] \in Nat /\ at[n + i] + e <= q[i]

\* With k copies cancelled, f called forged and d dropped, the entries in s are
\* those of the next copies sent and those in r of the next ones caught, and
\* the verdicts are true.
Claims(out, gone, in, fake, ea, eb, s, r, k, f, d) ==
    /\ Entered(s, k + d, out, ea)
    /\ Entered(r, k + f, in, eb)
    /\ f <= fake[k + f]
    /\ d <= gone[k + d]

\* Entries forgotten are entries cancelled or judged.
LEMMA EnteredTrimmed ==
    ASSUME NEW q, NEW p, NEW n, Trimmed(q, p, n), NEW k \in Nat, NEW at, NEW e,
           Entered(q, k, at, e)
    PROVE  Entered(p, k + n, at, e)
<1>1. n \in Nat /\ Len(q) \in Nat /\ Len(p) = Len(q) - n /\ \A i \in 1..Len(p) : p[i] = q[n + i]
  BY DEF Trimmed
<1> SUFFICES ASSUME NEW i \in 1..Len(p)
             PROVE  at[(k + n) + i] \in Nat /\ p[i] \in Nat /\ at[(k + n) + i] + e <= p[i]
  BY DEF Entered
<1>2. n + i \in 1..Len(q) /\ k + (n + i) = (k + n) + i /\ p[i] = q[n + i]
  BY <1>1
<1>3. at[k + (n + i)] \in Nat /\ q[n + i] \in Nat /\ at[k + (n + i)] + e <= q[n + i]
  BY <1>2 DEF Entered
<1> QED
  BY <1>2, <1>3

\* New entries are those of the copies that the report is about, the first m of
\* which may have been cancelled.
LEMMA EnteredFilled ==
    ASSUME NEW q, NEW p, NEW n, NEW t \in Nat, Filled(q, p, n, t), NEW k \in Nat, NEW m \in Nat,
           NEW at, NEW e, Entered(q, k, at, e), m = 0 \/ Len(q) = 0,
           \A i \in Nat : at[i] \in Nat,
           \A i \in 1..(m + n) : at[k + Len(q) + i] + e <= t
    PROVE  Entered(p, k + m, at, e)
<1>1. /\ n \in Nat /\ Len(q) \in Nat /\ Len(p) = Len(q) + n
      /\ \A i \in 1..Len(q) : p[i] = q[i]
      /\ \A i \in (Len(q) + 1)..(Len(q) + n) : p[i] = t
  BY DEF Filled
<1> SUFFICES ASSUME NEW i \in 1..Len(p)
             PROVE  at[(k + m) + i] \in Nat /\ p[i] \in Nat /\ at[(k + m) + i] + e <= p[i]
  BY DEF Entered
<1>2. (k + m) + i \in Nat
  BY <1>1
<1>3. CASE i \in 1..Len(q)
  <2>1. m = 0 /\ (k + m) + i = k + i /\ p[i] = q[i]
    BY <1>1, <1>3
  <2>2. at[k + i] \in Nat /\ q[i] \in Nat /\ at[k + i] + e <= q[i]
    BY <1>3 DEF Entered
  <2> QED
    BY <2>1, <2>2
<1>4. CASE i \in (Len(q) + 1)..(Len(q) + n)
  <2>1. p[i] = t
    BY <1>1, <1>4
  <2>2. PICK j \in 1..(m + n) : (k + m) + i = k + Len(q) + j
    <3>1. (m + i) - Len(q) \in 1..(m + n) /\ (k + m) + i = k + Len(q) + ((m + i) - Len(q))
      BY <1>1, <1>4
    <3> QED
      BY <3>1
  <2>3. at[k + Len(q) + j] + e <= t
    OBVIOUS
  <2> QED
    BY <1>2, <2>1, <2>2, <2>3
<1> QED
  BY <1>1, <1>3, <1>4

\* A count does not go down.
LEMMA CountsGrow ==
    ASSUME NEW f, Counts(f), NEW n \in Nat, NEW m \in Nat
    PROVE  f[n] \in Nat /\ f[n + m] \in Nat /\ f[n] <= f[n + m]
<1>1. n + m \in Nat /\ n <= n + m
  OBVIOUS
<1> QED
  BY <1>1 DEF Counts

\* Alice reports m copies that Bob has reported and b more.
LEMMA ClaimsSent ==
    ASSUME NEW out, NEW gone, NEW in, NEW fake, NEW ea, NEW eb, NEW s, NEW r,
           NEW k, NEW f, NEW d, NEW m, NEW b, NEW t, NEW x, NEW y,
           k \in Nat, f \in Nat, d \in Nat, m \in Nat, b \in Nat, t \in Nat,
           Claims(out, gone, in, fake, ea, eb, s, r, k, f, d),
           Counts(gone), Counts(fake), \A i \in Nat : out[i] \in Nat,
           Trimmed(r, y, m), Filled(s, x, b, t), Len(s) = 0 \/ Len(r) = 0,
           \A i \in 1..(m + b) : out[k + d + Len(s) + i] + ea <= t
    PROVE  Claims(out, gone, in, fake, ea, eb, x, y, k + m, f, d)
<1>1. m = 0 \/ Len(s) = 0
  BY DEF Trimmed
<1>2. Entered(y, (k + f) + m, in, eb)
  <2>1. k + f \in Nat /\ Entered(r, k + f, in, eb)
    BY DEF Claims
  <2> QED
    BY <2>1, EnteredTrimmed
<1>3. Entered(x, (k + d) + m, out, ea)
  <2>1. k + d \in Nat /\ Entered(s, k + d, out, ea)
    BY DEF Claims
  <2> QED
    BY <1>1, <2>1, EnteredFilled
<1>4. (k + f) + m = (k + m) + f /\ (k + d) + m = (k + m) + d
  OBVIOUS
<1>5. /\ fake[k + f] \in Nat /\ fake[(k + f) + m] \in Nat /\ fake[k + f] <= fake[(k + f) + m]
      /\ gone[k + d] \in Nat /\ gone[(k + d) + m] \in Nat /\ gone[k + d] <= gone[(k + d) + m]
  <2>1. k + f \in Nat /\ k + d \in Nat
    OBVIOUS
  <2> QED
    BY <2>1, CountsGrow
<1>7. f <= fake[k + f] /\ d <= gone[k + d]
  BY DEF Claims
<1>8. f <= fake[(k + m) + f] /\ d <= gone[(k + m) + d]
  BY <1>4, <1>5, <1>7
<1> QED
  BY <1>2, <1>3, <1>4, <1>8 DEF Claims

\* Bob reports m copies that Alice has reported and b more.
LEMMA ClaimsRecd ==
    ASSUME NEW out, NEW gone, NEW in, NEW fake, NEW ea, NEW eb, NEW s, NEW r,
           NEW k, NEW f, NEW d, NEW m, NEW b, NEW t, NEW x, NEW y,
           k \in Nat, f \in Nat, d \in Nat, m \in Nat, b \in Nat, t \in Nat,
           Claims(out, gone, in, fake, ea, eb, s, r, k, f, d),
           Counts(gone), Counts(fake), \A i \in Nat : in[i] \in Nat,
           Trimmed(s, x, m), Filled(r, y, b, t), Len(s) = 0 \/ Len(r) = 0,
           \A i \in 1..(m + b) : in[k + f + Len(r) + i] + eb <= t
    PROVE  Claims(out, gone, in, fake, ea, eb, x, y, k + m, f, d)
<1>1. Claims(in, fake, out, gone, eb, ea, r, s, k, d, f)
  BY DEF Claims
<1>2. Claims(in, fake, out, gone, eb, ea, y, x, k + m, d, f)
  BY <1>1, ClaimsSent
<1> QED
  BY <1>2 DEF Claims

\* The last of the n entries that are judged is overdue.
LastOverdue(q, n, grace, newest) == n > 0 => q[n] + grace < newest

\* What Alice has yet to report was sent at or after newest, by her clock, if
\* she has reported n of the copies she sent.
Upcoming(n, sends, out, ea, newest) == n < sends => newest <= out[n + 1] + ea

\* Forging: an entry of Bob's is overdue only when Alice can have sent no
\* copy in time that she has not reported.
LEMMA ForgingIsTrue ==
    ASSUME NEW out, NEW gone, NEW in, NEW fake, NEW sends, NEW through, NEW caught, NEW t,
           Fates(out, gone, in, fake, sends, through, caught, t),
           NEW ea \in 0..MaxError, NEW eb \in 0..MaxError, NEW sk \in Nat, MaxError <= sk,
           NEW r, NEW k \in Nat, NEW f \in Nat, NEW d \in Nat,
           Entered(r, k + f, in, eb), d <= gone[k + d],
           NEW n \in 1..Len(r), k + f + Len(r) <= caught, Len(r) \in Nat,
           NEW newest \in Nat, r[n] + sk < newest, Upcoming(k + d, sends, out, ea, newest)
    PROVE  f + n <= fake[k + (f + n)]
<1>0. MaxError \in Nat
  BY EndToEndConstants
<1>1. Typed(out, gone, in, fake, sends, through, caught, t)
  BY DEF Fates
<1>2. sends \in Nat /\ through \in Nat /\ caught \in Nat /\ through <= sends
  BY <1>1 DEF Typed
<1>3. in[(k + f) + n] \in Nat /\ r[n] \in Nat /\ in[(k + f) + n] + eb <= r[n]
  BY DEF Entered
<1>4. (k + f) + n = k + (f + n) /\ f + n \in Nat /\ 1 <= k + (f + n) /\ k + (f + n) <= caught
  BY <1>2
<1>5. in[k + (f + n)] + eb + sk < newest /\ in[k + (f + n)] \in Nat
  BY <1>3, <1>4
<1>6. ASSUME k + d < through
      PROVE  in[k + (f + n)] < out[k + d + 1]
  <2>1. newest <= out[k + d + 1] + ea
    BY <1>2, <1>6 DEF Upcoming
  <2>2. out[k + d + 1] \in Nat
    <3>1. \A i \in Nat : out[i] \in Nat
      BY <1>1 DEF Typed
    <3>2. k + d + 1 \in Nat
      OBVIOUS
    <3> QED
      BY <3>1, <3>2
  <2> QED
    BY <1>0, <1>5, <2>1, <2>2, SMTT(30)
<1> QED
  BY <1>4, <1>6, ForgedAreFake

\* Dropping: an entry of Alice's is overdue only when Bob would have caught the
\* copy by then and reported it.
LEMMA DroppingIsTrue ==
    ASSUME NEW out, NEW gone, NEW in, NEW fake, NEW sends, NEW through, NEW caught, NEW t,
           Fates(out, gone, in, fake, sends, through, caught, t),
           NEW ea \in 0..MaxError, NEW eb \in 0..MaxError,
           NEW s, NEW k \in Nat, NEW f \in Nat, NEW d \in Nat,
           Entered(s, k + d, out, ea), f <= fake[k + f], k + f <= caught,
           NEW n \in 1..Len(s), k + d + Len(s) <= sends, Len(s) \in Nat,
           NEW newest \in Nat, s[n] + drop_timeout < newest, Upcoming(k + f, caught, in, eb, newest),
           through < sends => newest <= t + eb
    PROVE  d + n <= gone[k + (d + n)]
<1>0. MaxError \in Nat /\ MaxDelay \in Nat /\ drop_timeout \in Nat /\ MaxDelay + MaxError <= drop_timeout
  BY EndToEndConstants, LedgerConstants
<1>1. Typed(out, gone, in, fake, sends, through, caught, t)
  BY DEF Fates
<1>2. sends \in Nat /\ through \in Nat /\ caught \in Nat /\ through <= sends /\ t \in Nat
  BY <1>1 DEF Typed
<1>3. out[(k + d) + n] \in Nat /\ s[n] \in Nat /\ out[(k + d) + n] + ea <= s[n]
  BY DEF Entered
<1>4. (k + d) + n = k + (d + n) /\ d + n \in Nat /\ 1 <= k + (d + n) /\ k + (d + n) <= sends
  BY <1>2
<1>5. out[k + (d + n)] + ea + drop_timeout < newest /\ out[k + (d + n)] \in Nat
  BY <1>0, <1>3, <1>4
<1>6. k + (d + n) <= through
  <2> SUFFICES ASSUME through < k + (d + n)
               PROVE  FALSE
    BY <1>2, <1>4
  <2>1. t <= out[k + (d + n)] + MaxDelay
    BY <1>2, <1>4 DEF Fates, Timely
  <2>2. newest <= t + eb
    BY <1>2, <1>4
  <2> QED
    BY <1>0, <1>2, <1>5, <2>1, <2>2, SMTT(30)
<1>7. ASSUME k + f < caught
      PROVE  out[k + (d + n)] + MaxDelay < in[k + f + 1]
  <2>1. newest <= in[k + f + 1] + eb
    BY <1>7 DEF Upcoming
  <2>2. in[k + f + 1] \in Nat
    <3>1. \A i \in Nat : in[i] \in Nat
      BY <1>1 DEF Typed
    <3>2. k + f + 1 \in Nat
      OBVIOUS
    <3> QED
      BY <3>1, <3>2
  <2>3. PICK o \in Nat : o = out[k + (d + n)]
    BY <1>5
  <2>4. PICK i \in Nat : i = in[k + f + 1]
    BY <2>2
  <2>5. ea \in Nat /\ eb \in Nat /\ eb <= MaxError
    BY <1>0
  <2>6. o + ea + drop_timeout < newest /\ newest <= i + eb
    BY <1>5, <2>1, <2>3, <2>4
  <2>7. o + MaxDelay < i
    BY <1>0, <2>5, <2>6
  <2> QED
    BY <2>3, <2>4, <2>7
<1> QED
  BY <1>4, <1>6, <1>7, DroppedAreLost

\* Judging what is overdue on either side, of which one has nothing pending.
LEMMA VerdictsAreTrue ==
    ASSUME NEW out, NEW gone, NEW in, NEW fake, NEW sends, NEW through, NEW caught, NEW t,
           NEW ea, NEW eb, NEW sk, NEW s, NEW r, NEW k, NEW f, NEW d, NEW a, NEW b,
           NEW n, NEW m, NEW x, NEW y,
           Fates(out, gone, in, fake, sends, through, caught, t),
           ea \in 0..MaxError, eb \in 0..MaxError, sk \in Nat,
           k \in Nat, f \in Nat, d \in Nat, a \in Nat, b \in Nat,
           Claims(out, gone, in, fake, ea, eb, s, r, k, f, d), Len(s) = 0 \/ Len(r) = 0,
           k + d + Len(s) <= sends, k + f + Len(r) <= caught,
           Upcoming(k + d + Len(s), sends, out, ea, a), Upcoming(k + f + Len(r), caught, in, eb, b),
           through < sends => b <= t + eb,
           Trimmed(s, x, n), Trimmed(r, y, m),
           LastOverdue(s, n, drop_timeout, b), LastOverdue(r, m, sk, a), m > 0 => MaxError <= sk
    PROVE  Claims(out, gone, in, fake, ea, eb, x, y, k, f + m, d + n)
<1>1. /\ n \in 0..Len(s) /\ Len(s) \in Nat /\ m \in 0..Len(r) /\ Len(r) \in Nat
      /\ n \in Nat /\ m \in Nat
  BY DEF Trimmed
<1>2. Entered(x, (k + d) + n, out, ea)
  BY EnteredTrimmed DEF Claims
<1>3. Entered(y, (k + f) + m, in, eb)
  BY EnteredTrimmed DEF Claims
<1>4. (k + d) + n = k + (d + n) /\ (k + f) + m = k + (f + m)
  BY <1>1
<1>5. Entered(s, k + d, out, ea) /\ Entered(r, k + f, in, eb) /\ f <= fake[k + f] /\ d <= gone[k + d]
  BY DEF Claims
<1>6. f + m <= fake[k + (f + m)]
  <2>1. CASE m = 0
    BY <1>5, <2>1
  <2>2. CASE m > 0
    <3>1. Len(s) = 0 /\ k + d + Len(s) = k + d /\ m \in 1..Len(r)
      BY <1>1, <2>2
    <3>2. Upcoming(k + d, sends, out, ea, a) /\ r[m] + sk < a
      BY <2>2, <3>1 DEF LastOverdue
    <3> QED
      BY <1>1, <1>5, <2>2, <3>1, <3>2, ForgingIsTrue, ZenonT(60)
  <2> QED
    BY <1>1, <2>1, <2>2
<1>7. d + n <= gone[k + (d + n)]
  <2>1. CASE n = 0
    BY <1>5, <2>1
  <2>2. CASE n > 0
    <3>1. Len(r) = 0 /\ k + f + Len(r) = k + f /\ n \in 1..Len(s)
      BY <1>1, <2>2
    <3>2. Upcoming(k + f, caught, in, eb, b) /\ s[n] + drop_timeout < b /\ k + f <= caught
      BY <2>2, <3>1 DEF LastOverdue
    <3> QED
      BY <1>1, <1>5, <2>2, <3>1, <3>2, DroppingIsTrue, ZenonT(60)
  <2> QED
    BY <1>1, <2>1, <2>2
<1> QED
  BY <1>2, <1>3, <1>4, <1>6, <1>7 DEF Claims

\* The times in o and i are those of out and in for the first n sent and m caught
\* copies; the counts in g and a are not below those of gone and fake.
Continued(out, gone, in, fake, o, g, i, a, n, m) ==
    /\ \A l \in Nat : l <= n => o[l] = out[l]
    /\ \A l \in Nat : l <= m => i[l] = in[l]
    /\ \A l \in Nat : gone[l] \in Nat /\ g[l] \in Nat /\ gone[l] <= g[l]
    /\ \A l \in Nat : fake[l] \in Nat /\ a[l] \in Nat /\ fake[l] <= a[l]

\* Claims hold in a history that goes on from the one they were made in.
LEMMA ClaimsGoOn ==
    ASSUME NEW out, NEW gone, NEW in, NEW fake, NEW ea, NEW eb, NEW s, NEW r, NEW k, NEW f, NEW d,
           NEW o, NEW g, NEW i, NEW a,
           Claims(out, gone, in, fake, ea, eb, s, r, k, f, d),
           k \in Nat, f \in Nat, d \in Nat, Len(s) \in Nat, Len(r) \in Nat,
           Continued(out, gone, in, fake, o, g, i, a, k + d + Len(s), k + f + Len(r))
    PROVE  Claims(o, g, i, a, ea, eb, s, r, k, f, d)
<1>1. Entered(s, k + d, o, ea)
  <2>1. ASSUME NEW x \in 1..Len(s)
        PROVE  o[(k + d) + x] = out[(k + d) + x]
    <3>1. (k + d) + x \in Nat /\ (k + d) + x <= k + d + Len(s)
      OBVIOUS
    <3>2. \A n \in Nat : n <= k + d + Len(s) => o[n] = out[n]
      BY DEF Continued
    <3> QED
      BY <3>1, <3>2
  <2> QED
    BY <2>1 DEF Claims, Entered
<1>2. Entered(r, k + f, i, eb)
  <2>1. ASSUME NEW x \in 1..Len(r)
        PROVE  i[(k + f) + x] = in[(k + f) + x]
    <3>1. (k + f) + x \in Nat /\ (k + f) + x <= k + f + Len(r)
      OBVIOUS
    <3>2. \A n \in Nat : n <= k + f + Len(r) => i[n] = in[n]
      BY DEF Continued
    <3> QED
      BY <3>1, <3>2
  <2> QED
    BY <2>1 DEF Claims, Entered
<1>3. f <= fake[k + f] /\ d <= gone[k + d]
  BY DEF Claims
<1>4. f <= a[k + f] /\ d <= g[k + d]
  <2>1. /\ fake[k + f] \in Nat /\ a[k + f] \in Nat /\ fake[k + f] <= a[k + f]
        /\ gone[k + d] \in Nat /\ g[k + d] \in Nat /\ gone[k + d] <= g[k + d]
    BY DEF Continued
  <2> QED
    BY <1>3, <2>1
<1> QED
  BY <1>1, <1>2, <1>4 DEF Claims

-----------------------------------------------------------------------------
(* The invariant *)

\* The copies of h that Alice has sent, those of them that are through, and those
\* that Bob has caught.
SentOf(h)    == total_sent[h] + Copies(queue_a, h, Len(queue_a))
CaughtOf(h)  == total_recd[h] + Copies(queue_b, h, Len(queue_b))
ThroughOf(h) == SentOf(h) - Len(wire[h])

\* The packets on the wire w are those sent after the n-th.
Flying(w, n, out) == \A i \in 1..Len(w) : w[i] = out[n + i]

\* A history that explains the state, as far as the hash h goes.
Explained(h, out, gone, in, fake) ==
    /\ Fates(out, gone, in, fake, SentOf(h), ThroughOf(h), CaughtOf(h), now)
    /\ gone[ThroughOf(h)] = lost[h] /\ fake[CaughtOf(h)] = injected[h]
    /\ Flying(wire[h], ThroughOf(h), out)
    /\ Stamped(queue_a, h, total_sent[h], out, err_a)
    /\ Stamped(queue_b, h, total_recd[h], in, err_b)
    /\ Claims(out, gone, in, fake, err_a, err_b, sent[h], recd[h], okay[h], forged[h], dropped[h])

\* No packet in a queue was captured before newest.
Recent(q, newest) == \A i \in 1..Len(q) : newest <= q[i][2]

\* While the account is open, what a client reports is as new as what it has
\* reported, and not in the future.
InStep == finalized \/ /\ Recent(queue_a, newest_a) /\ newest_a <= now + err_a
                       /\ Recent(queue_b, newest_b) /\ newest_b <= now + err_b

\* Types, the order of the clients' queues, and clocks.
World ==
    /\ now \in Nat /\ now <= Horizon
    /\ err_a \in 0..MaxError /\ err_b \in 0..MaxError
    /\ wire \in Queue /\ lost \in Count /\ injected \in Count
    /\ Queued(queue_a, now + err_a) /\ Queued(queue_b, now + err_b)
    /\ ready => skew \in Skews
    /\ InStep

E2EInv ==
    /\ Account
    /\ World
    /\ \A h \in Hash : \E out, gone, in, fake : Explained(h, out, gone, in, fake)

\* The numbers of an explained state.
LEMMA Numbers ==
    ASSUME Account, World, NEW h \in Hash, NEW out, NEW gone, NEW in, NEW fake,
           Explained(h, out, gone, in, fake)
    PROVE  /\ SentOf(h) \in Nat /\ ThroughOf(h) \in Nat /\ CaughtOf(h) \in Nat
           /\ total_sent[h] \in Nat /\ total_recd[h] \in Nat
           /\ Copies(queue_a, h, Len(queue_a)) \in Nat /\ Copies(queue_b, h, Len(queue_b)) \in Nat
           /\ okay[h] \in Nat /\ forged[h] \in Nat /\ dropped[h] \in Nat
           /\ Len(sent[h]) \in Nat /\ Len(recd[h]) \in Nat
           /\ wire[h] \in Seq(Nat) /\ Len(wire[h]) \in Nat
           /\ ThroughOf(h) + Len(wire[h]) = SentOf(h)
           /\ total_sent[h] = okay[h] + dropped[h] + Len(sent[h])
           /\ total_recd[h] = okay[h] + forged[h] + Len(recd[h])
           /\ total_sent[h] <= SentOf(h) /\ total_recd[h] <= CaughtOf(h)
           /\ lost[h] \in Nat /\ injected[h] \in Nat
<1>1. /\ Len(queue_a) \in Nat /\ Len(queue_b) \in Nat
      /\ wire[h] \in Seq(Nat) /\ Len(wire[h]) \in Nat
      /\ lost[h] \in Nat /\ injected[h] \in Nat
  <2>1. Len(queue_a) \in Nat /\ Len(queue_b) \in Nat
    BY DEF World, Queued
  <2>2. wire \in Queue /\ lost \in Count /\ injected \in Count
    BY DEF World
  <2> QED
    BY <2>1, <2>2 DEF Queue, Count
<1>2. Copies(queue_a, h, Len(queue_a)) \in Nat /\ Copies(queue_b, h, Len(queue_b)) \in Nat
  BY <1>1, CopiesCount
<1>3. /\ total_sent[h] \in Nat /\ total_recd[h] \in Nat
      /\ okay[h] \in Nat /\ forged[h] \in Nat /\ dropped[h] \in Nat
      /\ Len(sent[h]) \in Nat /\ Len(recd[h]) \in Nat
  BY StateTypes DEF Count
<1>4. /\ total_sent[h] = okay[h] + dropped[h] + Len(sent[h])
      /\ total_recd[h] = okay[h] + forged[h] + Len(recd[h])
  BY <1>3 DEF Account, Conservation
<1>5. SentOf(h) \in Nat /\ ThroughOf(h) \in Nat /\ CaughtOf(h) \in Nat
  BY DEF Explained, Fates, Typed
<1>6. /\ ThroughOf(h) + Len(wire[h]) = SentOf(h)
      /\ total_sent[h] <= SentOf(h) /\ total_recd[h] <= CaughtOf(h)
  <2>1. ThroughOf(h) = SentOf(h) - Len(wire[h])
    BY DEF ThroughOf
  <2>2. ThroughOf(h) + Len(wire[h]) = SentOf(h)
    BY <1>1, <1>5, <2>1
  <2>3. total_sent[h] <= SentOf(h)
    BY <1>2, <1>3 DEF SentOf
  <2>4. total_recd[h] <= CaughtOf(h)
    BY <1>2, <1>3 DEF CaughtOf
  <2> QED
    BY <2>2, <2>3, <2>4
<1> QED
  BY <1>1, <1>2, <1>3, <1>4, <1>5, <1>6

\* The times and counts of an explained state.
LEMMA Times ==
    ASSUME NEW h, NEW out, NEW gone, NEW in, NEW fake, Explained(h, out, gone, in, fake)
    PROVE  /\ Counts(gone) /\ Counts(fake)
           /\ out \in [Nat -> Nat] /\ in \in [Nat -> Nat]
           /\ \A n \in Nat : gone[n] \in Nat /\ fake[n] \in Nat /\ out[n] \in Nat /\ in[n] \in Nat
<1>1. Counts(gone) /\ Counts(fake) /\ out \in [Nat -> Nat] /\ in \in [Nat -> Nat]
  BY DEF Explained, Fates, Typed
<1> QED
  BY <1>1, CountsNat

-----------------------------------------------------------------------------
(* What the network and the clients' cards do *)

\* A wire with one packet more.
LEMMA FlyingAppend ==
    ASSUME NEW w \in Seq(Nat), NEW n \in Nat, NEW out, NEW o, NEW t \in Nat, Flying(w, n, out),
           \A m \in Nat : m <= n + Len(w) => o[m] = out[m], o[n + Len(w) + 1] = t
    PROVE  Flying(Append(w, t), n, o)
<1>1. Len(w) \in Nat
  OBVIOUS
<1>2. /\ Len(Append(w, t)) = Len(w) + 1
      /\ \A i \in 1..Len(w) : Append(w, t)[i] = w[i]
      /\ Append(w, t)[Len(w) + 1] = t
  BY AppendProperties
<1>3. ASSUME NEW i \in 1..(Len(w) + 1)
      PROVE  Append(w, t)[i] = o[n + i]
  <2>1. CASE i \in 1..Len(w)
    <3>1. n + i \in Nat /\ n + i <= n + Len(w)
      BY <1>1, <2>1
    <3>2. w[i] = out[n + i]
      BY <2>1 DEF Flying
    <3> QED
      BY <1>2, <2>1, <3>1, <3>2
  <2>2. CASE i = Len(w) + 1
    <3>1. n + i = n + Len(w) + 1
      BY <1>1, <2>2
    <3> QED
      BY <1>2, <2>2, <3>1
  <2> QED
    BY <1>1, <2>1, <2>2, SMTT(30)
<1> QED
  BY <1>2, <1>3 DEF Flying

\* A wire without its first packet.
LEMMA FlyingTail ==
    ASSUME NEW w \in Seq(Nat), w # <<>>, NEW n \in Nat, NEW out, Flying(w, n, out)
    PROVE  /\ Len(w) \in Nat /\ Len(w) >= 1 /\ Len(Tail(w)) = Len(w) - 1
           /\ Flying(Tail(w), n + 1, out)
<1>1. /\ Len(w) \in Nat /\ Len(w) >= 1 /\ Len(Tail(w)) = Len(w) - 1
      /\ \A i \in 1..(Len(w) - 1) : Tail(w)[i] = w[i + 1]
  <2>1. Len(w) \in Nat /\ Len(w) # 0
    BY EmptySeq
  <2>2. Len(Tail(w)) = Len(w) - 1 /\ \A i \in 1..Len(Tail(w)) : Tail(w)[i] = w[i + 1]
    BY HeadTailProperties
  <2> QED
    BY <2>1, <2>2
<1>2. ASSUME NEW i \in 1..(Len(w) - 1)
      PROVE  Tail(w)[i] = out[(n + 1) + i]
  <2>1. i + 1 \in 1..Len(w) /\ n + (i + 1) = (n + 1) + i
    BY <1>1
  <2>2. w[i + 1] = out[n + (i + 1)]
    BY <2>1 DEF Flying
  <2> QED
    BY <1>1, <2>1, <2>2
<1> QED
  BY <1>1, <1>2 DEF Flying

\* No time is added for a packet of another hash.
LEMMA SameTimes ==
    ASSUME NEW at \in [Nat -> Nat], NEW k \in Nat, NEW t \in Nat,
           \A n \in Nat : 1 <= n /\ n <= k => at[n] <= t, NEW g, NEW h, g # h
    PROVE  GoesOn(at, at, k, t, g = h)
BY DEF GoesOn

\* One is for a packet of this hash.
LEMMA NewTime ==
    ASSUME NEW at \in [Nat -> Nat], NEW k \in Nat, NEW t \in Nat,
           \A n \in Nat : 1 <= n /\ n <= k => at[n] <= t, NEW g, NEW h, g = h
    PROVE  GoesOn(at, [at EXCEPT ![k + 1] = t], k, t, g = h)
BY OneMore DEF GoesOn

\* No copy in a history is of a later time than now.
LEMMA NoneLater ==
    ASSUME NEW h, NEW out, NEW gone, NEW in, NEW fake, Explained(h, out, gone, in, fake)
    PROVE  /\ \A n \in Nat : 1 <= n /\ n <= SentOf(h) => out[n] <= now
           /\ \A n \in Nat : 1 <= n /\ n <= CaughtOf(h) => in[n] <= now
BY DEF Explained, Fates, Timely

\* A packet that Alice captures.
LEMMA AliceCaptures ==
    ASSUME Account, World, NEW g \in Hash, queue_a' = Capture(queue_a, g, now + err_a),
           total_sent' = total_sent,
           NEW h \in Hash, NEW out, NEW gone, NEW in, NEW fake, Explained(h, out, gone, in, fake)
    PROVE  /\ Longer(queue_a, queue_a', g, now + err_a)
           /\ g # h => /\ SentOf(h)' = SentOf(h)
                       /\ Stamped(queue_a', h, total_sent[h], out, err_a)
           /\ g = h => /\ SentOf(h)' = SentOf(h) + 1
                       /\ Stamped(queue_a', h, total_sent[h], [out EXCEPT ![SentOf(h) + 1] = now], err_a)
<1>1. now \in Nat /\ err_a \in Nat /\ now + err_a \in Nat /\ now + err_a <= now + err_a
  BY DEF World
<1>2. Longer(queue_a, queue_a', g, now + err_a)
  BY <1>1, CaptureAppends DEF World
<1>3. /\ Copies(queue_a, h, Len(queue_a)) \in Nat
      /\ g = h => Copies(queue_a', h, Len(queue_a')) = Copies(queue_a, h, Len(queue_a)) + 1
      /\ g # h => Copies(queue_a', h, Len(queue_a')) = Copies(queue_a, h, Len(queue_a))
  BY <1>2, CopiesLonger
<1>4. SentOf(h)' = total_sent[h] + Copies(queue_a', h, Len(queue_a'))
  BY DEF SentOf
<1>5. SentOf(h) = total_sent[h] + Copies(queue_a, h, Len(queue_a))
  BY DEF SentOf
<1>6. total_sent[h] \in Nat /\ SentOf(h) \in Nat
  BY Numbers
<1>7. out \in [Nat -> Nat] /\ \A n \in Nat : 1 <= n /\ n <= SentOf(h) => out[n] <= now
  BY Times, NoneLater
<1>8. Stamped(queue_a, h, total_sent[h], out, err_a)
  BY DEF Explained
<1>9. ASSUME g # h
      PROVE  Stamped(queue_a', h, total_sent[h], out, err_a)
  <2>1. GoesOn(out, out, SentOf(h), now, g = h)
    BY <1>1, <1>6, <1>7, <1>9, SameTimes
  <2>2. GoesOn(out, out, total_sent[h] + Copies(queue_a, h, Len(queue_a)), now, g = h)
    BY <1>5, <2>1
  <2> QED
    BY <1>1, <1>2, <1>6, <1>8, <2>2, StampedCapture
<1>10. ASSUME g = h
       PROVE  Stamped(queue_a', h, total_sent[h], [out EXCEPT ![SentOf(h) + 1] = now], err_a)
  <2>1. PICK o : o = [out EXCEPT ![SentOf(h) + 1] = now]
    OBVIOUS
  <2>2. GoesOn(out, o, SentOf(h), now, g = h)
    BY <1>1, <1>6, <1>7, <1>10, <2>1, NewTime
  <2>3. GoesOn(out, o, total_sent[h] + Copies(queue_a, h, Len(queue_a)), now, g = h)
    BY <1>5, <2>2
  <2>4. Stamped(queue_a', h, total_sent[h], o, err_a)
    BY <1>1, <1>2, <1>6, <1>8, <2>3, StampedCapture
  <2> QED
    BY <2>1, <2>4
<1>11. ASSUME g # h
       PROVE  SentOf(h)' = SentOf(h)
  BY <1>3, <1>4, <1>5, <1>11
<1>12. ASSUME g = h
       PROVE  SentOf(h)' = SentOf(h) + 1
  BY <1>3, <1>4, <1>5, <1>6, <1>12
<1> QED
  BY <1>2, <1>9, <1>10, <1>11, <1>12

\* A packet that Bob captures.
LEMMA BobCaptures ==
    ASSUME Account, World, NEW g \in Hash, queue_b' = Capture(queue_b, g, now + err_b),
           total_recd' = total_recd,
           NEW h \in Hash, NEW out, NEW gone, NEW in, NEW fake, Explained(h, out, gone, in, fake)
    PROVE  /\ Longer(queue_b, queue_b', g, now + err_b)
           /\ g # h => /\ CaughtOf(h)' = CaughtOf(h)
                       /\ Stamped(queue_b', h, total_recd[h], in, err_b)
           /\ g = h => /\ CaughtOf(h)' = CaughtOf(h) + 1
                       /\ Stamped(queue_b', h, total_recd[h], [in EXCEPT ![CaughtOf(h) + 1] = now], err_b)
<1>1. now \in Nat /\ err_b \in Nat /\ now + err_b \in Nat /\ now + err_b <= now + err_b
  BY DEF World
<1>2. Longer(queue_b, queue_b', g, now + err_b)
  BY <1>1, CaptureAppends DEF World
<1>3. /\ Copies(queue_b, h, Len(queue_b)) \in Nat
      /\ g = h => Copies(queue_b', h, Len(queue_b')) = Copies(queue_b, h, Len(queue_b)) + 1
      /\ g # h => Copies(queue_b', h, Len(queue_b')) = Copies(queue_b, h, Len(queue_b))
  BY <1>2, CopiesLonger
<1>4. CaughtOf(h)' = total_recd[h] + Copies(queue_b', h, Len(queue_b'))
  BY DEF CaughtOf
<1>5. CaughtOf(h) = total_recd[h] + Copies(queue_b, h, Len(queue_b))
  BY DEF CaughtOf
<1>6. total_recd[h] \in Nat /\ CaughtOf(h) \in Nat
  BY Numbers
<1>7. in \in [Nat -> Nat] /\ \A n \in Nat : 1 <= n /\ n <= CaughtOf(h) => in[n] <= now
  BY Times, NoneLater
<1>8. Stamped(queue_b, h, total_recd[h], in, err_b)
  BY DEF Explained
<1>9. ASSUME g # h
      PROVE  Stamped(queue_b', h, total_recd[h], in, err_b)
  <2>1. GoesOn(in, in, CaughtOf(h), now, g = h)
    BY <1>1, <1>6, <1>7, <1>9, SameTimes
  <2>2. GoesOn(in, in, total_recd[h] + Copies(queue_b, h, Len(queue_b)), now, g = h)
    BY <1>5, <2>1
  <2> QED
    BY <1>1, <1>2, <1>6, <1>8, <2>2, StampedCapture
<1>10. ASSUME g = h
       PROVE  Stamped(queue_b', h, total_recd[h], [in EXCEPT ![CaughtOf(h) + 1] = now], err_b)
  <2>1. PICK i : i = [in EXCEPT ![CaughtOf(h) + 1] = now]
    OBVIOUS
  <2>2. GoesOn(in, i, CaughtOf(h), now, g = h)
    BY <1>1, <1>6, <1>7, <1>10, <2>1, NewTime
  <2>3. GoesOn(in, i, total_recd[h] + Copies(queue_b, h, Len(queue_b)), now, g = h)
    BY <1>5, <2>2
  <2>4. Stamped(queue_b', h, total_recd[h], i, err_b)
    BY <1>1, <1>2, <1>6, <1>8, <2>3, StampedCapture
  <2> QED
    BY <2>1, <2>4
<1>11. ASSUME g # h
       PROVE  CaughtOf(h)' = CaughtOf(h)
  BY <1>3, <1>4, <1>5, <1>11
<1>12. ASSUME g = h
       PROVE  CaughtOf(h)' = CaughtOf(h) + 1
  BY <1>3, <1>4, <1>5, <1>6, <1>12
<1> QED
  BY <1>2, <1>9, <1>10, <1>11, <1>12

\* The claims are about copies of which there are no more than were sent and caught.
LEMMA ClaimsStay ==
    ASSUME Account, World, NEW h \in Hash, NEW out, NEW gone, NEW in, NEW fake,
           NEW o, NEW g, NEW i, NEW a, Explained(h, out, gone, in, fake),
           Continued(out, gone, in, fake, o, g, i, a, SentOf(h), CaughtOf(h))
    PROVE  Claims(o, g, i, a, err_a, err_b, sent[h], recd[h], okay[h], forged[h], dropped[h])
<1>1. /\ SentOf(h) \in Nat /\ CaughtOf(h) \in Nat
      /\ okay[h] \in Nat /\ forged[h] \in Nat /\ dropped[h] \in Nat
      /\ Len(sent[h]) \in Nat /\ Len(recd[h]) \in Nat
      /\ okay[h] + dropped[h] + Len(sent[h]) <= SentOf(h)
      /\ okay[h] + forged[h] + Len(recd[h]) <= CaughtOf(h)
  BY Numbers
<1>2. Claims(out, gone, in, fake, err_a, err_b, sent[h], recd[h], okay[h], forged[h], dropped[h])
  BY DEF Explained
<1>3. ASSUME NEW l \in Nat
      PROVE  /\ l <= okay[h] + dropped[h] + Len(sent[h]) => l <= SentOf(h)
             /\ l <= okay[h] + forged[h] + Len(recd[h]) => l <= CaughtOf(h)
  BY <1>1
<1>4. Continued(out, gone, in, fake, o, g, i, a,
                okay[h] + dropped[h] + Len(sent[h]), okay[h] + forged[h] + Len(recd[h]))
  BY <1>3 DEF Continued
<1> QED
  BY <1>1, <1>2, <1>4, ClaimsGoOn

\* Alice sends a packet.
LEMMA SendExplained ==
    ASSUME Account, World, NEW g \in Hash, Send(g),
           NEW h \in Hash, NEW out, NEW gone, NEW in, NEW fake, Explained(h, out, gone, in, fake)
    PROVE  \E o : Explained(h, o, gone, in, fake)'
<1>1. /\ queue_a' = Capture(queue_a, g, now + err_a)
      /\ wire' = [wire EXCEPT ![g] = Append(@, now)]
      /\ total_sent' = total_sent /\ total_recd' = total_recd
      /\ sent' = sent /\ recd' = recd /\ okay' = okay /\ forged' = forged /\ dropped' = dropped
      /\ now' = now /\ err_a' = err_a /\ err_b' = err_b /\ queue_b' = queue_b
      /\ lost' = lost /\ injected' = injected
  BY DEF Send, vars, pending, verdicts, totals
<1>2. CaughtOf(h)' = CaughtOf(h)
  BY <1>1 DEF CaughtOf
<1>3. ThroughOf(h)' = SentOf(h)' - Len(wire'[h])
  BY DEF ThroughOf
<1>4. wire \in [Hash -> Seq(Nat)] /\ now \in Nat
  BY DEF World, Queue
<1>5. /\ SentOf(h) \in Nat /\ ThroughOf(h) \in Nat /\ CaughtOf(h) \in Nat
      /\ wire[h] \in Seq(Nat) /\ Len(wire[h]) \in Nat
      /\ ThroughOf(h) + Len(wire[h]) = SentOf(h)
  BY Numbers
<1>6. CASE g # h
  <2>1. wire'[h] = wire[h]
    BY <1>1, <1>4, <1>6
  <2>2. SentOf(h)' = SentOf(h) /\ Stamped(queue_a', h, total_sent[h], out, err_a)
    BY <1>1, <1>6, AliceCaptures
  <2>3. ThroughOf(h)' = ThroughOf(h)
    BY <1>3, <2>1, <2>2 DEF ThroughOf
  <2>4. Explained(h, out, gone, in, fake)'
    BY <1>1, <1>2, <2>1, <2>2, <2>3 DEF Explained
  <2> QED
    BY <2>4
<1>7. CASE g = h
  <2>1. PICK o : o = [out EXCEPT ![SentOf(h) + 1] = now]
    OBVIOUS
  <2>2. SentOf(h)' = SentOf(h) + 1 /\ Stamped(queue_a', h, total_sent[h], o, err_a)
    BY <1>1, <1>7, <2>1, AliceCaptures
  <2>3. wire'[h] = Append(wire[h], now)
    BY <1>1, <1>4, <1>7
  <2>4. ThroughOf(h)' = ThroughOf(h)
    <3>1. Len(wire'[h]) = Len(wire[h]) + 1
      BY <1>4, <1>5, <2>3, AppendProperties
    <3> QED
      BY <1>3, <1>5, <2>2, <3>1
  <2>5. Fates(o, gone, in, fake, SentOf(h) + 1, ThroughOf(h), CaughtOf(h), now)
    BY <2>1, FatesSend DEF Explained
  <2>6. \A n \in Nat : n <= SentOf(h) => o[n] = out[n]
    BY <1>4, <1>5, <2>1, Times, OneMore
  <2>7. o[SentOf(h) + 1] = now
    BY <1>4, <1>5, <2>1, Times, OneMore
  <2>8. Flying(wire'[h], ThroughOf(h), o)
    <3>1. Flying(wire[h], ThroughOf(h), out)
      BY DEF Explained
    <3>2. /\ \A n \in Nat : n <= ThroughOf(h) + Len(wire[h]) => o[n] = out[n]
          /\ o[ThroughOf(h) + Len(wire[h]) + 1] = now
      BY <1>5, <2>6, <2>7
    <3>3. Flying(Append(wire[h], now), ThroughOf(h), o)
      BY <1>4, <1>5, <3>1, <3>2, FlyingAppend
    <3> QED
      BY <2>3, <3>3
  <2>9. Claims(o, gone, in, fake, err_a, err_b, sent[h], recd[h], okay[h], forged[h], dropped[h])
    <3>1. Continued(out, gone, in, fake, o, gone, in, fake, SentOf(h), CaughtOf(h))
      BY <2>6, Times DEF Continued
    <3> QED
      BY <3>1, ClaimsStay
  <2>10. Explained(h, o, gone, in, fake)'
    BY <1>1, <1>2, <2>2, <2>4, <2>5, <2>8, <2>9 DEF Explained
  <2> QED
    BY <2>10
<1> QED
  BY <1>6, <1>7

\* What becomes of a packet that leaves the wire.
LEMMA WireGivesUp ==
    ASSUME Account, World, NEW g \in Hash, wire[g] # <<>>, wire' = [wire EXCEPT ![g] = Tail(@)],
           SentOf(g)' = SentOf(g),
           NEW out, NEW gone, NEW in, NEW fake, Explained(g, out, gone, in, fake)
    PROVE  /\ ThroughOf(g) < SentOf(g) /\ ThroughOf(g)' = ThroughOf(g) + 1
           /\ Flying(wire'[g], ThroughOf(g) + 1, out)
<1>1. /\ SentOf(g) \in Nat /\ ThroughOf(g) \in Nat
      /\ wire[g] \in Seq(Nat) /\ Len(wire[g]) \in Nat
      /\ ThroughOf(g) + Len(wire[g]) = SentOf(g)
  BY Numbers
<1>2. wire'[g] = Tail(wire[g])
  BY DEF World, Queue
<1>3. Flying(wire[g], ThroughOf(g), out)
  BY DEF Explained
<1>4. /\ Len(wire[g]) >= 1 /\ Len(Tail(wire[g])) = Len(wire[g]) - 1
      /\ Flying(Tail(wire[g]), ThroughOf(g) + 1, out)
  BY <1>1, <1>3, FlyingTail
<1>5. ThroughOf(g)' = SentOf(g)' - Len(wire'[g])
  BY DEF ThroughOf
<1> QED
  BY <1>1, <1>2, <1>4, <1>5

\* One more thing is through or caught: the counts of what was lost and
\* injected do not change by themselves.
LEMMA CountsStand ==
    ASSUME NEW out, NEW gone, NEW in, NEW fake, NEW sends, NEW through, NEW caught, NEW t,
           Fates(out, gone, in, fake, sends, through, caught, t)
    PROVE  gone[through + 1] = gone[through] /\ fake[caught + 1] = fake[caught]
<1>1. through \in Nat /\ caught \in Nat
  BY DEF Fates, Typed
<1>2. /\ \A n \in Nat : n >= through => gone[n] = gone[through]
      /\ \A n \in Nat : n >= caught => fake[n] = fake[caught]
  BY DEF Fates, Kept
<1>3. through + 1 \in Nat /\ through + 1 >= through /\ caught + 1 \in Nat /\ caught + 1 >= caught
  BY <1>1
<1> QED
  BY <1>2, <1>3

\* A packet arrives.
LEMMA DeliverExplained ==
    ASSUME Account, World, NEW g \in Hash, Deliver(g),
           NEW h \in Hash, NEW out, NEW gone, NEW in, NEW fake, Explained(h, out, gone, in, fake)
    PROVE  \E i : Explained(h, out, gone, i, fake)'
<1>1. /\ queue_b' = Capture(queue_b, g, now + err_b)
      /\ wire[g] # <<>> /\ wire' = [wire EXCEPT ![g] = Tail(@)]
      /\ total_sent' = total_sent /\ total_recd' = total_recd
      /\ sent' = sent /\ recd' = recd /\ okay' = okay /\ forged' = forged /\ dropped' = dropped
      /\ now' = now /\ err_a' = err_a /\ err_b' = err_b /\ queue_a' = queue_a
      /\ lost' = lost /\ injected' = injected
  BY DEF Deliver, vars, pending, verdicts, totals
<1>2. SentOf(h)' = SentOf(h) /\ SentOf(g)' = SentOf(g)
  BY <1>1 DEF SentOf
<1>3. CASE g # h
  <2>1. wire'[h] = wire[h]
    BY <1>1, <1>3 DEF World, Queue
  <2>2. CaughtOf(h)' = CaughtOf(h) /\ Stamped(queue_b', h, total_recd[h], in, err_b)
    BY <1>1, <1>3, BobCaptures
  <2>3. ThroughOf(h)' = ThroughOf(h)
    BY <1>2, <2>1 DEF ThroughOf
  <2>4. Explained(h, out, gone, in, fake)'
    BY <1>1, <1>2, <2>1, <2>2, <2>3 DEF Explained
  <2> QED
    BY <2>4
<1>4. CASE g = h
  <2>1. PICK i : i = [in EXCEPT ![CaughtOf(h) + 1] = now]
    OBVIOUS
  <2>2. CaughtOf(h)' = CaughtOf(h) + 1 /\ Stamped(queue_b', h, total_recd[h], i, err_b)
    BY <1>1, <1>4, <2>1, BobCaptures
  <2>3. /\ ThroughOf(h) < SentOf(h) /\ ThroughOf(h)' = ThroughOf(h) + 1
        /\ Flying(wire'[h], ThroughOf(h) + 1, out)
    BY <1>1, <1>2, <1>4, WireGivesUp
  <2>4. Fates(out, gone, in, fake, SentOf(h), ThroughOf(h), CaughtOf(h), now)
    BY DEF Explained
  <2>5. Fates(out, gone, i, fake, SentOf(h), ThroughOf(h) + 1, CaughtOf(h) + 1, now)
    BY <2>1, <2>3, <2>4, FatesDeliver
  <2>6. gone[ThroughOf(h) + 1] = lost[h] /\ fake[CaughtOf(h) + 1] = injected[h]
    BY <2>4, CountsStand DEF Explained
  <2>7. \A n \in Nat : n <= CaughtOf(h) => i[n] = in[n]
    <3>1. CaughtOf(h) \in Nat /\ now \in Nat /\ in \in [Nat -> Nat]
      BY Numbers, Times DEF World
    <3> QED
      BY <2>1, <3>1, OneMore
  <2>8. Claims(out, gone, i, fake, err_a, err_b, sent[h], recd[h], okay[h], forged[h], dropped[h])
    <3>1. Continued(out, gone, in, fake, out, gone, i, fake, SentOf(h), CaughtOf(h))
      BY <2>7, Times DEF Continued
    <3> QED
      BY <3>1, ClaimsStay
  <2>9. Explained(h, out, gone, i, fake)'
    BY <1>1, <1>2, <2>2, <2>3, <2>5, <2>6, <2>8 DEF Explained
  <2> QED
    BY <2>9
<1> QED
  BY <1>3, <1>4

\* A packet is lost.
LEMMA LoseExplained ==
    ASSUME Account, World, NEW g \in Hash, Lose(g),
           NEW h \in Hash, NEW out, NEW gone, NEW in, NEW fake, Explained(h, out, gone, in, fake)
    PROVE  \E more : Explained(h, out, more, in, fake)'
<1>1. /\ wire[g] # <<>> /\ wire' = [wire EXCEPT ![g] = Tail(@)]
      /\ total_sent' = total_sent /\ total_recd' = total_recd
      /\ sent' = sent /\ recd' = recd /\ okay' = okay /\ forged' = forged /\ dropped' = dropped
      /\ now' = now /\ err_a' = err_a /\ err_b' = err_b
      /\ queue_a' = queue_a /\ queue_b' = queue_b
      /\ lost' = [lost EXCEPT ![g] = @ + 1] /\ injected' = injected
  BY DEF Lose, AddOne, vars, pending, verdicts, totals
<1>2. SentOf(h)' = SentOf(h) /\ SentOf(g)' = SentOf(g) /\ CaughtOf(h)' = CaughtOf(h)
  BY <1>1 DEF SentOf, CaughtOf
<1>3. CASE g # h
  <2>1. wire'[h] = wire[h] /\ lost'[h] = lost[h]
    BY <1>1, <1>3 DEF World, Queue, Count
  <2>2. ThroughOf(h)' = ThroughOf(h)
    BY <1>2, <2>1 DEF ThroughOf
  <2>3. Explained(h, out, gone, in, fake)'
    BY <1>1, <1>2, <2>1, <2>2 DEF Explained
  <2> QED
    BY <2>3
<1>4. CASE g = h
  <2>1. /\ ThroughOf(h) < SentOf(h) /\ ThroughOf(h)' = ThroughOf(h) + 1
        /\ Flying(wire'[h], ThroughOf(h) + 1, out)
    BY <1>1, <1>2, <1>4, WireGivesUp
  <2>2. Fates(out, gone, in, fake, SentOf(h), ThroughOf(h), CaughtOf(h), now)
    BY DEF Explained
  <2>3. PICK more : /\ Fates(out, more, in, fake, SentOf(h), ThroughOf(h) + 1, CaughtOf(h), now)
                    /\ \A n \in Nat : gone[n] <= more[n]
                    /\ more[ThroughOf(h) + 1] = gone[ThroughOf(h)] + 1
    BY <2>1, <2>2, FatesLose
  <2>4. lost'[h] = lost[h] + 1
    BY <1>1, <1>4 DEF World, Count
  <2>5. more[ThroughOf(h) + 1] = lost'[h] /\ fake[CaughtOf(h)] = injected[h]
    BY <2>3, <2>4 DEF Explained
  <2>6. Claims(out, more, in, fake, err_a, err_b, sent[h], recd[h], okay[h], forged[h], dropped[h])
    <3>1. Counts(more)
      BY <2>3 DEF Fates, Typed
    <3>2. \A n \in Nat : more[n] \in Nat
      BY <3>1, CountsNat
    <3>3. Continued(out, gone, in, fake, out, more, in, fake, SentOf(h), CaughtOf(h))
      BY <2>3, <3>2, Times DEF Continued
    <3> QED
      BY <3>3, ClaimsStay
  <2>7. Explained(h, out, more, in, fake)'
    BY <1>1, <1>2, <2>1, <2>3, <2>5, <2>6 DEF Explained
  <2> QED
    BY <2>7
<1> QED
  BY <1>3, <1>4

\* A packet is invented.
LEMMA InjectExplained ==
    ASSUME Account, World, NEW g \in Hash, Inject(g),
           NEW h \in Hash, NEW out, NEW gone, NEW in, NEW fake, Explained(h, out, gone, in, fake)
    PROVE  \E i, more : Explained(h, out, gone, i, more)'
<1>1. /\ queue_b' = Capture(queue_b, g, now + err_b)
      /\ total_sent' = total_sent /\ total_recd' = total_recd
      /\ sent' = sent /\ recd' = recd /\ okay' = okay /\ forged' = forged /\ dropped' = dropped
      /\ now' = now /\ err_a' = err_a /\ err_b' = err_b
      /\ queue_a' = queue_a /\ wire' = wire
      /\ injected' = [injected EXCEPT ![g] = @ + 1] /\ lost' = lost
  BY DEF Inject, AddOne, vars, pending, verdicts, totals
<1>2. SentOf(h)' = SentOf(h)
  BY <1>1 DEF SentOf
<1>3. ThroughOf(h)' = ThroughOf(h)
  BY <1>1, <1>2 DEF ThroughOf
<1>4. CASE g # h
  <2>1. injected'[h] = injected[h]
    BY <1>1, <1>4 DEF World, Count
  <2>2. CaughtOf(h)' = CaughtOf(h) /\ Stamped(queue_b', h, total_recd[h], in, err_b)
    BY <1>1, <1>4, BobCaptures
  <2>3. Explained(h, out, gone, in, fake)'
    BY <1>1, <1>2, <1>3, <2>1, <2>2 DEF Explained
  <2> QED
    BY <2>3
<1>5. CASE g = h
  <2>1. PICK i : i = [in EXCEPT ![CaughtOf(h) + 1] = now]
    OBVIOUS
  <2>2. CaughtOf(h)' = CaughtOf(h) + 1 /\ Stamped(queue_b', h, total_recd[h], i, err_b)
    BY <1>1, <1>5, <2>1, BobCaptures
  <2>3. Fates(out, gone, in, fake, SentOf(h), ThroughOf(h), CaughtOf(h), now)
    BY DEF Explained
  <2>4. OneTimeMore(in, i, CaughtOf(h), now)
    <3>1. CaughtOf(h) \in Nat /\ now \in Nat /\ in \in [Nat -> Nat]
      BY Numbers, Times DEF World
    <3> QED
      BY <2>1, <3>1, OneMore DEF OneTimeMore
  <2>5. PICK more : /\ Fates(out, gone, i, more, SentOf(h), ThroughOf(h), CaughtOf(h) + 1, now)
                    /\ \A n \in Nat : fake[n] <= more[n]
                    /\ more[CaughtOf(h) + 1] = fake[CaughtOf(h)] + 1
    BY <2>3, <2>4, FatesInject
  <2>6. injected'[h] = injected[h] + 1
    BY <1>1, <1>5 DEF World, Count
  <2>7. gone[ThroughOf(h)] = lost[h] /\ more[CaughtOf(h) + 1] = injected'[h]
    BY <2>5, <2>6 DEF Explained
  <2>8. Claims(out, gone, i, more, err_a, err_b, sent[h], recd[h], okay[h], forged[h], dropped[h])
    <3>1. Counts(more)
      BY <2>5 DEF Fates, Typed
    <3>2. \A n \in Nat : more[n] \in Nat
      BY <3>1, CountsNat
    <3>3. Continued(out, gone, in, fake, out, gone, i, more, SentOf(h), CaughtOf(h))
      BY <2>4, <2>5, <3>2, Times DEF Continued, OneTimeMore
    <3> QED
      BY <3>3, ClaimsStay
  <2>9. Flying(wire[h], ThroughOf(h), out) /\ Stamped(queue_a, h, total_sent[h], out, err_a)
    BY DEF Explained
  <2>10. Explained(h, out, gone, i, more)'
    BY <1>1, <1>2, <1>3, <2>2, <2>5, <2>7, <2>8, <2>9 DEF Explained
  <2> QED
    BY <2>10
<1> QED
  BY <1>4, <1>5

\* Time passes.
LEMMA TickExplained ==
    ASSUME Account, World, Tick,
           NEW h \in Hash, NEW out, NEW gone, NEW in, NEW fake, Explained(h, out, gone, in, fake)
    PROVE  Explained(h, out, gone, in, fake)'
<1>1. /\ now' = now + 1
      /\ total_sent' = total_sent /\ total_recd' = total_recd
      /\ sent' = sent /\ recd' = recd /\ okay' = okay /\ forged' = forged /\ dropped' = dropped
      /\ err_a' = err_a /\ err_b' = err_b /\ wire' = wire
      /\ queue_a' = queue_a /\ queue_b' = queue_b /\ lost' = lost /\ injected' = injected
  BY DEF Tick, vars, pending, verdicts, totals
<1>2. SentOf(h)' = SentOf(h) /\ CaughtOf(h)' = CaughtOf(h)
  BY <1>1 DEF SentOf, CaughtOf
<1>3. ThroughOf(h)' = ThroughOf(h)
  BY <1>1, <1>2 DEF ThroughOf
<1>4. /\ SentOf(h) \in Nat /\ ThroughOf(h) \in Nat
      /\ wire[h] \in Seq(Nat) /\ Len(wire[h]) \in Nat
      /\ ThroughOf(h) + Len(wire[h]) = SentOf(h)
  BY Numbers
<1>5. ASSUME NEW n \in Nat, ThroughOf(h) < n, n <= SentOf(h)
      PROVE  now < out[n] + MaxDelay
  <2>1. PICK i \in 1..Len(wire[h]) : ThroughOf(h) + i = n
    <3>1. n - ThroughOf(h) \in 1..Len(wire[h]) /\ ThroughOf(h) + (n - ThroughOf(h)) = n
      BY <1>4, <1>5
    <3> QED
      BY <3>1
  <2>2. wire[h][i] = out[n]
    BY <2>1 DEF Explained, Flying
  <2>3. now < wire[h][i] + MaxDelay
    <3>1. i \in DOMAIN wire[h]
      BY <1>4
    <3> QED
      BY <3>1 DEF Tick
  <2> QED
    BY <2>2, <2>3
<1>6. Fates(out, gone, in, fake, SentOf(h), ThroughOf(h), CaughtOf(h), now + 1)
  <2>1. Fates(out, gone, in, fake, SentOf(h), ThroughOf(h), CaughtOf(h), now)
    BY DEF Explained
  <2> QED
    BY <1>5, <2>1, FatesTick
<1> QED
  BY <1>1, <1>2, <1>3, <1>6 DEF Explained

\* Pairing a flow, or no step at all, changes nothing that a history is about.
LEMMA SameExplained ==
    ASSUME UNCHANGED <<sent, recd, okay, forged, dropped, total_sent, total_recd, world>>,
           NEW h \in Hash, NEW out, NEW gone, NEW in, NEW fake, Explained(h, out, gone, in, fake)
    PROVE  Explained(h, out, gone, in, fake)'
<1>1. /\ now' = now
      /\ total_sent' = total_sent /\ total_recd' = total_recd
      /\ sent' = sent /\ recd' = recd /\ okay' = okay /\ forged' = forged /\ dropped' = dropped
      /\ err_a' = err_a /\ err_b' = err_b /\ wire' = wire
      /\ queue_a' = queue_a /\ queue_b' = queue_b /\ lost' = lost /\ injected' = injected
  BY DEF world
<1>2. SentOf(h)' = SentOf(h) /\ CaughtOf(h)' = CaughtOf(h)
  BY <1>1 DEF SentOf, CaughtOf
<1>3. ThroughOf(h)' = ThroughOf(h)
  BY <1>1, <1>2 DEF ThroughOf
<1> QED
  BY <1>1, <1>2, <1>3 DEF Explained

-----------------------------------------------------------------------------
(* What the reports do to the account *)

\* What Discard does to the queue of one hash.
LEMMA DiscardTrims ==
    ASSUME NEW q \in Queue, NEW n \in Count, \A h \in Hash : n[h] <= Len(q[h]), NEW h \in Hash
    PROVE  Trimmed(q[h], Discard(q, n)[h], n[h])
<1>1. /\ Len(Discard(q, n)[h]) = Len(q[h]) - n[h]
      /\ \A i \in 1..(Len(q[h]) - n[h]) : Discard(q, n)[h][i] = q[h][n[h] + i]
  BY DiscardKeeps
<1>2. Len(q[h]) \in Nat /\ n[h] \in 0..Len(q[h])
  BY DEF Queue, Count
<1> QED
  BY <1>1, <1>2 DEF Trimmed

\* What Enqueue does to the queue of one hash.
LEMMA EnqueueFills ==
    ASSUME NEW q \in Queue, NEW n \in Count, NEW t \in Nat, NEW h \in Hash
    PROVE  Filled(q[h], Enqueue(q, n, t)[h], n[h], t)
<1>1. Len(q[h]) \in Nat /\ n[h] \in Nat
  BY DEF Queue, Count
<1>2. PICK p : p = Enqueue(q, n, t)
  OBVIOUS
<1>3. /\ Len(p[h]) = Len(q[h]) + n[h]
      /\ \A i \in 1..Len(q[h]) : p[h][i] = q[h][i]
      /\ \A i \in (Len(q[h]) + 1)..(Len(q[h]) + n[h]) : p[h][i] = t
  BY <1>2, EnqueueAppends
<1>4. Filled(q[h], p[h], n[h], t)
  BY <1>1, <1>3 DEF Filled
<1> QED
  BY <1>2, <1>4

\* A set of numbers below n has fewer than n of them.
LEMMA FewerBelow ==
    ASSUME NEW n \in Nat, n > 0, NEW S, S \subseteq 1..(n - 1)
    PROVE  Cardinality(S) < n
<1>1. n - 1 \in Nat
  OBVIOUS
<1>2. IsFiniteSet(1..(n - 1)) /\ Cardinality(1..(n - 1)) = n - 1
  BY <1>1, FS_Interval
<1>3. Cardinality(S) <= n - 1 /\ Cardinality(S) \in Nat
  BY <1>2, FS_Subset, FS_CardinalityType
<1> QED
  BY <1>3

\* If n entries of a sorted sequence are overdue, the n-th is.
LEMMA OverdueLast ==
    ASSUME NEW s \in Seq(Nat), NEW g \in Nat, NEW new \in Nat,
           \A i, j \in DOMAIN s : i <= j => s[i] <= s[j]
    PROVE  LET n == Cardinality({i \in DOMAIN s : s[i] + g < new})
           IN  n > 0 => s[n] + g < new
<1> DEFINE S == {i \in DOMAIN s : s[i] + g < new}
<1>1. Len(s) \in Nat /\ DOMAIN s = 1..Len(s) /\ \A i \in DOMAIN s : s[i] \in Nat
  OBVIOUS
<1>2. S \subseteq 1..Len(s)
  BY <1>1
<1>3. Cardinality(S) \in Nat /\ Cardinality(S) <= Len(s)
  <2>1. IsFiniteSet(1..Len(s)) /\ Cardinality(1..Len(s)) = Len(s)
    <3>1. PICK m \in Nat : m = Len(s)
      BY <1>1
    <3>2. IsFiniteSet(1..m) /\ Cardinality(1..m) = m
      BY FS_Interval
    <3> QED
      BY <3>1, <3>2
  <2> HIDE DEF S
  <2> QED
    BY <1>2, <2>1, FS_Subset, FS_CardinalityType
<1>4. PICK n \in Nat : n = Cardinality(S)
  BY <1>3
<1>5. ASSUME n > 0, ~(s[n] + g < new)
      PROVE  S \subseteq 1..(n - 1)
  <2>1. n \in DOMAIN s
    BY <1>1, <1>3, <1>4, <1>5
  <2>2. ASSUME NEW i \in DOMAIN s, s[i] + g < new, n <= i
        PROVE  FALSE
    <3>1. s[n] <= s[i] /\ s[n] \in Nat /\ s[i] \in Nat
      BY <1>1, <2>1, <2>2
    <3> QED
      BY <1>5, <2>2, <3>1
  <2>3. \A i \in S : i \in Nat /\ 1 <= i /\ ~(n <= i)
    BY <1>1, <2>2
  <2> HIDE DEF S
  <2> QED
    BY <2>3
<1> HIDE DEF S
<1>6. n > 0 => s[n] + g < new
  BY <1>4, <1>5, FewerBelow
<1> QED
  BY <1>4, <1>6 DEF S

\* What is judged is overdue, in a queue in chronological order, and only once
\* both sides of the flow are known.
LEMMA JudgedIsOverdue ==
    ASSUME NEW q \in Queue, NEW top, Sorted(q, top), NEW g \in Nat, NEW new \in Nat, NEW h \in Hash
    PROVE  /\ LastOverdue(q[h], Judged(q, g, new)[h], g, new)
           /\ Judged(q, g, new)[h] > 0 => ready
<1>1. CASE ~ready
  <2>1. Judged(q, g, new)[h] = 0
    BY <1>1 DEF Judged, Nothing
  <2> QED
    BY <2>1 DEF LastOverdue
<1>2. CASE ready
  <2>1. Judged(q, g, new)[h] = Cardinality({i \in DOMAIN q[h] : q[h][i] + g < new})
    BY <1>2 DEF Judged, Overdue
  <2>2. q[h] \in Seq(Nat) /\ \A i, j \in DOMAIN q[h] : i <= j => q[h][i] <= q[h][j]
    BY DEF Queue, Sorted
  <2>3. Judged(q, g, new)[h] > 0 => q[h][Judged(q, g, new)[h]] + g < new
    BY <2>1, <2>2, OverdueLast
  <2> QED
    BY <1>2, <2>3 DEF LastOverdue
<1> QED
  BY <1>1, <1>2

\* The last n of the entries x and f of the entries y of a hash are judged.
Judges(h, x, y, n, f) ==
    /\ Len(x) = 0 \/ Len(y) = 0
    /\ Trimmed(x, sent'[h], n) /\ Trimmed(y, recd'[h], f)
    /\ LastOverdue(x, n, drop_timeout, newest_b') /\ LastOverdue(y, f, skew, newest_a')
    /\ f > 0 => ready
    /\ forged'[h] = forged[h] + f /\ dropped'[h] = dropped[h] + n

\* Of the reported copies of a hash, m are cancelled by entries of q, which leaves
\* y, and c are added with the timestamp t to those of p, which makes x.
Cancels(h, p, q, t, m, c, x, y) ==
    /\ m \in Nat /\ c \in Nat
    /\ Trimmed(q, y, m) /\ Filled(p, x, c, t)
    /\ okay'[h] = okay[h] + m

\* Of a report, the packets that match are cancelled; if any are left, the other
\* side has nothing pending.
LEMMA OneSideLeft ==
    ASSUME NEW p, NEW q, NEW x, NEW y, NEW t, NEW m, NEW c, NEW b, b \in Nat,
           Trimmed(q, y, m), Filled(p, x, c, t), c = b - m, m = b \/ m = Len(q),
           Len(p) = 0 \/ Len(q) = 0
    PROVE  Len(x) = 0 \/ Len(y) = 0
<1>1. /\ Len(q) \in Nat /\ m \in Nat /\ m <= Len(q) /\ Len(y) = Len(q) - m
      /\ Len(p) \in Nat /\ c \in Nat /\ Len(x) = Len(p) + c
  BY DEF Trimmed, Filled
<1>2. CASE m = Len(q)
  BY <1>1, <1>2
<1>3. CASE m = b /\ m # Len(q)
  <2>1. Len(p) = 0 /\ c = 0
    BY <1>1, <1>3
  <2> QED
    BY <1>1, <2>1
<1> QED
  BY <1>2, <1>3

\* What a report from Alice does to the entries of one hash.
LEMMA SentEffect ==
    ASSUME Account, NEW t \in Nat, NEW b \in Count, ReportSent(t, b), NEW h \in Hash
    PROVE  \E m, c, x, y, n, f :
              /\ Cancels(h, sent[h], recd[h], t, m, c, x, y) /\ m + c = b[h]
              /\ Judges(h, x, y, n, f)
<1> DEFINE m    == Matched(b, recd)
           rest == Discard(recd, m)
           left == Left(b, m)
           all  == Enqueue(sent, left, t)
           f    == Judged(rest, skew, t)
           d    == Judged(all, drop_timeout, newest_b)
<1>1. /\ t >= newest_a /\ newest_a' = t /\ newest_b' = newest_b
      /\ recd' = Discard(rest, f) /\ sent' = Discard(all, d)
      /\ okay' = Plus(okay, m) /\ forged' = Plus(forged, f) /\ dropped' = Plus(dropped, d)
  BY DEF ReportSent
<1>2. /\ sent \in Queue /\ recd \in Queue /\ skew \in Nat /\ drop_timeout \in Nat
      /\ newest_a \in Nat /\ newest_b \in Nat
      /\ okay \in Count /\ forged \in Count /\ dropped \in Count
      /\ Len(sent[h]) = 0 \/ Len(recd[h]) = 0
      /\ Sorted(sent, newest_a) /\ Sorted(recd, newest_b)
  BY StateTypes DEF Account, Chronological
<1>3. /\ m \in Count
      /\ \A g \in Hash : m[g] <= b[g] /\ m[g] <= Len(recd[g])
      /\ m[h] = b[h] \/ m[h] = Len(recd[h])
  BY <1>2, MatchedBounds
<1>4. left \in Count /\ left[h] = b[h] - m[h] /\ m[h] \in Nat /\ b[h] \in Nat /\ left[h] \in Nat
  BY <1>3, LeftSubtracts DEF Count
<1>5. rest \in Queue /\ Sorted(rest, newest_b)
  BY <1>2, <1>3, DiscardKeeps, DiscardSorted
<1>6. all \in Queue /\ Sorted(all, t)
  BY <1>1, <1>2, <1>4, EnqueueAppends, EnqueueSorted
<1>7. /\ f \in Count /\ \A g \in Hash : f[g] <= Len(rest[g])
      /\ LastOverdue(rest[h], f[h], skew, t)
      /\ f[h] > 0 => ready
  BY <1>2, <1>5, JudgedBounds, JudgedIsOverdue
<1>8. /\ d \in Count /\ \A g \in Hash : d[g] <= Len(all[g])
      /\ LastOverdue(all[h], d[h], drop_timeout, newest_b)
  BY <1>2, <1>6, JudgedBounds, JudgedIsOverdue
<1>9. Trimmed(recd[h], rest[h], m[h])
  BY <1>2, <1>3, DiscardTrims
<1>10. Filled(sent[h], all[h], left[h], t)
  BY <1>2, <1>4, EnqueueFills
<1> HIDE DEF m, rest, left, all, f, d
<1>11. Trimmed(rest[h], recd'[h], f[h]) /\ Trimmed(all[h], sent'[h], d[h])
  BY <1>1, <1>5, <1>6, <1>7, <1>8, DiscardTrims
<1>12. okay'[h] = okay[h] + m[h] /\ forged'[h] = forged[h] + f[h] /\ dropped'[h] = dropped[h] + d[h]
  BY <1>1, <1>2, <1>3, <1>7, <1>8, PlusAdds
<1>13. Len(all[h]) = 0 \/ Len(rest[h]) = 0
  BY <1>2, <1>3, <1>4, <1>9, <1>10, OneSideLeft
<1>14. Cancels(h, sent[h], recd[h], t, m[h], left[h], all[h], rest[h]) /\ m[h] + left[h] = b[h]
  BY <1>4, <1>9, <1>10, <1>12 DEF Cancels
<1>15. Judges(h, all[h], rest[h], d[h], f[h])
  BY <1>1, <1>7, <1>8, <1>11, <1>12, <1>13 DEF Judges
<1> QED
  BY <1>14, <1>15

\* What a report from Bob does to them.
LEMMA RecdEffect ==
    ASSUME Account, NEW t \in Nat, NEW b \in Count, ReportRecd(t, b), NEW h \in Hash
    PROVE  \E m, c, x, y, n, f :
              /\ Cancels(h, recd[h], sent[h], t, m, c, y, x) /\ m + c = b[h]
              /\ Judges(h, x, y, n, f)
<1> DEFINE m    == Matched(b, sent)
           rest == Discard(sent, m)
           left == Left(b, m)
           all  == Enqueue(recd, left, t)
           f    == Judged(all, skew, newest_a)
<1>1. /\ t >= newest_b /\ newest_b' = t /\ newest_a' = newest_a
      /\ recd' = Discard(all, f) /\ sent' = rest
      /\ okay' = Plus(okay, m) /\ forged' = Plus(forged, f) /\ dropped' = dropped
  BY DEF ReportRecd
<1>2. /\ sent \in Queue /\ recd \in Queue /\ skew \in Nat
      /\ newest_a \in Nat /\ newest_b \in Nat
      /\ okay \in Count /\ forged \in Count /\ dropped \in Count
      /\ Len(recd[h]) = 0 \/ Len(sent[h]) = 0
      /\ Sorted(sent, newest_a) /\ Sorted(recd, newest_b)
  BY StateTypes DEF Account, Chronological
<1>3. /\ m \in Count
      /\ \A g \in Hash : m[g] <= b[g] /\ m[g] <= Len(sent[g])
      /\ m[h] = b[h] \/ m[h] = Len(sent[h])
  BY <1>2, MatchedBounds
<1>4. left \in Count /\ left[h] = b[h] - m[h] /\ m[h] \in Nat /\ b[h] \in Nat /\ left[h] \in Nat
  BY <1>3, LeftSubtracts DEF Count
<1>5. all \in Queue /\ Sorted(all, t)
  BY <1>1, <1>2, <1>4, EnqueueAppends, EnqueueSorted
<1>6. /\ f \in Count /\ \A g \in Hash : f[g] <= Len(all[g])
      /\ LastOverdue(all[h], f[h], skew, newest_a)
      /\ f[h] > 0 => ready
  BY <1>2, <1>5, JudgedBounds, JudgedIsOverdue
<1>7. Trimmed(sent[h], rest[h], m[h])
  BY <1>2, <1>3, DiscardTrims
<1>8. Filled(recd[h], all[h], left[h], t)
  BY <1>2, <1>4, EnqueueFills
<1> HIDE DEF m, rest, left, all, f
<1>9. Trimmed(all[h], recd'[h], f[h])
  BY <1>1, <1>5, <1>6, DiscardTrims
<1>10. /\ okay'[h] = okay[h] + m[h] /\ forged'[h] = forged[h] + f[h]
       /\ dropped'[h] = dropped[h] + 0
  <2>1. okay'[h] = okay[h] + m[h] /\ forged'[h] = forged[h] + f[h]
    BY <1>1, <1>2, <1>3, <1>6, PlusAdds
  <2>2. dropped'[h] = dropped[h] + 0
    BY <1>1, <1>2 DEF Count
  <2> QED
    BY <2>1, <2>2
<1>11. Len(rest[h]) = 0 \/ Len(all[h]) = 0
  BY <1>2, <1>3, <1>4, <1>7, <1>8, OneSideLeft
<1>12. Cancels(h, recd[h], sent[h], t, m[h], left[h], all[h], rest[h]) /\ m[h] + left[h] = b[h]
  BY <1>4, <1>7, <1>8, <1>10 DEF Cancels
<1>13. Trimmed(rest[h], sent'[h], 0) /\ LastOverdue(rest[h], 0, drop_timeout, newest_b')
  <2>1. Len(rest[h]) \in Nat
    BY <1>7 DEF Trimmed
  <2> QED
    BY <1>1, <2>1 DEF Trimmed, LastOverdue
<1>14. Judges(h, rest[h], all[h], 0, f[h])
  BY <1>1, <1>6, <1>9, <1>10, <1>11, <1>13 DEF Judges
<1> QED
  BY <1>12, <1>14

\* What final judgement does to them.
LEMMA FinalEffect ==
    ASSUME Account, FinalJudgement, NEW h \in Hash
    PROVE  /\ \E n, f : Judges(h, sent[h], recd[h], n, f)
           /\ okay' = okay
<1> DEFINE f == Judged(recd, skew, Infinity)
           d == Judged(sent, drop_timeout, Infinity)
<1>1. /\ newest_a' = Infinity /\ newest_b' = Infinity
      /\ recd' = Discard(recd, f) /\ sent' = Discard(sent, d)
      /\ forged' = Plus(forged, f) /\ dropped' = Plus(dropped, d) /\ okay' = okay
  BY DEF FinalJudgement
<1>2. /\ sent \in Queue /\ recd \in Queue /\ skew \in Nat /\ drop_timeout \in Nat
      /\ forged \in Count /\ dropped \in Count
      /\ Len(sent[h]) = 0 \/ Len(recd[h]) = 0
      /\ Sorted(sent, newest_a) /\ Sorted(recd, newest_b)
  BY StateTypes DEF Account, Chronological
<1>3. Infinity \in Nat
  BY LedgerConstants
<1>4. /\ f \in Count /\ \A g \in Hash : f[g] <= Len(recd[g])
      /\ LastOverdue(recd[h], f[h], skew, Infinity)
      /\ f[h] > 0 => ready
  BY <1>2, <1>3, JudgedBounds, JudgedIsOverdue
<1>5. /\ d \in Count /\ \A g \in Hash : d[g] <= Len(sent[g])
      /\ LastOverdue(sent[h], d[h], drop_timeout, Infinity)
  BY <1>2, <1>3, JudgedBounds, JudgedIsOverdue
<1> HIDE DEF f, d
<1>6. Trimmed(recd[h], recd'[h], f[h]) /\ Trimmed(sent[h], sent'[h], d[h])
  BY <1>1, <1>2, <1>4, <1>5, DiscardTrims
<1>7. forged'[h] = forged[h] + f[h] /\ dropped'[h] = dropped[h] + d[h]
  BY <1>1, <1>2, <1>4, <1>5, PlusAdds
<1>8. Judges(h, sent[h], recd[h], d[h], f[h])
  BY <1>1, <1>2, <1>4, <1>5, <1>6, <1>7 DEF Judges
<1> QED
  BY <1>1, <1>8

\* What a client reports next was captured when its queue says or later.
LEMMA NextIsUpcoming ==
    ASSUME NEW q, NEW top, Queued(q, top), NEW h, NEW n \in Nat, NEW at, NEW e,
           Stamped(q, h, n, at, e), NEW newest, newest \in Nat, Recent(q, newest),
           e \in Nat, \A i \in Nat : at[i] \in Nat
    PROVE  Upcoming(n, n + Copies(q, h, Len(q)), at, e, newest)
<1> SUFFICES ASSUME n < n + Copies(q, h, Len(q))
             PROVE  newest <= at[n + 1] + e
  BY DEF Upcoming
<1>1. q \in Seq(Captures) /\ Len(q) \in Nat
  BY DEF Queued
<1>2. Copies(q, h, Len(q)) \in Nat /\ Copies(q, h, 0) = 0
  BY <1>1, CopiesCount
<1>3. 1 <= Copies(q, h, Len(q))
  BY <1>2
<1>4. Len(q) # 0
  BY <1>2, <1>3
<1>5. 1 \in 1..Len(q) /\ 1 - 1 = 0
  BY <1>1, <1>4
<1>6. q[1][2] <= at[n + 1] + e
  BY <1>2, <1>3, <1>5 DEF Stamped
<1>7. newest <= q[1][2] /\ q[1][2] \in Nat
  <2>1. q[1] \in Captures
    BY <1>1, <1>5
  <2> QED
    BY <1>5, <2>1 DEF Recent, Captures
<1>8. at[n + 1] \in Nat
  OBVIOUS
<1> QED
  BY <1>6, <1>7, <1>8

\* The verdicts on a hash are true when they rest on what the account says.
LEMMA JudgesTruly ==
    ASSUME World, Account, Account', NEW h \in Hash,
           NEW out, NEW gone, NEW in, NEW fake, NEW sends, NEW through, NEW caught,
           Fates(out, gone, in, fake, sends, through, caught, now),
           NEW x, NEW y, NEW n, NEW f, Judges(h, x, y, n, f),
           Claims(out, gone, in, fake, err_a, err_b, x, y, okay'[h], forged[h], dropped[h]),
           okay'[h] + dropped[h] + Len(x) <= sends, okay'[h] + forged[h] + Len(y) <= caught,
           Upcoming(okay'[h] + dropped[h] + Len(x), sends, out, err_a, newest_a'),
           Upcoming(okay'[h] + forged[h] + Len(y), caught, in, err_b, newest_b'),
           through < sends => newest_b' <= now + err_b
    PROVE  Claims(out, gone, in, fake, err_a, err_b, sent'[h], recd'[h], okay'[h], forged'[h], dropped'[h])
<1>1. /\ err_a \in 0..MaxError /\ err_b \in 0..MaxError
      /\ ready => MaxError <= skew
  BY EndToEndConstants DEF World
<1>2. forged[h] \in Nat /\ dropped[h] \in Nat /\ skew \in Nat
  BY StateTypes DEF Count
<1>3. okay'[h] \in Nat /\ newest_a' \in Nat /\ newest_b' \in Nat
  BY DEF Account, TypeOK, Count
<1>4. /\ Len(x) = 0 \/ Len(y) = 0
      /\ Trimmed(x, sent'[h], n) /\ Trimmed(y, recd'[h], f)
      /\ LastOverdue(x, n, drop_timeout, newest_b') /\ LastOverdue(y, f, skew, newest_a')
      /\ f > 0 => MaxError <= skew
      /\ forged'[h] = forged[h] + f /\ dropped'[h] = dropped[h] + n
  BY <1>1 DEF Judges
<1>5. Claims(out, gone, in, fake, err_a, err_b, sent'[h], recd'[h], okay'[h], forged[h] + f, dropped[h] + n)
  BY <1>1, <1>2, <1>3, <1>4, VerdictsAreTrue
<1> QED
  BY <1>4, <1>5

\* The batch and the timestamp of a report.
LEMMA ReportParts ==
    ASSUME NEW q, NEW top, Queued(q, top), NEW k \in DOMAIN q
    PROVE  /\ StampOf(q, k) \in Nat /\ StampOf(q, k) = q[k][2] /\ StampOf(q, k) <= top
           /\ BatchOf(q, k) \in Count /\ \A h \in Hash : BatchOf(q, k)[h] = Copies(q, h, k)
           /\ k \in Nat /\ k \in 1..Len(q)
<1>1. q \in Seq(Captures) /\ Len(q) \in Nat /\ DOMAIN q = 1..Len(q)
  BY DEF Queued
<1>2. k \in 1..Len(q) /\ k \in Nat /\ q[k] \in Captures
  BY <1>1
<1>3. q[k][2] \in Nat /\ q[k][2] <= top
  BY <1>2 DEF Captures, Queued
<1>4. \A h \in Hash : Copies(q, h, k) \in Nat
  BY <1>2, CopiesCount
<1>5. BatchOf(q, k) = [h \in Hash |-> Copies(q, h, k)]
  BY DEF BatchOf, Copies
<1>6. BatchOf(q, k) \in Count /\ \A h \in Hash : BatchOf(q, k)[h] = Copies(q, h, k)
  BY <1>4, <1>5 DEF Count
<1> QED
  BY <1>2, <1>3, <1>6 DEF StampOf

\* What is left in a queue after a report is as new as the report.
LEMMA RecentAfter ==
    ASSUME NEW q, NEW p, NEW k, NEW top, Shorter(q, p, k, top)
    PROVE  Recent(p, q[k][2])
BY DEF Shorter, Recent

\* What a report moves from the copies pending to those cancelled.
LEMMA SumsMoved ==
    ASSUME NEW o, NEW d, NEW f, NEW l, NEW r, NEW m, NEW c, NEW b, NEW s, NEW t,
           o \in Nat, d \in Nat, f \in Nat, l \in Nat, r \in Nat, m \in Nat, c \in Nat,
           m + c = b, s = o + d + l, t = o + f + r
    PROVE  (o + m) + d + (l + c) = s + b /\ (o + m) + f + (r - m) = t
OBVIOUS

\* Alice reports.
LEMMA ReportAExplained ==
    ASSUME Account, Account', World, NEW k \in DOMAIN queue_a, ReportA(k),
           NEW h \in Hash, NEW out, NEW gone, NEW in, NEW fake, Explained(h, out, gone, in, fake)
    PROVE  Explained(h, out, gone, in, fake)'
<1> DEFINE t == StampOf(queue_a, k)
           b == BatchOf(queue_a, k)
<1>1. /\ ReportSent(t, b)
      /\ queue_a' = SubSeq(queue_a, k + 1, Len(queue_a))
      /\ now' = now /\ err_a' = err_a /\ err_b' = err_b /\ wire' = wire /\ queue_b' = queue_b
      /\ lost' = lost /\ injected' = injected
  BY DEF ReportA
<1>2. Queued(queue_a, now + err_a) /\ Queued(queue_b, now + err_b) /\ err_a \in Nat /\ err_b \in Nat
  BY DEF World
<1>3. /\ t \in Nat /\ t = queue_a[k][2]
      /\ b \in Count /\ b[h] = Copies(queue_a, h, k)
      /\ k \in Nat /\ k \in 1..Len(queue_a)
  BY <1>2, ReportParts
<1> HIDE DEF t, b
<1>4. Shorter(queue_a, queue_a', k, now + err_a)
  BY <1>1, <1>2, ReportTakes
<1>5. /\ ~finalized /\ newest_a' = t /\ newest_b' = newest_b
      /\ total_sent' = Plus(total_sent, b) /\ total_recd' = total_recd
  BY <1>1 DEF ReportSent
<1>6. /\ SentOf(h) \in Nat /\ ThroughOf(h) \in Nat /\ CaughtOf(h) \in Nat
      /\ total_sent[h] \in Nat /\ total_recd[h] \in Nat
      /\ okay[h] \in Nat /\ forged[h] \in Nat /\ dropped[h] \in Nat
      /\ Len(sent[h]) \in Nat /\ Len(recd[h]) \in Nat
      /\ total_sent[h] = okay[h] + dropped[h] + Len(sent[h])
      /\ total_recd[h] = okay[h] + forged[h] + Len(recd[h])
      /\ total_recd[h] <= CaughtOf(h)
  BY Numbers
<1>7. Counts(gone) /\ Counts(fake) /\ \A n \in Nat : out[n] \in Nat /\ in[n] \in Nat
  BY Times
<1>8. total_sent'[h] = total_sent[h] + Copies(queue_a, h, k) /\ total_sent'[h] \in Nat
  <2>1. total_sent \in Count /\ b[h] \in Nat
    BY <1>3, StateTypes DEF Count
  <2>2. total_sent'[h] = total_sent[h] + b[h]
    BY <1>3, <1>5, <2>1, PlusAdds
  <2>3. total_sent'[h] = total_sent[h] + Copies(queue_a, h, k)
    BY <1>3, <2>2
  <2>4. total_sent[h] + b[h] \in Nat
    BY <1>6, <2>1, SMTT(30)
  <2> QED
    BY <2>2, <2>3, <2>4
<1>9. SentOf(h)' = SentOf(h) /\ total_sent'[h] + Copies(queue_a', h, Len(queue_a')) = SentOf(h)
  <2>1. /\ Len(queue_a') \in 0..Len(queue_a') /\ k + Len(queue_a') = Len(queue_a)
    <3>1. /\ Len(queue_a') \in Nat /\ Len(queue_a) \in Nat /\ k \in Nat
          /\ Len(queue_a') = Len(queue_a) - k
      BY <1>2, <1>3, <1>4 DEF Shorter, Queued
    <3>2. ASSUME NEW u \in Nat, NEW v \in Nat, NEW w \in Nat, u = v - w
          PROVE  u \in 0..u /\ w + u = v
      BY <3>2
    <3> QED
      BY <3>1, <3>2
  <2>2. /\ Copies(queue_a, h, k) \in Nat /\ Copies(queue_a', h, Len(queue_a')) \in Nat
        /\ Copies(queue_a', h, Len(queue_a')) + Copies(queue_a, h, k) = Copies(queue_a, h, Len(queue_a))
    BY <1>4, <2>1, CopiesShorter
  <2>3. SentOf(h) = total_sent[h] + Copies(queue_a, h, Len(queue_a))
    BY DEF SentOf
  <2>4. SentOf(h)' = total_sent'[h] + Copies(queue_a', h, Len(queue_a'))
    BY DEF SentOf
  <2> QED
    BY <1>6, <1>8, <2>2, <2>3, <2>4
<1>10. ThroughOf(h)' = ThroughOf(h) /\ CaughtOf(h)' = CaughtOf(h)
  BY <1>1, <1>5, <1>9 DEF ThroughOf, CaughtOf
<1>11. Stamped(queue_a, h, total_sent[h], out, err_a) /\ Stamped(queue_b, h, total_recd[h], in, err_b)
  BY DEF Explained
<1>12. Stamped(queue_a', h, total_sent'[h], out, err_a)
  BY <1>2, <1>4, <1>6, <1>8, <1>11, StampedReport
<1>13. PICK m, c, x, y, n, f :
          /\ Cancels(h, sent[h], recd[h], t, m, c, x, y) /\ m + c = b[h]
          /\ Judges(h, x, y, n, f)
  BY <1>1, <1>3, SentEffect
<1>14. /\ m \in Nat /\ c \in Nat /\ m + c = Copies(queue_a, h, k)
       /\ Trimmed(recd[h], y, m) /\ Filled(sent[h], x, c, t) /\ okay'[h] = okay[h] + m
       /\ Len(x) = Len(sent[h]) + c /\ Len(y) = Len(recd[h]) - m
  BY <1>3, <1>13 DEF Cancels, Trimmed, Filled
<1>15. Claims(out, gone, in, fake, err_a, err_b, x, y, okay'[h], forged[h], dropped[h])
  <2>1. Claims(out, gone, in, fake, err_a, err_b, sent[h], recd[h], okay[h], forged[h], dropped[h])
    BY DEF Explained
  <2>2. ASSUME NEW i \in 1..(m + c)
        PROVE  out[okay[h] + dropped[h] + Len(sent[h]) + i] + err_a <= t
    <3>1. i \in Nat /\ 1 <= i /\ i <= Copies(queue_a, h, k)
      BY <1>14
    <3>2. out[total_sent[h] + i] + err_a <= queue_a[k][2]
      BY <1>3, <1>11, <3>1 DEF Stamped
    <3> QED
      BY <1>3, <1>6, <3>2
  <2>3. Len(sent[h]) = 0 \/ Len(recd[h]) = 0
    BY StateTypes
  <2>4. Claims(out, gone, in, fake, err_a, err_b, x, y, okay[h] + m, forged[h], dropped[h])
    BY <1>3, <1>6, <1>7, <1>14, <2>1, <2>2, <2>3, ClaimsSent
  <2> QED
    BY <1>14, <2>4
<1>16. /\ okay'[h] + dropped[h] + Len(x) = total_sent'[h]
       /\ okay'[h] + forged[h] + Len(y) = total_recd[h]
  <2>1. /\ (okay[h] + m) + dropped[h] + (Len(sent[h]) + c) = total_sent[h] + Copies(queue_a, h, k)
        /\ (okay[h] + m) + forged[h] + (Len(recd[h]) - m) = total_recd[h]
    <3>1. /\ okay[h] \in Nat /\ dropped[h] \in Nat /\ forged[h] \in Nat
          /\ Len(sent[h]) \in Nat /\ Len(recd[h]) \in Nat /\ m \in Nat /\ c \in Nat
      BY <1>6, <1>14
    <3>2. m + c = Copies(queue_a, h, k)
      BY <1>14
    <3>3. total_sent[h] = okay[h] + dropped[h] + Len(sent[h])
      BY <1>6
    <3>4. total_recd[h] = okay[h] + forged[h] + Len(recd[h])
      BY <1>6
    <3> QED
      BY <3>1, <3>2, <3>3, <3>4, SumsMoved, SMTT(30)
  <2> QED
    BY <1>8, <1>14, <2>1
<1>17. total_sent'[h] <= SentOf(h)
  <2>1. Copies(queue_a', h, Len(queue_a')) \in Nat
    <3>1. Len(queue_a') \in Nat
      BY <1>4 DEF Shorter
    <3> QED
      BY <3>1, CopiesCount
  <2> QED
    BY <1>6, <1>8, <1>9, <2>1
<1>18. Upcoming(total_sent'[h], SentOf(h), out, err_a, newest_a')
  <2>1. Recent(queue_a', newest_a') /\ Queued(queue_a', now + err_a)
    BY <1>3, <1>4, <1>5, RecentAfter DEF Shorter
  <2>2. Upcoming(total_sent'[h], total_sent'[h] + Copies(queue_a', h, Len(queue_a')), out, err_a, newest_a')
    BY <1>2, <1>3, <1>5, <1>7, <1>8, <1>12, <2>1, NextIsUpcoming
  <2> QED
    BY <1>9, <2>2
<1>19. Upcoming(total_recd[h], CaughtOf(h), in, err_b, newest_b') /\ newest_b' <= now + err_b
  <2>1. Recent(queue_b, newest_b) /\ newest_b <= now + err_b /\ newest_b \in Nat
    BY <1>5, StateTypes DEF World, InStep
  <2>2. Upcoming(total_recd[h], total_recd[h] + Copies(queue_b, h, Len(queue_b)), in, err_b, newest_b)
    BY <1>2, <1>6, <1>7, <1>11, <2>1, NextIsUpcoming
  <2> QED
    BY <1>5, <2>1, <2>2 DEF CaughtOf
<1>20. Fates(out, gone, in, fake, SentOf(h), ThroughOf(h), CaughtOf(h), now)
  BY DEF Explained
<1>21. Claims(out, gone, in, fake, err_a, err_b, sent'[h], recd'[h], okay'[h], forged'[h], dropped'[h])
  BY <1>6, <1>13, <1>15, <1>16, <1>17, <1>18, <1>19, <1>20, JudgesTruly
<1> QED
  BY <1>1, <1>5, <1>9, <1>10, <1>12, <1>21 DEF Explained

\* Bob reports.
LEMMA ReportBExplained ==
    ASSUME Account, Account', World, NEW k \in DOMAIN queue_b, ReportB(k),
           NEW h \in Hash, NEW out, NEW gone, NEW in, NEW fake, Explained(h, out, gone, in, fake)
    PROVE  Explained(h, out, gone, in, fake)'
<1> DEFINE t == StampOf(queue_b, k)
           b == BatchOf(queue_b, k)
<1>1. /\ ReportRecd(t, b)
      /\ queue_b' = SubSeq(queue_b, k + 1, Len(queue_b))
      /\ now' = now /\ err_a' = err_a /\ err_b' = err_b /\ wire' = wire /\ queue_a' = queue_a
      /\ lost' = lost /\ injected' = injected
  BY DEF ReportB
<1>2. Queued(queue_a, now + err_a) /\ Queued(queue_b, now + err_b) /\ err_a \in Nat /\ err_b \in Nat
  BY DEF World
<1>3. /\ t \in Nat /\ t = queue_b[k][2] /\ t <= now + err_b
      /\ b \in Count /\ b[h] = Copies(queue_b, h, k)
      /\ k \in Nat /\ k \in 1..Len(queue_b)
  BY <1>2, ReportParts
<1> HIDE DEF t, b
<1>4. Shorter(queue_b, queue_b', k, now + err_b)
  BY <1>1, <1>2, ReportTakes
<1>5. /\ ~finalized /\ newest_b' = t /\ newest_a' = newest_a
      /\ total_recd' = Plus(total_recd, b) /\ total_sent' = total_sent
  BY <1>1 DEF ReportRecd
<1>6. /\ SentOf(h) \in Nat /\ ThroughOf(h) \in Nat /\ CaughtOf(h) \in Nat
      /\ total_sent[h] \in Nat /\ total_recd[h] \in Nat
      /\ okay[h] \in Nat /\ forged[h] \in Nat /\ dropped[h] \in Nat
      /\ Len(sent[h]) \in Nat /\ Len(recd[h]) \in Nat
      /\ total_sent[h] = okay[h] + dropped[h] + Len(sent[h])
      /\ total_recd[h] = okay[h] + forged[h] + Len(recd[h])
      /\ total_sent[h] <= SentOf(h)
  BY Numbers
<1>7. Counts(gone) /\ Counts(fake) /\ \A n \in Nat : out[n] \in Nat /\ in[n] \in Nat
  BY Times
<1>8. total_recd'[h] = total_recd[h] + Copies(queue_b, h, k) /\ total_recd'[h] \in Nat
  <2>1. total_recd \in Count /\ b[h] \in Nat
    BY <1>3, StateTypes DEF Count
  <2>2. total_recd'[h] = total_recd[h] + b[h]
    BY <1>3, <1>5, <2>1, PlusAdds
  <2>3. total_recd'[h] = total_recd[h] + Copies(queue_b, h, k)
    BY <1>3, <2>2
  <2>4. total_recd[h] + b[h] \in Nat
    BY <1>6, <2>1
  <2> QED
    BY <2>2, <2>3, <2>4
<1>9. CaughtOf(h)' = CaughtOf(h) /\ total_recd'[h] + Copies(queue_b', h, Len(queue_b')) = CaughtOf(h)
  <2>1. /\ Len(queue_b') \in 0..Len(queue_b') /\ k + Len(queue_b') = Len(queue_b)
    <3>1. /\ Len(queue_b') \in Nat /\ Len(queue_b) \in Nat /\ k \in Nat
          /\ Len(queue_b') = Len(queue_b) - k
      BY <1>2, <1>3, <1>4 DEF Shorter, Queued
    <3>2. ASSUME NEW u \in Nat, NEW v \in Nat, NEW w \in Nat, u = v - w
          PROVE  u \in 0..u /\ w + u = v
      BY <3>2
    <3> QED
      BY <3>1, <3>2
  <2>2. /\ Copies(queue_b, h, k) \in Nat /\ Copies(queue_b', h, Len(queue_b')) \in Nat
        /\ Copies(queue_b', h, Len(queue_b')) + Copies(queue_b, h, k) = Copies(queue_b, h, Len(queue_b))
    BY <1>4, <2>1, CopiesShorter
  <2>3. CaughtOf(h) = total_recd[h] + Copies(queue_b, h, Len(queue_b))
    BY DEF CaughtOf
  <2>4. CaughtOf(h)' = total_recd'[h] + Copies(queue_b', h, Len(queue_b'))
    BY DEF CaughtOf
  <2> QED
    BY <1>6, <1>8, <2>2, <2>3, <2>4
<1>10. SentOf(h)' = SentOf(h)
  BY <1>1, <1>5 DEF SentOf
<1>11. ThroughOf(h)' = ThroughOf(h)
  BY <1>1, <1>10 DEF ThroughOf
<1>12. Stamped(queue_a, h, total_sent[h], out, err_a) /\ Stamped(queue_b, h, total_recd[h], in, err_b)
  BY DEF Explained
<1>13. Stamped(queue_b', h, total_recd'[h], in, err_b)
  BY <1>2, <1>4, <1>6, <1>8, <1>12, StampedReport
<1>14. PICK m, c, x, y, n, f :
          /\ Cancels(h, recd[h], sent[h], t, m, c, y, x) /\ m + c = b[h]
          /\ Judges(h, x, y, n, f)
  BY <1>1, <1>3, RecdEffect
<1>15. /\ m \in Nat /\ c \in Nat /\ m + c = Copies(queue_b, h, k)
       /\ Trimmed(sent[h], x, m) /\ Filled(recd[h], y, c, t) /\ okay'[h] = okay[h] + m
       /\ Len(y) = Len(recd[h]) + c /\ Len(x) = Len(sent[h]) - m
  BY <1>3, <1>14 DEF Cancels, Trimmed, Filled
<1>16. Claims(out, gone, in, fake, err_a, err_b, x, y, okay'[h], forged[h], dropped[h])
  <2>1. Claims(out, gone, in, fake, err_a, err_b, sent[h], recd[h], okay[h], forged[h], dropped[h])
    BY DEF Explained
  <2>2. ASSUME NEW i \in 1..(m + c)
        PROVE  in[okay[h] + forged[h] + Len(recd[h]) + i] + err_b <= t
    <3>1. i \in Nat /\ 1 <= i /\ i <= Copies(queue_b, h, k)
      BY <1>15
    <3>2. in[total_recd[h] + i] + err_b <= queue_b[k][2]
      BY <1>3, <1>12, <3>1 DEF Stamped
    <3> QED
      BY <1>3, <1>6, <3>2
  <2>3. Len(sent[h]) = 0 \/ Len(recd[h]) = 0
    BY StateTypes
  <2>4. Claims(out, gone, in, fake, err_a, err_b, x, y, okay[h] + m, forged[h], dropped[h])
    BY <1>3, <1>6, <1>7, <1>15, <2>1, <2>2, <2>3, ClaimsRecd
  <2> QED
    BY <1>15, <2>4
<1>17. /\ okay'[h] + dropped[h] + Len(x) = total_sent[h]
       /\ okay'[h] + forged[h] + Len(y) = total_recd'[h]
  <2>1. /\ (okay[h] + m) + forged[h] + (Len(recd[h]) + c) = total_recd[h] + Copies(queue_b, h, k)
        /\ (okay[h] + m) + dropped[h] + (Len(sent[h]) - m) = total_sent[h]
    <3>1. /\ okay[h] \in Nat /\ dropped[h] \in Nat /\ forged[h] \in Nat
          /\ Len(sent[h]) \in Nat /\ Len(recd[h]) \in Nat /\ m \in Nat /\ c \in Nat
      BY <1>6, <1>15
    <3>2. m + c = Copies(queue_b, h, k)
      BY <1>15
    <3>3. total_sent[h] = okay[h] + dropped[h] + Len(sent[h])
      BY <1>6
    <3>4. total_recd[h] = okay[h] + forged[h] + Len(recd[h])
      BY <1>6
    <3>5. PICK o, d, f0, l, r : /\ o = okay[h] /\ d = forged[h] /\ f0 = dropped[h]
                                /\ l = Len(recd[h]) /\ r = Len(sent[h])
      OBVIOUS
    <3>6. /\ o \in Nat /\ d \in Nat /\ f0 \in Nat /\ l \in Nat /\ r \in Nat /\ m \in Nat /\ c \in Nat
          /\ total_recd[h] = o + d + l /\ total_sent[h] = o + f0 + r
      BY <3>1, <3>3, <3>4, <3>5
    <3>7. /\ (o + m) + d + (l + c) = total_recd[h] + Copies(queue_b, h, k)
          /\ (o + m) + f0 + (r - m) = total_sent[h]
      BY <3>2, <3>6, SumsMoved
    <3> QED
      BY <3>5, <3>7
  <2> QED
    BY <1>8, <1>15, <2>1
<1>18. total_recd'[h] <= CaughtOf(h)
  <2>1. Copies(queue_b', h, Len(queue_b')) \in Nat
    <3>1. Len(queue_b') \in Nat
      BY <1>4 DEF Shorter
    <3> QED
      BY <3>1, CopiesCount
  <2> QED
    BY <1>6, <1>8, <1>9, <2>1
<1>19. Upcoming(total_recd'[h], CaughtOf(h), in, err_b, newest_b') /\ newest_b' <= now + err_b
  <2>1. Recent(queue_b', newest_b') /\ Queued(queue_b', now + err_b)
    BY <1>3, <1>4, <1>5, RecentAfter DEF Shorter
  <2>2. Upcoming(total_recd'[h], total_recd'[h] + Copies(queue_b', h, Len(queue_b')), in, err_b, newest_b')
    BY <1>2, <1>3, <1>5, <1>7, <1>8, <1>13, <2>1, NextIsUpcoming
  <2> QED
    BY <1>3, <1>5, <1>9, <2>2
<1>20. Upcoming(total_sent[h], SentOf(h), out, err_a, newest_a')
  <2>1. Recent(queue_a, newest_a) /\ newest_a \in Nat
    BY <1>5, StateTypes DEF World, InStep
  <2>2. Upcoming(total_sent[h], total_sent[h] + Copies(queue_a, h, Len(queue_a)), out, err_a, newest_a)
    BY <1>2, <1>6, <1>7, <1>12, <2>1, NextIsUpcoming
  <2> QED
    BY <1>5, <2>2 DEF SentOf
<1>21. Fates(out, gone, in, fake, SentOf(h), ThroughOf(h), CaughtOf(h), now)
  BY DEF Explained
<1>22. Claims(out, gone, in, fake, err_a, err_b, sent'[h], recd'[h], okay'[h], forged'[h], dropped'[h])
  BY <1>6, <1>14, <1>16, <1>17, <1>18, <1>19, <1>20, <1>21, JudgesTruly
<1> QED
  BY <1>1, <1>5, <1>9, <1>10, <1>11, <1>13, <1>22 DEF Explained

\* Everything is judged when the queues and the wires are empty.
LEMMA JudgeExplained ==
    ASSUME Account, Account', World, Judge,
           NEW h \in Hash, NEW out, NEW gone, NEW in, NEW fake, Explained(h, out, gone, in, fake)
    PROVE  Explained(h, out, gone, in, fake)'
<1>1. /\ FinalJudgement
      /\ queue_a = <<>> /\ queue_b = <<>> /\ wire[h] = <<>>
      /\ now' = now /\ err_a' = err_a /\ err_b' = err_b /\ wire' = wire
      /\ queue_a' = queue_a /\ queue_b' = queue_b /\ lost' = lost /\ injected' = injected
      /\ total_sent' = total_sent /\ total_recd' = total_recd
  BY DEF Judge, FinalJudgement, world, totals
<1>2. SentOf(h)' = SentOf(h) /\ CaughtOf(h)' = CaughtOf(h)
  BY <1>1 DEF SentOf, CaughtOf
<1>3. ThroughOf(h)' = ThroughOf(h)
  BY <1>1, <1>2 DEF ThroughOf
<1>4. /\ SentOf(h) \in Nat /\ ThroughOf(h) \in Nat /\ CaughtOf(h) \in Nat
      /\ total_sent[h] \in Nat /\ total_recd[h] \in Nat
      /\ okay[h] \in Nat /\ forged[h] \in Nat /\ dropped[h] \in Nat
      /\ Len(sent[h]) \in Nat /\ Len(recd[h]) \in Nat
      /\ total_sent[h] = okay[h] + dropped[h] + Len(sent[h])
      /\ total_recd[h] = okay[h] + forged[h] + Len(recd[h])
      /\ ThroughOf(h) + Len(wire[h]) = SentOf(h)
  BY Numbers
<1>5. Len(queue_a) = 0 /\ Len(queue_b) = 0 /\ Len(wire[h]) = 0
  BY <1>1
<1>6. SentOf(h) = total_sent[h] /\ CaughtOf(h) = total_recd[h] /\ ThroughOf(h) = SentOf(h)
  <2>1. Copies(queue_a, h, 0) = 0 /\ Copies(queue_b, h, 0) = 0
    BY CopiesCount
  <2>2. SentOf(h) = total_sent[h] + Copies(queue_a, h, Len(queue_a))
    BY DEF SentOf
  <2>3. CaughtOf(h) = total_recd[h] + Copies(queue_b, h, Len(queue_b))
    BY DEF CaughtOf
  <2>4. SentOf(h) = total_sent[h] /\ CaughtOf(h) = total_recd[h]
    BY <1>4, <1>5, <2>1, <2>2, <2>3
  <2>5. ThroughOf(h) = SentOf(h)
    BY <1>4, <1>5
  <2> QED
    BY <2>4, <2>5
<1>7. PICK n, f : Judges(h, sent[h], recd[h], n, f)
  BY <1>1, FinalEffect
<1>8. okay' = okay
  BY <1>1, FinalEffect
<1>9. Claims(out, gone, in, fake, err_a, err_b, sent[h], recd[h], okay'[h], forged[h], dropped[h])
  BY <1>8 DEF Explained
<1>10. /\ okay'[h] + dropped[h] + Len(sent[h]) = SentOf(h)
       /\ okay'[h] + forged[h] + Len(recd[h]) = CaughtOf(h)
  BY <1>4, <1>6, <1>8
<1>11. /\ ~(SentOf(h) < SentOf(h)) /\ SentOf(h) <= SentOf(h)
       /\ ~(CaughtOf(h) < CaughtOf(h)) /\ CaughtOf(h) <= CaughtOf(h)
       /\ ~(ThroughOf(h) < SentOf(h))
  BY <1>4, <1>6
<1>12. /\ Upcoming(SentOf(h), SentOf(h), out, err_a, newest_a')
       /\ Upcoming(CaughtOf(h), CaughtOf(h), in, err_b, newest_b')
  BY <1>11 DEF Upcoming
<1>13. Fates(out, gone, in, fake, SentOf(h), ThroughOf(h), CaughtOf(h), now)
  BY DEF Explained
<1>14. Claims(out, gone, in, fake, err_a, err_b, sent'[h], recd'[h], okay'[h], forged'[h], dropped'[h])
  BY <1>7, <1>9, <1>10, <1>11, <1>12, <1>13, JudgesTruly
<1> QED
  BY <1>1, <1>2, <1>3, <1>14 DEF Explained

-----------------------------------------------------------------------------
(* The invariant holds *)

\* A queue of packets that are not in the future stays one when time passes.
LEMMA QueuedLater ==
    ASSUME NEW q, NEW top \in Nat, NEW later \in Nat, top <= later, Queued(q, top)
    PROVE  Queued(q, later)
<1>1. q \in Seq(Captures)
  BY DEF Queued
<1>2. ASSUME NEW i \in 1..Len(q)
      PROVE  q[i][2] <= later
  <2>1. q[i] \in Captures
    BY <1>1
  <2>2. q[i][2] \in Nat /\ q[i][2] <= top
    BY <2>1 DEF Captures, Queued
  <2> QED
    BY <2>2
<1> QED
  BY <1>2 DEF Queued

\* A packet captured now is as new as what was reported before.
LEMMA CaptureKeeps ==
    ASSUME NEW q, NEW top \in Nat, Queued(q, top), NEW g \in Hash, NEW newest
    PROVE  /\ Queued(Capture(q, g, top), top)
           /\ Recent(q, newest) => (newest <= top => Recent(Capture(q, g, top), newest))
<1>1. top <= top
  OBVIOUS
<1>2. PICK p : p = Capture(q, g, top)
  OBVIOUS
<1>3. Longer(q, p, g, top)
  BY <1>1, <1>2, CaptureAppends
<1>4. ASSUME Recent(q, newest), newest <= top
      PROVE  Recent(p, newest)
  <2>1. /\ Len(q) \in Nat /\ Len(p) = Len(q) + 1
        /\ \A i \in 1..Len(q) : p[i] = q[i]
        /\ p[Len(q) + 1][2] = top
    BY <1>3 DEF Longer
  <2>2. ASSUME NEW i \in 1..Len(p)
        PROVE  newest <= p[i][2]
    <3>1. i \in 1..Len(q) \/ i = Len(q) + 1
      BY <2>1
    <3> QED
      BY <1>4, <2>1, <3>1 DEF Recent
  <2> QED
    BY <2>2 DEF Recent
<1>5. Queued(p, top)
  BY <1>3 DEF Longer
<1> QED
  BY <1>2, <1>4, <1>5

\* A step of the network or of a client's card keeps the world in order.
LEMMA NetworkKeeps ==
    ASSUME Account, World, NEW g \in Hash, Send(g) \/ Deliver(g) \/ Lose(g) \/ Inject(g)
    PROVE  World'
<1>1. /\ now \in Nat /\ err_a \in Nat /\ err_b \in Nat
      /\ now + err_a \in Nat /\ now + err_b \in Nat
      /\ wire \in Queue /\ lost \in Count /\ injected \in Count
      /\ Queued(queue_a, now + err_a) /\ Queued(queue_b, now + err_b)
  BY DEF World
<1>2. /\ ready' = ready /\ skew' = skew /\ finalized' = finalized
      /\ newest_a' = newest_a /\ newest_b' = newest_b
      /\ now' = now /\ err_a' = err_a /\ err_b' = err_b
  BY DEF Send, Deliver, Lose, Inject, vars, clocks
<1>3. wire' \in Queue
  <2>1. wire' = wire \/ wire' = [wire EXCEPT ![g] = Append(@, now)]
        \/ (wire[g] # <<>> /\ wire' = [wire EXCEPT ![g] = Tail(@)])
    BY DEF Send, Deliver, Lose, Inject
  <2>2. Append(wire[g], now) \in Seq(Nat) /\ (wire[g] # <<>> => Tail(wire[g]) \in Seq(Nat))
    BY <1>1 DEF Queue
  <2> QED
    BY <1>1, <2>1, <2>2 DEF Queue
<1>4. lost' \in Count /\ injected' \in Count
  <2>1. (lost' = lost \/ lost' = AddOne(lost, g)) /\ (injected' = injected \/ injected' = AddOne(injected, g))
    BY DEF Send, Deliver, Lose, Inject
  <2>2. AddOne(lost, g) \in Count /\ AddOne(injected, g) \in Count
    BY <1>1 DEF AddOne, Count
  <2> QED
    BY <1>1, <2>1, <2>2
<1>5. queue_a' = queue_a \/ queue_a' = Capture(queue_a, g, now + err_a)
  BY DEF Send, Deliver, Lose, Inject
<1>6. queue_b' = queue_b \/ queue_b' = Capture(queue_b, g, now + err_b)
  BY DEF Send, Deliver, Lose, Inject
<1>7. Queued(queue_a', now + err_a) /\ Queued(queue_b', now + err_b)
  BY <1>1, <1>5, <1>6, CaptureKeeps
<1>8. finalized \/ (/\ Recent(queue_a', newest_a) /\ newest_a <= now + err_a
                    /\ Recent(queue_b', newest_b) /\ newest_b <= now + err_b)
  BY <1>1, <1>5, <1>6, CaptureKeeps DEF World, InStep
<1> QED
  BY <1>2, <1>3, <1>4, <1>7, <1>8 DEF World, InStep

\* So does time.
LEMMA TickKeeps ==
    ASSUME Account, World, Tick
    PROVE  World'
<1>1. /\ now \in Nat /\ err_a \in Nat /\ err_b \in Nat /\ Horizon \in Nat
      /\ now + err_a \in Nat /\ now + err_b \in Nat
      /\ Queued(queue_a, now + err_a) /\ Queued(queue_b, now + err_b)
  BY LedgerConstants DEF World
<1>2. /\ now < Horizon /\ now' = now + 1
      /\ ready' = ready /\ skew' = skew /\ finalized' = finalized
      /\ newest_a' = newest_a /\ newest_b' = newest_b
      /\ err_a' = err_a /\ err_b' = err_b /\ wire' = wire
      /\ queue_a' = queue_a /\ queue_b' = queue_b /\ lost' = lost /\ injected' = injected
  BY DEF Tick, vars, clocks
<1>3. /\ now + 1 \in Nat /\ now + 1 <= Horizon
      /\ now + 1 + err_a \in Nat /\ now + err_a <= now + 1 + err_a
      /\ now + 1 + err_b \in Nat /\ now + err_b <= now + 1 + err_b
  BY <1>1, <1>2
<1>4. Queued(queue_a, now + 1 + err_a) /\ Queued(queue_b, now + 1 + err_b)
  BY <1>1, <1>3, QueuedLater
<1>5. finalized \/ (/\ Recent(queue_a, newest_a) /\ newest_a <= now + 1 + err_a
                    /\ Recent(queue_b, newest_b) /\ newest_b <= now + 1 + err_b)
  <2>1. newest_a \in Nat /\ newest_b \in Nat
    BY StateTypes
  <2> QED
    BY <1>1, <2>1 DEF World, InStep
<1> QED
  BY <1>2, <1>3, <1>4, <1>5 DEF World, InStep

\* So does a report of Alice's.
LEMMA ReportAKeeps ==
    ASSUME Account, World, NEW k \in DOMAIN queue_a, ReportA(k)
    PROVE  World'
<1>1. Queued(queue_a, now + err_a)
  BY DEF World
<1>2. /\ StampOf(queue_a, k) = queue_a[k][2] /\ queue_a[k][2] <= now + err_a /\ k \in 1..Len(queue_a)
  BY <1>1, ReportParts
<1>3. /\ queue_a' = SubSeq(queue_a, k + 1, Len(queue_a))
      /\ newest_a' = queue_a[k][2] /\ newest_b' = newest_b
      /\ ready' = ready /\ skew' = skew /\ finalized' = finalized /\ ~finalized
      /\ now' = now /\ err_a' = err_a /\ err_b' = err_b /\ wire' = wire /\ queue_b' = queue_b
      /\ lost' = lost /\ injected' = injected
  BY <1>2 DEF ReportA, ReportSent
<1>4. Shorter(queue_a, queue_a', k, now + err_a)
  BY <1>1, <1>2, <1>3, ReportTakes
<1>5. Queued(queue_a', now + err_a) /\ Recent(queue_a', queue_a[k][2])
  BY <1>4, RecentAfter DEF Shorter
<1> QED
  BY <1>2, <1>3, <1>5 DEF World, InStep

\* So does a report of Bob's.
LEMMA ReportBKeeps ==
    ASSUME Account, World, NEW k \in DOMAIN queue_b, ReportB(k)
    PROVE  World'
<1>1. Queued(queue_b, now + err_b)
  BY DEF World
<1>2. /\ StampOf(queue_b, k) = queue_b[k][2] /\ queue_b[k][2] <= now + err_b /\ k \in 1..Len(queue_b)
  BY <1>1, ReportParts
<1>3. /\ queue_b' = SubSeq(queue_b, k + 1, Len(queue_b))
      /\ newest_b' = queue_b[k][2] /\ newest_a' = newest_a
      /\ ready' = ready /\ skew' = skew /\ finalized' = finalized /\ ~finalized
      /\ now' = now /\ err_a' = err_a /\ err_b' = err_b /\ wire' = wire /\ queue_a' = queue_a
      /\ lost' = lost /\ injected' = injected
  BY <1>2 DEF ReportB, ReportRecd
<1>4. Shorter(queue_b, queue_b', k, now + err_b)
  BY <1>1, <1>2, <1>3, ReportTakes
<1>5. Queued(queue_b', now + err_b) /\ Recent(queue_b', queue_b[k][2])
  BY <1>4, RecentAfter DEF Shorter
<1> QED
  BY <1>2, <1>3, <1>5 DEF World, InStep

\* So do pairing, final judgement and stuttering, which leave the world alone.
LEMMA ServerKeeps ==
    ASSUME World, (\E s \in Skews : Announce(s)) \/ Judge \/ UNCHANGED allvars
    PROVE  World'
<1>1. /\ now' = now /\ err_a' = err_a /\ err_b' = err_b /\ wire' = wire
      /\ queue_a' = queue_a /\ queue_b' = queue_b /\ lost' = lost /\ injected' = injected
  BY DEF Announce, Judge, allvars, world
<1>2. InStep'
  <2>1. finalized' \/ (finalized' = finalized /\ newest_a' = newest_a /\ newest_b' = newest_b)
    BY DEF Announce, Pair, Judge, FinalJudgement, allvars, vars, clocks
  <2> QED
    BY <1>1, <2>1 DEF World, InStep
<1>3. ready' => skew' \in Skews
  BY DEF World, Announce, Pair, Judge, FinalJudgement, allvars, vars
<1> QED
  BY <1>1, <1>2, <1>3 DEF World

\* Every step keeps the account.
LEMMA AccountKeeps ==
    ASSUME Account, World, [E2ENext]_allvars
    PROVE  Account'
<1>1. Queued(queue_a, now + err_a) /\ Queued(queue_b, now + err_b)
  BY DEF World
<1>2. ASSUME NEW k \in DOMAIN queue_a, ReportA(k)
      PROVE  Account'
  <2>1. StampOf(queue_a, k) \in Nat /\ BatchOf(queue_a, k) \in Count
    BY <1>1, ReportParts
  <2>2. ReportSent(StampOf(queue_a, k), BatchOf(queue_a, k))
    BY <1>2 DEF ReportA
  <2> QED
    BY <2>1, <2>2, ReportSentKeeps
<1>3. ASSUME NEW k \in DOMAIN queue_b, ReportB(k)
      PROVE  Account'
  <2>1. StampOf(queue_b, k) \in Nat /\ BatchOf(queue_b, k) \in Count
    BY <1>1, ReportParts
  <2>2. ReportRecd(StampOf(queue_b, k), BatchOf(queue_b, k))
    BY <1>3 DEF ReportB
  <2> QED
    BY <2>1, <2>2, ReportRecdKeeps
<1>4. ASSUME Judge
      PROVE  Account'
  <2>1. FinalJudgement /\ ~finalized
    BY <1>4 DEF Judge, FinalJudgement
  <2>2. newest_a <= now + err_a /\ newest_b <= now + err_b
    BY <2>1 DEF World, InStep
  <2>3. /\ now \in Nat /\ now <= Horizon /\ err_a \in 0..MaxError /\ err_b \in 0..MaxError
        /\ Horizon \in Nat /\ MaxError \in Nat /\ Infinity \in Nat /\ Horizon + MaxError < Infinity
    BY LedgerConstants, EndToEndConstants DEF World
  <2>4. newest_a \in Nat /\ newest_b \in Nat
    BY StateTypes
  <2>5. newest_a <= Infinity /\ newest_b <= Infinity
    BY <2>2, <2>3, <2>4
  <2> QED
    BY <2>1, <2>5, VerdictsKeep
<1>5. ASSUME NEW s \in Skews, Announce(s)
      PROVE  Account'
  BY <1>5, AccountStays DEF Announce
<1>6. ASSUME UNCHANGED vars
      PROVE  Account'
  BY <1>6, AccountStays
<1>7. ASSUME Tick \/ \E h \in Hash : Send(h) \/ Deliver(h) \/ Lose(h) \/ Inject(h)
      PROVE  UNCHANGED vars
  BY <1>7 DEF Tick, Send, Deliver, Lose, Inject
<1>8. UNCHANGED allvars => UNCHANGED vars
  BY DEF allvars
<1> QED
  BY <1>2, <1>3, <1>4, <1>5, <1>6, <1>7, <1>8 DEF E2ENext

\* Every step keeps the world in order.
LEMMA WorldKeeps ==
    ASSUME Account, World, [E2ENext]_allvars
    PROVE  World'
BY NetworkKeeps, TickKeeps, ReportAKeeps, ReportBKeeps, ServerKeeps DEF E2ENext

\* Every step leaves each hash with a history that explains it.
LEMMA ExplainedKeeps ==
    ASSUME Account, Account', World, [E2ENext]_allvars,
           NEW h \in Hash, NEW out, NEW gone, NEW in, NEW fake, Explained(h, out, gone, in, fake)
    PROVE  (\E o, g, i, a : Explained(h, o, g, i, a))'
<1> SUFFICES \E o, g, i, a : Explained(h, o, g, i, a)'
  OBVIOUS
<1>1. ASSUME NEW g \in Hash, Send(g)
      PROVE  \E o : Explained(h, o, gone, in, fake)'
  BY <1>1, SendExplained
<1>2. ASSUME NEW g \in Hash, Deliver(g)
      PROVE  \E i : Explained(h, out, gone, i, fake)'
  BY <1>2, DeliverExplained
<1>3. ASSUME NEW g \in Hash, Lose(g)
      PROVE  \E more : Explained(h, out, more, in, fake)'
  BY <1>3, LoseExplained
<1>4. ASSUME NEW g \in Hash, Inject(g)
      PROVE  \E i, more : Explained(h, out, gone, i, more)'
  BY <1>4, InjectExplained
<1>5. ASSUME Tick
      PROVE  Explained(h, out, gone, in, fake)'
  BY <1>5, TickExplained
<1>6. ASSUME NEW k \in DOMAIN queue_a, ReportA(k)
      PROVE  Explained(h, out, gone, in, fake)'
  BY <1>6, ReportAExplained
<1>7. ASSUME NEW k \in DOMAIN queue_b, ReportB(k)
      PROVE  Explained(h, out, gone, in, fake)'
  BY <1>7, ReportBExplained
<1>8. ASSUME (\E s \in Skews : Announce(s)) \/ UNCHANGED allvars
      PROVE  Explained(h, out, gone, in, fake)'
  <2>1. UNCHANGED <<sent, recd, okay, forged, dropped, total_sent, total_recd, world>>
    BY <1>8 DEF Announce, Pair, allvars, vars, pending, verdicts, totals
  <2> QED
    BY <2>1, SameExplained
<1>9. ASSUME Judge
      PROVE  Explained(h, out, gone, in, fake)'
  BY <1>9, JudgeExplained
<1> QED
  BY <1>1, <1>2, <1>3, <1>4, <1>5, <1>6, <1>7, <1>8, <1>9 DEF E2ENext

\* Every step keeps the invariant.
LEMMA NextE2EInv == E2EInv /\ [E2ENext]_allvars => E2EInv'
<1> SUFFICES ASSUME E2EInv, [E2ENext]_allvars PROVE E2EInv'
  OBVIOUS
<1>1. Account /\ World
  BY DEF E2EInv
<1>2. Account' /\ World'
  BY <1>1, AccountKeeps, WorldKeeps
<1>3. ASSUME NEW h \in Hash
      PROVE  (\E o, g, i, a : Explained(h, o, g, i, a))'
  <2>1. PICK out, gone, in, fake : Explained(h, out, gone, in, fake)
    BY DEF E2EInv
  <2> QED
    BY <1>1, <1>2, <2>1, ExplainedKeeps
<1> QED
  BY <1>2, <1>3 DEF E2EInv

\* Before anything is sent, the history is empty.
LEMMA InitE2EInv == E2EInit => E2EInv
<1> SUFFICES ASSUME E2EInit PROVE E2EInv
  OBVIOUS
<1>1. Account
  BY InitIndInv DEF E2EInit, IndInv
<1>2. /\ queue_a = <<>> /\ queue_b = <<>> /\ Len(queue_a) = 0 /\ Len(queue_b) = 0
      /\ now = 0 /\ newest_a = 0 /\ newest_b = 0 /\ ready = FALSE
      /\ err_a \in 0..MaxError /\ err_b \in 0..MaxError
      /\ wire = [h \in Hash |-> <<>>] /\ lost = Nothing /\ injected = Nothing
  BY DEF E2EInit, Init
<1>3. World
  <2>1. wire \in Queue /\ lost \in Count /\ injected \in Count
    BY <1>2 DEF Queue, Count, Nothing
  <2>2. Queued(queue_a, now + err_a) /\ Queued(queue_b, now + err_b)
    BY <1>2 DEF Queued
  <2>3. InStep
    BY <1>2 DEF InStep, Recent
  <2>4. now \in Nat /\ now <= Horizon
    BY <1>2, LedgerConstants
  <2> QED
    BY <1>2, <2>1, <2>2, <2>3, <2>4 DEF World
<1>4. ASSUME NEW h \in Hash
      PROVE  \E out, gone, in, fake : Explained(h, out, gone, in, fake)
  <2>1. PICK z : z = [n \in Nat |-> 0]
    OBVIOUS
  <2>2. z \in [Nat -> Nat] /\ (\A n \in Nat : z[n] = 0) /\ z[0] = 0
    BY <2>1
  <2>3. Counts(z)
    BY <2>2 DEF Counts
  <2>4. /\ sent[h] = <<>> /\ recd[h] = <<>> /\ wire[h] = <<>>
        /\ total_sent[h] = 0 /\ total_recd[h] = 0
        /\ okay[h] = 0 /\ forged[h] = 0 /\ dropped[h] = 0
        /\ lost[h] = 0 /\ injected[h] = 0
    BY <1>2 DEF E2EInit, Init, Nothing
  <2>5. SentOf(h) = 0 /\ CaughtOf(h) = 0 /\ ThroughOf(h) = 0
    <3>1. Copies(queue_a, h, 0) = 0 /\ Copies(queue_b, h, 0) = 0
      BY CopiesCount
    <3>2. SentOf(h) = 0 /\ CaughtOf(h) = 0
      BY <1>2, <2>4, <3>1 DEF SentOf, CaughtOf
    <3>3. Len(wire[h]) = 0 /\ ThroughOf(h) = SentOf(h) - Len(wire[h])
      BY <2>4 DEF ThroughOf
    <3> QED
      BY <3>2, <3>3
  <2>6. Fates(z, z, z, z, 0, 0, 0, 0)
    BY <2>2, <2>3, EndToEndConstants DEF Fates, Typed, Kept, Timely, AfterSending, WithinDelay
  <2>7. Flying(wire[h], 0, z)
    BY <2>4 DEF Flying
  <2>8. Stamped(queue_a, h, 0, z, err_a) /\ Stamped(queue_b, h, 0, z, err_b)
    BY <1>2 DEF Stamped
  <2>9. Claims(z, z, z, z, err_a, err_b, sent[h], recd[h], 0, 0, 0)
    BY <2>2, <2>4 DEF Claims, Entered
  <2>10. Explained(h, z, z, z, z)
    BY <1>2, <2>2, <2>4, <2>5, <2>6, <2>7, <2>8, <2>9 DEF Explained
  <2> QED
    BY <2>10
<1> QED
  BY <1>1, <1>3, <1>4 DEF E2EInv

\* The claims of an explained state are bounded by what the network has done.
LEMMA ClaimsAreTrue == E2EInv => NoFalseForgery /\ NoFalseDrop
<1> SUFFICES ASSUME E2EInv, NEW h \in Hash
             PROVE  forged[h] <= injected[h] /\ dropped[h] <= lost[h]
  BY DEF NoFalseForgery, NoFalseDrop
<1>1. Account /\ World
  BY DEF E2EInv
<1>2. PICK out, gone, in, fake : Explained(h, out, gone, in, fake)
  BY DEF E2EInv
<1>3. /\ ThroughOf(h) \in Nat /\ CaughtOf(h) \in Nat
      /\ okay[h] \in Nat /\ forged[h] \in Nat /\ dropped[h] \in Nat /\ Len(recd[h]) \in Nat
      /\ total_recd[h] = okay[h] + forged[h] + Len(recd[h])
      /\ total_recd[h] <= CaughtOf(h)
  BY <1>1, <1>2, Numbers
<1>4. Counts(gone) /\ Counts(fake)
  BY <1>2, Times
<1>5. /\ forged[h] <= fake[okay[h] + forged[h]] /\ dropped[h] <= gone[okay[h] + dropped[h]]
      /\ gone[ThroughOf(h)] = lost[h] /\ fake[CaughtOf(h)] = injected[h]
  BY <1>2 DEF Explained, Claims
<1>6. forged[h] <= injected[h]
  <2>1. okay[h] + forged[h] \in Nat /\ okay[h] + forged[h] <= CaughtOf(h)
    BY <1>3
  <2>2. /\ fake[okay[h] + forged[h]] \in Nat /\ fake[CaughtOf(h)] \in Nat
        /\ fake[okay[h] + forged[h]] <= fake[CaughtOf(h)]
    BY <1>3, <1>4, <2>1 DEF Counts
  <2> QED
    BY <1>3, <1>5, <2>2
<1>7. dropped[h] <= lost[h]
  <2>1. okay[h] + dropped[h] \in Nat
    BY <1>3
  <2>2. CASE okay[h] + dropped[h] <= ThroughOf(h)
    <3>1. /\ gone[okay[h] + dropped[h]] \in Nat /\ gone[ThroughOf(h)] \in Nat
          /\ gone[okay[h] + dropped[h]] <= gone[ThroughOf(h)]
      BY <1>3, <1>4, <2>1, <2>2 DEF Counts
    <3> QED
      BY <1>3, <1>5, <3>1
  <2>3. CASE okay[h] + dropped[h] >= ThroughOf(h)
    <3>1. gone[okay[h] + dropped[h]] = gone[ThroughOf(h)]
      BY <1>2, <2>1, <2>3 DEF Explained, Fates, Kept
    <3> QED
      BY <1>5, <3>1
  <2> QED
    BY <1>3, <2>1, <2>2, <2>3
<1> QED
  BY <1>6, <1>7

\* In every reachable state, each hash has a history that explains what is queued,
\* pending and judged.
THEOREM HistoryExplains == E2ESpec => []E2EInv
<1>1. E2EInit => E2EInv
  BY InitE2EInv
<1>2. E2EInv /\ [E2ENext]_allvars => E2EInv'
  BY NextE2EInv
<1> QED
  BY <1>1, <1>2, PTL DEF E2ESpec

\* Whatever the network, the clocks and the batches do, no more copies of a packet
\* are called forged than were injected (__check_for_forgeries).
THEOREM ForgeriesAreReal == E2ESpec => []NoFalseForgery
<1>1. E2EInv => NoFalseForgery
  BY ClaimsAreTrue
<1> QED
  BY <1>1, HistoryExplains, PTL

\* No more are called dropped than were lost (check_for_drops).
THEOREM DropsAreReal == E2ESpec => []NoFalseDrop
<1>1. E2EInv => NoFalseDrop
  BY ClaimsAreTrue
<1> QED
  BY <1>1, HistoryExplains, PTL
=============================================================================
