---- MODULE Lifecycle_proofs ----
(***************************************************************************)
(* What upgrades, rollbacks and uninstalls keep true for any releases,     *)
(* drivers, numbers of retained pairs and files, helpers, and any number   *)
(* of failed calls, lost replies, ended processes and power cycles.        *)
(***************************************************************************)
EXTENDS Lifecycle, TLAPS, WellFoundedInduction, SequenceTheorems

----
(* Sequences without some of their elements *)

\* A set of numbers has a least one.
LEMMA LeastNumber ==
  ASSUME NEW T, T \subseteq Nat, T # {}
  PROVE  \E k \in T : \A j \in T : k <= j
<1> DEFINE R == OpToRel(<, Nat)
<1>1. IsWellFoundedOn(R, Nat)
  BY NatLessThanWellFounded
<1>2. PICK k \in T : \A j \in T : ~ (<<j, k>> \in R)
  <2> HIDE DEF R
  <2> QED BY <1>1, WFMin
<1>3. \A j \in T : <<j, k>> \in R <=> j < k
  BY DEF OpToRel
<1>4. \A j \in T : ~ (j < k)
  <2> HIDE DEF R
  <2> QED BY <1>2, <1>3, Zenon
<1>5. \A j \in T : k <= j
  BY <1>4, T \subseteq Nat
<1>6. QED BY <1>5

\* The function of the definition of Without, for the first k elements.
FilterOf(f, s, gone, k) ==
  f = [n \in 0 .. k |->
         IF n = 0 THEN <<>> ELSE IF s[n] \in gone THEN f[n - 1] ELSE Append(f[n - 1], s[n])]

\* The function for the first k elements extends the one for the first k - 1.
LEMMA FilterStep ==
  ASSUME NEW s, NEW gone, NEW k \in Nat \ {0}, NEW f, FilterOf(f, s, gone, k - 1)
  PROVE  \E g : FilterOf(g, s, gone, k)
<1> DEFINE last == IF s[k] \in gone THEN f[k - 1] ELSE Append(f[k - 1], s[k])
           g == [n \in 0 .. k |-> IF n = k THEN last ELSE f[n]]
<1>1. \A n \in 0 .. k - 1 : n \in 0 .. k /\ g[n] = f[n]
  OBVIOUS
<1>2. g[k] = last /\ k - 1 \in 0 .. k - 1 /\ g[k - 1] = f[k - 1]
  BY <1>1
<1>3. \A n \in 0 .. k - 1 :
        f[n] = IF n = 0 THEN <<>> ELSE IF s[n] \in gone THEN f[n - 1] ELSE Append(f[n - 1], s[n])
  BY DEF FilterOf
<1> HIDE DEF last
<1>4. \A n \in 0 .. k :
        g[n] = IF n = 0 THEN <<>> ELSE IF s[n] \in gone THEN g[n - 1] ELSE Append(g[n - 1], s[n])
  <2> SUFFICES ASSUME NEW n \in 0 .. k
               PROVE g[n] = IF n = 0 THEN <<>> ELSE IF s[n] \in gone THEN g[n - 1] ELSE Append(g[n - 1], s[n])
    OBVIOUS
  <2>1. CASE n = k
    BY <2>1, <1>2 DEF last
  <2>2. CASE n = 0
    BY <2>2, <1>1, <1>3
  <2>3. CASE n \in 1 .. k - 1
    <3>1. n - 1 \in 0 .. k - 1 /\ n \in 0 .. k - 1 /\ n # 0
      BY <2>3
    <3>2. g[n] = f[n] /\ g[n - 1] = f[n - 1]
      BY <3>1, <1>1
    <3>3. QED BY <3>1, <3>2, <1>3
  <2>4. QED BY <2>1, <2>2, <2>3
<1>5. g = [n \in 0 .. k |->
         IF n = 0 THEN <<>> ELSE IF s[n] \in gone THEN g[n - 1] ELSE Append(g[n - 1], s[n])]
  <2> DEFINE h == [n \in 0 .. k |->
         IF n = 0 THEN <<>> ELSE IF s[n] \in gone THEN g[n - 1] ELSE Append(g[n - 1], s[n])]
  <2>1. \A n \in 0 .. k : h[n] = g[n]
    <3> HIDE DEF g
    <3> QED BY <1>4
  <2>2. h = [n \in 0 .. k |-> h[n]] /\ g = [n \in 0 .. k |-> g[n]]
    OBVIOUS
  <2> HIDE DEF g, h
  <2>3. h = g
    BY <2>1, <2>2
  <2>4. QED BY <2>3 DEF h
<1> HIDE DEF g
<1>6. QED BY <1>5 DEF FilterOf

\* There is such a function for any number of elements: otherwise there were a
\* least one without.
LEMMA FilterExists ==
  ASSUME NEW s, NEW gone, NEW k \in Nat
  PROVE  \E f : FilterOf(f, s, gone, k)
<1> DEFINE T == {n \in Nat : ~ \E f : FilterOf(f, s, gone, n)}
<1> SUFFICES ASSUME T # {} PROVE FALSE
  OBVIOUS
<1>1. PICK n \in T : \A j \in T : n <= j
  <2>1. T \subseteq Nat
    OBVIOUS
  <2> HIDE DEF T
  <2>2. QED BY <2>1, LeastNumber
<1>2. n \in Nat /\ ~ \E f : FilterOf(f, s, gone, n)
  OBVIOUS
<1>3. CASE n = 0
  <2> DEFINE f == [i \in 0 .. 0 |-> <<>>]
  <2>1. FilterOf(f, s, gone, 0)
    BY DEF FilterOf
  <2>2. QED BY <1>2, <1>3, <2>1
<1>4. CASE n # 0
  <2>1. n - 1 \in Nat /\ n \in Nat \ {0} /\ ~ (n <= n - 1)
    BY <1>2, <1>4
  <2>2. n - 1 \notin T
    <3> HIDE DEF T
    <3> QED BY <1>1, <2>1
  <2>3. PICK f : FilterOf(f, s, gone, n - 1)
    BY <2>1, <2>2
  <2>4. QED BY <2>1, <2>3, <1>2, FilterStep
<1>5. QED BY <1>3, <1>4

\* Without is that function's last value.
LEMMA WithoutIsFilter ==
  ASSUME NEW S, NEW s \in Seq(S), NEW gone
  PROVE  \E f : FilterOf(f, s, gone, Len(s)) /\ Without(s, gone) = f[Len(s)]
<1> DEFINE F == CHOOSE f : FilterOf(f, s, gone, Len(s))
<1>1. FilterOf(F, s, gone, Len(s))
  <2>1. \E f : FilterOf(f, s, gone, Len(s))
    BY FilterExists, LenProperties
  <2>2. QED BY <2>1
<1>2. Without(s, gone) = F[Len(s)]
  BY DEF Without, FilterOf
<1>3. QED BY <1>1, <1>2

\* What is known of the first n elements without those in gone.
Kept(t, s, gone, n) ==
  /\ Len(t) <= n
  /\ \A j \in 1 .. Len(t) : \E a \in 1 .. n : t[j] = s[a] /\ s[a] \notin gone
  /\ \A i, j \in 1 .. Len(t) : i < j => \E a, b \in 1 .. n : a < b /\ t[i] = s[a] /\ t[j] = s[b]
  /\ \A a \in 1 .. n : s[a] \notin gone => \E j \in 1 .. Len(t) : t[j] = s[a]
  /\ n >= 1 /\ s[1] \notin gone => Len(t) >= 1 /\ t[1] = s[1]
  /\ n >= 1 /\ s[n] \notin gone => Len(t) >= 1 /\ t[Len(t)] = s[n]

\* What is known is passed on from each element to the next.
LEMMA KeptStep ==
  ASSUME NEW S, NEW s \in Seq(S), NEW gone, NEW n \in 1 .. Len(s), NEW t \in Seq(S),
         Kept(t, s, gone, n - 1),
         NEW w, w = IF s[n] \in gone THEN t ELSE Append(t, s[n])
  PROVE  w \in Seq(S) /\ Kept(w, s, gone, n)
<1>1. Len(s) \in Nat /\ Len(t) \in Nat /\ n - 1 \in Nat /\ n \in Nat /\ s[n] \in S
  BY LenProperties, ElementOfSeq
<1>2. CASE s[n] \in gone
  <2>1. w = t /\ \A a \in 1 .. n : s[a] \notin gone => a \in 1 .. n - 1
    BY <1>1, <1>2
  <2>2. 1 .. n - 1 \subseteq 1 .. n
    BY <1>1
  <2>3. n >= 1 /\ s[1] \notin gone => n - 1 >= 1
    BY <1>1, <1>2
  <2>4. \A j \in 1 .. Len(w) : \E a \in 1 .. n : w[j] = s[a] /\ s[a] \notin gone
    BY <2>1, <2>2 DEF Kept
  <2>5. \A i, j \in 1 .. Len(w) :
          i < j => \E a, b \in 1 .. n : a < b /\ w[i] = s[a] /\ w[j] = s[b]
    BY <2>1, <2>2 DEF Kept
  <2>6. \A a \in 1 .. n : s[a] \notin gone => \E j \in 1 .. Len(w) : w[j] = s[a]
    BY <2>1 DEF Kept
  <2>7. Len(w) <= n /\ (n >= 1 /\ s[1] \notin gone => Len(w) >= 1 /\ w[1] = s[1])
    BY <1>1, <2>1, <2>3 DEF Kept
  <2>8. QED BY <1>2, <2>1, <2>4, <2>5, <2>6, <2>7 DEF Kept
<1>3. CASE s[n] \notin gone
  <2>1. /\ w \in Seq(S) /\ Len(w) = Len(t) + 1 /\ w[Len(w)] = s[n]
        /\ \A j \in 1 .. Len(t) : w[j] = t[j]
    BY <1>1, <1>3, AppendProperties
  <2>2. \A j \in 1 .. Len(w) : \E a \in 1 .. n : w[j] = s[a] /\ s[a] \notin gone
    <3> SUFFICES ASSUME NEW j \in 1 .. Len(w)
                 PROVE \E a \in 1 .. n : w[j] = s[a] /\ s[a] \notin gone
      OBVIOUS
    <3>1. CASE j = Len(w)
      BY <2>1, <3>1, <1>3
    <3>2. CASE j \in 1 .. Len(t)
      <4>1. PICK a \in 1 .. n - 1 : t[j] = s[a] /\ s[a] \notin gone
        BY <3>2 DEF Kept
      <4>2. QED BY <4>1, <2>1, <1>1, <3>2
    <3>3. QED BY <3>1, <3>2, <2>1, <1>1
  <2>3. \A i, j \in 1 .. Len(w) :
          i < j => \E a, b \in 1 .. n : a < b /\ w[i] = s[a] /\ w[j] = s[b]
    <3> SUFFICES ASSUME NEW i \in 1 .. Len(w), NEW j \in 1 .. Len(w), i < j
                 PROVE \E a, b \in 1 .. n : a < b /\ w[i] = s[a] /\ w[j] = s[b]
      OBVIOUS
    <3>1. i \in 1 .. Len(t)
      BY <1>1, <2>1
    <3>2. CASE j = Len(w)
      <4>1. PICK a \in 1 .. n - 1 : t[i] = s[a]
        BY <3>1 DEF Kept
      <4>2. a < n /\ a \in 1 .. n
        BY <1>1
      <4>3. QED BY <4>1, <4>2, <2>1, <3>1, <3>2
    <3>3. CASE j \in 1 .. Len(t)
      <4>1. PICK a \in 1 .. n - 1, b \in 1 .. n - 1 : a < b /\ t[i] = s[a] /\ t[j] = s[b]
        BY <3>1, <3>3 DEF Kept
      <4>2. a \in 1 .. n /\ b \in 1 .. n
        BY <1>1
      <4>3. QED BY <4>1, <4>2, <2>1, <3>1, <3>3
    <3>4. QED BY <3>2, <3>3, <2>1, <1>1
  <2>4. \A a \in 1 .. n : s[a] \notin gone => \E j \in 1 .. Len(w) : w[j] = s[a]
    <3> SUFFICES ASSUME NEW a \in 1 .. n, s[a] \notin gone
                 PROVE \E j \in 1 .. Len(w) : w[j] = s[a]
      OBVIOUS
    <3>1. CASE a = n
      BY <3>1, <2>1, <1>1
    <3>2. CASE a \in 1 .. n - 1
      <4>1. PICK j \in 1 .. Len(t) : t[j] = s[a]
        BY <3>2 DEF Kept
      <4>2. QED BY <4>1, <2>1, <1>1
    <3>3. QED BY <3>1, <3>2, <1>1
  <2>5. s[1] \notin gone => Len(w) >= 1 /\ w[1] = s[1]
    <3>1. CASE n = 1
      <4>1. Len(t) <= 0
        BY <3>1 DEF Kept
      <4>2. QED BY <3>1, <4>1, <2>1, <1>1
    <3>2. CASE n # 1
      <4>1. n - 1 >= 1
        BY <3>2, <1>1
      <4>2. s[1] \notin gone => Len(t) >= 1 /\ t[1] = s[1]
        BY <4>1 DEF Kept
      <4>3. QED BY <4>2, <2>1, <1>1
    <3>3. QED BY <3>1, <3>2
  <2>6. Len(w) <= n /\ Len(w) >= 1
    BY <2>1, <1>1 DEF Kept
  <2>7. QED BY <2>1, <2>2, <2>3, <2>4, <2>5, <2>6 DEF Kept
<1>4. QED BY <1>2, <1>3

\* Without keeps the order, drops what it must and nothing else.
LEMMA WithoutFacts ==
  ASSUME NEW S, NEW s \in Seq(S), NEW gone
  PROVE  Without(s, gone) \in Seq(S) /\ Kept(Without(s, gone), s, gone, Len(s))
<1>1. PICK f : FilterOf(f, s, gone, Len(s)) /\ Without(s, gone) = f[Len(s)]
  BY WithoutIsFilter
<1>2. Len(s) \in Nat
  BY LenProperties
<1>3. f[0] = <<>>
  BY <1>1, <1>2 DEF FilterOf
<1>4. \A n \in 1 .. Len(s) : f[n] = IF s[n] \in gone THEN f[n - 1] ELSE Append(f[n - 1], s[n])
  <2> SUFFICES ASSUME NEW n \in 1 .. Len(s)
               PROVE f[n] = IF s[n] \in gone THEN f[n - 1] ELSE Append(f[n - 1], s[n])
    OBVIOUS
  <2>1. n \in 0 .. Len(s) /\ n # 0
    BY <1>2
  <2>2. QED BY <1>1, <2>1 DEF FilterOf
<1> DEFINE Q(n) == f[n] \in Seq(S) /\ Kept(f[n], s, gone, n)
           T == {n \in 0 .. Len(s) : ~ Q(n)}
<1> SUFFICES ASSUME T # {} PROVE FALSE
  BY <1>1, <1>2
<1>5. PICK n \in T : \A j \in T : n <= j
  <2>1. T \subseteq Nat
    BY <1>2
  <2> HIDE DEF T
  <2>2. QED BY <2>1, LeastNumber
<1>6. n \in 0 .. Len(s) /\ ~ Q(n)
  OBVIOUS
<1>7. CASE n = 0
  <2>1. <<>> \in Seq(S) /\ Kept(<<>>, s, gone, 0)
    BY EmptySeq DEF Kept
  <2>2. QED BY <2>1, <1>3, <1>6, <1>7
<1>8. CASE n # 0
  <2>1. n - 1 \in 0 .. Len(s) /\ n \in 1 .. Len(s) /\ ~ (n <= n - 1)
    BY <1>2, <1>6, <1>8
  <2>2. n - 1 \notin T
    <3> HIDE DEF T
    <3> QED BY <1>5, <2>1
  <2>3. Q(n - 1)
    BY <2>1, <2>2
  <2>4. Q(n)
    <3>1. f[n] = IF s[n] \in gone THEN f[n - 1] ELSE Append(f[n - 1], s[n])
      BY <1>4, <2>1
    <3> HIDE DEF T
    <3>2. QED BY <2>1, <2>3, <3>1, KeptStep
  <2>5. QED BY <2>4, <1>6
<1>9. QED BY <1>7, <1>8

\* The newest of at least one include the last.
LEMMA LastOfFacts ==
  ASSUME NEW S, NEW s \in Seq(S), NEW n \in Nat, n >= 1
  PROVE  /\ LastOf(s, n) \in Seq(S)
         /\ Len(s) >= 1 => Len(LastOf(s, n)) >= 1 /\ LastOf(s, n)[Len(LastOf(s, n))] = s[Len(s)]
<1>1. Len(s) \in Nat
  BY LenProperties
<1>2. CASE Len(s) <= n
  BY <1>2 DEF LastOf
<1>3. CASE ~ (Len(s) <= n)
  <2> DEFINE m == Len(s) - n + 1
             t == SubSeq(s, m, Len(s))
  <2>1. m \in 1 .. Len(s) + 1 /\ Len(s) \in m - 1 .. Len(s) /\ LastOf(s, n) = t
    BY <1>1, <1>3 DEF LastOf
  <2>2. \A i \in m .. Len(s) : s[i] \in S
    BY <2>1, <1>1, ElementOfSeq
  <2>3. /\ t \in Seq(S) /\ Len(t) = Len(s) - m + 1
        /\ \A i \in 1 .. Len(s) - m + 1 : t[i] = s[m + i - 1]
    BY <2>1, <2>2, <1>1, SubSeqProperties
  <2>4. Len(t) = n /\ n \in 1 .. Len(s) - m + 1 /\ m + n - 1 = Len(s)
    BY <2>3, <1>1, <1>3
  <2> HIDE DEF t, m
  <2>5. QED BY <2>1, <2>3, <2>4
<1>4. QED BY <1>2, <1>3

\* The manifest an activation leaves lists the activated release last.
LEMMA ProspectiveFacts ==
  ASSUME NEW owned \in Ownership, NEW r \in Releases
  PROVE  /\ ProspectiveOwnership(owned, r) \in Ownership
         /\ ProspectiveOwnership(owned, r).bin = r
         /\ r \in ToSet(ProspectiveOwnership(owned, r).kept)
         /\ LET kept == ProspectiveOwnership(owned, r).kept
            IN  Len(kept) >= 1 /\ kept[Len(kept)] = r
<1> DEFINE left == LastOf(Drop(owned.kept, r), MaxReleases - 1)
           kept == Append(left, r)
<1>1. Drop(owned.kept, r) \in Seq(Releases)
  BY WithoutFacts DEF Drop, Ownership
<1>2. left \in Seq(Releases)
  BY <1>1, LastOfFacts, MaxReleasesAssumption
<1> HIDE DEF left
<1>3. kept \in Seq(Releases) /\ Len(kept) = Len(left) + 1 /\ kept[Len(left) + 1] = r
      /\ Len(left) \in Nat
  BY <1>2, AppendProperties, LenProperties
<1>4. ProspectiveOwnership(owned, r) = [bin |-> r, kept |-> kept]
  BY DEF ProspectiveOwnership, left
<1> HIDE DEF kept
<1>5. DOMAIN kept = 1 .. Len(kept)
  BY <1>3, LenProperties
<1>6. r \in ToSet(kept)
  BY <1>3, <1>5 DEF ToSet
<1>7. QED BY <1>3, <1>4, <1>6 DEF Ownership

\* The release that was activated last is retained by the next activation.
LEMMA ProspectiveKeeps ==
  ASSUME NEW owned \in Ownership, NEW r \in Releases, NEW next \in Releases, next # r
  PROVE  LET last == ProspectiveOwnership(owned, r)
         IN  r \in ToSet(ProspectiveOwnership(last, next).kept)
<1> DEFINE last == ProspectiveOwnership(owned, r)
           dropped == Drop(last.kept, next)
           left == LastOf(dropped, MaxReleases - 1)
           kept == Append(left, next)
<1>1. last \in Ownership /\ Len(last.kept) >= 1 /\ last.kept[Len(last.kept)] = r
  BY ProspectiveFacts
<1> HIDE DEF last
<1>2. last.kept \in Seq(Releases)
  BY <1>1 DEF Ownership
<1>3. dropped \in Seq(Releases) /\ Kept(dropped, last.kept, {next}, Len(last.kept))
  BY <1>2, WithoutFacts DEF Drop
<1>4. Len(dropped) >= 1 /\ dropped[Len(dropped)] = r
  BY <1>1, <1>3 DEF Kept
<1> HIDE DEF dropped
<1>5. left \in Seq(Releases) /\ Len(left) >= 1 /\ left[Len(left)] = r
  BY <1>3, <1>4, LastOfFacts, MaxReleasesAssumption
<1> HIDE DEF left
<1>6. kept \in Seq(Releases) /\ Len(kept) = Len(left) + 1 /\ kept[Len(left)] = r
  BY <1>5, AppendProperties, LenProperties
<1>7. ProspectiveOwnership(last, next).kept = kept
  BY DEF ProspectiveOwnership, kept, left, dropped
<1> HIDE DEF kept
<1>8. Len(left) \in DOMAIN kept
  BY <1>5, <1>6, LenProperties
<1>9. r \in ToSet(kept)
  BY <1>6, <1>8 DEF ToSet
<1>10. QED BY <1>7, <1>9 DEF last

----
(* The invariant.  Its parts speak of any Pi p, process c and history u, so *)
(* that they can be stated of the states a call passes through.            *)

\* The driver of release r is what a normal boot selects, and what runs.
DriverIs(p, r) == p.drv.normal = DriverOf[r] /\ p.drv.booted = DriverOf[r]

WellOwned(pair) == pair.owned.bin = pair.release

\* The files and the driver while a transaction is recorded.
TxFits(p, tx, u) ==
  LET r == tx.prior.release IN
  /\ r # tx.cand /\ WellOwned(tx.prior)
  /\ tx.restored # Absent => tx.restored.bin = r
  /\ tx.phase = "Prepared" => Installed(p.disk, r)
  /\ tx.phase \in ForwardPhases /\ tx.phase # "Prepared" => r \in p.disk.kept
  /\ tx.phase = "PairAccepted" =>
       r \in p.disk.kept /\ Installed(p.disk, tx.cand) /\ (u \/ DriverIs(p, tx.cand))
  /\ tx.phase = "RecoveryDriverRestored" => Installed(p.disk, r) \/ r \in p.disk.kept
  /\ tx.phase \in {"RecoveryApplicationRestored", "RecoveryCandidateRetired"} =>
       Installed(p.disk, r) /\ tx.restored # Absent
  /\ tx.phase \in RecoveryPhases \/ DriverOf[r] = DriverOf[tx.cand] => u \/ DriverIs(p, r)

\* ... while an uninstall is
UnFits(p, s) ==
  /\ s.un.phase # "UninstallPrepared" => p.disk.bin = Absent /\ p.disk.meta = Absent
  /\ s.un.phase = "DriverRemoved" =>
       /\ p.drv.normal = Stock
       /\ \A i \in DOMAIN s.accepted : DriverOf[s.accepted[i].release] \notin p.drv.files

\* ... and when s may be recorded at all.
StateFits(p, s, u) ==
  /\ Valid(s) /\ s.accepted # <<>>
  /\ \A i \in DOMAIN s.accepted : WellOwned(s.accepted[i])
  /\ s.tx # Absent => TxFits(p, s.tx, u)
  /\ s.un # Absent => UnFits(p, s)
  /\ s.un = Absent => p.drv.normal # Stock
  /\ s.tx = Absent /\ s.un = Absent =>
       Installed(p.disk, s.accepted[1].release) /\ (u \/ DriverIs(p, s.accepted[1].release))

RecordFits(p, u) ==
  /\ p.compat # Absent => WellOwned(p.compat)
  /\ p.life # Absent =>
       /\ StateFits(p, p.life, u)
       /\ p.life.tx = Absent /\ p.life.un = Absent =>
            p.compat # Absent /\ p.compat.release = p.life.accepted[1].release
  /\ p.life = Absent /\ p.compat # Absent =>
       Installed(p.disk, p.compat.release) /\ DriverIs(p, p.compat.release)
  /\ p.life = Absent /\ p.compat = Absent =>
       /\ p.disk.bin = Absent /\ p.disk.meta = Absent
       /\ p.drv.normal = Stock /\ p.drv.accepted = Absent

\* Where the process goes on once what it has reached is saved.
Heading(c) ==
  IF c.pc # "save" THEN c.pc
  ELSE IF c.state.un = Absent THEN AfterSave(c.state) ELSE AfterUninstallSave[c.state.un.phase]

SameChange(tx, other) ==
  /\ tx # Absent /\ other # Absent
  /\ tx.prior = other.prior /\ tx.cand = other.cand /\ tx.helper = other.helper

Working == Doing \cup {"finalizeDriver", "finish"} \cup Recovering

Remembering ==
  Doing \cup {"finalizeDriver", "finish", "retireHelper"} \cup Removing
    \cup (Recovering \ {"restoreDriver"})

\* What the process holds in memory is what is recorded, or one save ahead.
MemoryFits(p, c, u) ==
  /\ c.pc \in {"load", "migrate", "saveMigrated"} => c.state = EmptyState
  /\ c.pc \in {"load", "resolve"} => c.op \in Ops
  /\ c.pc = "load" => (c.cand = Absent <=> c.helper = Absent)
  /\ c.pc \in {"migrate", "saveMigrated"} => p.life = Absent /\ p.compat # Absent
  /\ c.pc \in {"migrate", "saveMigrated", "apply"} => c.cand # Absent /\ c.helper # Absent
  /\ c.pc \in {"resolve", "choose", "apply", "uninstall"} =>
       \/ c.state = EmptyState /\ p.life = Absent
       \/ p.life # Absent /\ c.state = p.life /\ c.state.tx = Absent
  /\ c.pc \in Remembering => p.life # Absent /\ c.state = p.life
  /\ c.pc \in {"save", "restoreDriver"} =>
       /\ p.life # Absent /\ StateFits(p, c.state, u)
       /\ c.state.tx # Absent => SameChange(p.life.tx, c.state.tx)
       /\ c.state.tx = Absent => c.pc = "save" /\ c.state.un # Absent /\ p.life.un # Absent
  /\ c.pc \in Working => c.state.tx # Absent
  /\ c.pc \in {"retireHelper", "beginUninstall"} => c.state.tx = Absent /\ c.state.un = Absent
  /\ c.pc = "beginUninstall" => c.unHelper # Absent
  /\ c.pc \in Removing /\ c.pc # "beginUninstall" => c.state.un # Absent

\* Each step belongs to its phases.
PhaseFits(p, c) ==
  /\ c.applying <=> Heading(c) \in Doing
  /\ Heading(c) \in Doing => c.state.tx.phase \in ForwardPhases
  /\ c.pc = "save" /\ c.state.tx # Absent =>
       c.state.tx.phase \notin {"Prepared", "PairAccepted"}
  /\ Heading(c) \in Doing => p.life.tx.phase \in ForwardPhases
  /\ c.pc = "restoreDriver" =>
       /\ c.state.tx.phase \in ForwardPhases
       /\ p.life.tx.phase \in ForwardPhases \cup {"PairAccepted"}
  /\ c.pc \in {"finalizeDriver", "finish"} => c.state.tx.phase = "PairAccepted"
  /\ c.pc = "restoreApplication" => c.state.tx.phase = "RecoveryDriverRestored"
  /\ c.pc = "restartPrior" =>
        c.state.tx.phase \in {"RecoveryApplicationRestored", "RecoveryCandidateRetired"}
  /\ c.pc = "retireCandidate" => c.state.tx.phase = "RecoveryApplicationRestored"
  /\ c.pc = "conclude" => c.state.tx.phase = "RecoveryCandidateRetired"
  /\ c.pc = "uninstallDriver" => c.state.un.phase = "ApplicationRemoved"
  /\ c.pc \in {"finalizeDriverUninstall", "finalizeUninstall"} => c.state.un.phase = "DriverRemoved"
  /\ c.pc = "finalizeUninstall" => p.drv.accepted = Absent

Trial == {"stageDriver", "tryboot", "commit", "explicitNormal", "normalize", "normalizedBoot"}
Switched == {"restart", "verify", "accept"}

\* The activation of the candidate will not retire the prior release.
KeepsPrior(c) ==
  /\ c.last # Absent
  /\ c.state.tx.prior.release \notin
       ToSet(c.last.kept) \ ToSet(ProspectiveOwnership(c.last, c.state.tx.cand).kept)

\* What an upgrade has done by the time it reaches each of its steps.
WorkFits(p, c, u) ==
  LET h == Heading(c)
      r == c.state.tx.prior.release
      n == c.state.tx.cand
  IN  /\ h \in Doing /\ h \notin Switched => Installed(p.disk, r)
      /\ h \in Doing /\ h # "preserve" => r \in p.disk.kept /\ c.last # Absent
      /\ h \in Doing /\ h \notin Switched /\ h # "preserve" => KeepsPrior(c)
      /\ h \in Doing => (c.state.tx.phase = "Prepared" <=> h \in {"preserve", "deploy"})
      /\ h \in Trial => DriverChanged(c.state)
      /\ h = "activate" \/ h \in Switched => u \/ DriverIs(p, n)
      /\ h \in Switched => c.last.bin = n
      /\ h = "accept" => Installed(p.disk, n)

Fits(p, c, u) ==
  /\ p \in Pi /\ c \in Process /\ u \in BOOLEAN
  /\ RecordFits(p, u) /\ MemoryFits(p, c, u) /\ PhaseFits(p, c) /\ WorkFits(p, c, u)

IInv == Fits(pi, cmd, undone) /\ faults \in 0 .. MaxFaults

----
(* Fields *)

\* Going on changes only what the process does next.
LEMMA GoFields ==
  ASSUME cmd \in Process, NEW pc \in Pcs
  PROVE  /\ Go(pc) \in Process /\ Go(pc).pc = pc
         /\ Go(pc).op = cmd.op /\ Go(pc).state = cmd.state /\ Go(pc).helper = cmd.helper
         /\ Go(pc).unHelper = cmd.unHelper /\ Go(pc).last = cmd.last
         /\ Go(pc).cand = cmd.cand /\ Go(pc).applying = cmd.applying
BY DEF Go, Process

\* A phase replaces a phase and nothing else of the record.
LEMMA InPhaseFields ==
  ASSUME NEW s \in State, s.tx # Absent, NEW phase \in Phases
  PROVE  /\ InPhase(s, phase) \in State
         /\ InPhase(s, phase).accepted = s.accepted /\ InPhase(s, phase).un = s.un
         /\ InPhase(s, phase).tx \in Transaction /\ InPhase(s, phase).tx # Absent
         /\ InPhase(s, phase).tx.phase = phase
         /\ InPhase(s, phase).tx.prior = s.tx.prior /\ InPhase(s, phase).tx.cand = s.tx.cand
         /\ InPhase(s, phase).tx.helper = s.tx.helper
         /\ InPhase(s, phase).tx.restored = s.tx.restored
<1>1. s.tx \in Transaction
  BY DEF State
<1>2. [s.tx EXCEPT !.phase = phase] \in Transaction
  BY <1>1 DEF Transaction
<1>3. /\ [s.tx EXCEPT !.phase = phase].phase = phase
      /\ [s.tx EXCEPT !.phase = phase].prior = s.tx.prior
      /\ [s.tx EXCEPT !.phase = phase].cand = s.tx.cand
      /\ [s.tx EXCEPT !.phase = phase].helper = s.tx.helper
      /\ [s.tx EXCEPT !.phase = phase].restored = s.tx.restored
  BY <1>1 DEF Transaction
<1>4. /\ InPhase(s, phase).accepted = s.accepted /\ InPhase(s, phase).un = s.un
      /\ InPhase(s, phase).tx = [s.tx EXCEPT !.phase = phase]
      /\ InPhase(s, phase) \in State
  BY <1>2 DEF InPhase, State
<1>5. QED BY <1>2, <1>3, <1>4, AbsentAssumption

\* Reaching a phase changes the record in memory, which is saved next.
LEMMA ReachFields ==
  ASSUME cmd \in Process, cmd.state.tx # Absent, NEW phase \in Phases
  PROVE  /\ Reach(phase) \in Process /\ Reach(phase).pc = "save"
         /\ Reach(phase).state = InPhase(cmd.state, phase)
         /\ Reach(phase).op = cmd.op /\ Reach(phase).helper = cmd.helper
         /\ Reach(phase).unHelper = cmd.unHelper /\ Reach(phase).last = cmd.last
         /\ Reach(phase).cand = cmd.cand /\ Reach(phase).applying = cmd.applying
<1>1. InPhase(cmd.state, phase) \in State
  BY InPhaseFields DEF Process
<1>2. "save" \in Pcs
  BY DEF Pcs
<1>3. QED BY <1>1, <1>2 DEF Reach, Process

\* The process between two commands is a process.
LEMMA IdleFields ==
  /\ Idle \in Process /\ Idle.pc = "idle" /\ ~Idle.applying
BY DEF Idle, NewProcess, Process, EmptyState, State, MaybeRelease, Pcs, Ops

\* A save is reached from the phase before it; the next step follows from the
\* phase that is saved.
LEMMA FollowingSteps ==
  ASSUME NEW s
  PROVE  LET next(phase) == Following(DriverChanged(s))[phase] IN
         /\ next("Prepared") = "preserve"
         /\ next("ApplicationStaged") = IF DriverChanged(s) THEN "stageDriver" ELSE "activate"
         /\ next("DriverStaged") = "tryboot"
         /\ next("TrybootVerified") = "commit"
         /\ next("DriverCommitted") = "explicitNormal"
         /\ next("ExplicitNormalVerified") = "normalize"
         /\ next("DriverNormalized") = "normalizedBoot"
         /\ next("NormalizedBootVerified") = "activate"
         /\ next("ApplicationActivated") = "restart"
         /\ next("ApplicationRestarted") = "verify"
         /\ next("RecoveryDriverRestored") = "restoreApplication"
         /\ next("RecoveryApplicationRestored") = "restartPrior"
         /\ next("RecoveryCandidateRetired") = "conclude"
BY DEF Following

----
(* What a step that changes little keeps *)

\* A process that is idle needs only the records to fit.
LEMMA RestingFits ==
  ASSUME NEW p \in Pi, NEW u \in BOOLEAN, RecordFits(p, u),
         NEW c \in Process, c.pc = "idle", ~c.applying
  PROVE  Fits(p, c, u)
<1>1. Heading(c) = "idle"
  BY DEF Heading
<1>2. MemoryFits(p, c, u)
  BY DEF MemoryFits, Working, Remembering, Doing, Recovering, Removing
<1>3. PhaseFits(p, c)
  BY <1>1 DEF PhaseFits, Doing
<1>4. WorkFits(p, c, u)
  BY <1>1 DEF WorkFits, Doing, Trial, Switched
<1>5. QED BY <1>2, <1>3, <1>4 DEF Fits

\* ... in particular the process between two commands.
LEMMA IdleFits ==
  ASSUME NEW p \in Pi, NEW u \in BOOLEAN, RecordFits(p, u)
  PROVE  Fits(p, Idle, u)
BY IdleFields, RestingFits

\* What a process that undoes its own upgrade must find.
Undoable(p, u) ==
  /\ p.life # Absent /\ p.life.tx.phase \in ForwardPhases \cup {"PairAccepted"}
  /\ StateFits(p, cmd.state, u) /\ SameChange(p.life.tx, cmd.state.tx)
  /\ cmd.state.tx.phase \in ForwardPhases

\* An upgrade that fails goes over to its recovery with the record it holds.
LEMMA FailedFields ==
  ASSUME cmd \in Process, cmd.applying
  PROVE  /\ Failed \in Process /\ Failed.pc = "restoreDriver" /\ Failed.state = cmd.state
         /\ Failed.applying = FALSE
BY DEF Failed, Process, Pcs, Ops, Doing, Recovering

\* A process that gives up fits wherever it may undo what it did.
LEMMA FailedFits ==
  ASSUME NEW p \in Pi, NEW u \in BOOLEAN, cmd \in Process, RecordFits(p, u),
         cmd.applying => Undoable(p, u)
  PROVE  Fits(p, Failed, u)
<1>1. CASE ~cmd.applying
  BY <1>1, IdleFits DEF Failed
<1>2. CASE cmd.applying
  <2> DEFINE c == Failed
  <2>1. c \in Process /\ c.pc = "restoreDriver" /\ c.state = cmd.state /\ ~c.applying
    BY <1>2, FailedFields
  <2> HIDE DEF c
  <2>2. Heading(c) = "restoreDriver"
    BY <2>1 DEF Heading
  <2>3. Undoable(p, u) /\ c.state.tx # Absent
    BY <1>2, <2>1 DEF Undoable, SameChange
  <2>4. MemoryFits(p, c, u)
    BY <2>1, <2>3 DEF MemoryFits, Working, Remembering, Doing, Recovering, Removing, Undoable
  <2>5. PhaseFits(p, c)
    BY <2>1, <2>2, <2>3 DEF PhaseFits, Doing, Undoable
  <2>6. WorkFits(p, c, u)
    BY <2>1, <2>2 DEF WorkFits, Doing, Trial, Switched
  <2>7. Fits(p, c, u)
    BY <2>1, <2>4, <2>5, <2>6 DEF Fits
  <2>8. QED BY <2>7 DEF c
<1>3. QED BY <1>1, <1>2 DEF Process

\* A process in the middle of an upgrade can always go over to undoing it.
LEMMA ApplyingIsUndoable ==
  ASSUME IInv, cmd.applying
  PROVE  Undoable(pi, undone)
<1>1. Fits(pi, cmd, undone)
  BY DEF IInv
<1>2. /\ Heading(cmd) \in Doing /\ cmd.state.tx.phase \in ForwardPhases
      /\ pi.life.tx.phase \in ForwardPhases
  BY <1>1 DEF Fits, PhaseFits
<1>3. CASE cmd.pc # "save"
  <2>1. cmd.pc \in Doing
    BY <1>2, <1>3 DEF Heading
  <2>2. pi.life # Absent /\ cmd.state = pi.life /\ cmd.state.tx # Absent
    BY <1>1, <2>1 DEF Fits, MemoryFits, Working, Remembering
  <2>3. StateFits(pi, cmd.state, undone)
    BY <1>1, <2>2 DEF Fits, RecordFits
  <2>4. QED BY <1>2, <2>2, <2>3 DEF Undoable, SameChange
<1>4. CASE cmd.pc = "save"
  <2>1. cmd.state.un = Absent \/ cmd.state.tx # Absent
    <3>1. SUFFICES ASSUME cmd.state.un # Absent PROVE FALSE
      OBVIOUS
    <3>2. Heading(cmd) = AfterUninstallSave[cmd.state.un.phase]
      BY <3>1, <1>4 DEF Heading
    <3>3. cmd.state.un \in Uninstall
      BY <1>1, <3>1 DEF Fits, Process, State
    <3>4. cmd.state.un.phase \in UninstallPhases
      BY <3>3 DEF Uninstall
    <3>5. Heading(cmd) \in Removing
      BY <3>2, <3>4 DEF AfterUninstallSave, UninstallPhases, Removing
    <3>6. QED BY <3>5, <1>2 DEF Doing, Removing
  <2>2. cmd.state.tx # Absent
    BY <2>1, <1>1, <1>4 DEF Fits, MemoryFits
  <2>3. QED BY <1>1, <1>2, <1>4, <2>2 DEF Fits, MemoryFits, Undoable
<1>5. QED BY <1>3, <1>4

\* ... so a process can give up at any moment.
LEMMA FailureFits ==
  ASSUME IInv
  PROVE  Fits(pi, Failed, undone)
BY ApplyingIsUndoable, FailedFits DEF IInv, Fits

\* The driver's journal is not being closed.
InUse(p) == IF p.life = Absent THEN p.compat # Absent ELSE p.life.un = Absent

\* q differs from p in nothing that the invariant speaks of.
Alike(p, q) ==
  /\ q \in Pi /\ q.life = p.life /\ q.compat = p.compat
  /\ q.disk.bin = p.disk.bin /\ q.disk.meta = p.disk.meta /\ p.disk.kept \subseteq q.disk.kept
  /\ q.drv.normal = p.drv.normal /\ q.drv.booted \in {p.drv.booted, p.drv.normal}
  /\ q.drv.files = p.drv.files /\ (InUse(p) \/ q.drv.accepted = p.drv.accepted)

\* A state that fits the one fits the other,
LEMMA AlikeStates ==
  ASSUME NEW p, NEW q, Alike(p, q), NEW s, NEW u
  PROVE  StateFits(p, s, u) => StateFits(q, s, u)
<1>1. /\ q.disk.bin = p.disk.bin /\ q.disk.meta = p.disk.meta
      /\ q.drv.normal = p.drv.normal /\ p.disk.kept \subseteq q.disk.kept
      /\ q.drv.files = p.drv.files
  BY DEF Alike
<1>2. \A r : (Installed(p.disk, r) <=> Installed(q.disk, r)) /\ (r \in p.disk.kept => r \in q.disk.kept)
  BY <1>1 DEF Installed
<1>3. \A r : DriverIs(p, r) => DriverIs(q, r)
  BY DEF DriverIs, Alike
<1>4. TxFits(p, s.tx, u) => TxFits(q, s.tx, u)
  BY <1>2, <1>3 DEF TxFits
<1>5. UnFits(p, s) => UnFits(q, s)
  BY <1>1 DEF UnFits
<1>6. QED BY <1>1, <1>2, <1>3, <1>4, <1>5 DEF StateFits

\* ... and so does everything else.
LEMMA AlikeFits ==
  ASSUME NEW p, NEW q, Alike(p, q), NEW c, NEW u, Fits(p, c, u)
  PROVE  Fits(q, c, u)
<1>1. /\ q \in Pi /\ q.life = p.life /\ q.compat = p.compat
      /\ q.disk.bin = p.disk.bin /\ q.disk.meta = p.disk.meta /\ q.drv.normal = p.drv.normal
      /\ p.disk.kept \subseteq q.disk.kept
  BY DEF Alike
<1>2. \A r : (Installed(p.disk, r) <=> Installed(q.disk, r)) /\ (r \in p.disk.kept => r \in q.disk.kept)
  BY <1>1 DEF Installed
<1>3. \A r : DriverIs(p, r) => DriverIs(q, r)
  BY DEF DriverIs, Alike
<1>4. \A s : StateFits(p, s, u) => StateFits(q, s, u)
  BY AlikeStates
<1>5. RecordFits(q, u)
  <2>1. q.life = Absent /\ q.compat = Absent => q.drv.accepted = p.drv.accepted
    BY <1>1 DEF Alike, InUse
  <2>2. QED BY <1>1, <1>2, <1>3, <1>4, <2>1 DEF Fits, RecordFits
<1>6. MemoryFits(q, c, u)
  BY <1>1, <1>4 DEF Fits, MemoryFits
<1>7. PhaseFits(q, c)
  <2>1. c.pc = "finalizeUninstall" => p.life # Absent /\ p.life.un # Absent
    BY DEF Fits, MemoryFits, Remembering, Removing
  <2>2. c.pc = "finalizeUninstall" => q.drv.accepted = p.drv.accepted
    BY <2>1 DEF Alike, InUse
  <2>3. QED BY <1>1, <2>2 DEF Fits, PhaseFits
<1>8. WorkFits(q, c, u)
  BY <1>2, <1>3 DEF Fits, WorkFits
<1>9. QED BY <1>1, <1>5, <1>6, <1>7, <1>8 DEF Fits

----
(* Calls *)

\* A call keeps the invariant if the files, after each of its steps, fit a
\* process that gives up, and at the end one that goes on.
LEMMA CallCases ==
  ASSUME IInv, NEW can, NEW steps, NEW done, CallOnly(can, steps, done), undone' \in BOOLEAN,
         can => Fits(Last(steps), done, undone'),
         can => \A i \in DOMAIN steps : Fits(steps[i], Failed, undone'),
         ~can => Fits(pi, Failed, undone')
  PROVE  IInv'
<1>1. Fits(pi', cmd', undone')
  BY DEF CallOnly
<1>2. faults' \in 0 .. MaxFaults
  BY BoundsAssumption DEF CallOnly, IInv
<1>3. QED BY <1>1, <1>2 DEF IInv

\* ... so a call whose steps change nothing that matters needs only its end.
LEMMA QuietCall ==
  ASSUME IInv, NEW can, NEW steps, NEW done, Call(can, steps, done),
         can => \A i \in DOMAIN steps : Alike(pi, steps[i]),
         can => Fits(Last(steps), done, undone)
  PROVE  IInv'
<1>1. CallOnly(can, steps, done) /\ undone' = undone
  BY DEF Call
<1>2. Fits(pi, Failed, undone) /\ undone \in BOOLEAN
  BY FailureFits DEF IInv, Fits
<1>3. can => \A i \in DOMAIN steps : Fits(steps[i], Failed, undone)
  BY <1>2, AlikeFits
<1>4. QED BY <1>1, <1>2, <1>3, CallCases

\* A step that only moves the process on.
LEMMA MoveOnly ==
  ASSUME IInv, Fits(pi, cmd', undone), UNCHANGED <<pi, faults, undone>>
  PROVE  IInv'
BY DEF IInv

\* The states that a short call passes through.
LEMMA ShortCalls ==
  ASSUME NEW p, NEW q
  PROVE  /\ Last(<<p>>) = p /\ \A i \in DOMAIN <<p>> : <<p>>[i] = p
         /\ Last(<<p, q>>) = q /\ \A i \in DOMAIN <<p, q>> : <<p, q>>[i] \in {p, q}
BY DEF Last

\* The states of a call with three steps.
LEMMA ThreeStates ==
  ASSUME NEW p, NEW q, NEW r, NEW steps, steps = <<p, q, r>>
  PROVE  Last(steps) = r /\ \A i \in DOMAIN steps : steps[i] \in {p, q, r}
BY DEF Last

\* Nothing changes when nothing changes.
LEMMA AlikeItself ==
  ASSUME IInv
  PROVE  Alike(pi, pi)
BY DEF IInv, Fits, Alike

\* A call that only looks at the Pi,
LEMMA QuietOne ==
  ASSUME IInv, NEW can, NEW done, Call(can, <<pi>>, done), can => Fits(pi, done, undone)
  PROVE  IInv'
<1>1. Last(<<pi>>) = pi /\ \A i \in DOMAIN <<pi>> : <<pi>>[i] = pi
  BY ShortCalls
<1>2. can => Fits(Last(<<pi>>), done, undone)
  BY <1>1
<1>3. can => \A i \in DOMAIN <<pi>> : Alike(pi, <<pi>>[i])
  BY <1>1, AlikeItself
<1> DEFINE steps == <<pi>>
<1> HIDE DEF steps
<1>4. Call(can, steps, done) /\ (can => Fits(Last(steps), done, undone))
      /\ (can => \A i \in DOMAIN steps : Alike(pi, steps[i]))
  BY <1>2, <1>3 DEF steps
<1>5. QED BY <1>4, QuietCall

\* ... and a call that changes nothing that matters.
LEMMA QuietTwo ==
  ASSUME IInv, NEW q, NEW can, NEW done, Call(can, <<pi, q>>, done),
         can => Alike(pi, q), can => Fits(pi, done, undone)
  PROVE  IInv'
<1> DEFINE steps == <<pi, q>>
<1>1. Last(steps) = q /\ \A i \in DOMAIN steps : steps[i] \in {pi, q}
  BY ShortCalls
<1>2. Call(can, steps, done)
  OBVIOUS
<1> HIDE DEF steps
<1>3. can => Fits(Last(steps), done, undone)
  BY <1>1, AlikeFits
<1>4. can => \A i \in DOMAIN steps : Alike(pi, steps[i])
  BY <1>1, AlikeItself
<1>5. QED BY <1>2, <1>3, <1>4, QuietCall

----
(* Processes between commands and steps *)

\* A process that has loaded nothing yet.
LEMMA LoadingFits ==
  ASSUME NEW p \in Pi, NEW u \in BOOLEAN, RecordFits(p, u), NEW c \in Process,
         c.pc \in {"load", "migrate", "saveMigrated"}, ~c.applying, c.state = EmptyState,
         c.pc = "load" => c.op \in Ops /\ (c.cand = Absent <=> c.helper = Absent),
         c.pc # "load" => /\ p.life = Absent /\ p.compat # Absent
                          /\ c.cand # Absent /\ c.helper # Absent
  PROVE  Fits(p, c, u)
<1>1. Heading(c) = c.pc
  BY DEF Heading
<1>2. MemoryFits(p, c, u)
  BY DEF MemoryFits, Working, Remembering, Doing, Recovering, Removing
<1>3. PhaseFits(p, c)
  BY <1>1 DEF PhaseFits, Doing
<1>4. WorkFits(p, c, u)
  BY <1>1 DEF WorkFits, Doing, Trial, Switched
<1>5. QED BY <1>2, <1>3, <1>4 DEF Fits

\* A process that has loaded what is recorded, with no transaction pending.
LEMMA ChoosingFits ==
  ASSUME NEW p \in Pi, NEW u \in BOOLEAN, RecordFits(p, u), NEW c \in Process,
         c.pc \in {"resolve", "choose", "apply", "uninstall"}, ~c.applying,
         \/ c.state = EmptyState /\ p.life = Absent
         \/ p.life # Absent /\ c.state = p.life /\ c.state.tx = Absent,
         c.pc = "resolve" => c.op \in Ops,
         c.pc = "apply" => c.cand # Absent /\ c.helper # Absent
  PROVE  Fits(p, c, u)
<1>1. Heading(c) = c.pc
  BY DEF Heading
<1>2. MemoryFits(p, c, u)
  BY DEF MemoryFits, Working, Remembering, Doing, Recovering, Removing
<1>3. PhaseFits(p, c)
  BY <1>1 DEF PhaseFits, Doing
<1>4. WorkFits(p, c, u)
  BY <1>1 DEF WorkFits, Doing, Trial, Switched
<1>5. QED BY <1>2, <1>3, <1>4 DEF Fits

\* A process that ends or undoes the recorded transaction.
LEMMA EndingFits ==
  ASSUME NEW p \in Pi, NEW u \in BOOLEAN, RecordFits(p, u), NEW c \in Process,
         c.pc \in {"finalizeDriver", "finish"} \cup Recovering, ~c.applying,
         p.life # Absent, c.state = p.life, c.state.tx # Absent,
         c.pc \in {"finalizeDriver", "finish"} => c.state.tx.phase = "PairAccepted",
         c.pc = "restoreDriver" => c.state.tx.phase \in ForwardPhases,
         c.pc = "restoreApplication" => c.state.tx.phase = "RecoveryDriverRestored",
         c.pc = "restartPrior" =>
            c.state.tx.phase \in {"RecoveryApplicationRestored", "RecoveryCandidateRetired"},
         c.pc = "retireCandidate" => c.state.tx.phase = "RecoveryApplicationRestored",
         c.pc = "conclude" => c.state.tx.phase = "RecoveryCandidateRetired"
  PROVE  Fits(p, c, u)
<1>1. Heading(c) = c.pc
  BY DEF Heading, Recovering
<1>2. MemoryFits(p, c, u)
  BY DEF MemoryFits, Working, Remembering, Doing, Recovering, Removing, RecordFits, SameChange
<1>3. PhaseFits(p, c)
  BY <1>1 DEF PhaseFits, Doing, Recovering
<1>4. WorkFits(p, c, u)
  BY <1>1 DEF WorkFits, Doing, Trial, Switched, Recovering
<1>5. QED BY <1>2, <1>3, <1>4 DEF Fits

\* A process that has retired, or is about to retire, its helper, or uninstalls.
LEMMA RemovingFits ==
  ASSUME NEW p \in Pi, NEW u \in BOOLEAN, RecordFits(p, u), NEW c \in Process,
         c.pc \in {"retireHelper"} \cup Removing, ~c.applying,
         p.life # Absent, c.state = p.life,
         c.pc \in {"retireHelper", "beginUninstall"} => c.state.tx = Absent /\ c.state.un = Absent,
         c.pc = "beginUninstall" => c.unHelper # Absent,
         c.pc \in Removing /\ c.pc # "beginUninstall" => c.state.un # Absent,
         c.pc = "uninstallDriver" => c.state.un.phase = "ApplicationRemoved",
         c.pc \in {"finalizeDriverUninstall", "finalizeUninstall"} =>
           c.state.un.phase = "DriverRemoved",
         c.pc = "finalizeUninstall" => p.drv.accepted = Absent
  PROVE  Fits(p, c, u)
<1>1. Heading(c) = c.pc
  BY DEF Heading, Removing
<1>2. MemoryFits(p, c, u)
  BY DEF MemoryFits, Working, Remembering, Doing, Recovering, Removing
<1>3. PhaseFits(p, c)
  BY <1>1 DEF PhaseFits, Doing, Removing
<1>4. WorkFits(p, c, u)
  BY <1>1 DEF WorkFits, Doing, Trial, Switched, Removing
<1>5. QED BY <1>2, <1>3, <1>4 DEF Fits

\* What is recorded, when something is.
LEMMA RecordedState ==
  ASSUME NEW p \in Pi, NEW u, RecordFits(p, u), p.life # Absent
  PROVE  /\ p.life \in State /\ StateFits(p, p.life, u) /\ Valid(p.life)
         /\ p.life.accepted \in Seq(AcceptedPair) /\ p.life.accepted # <<>>
         /\ p.life.accepted[1] \in AcceptedPair /\ Len(p.life.accepted) \in Nat
         /\ p.life.accepted[1].release \in Releases /\ p.life.accepted[1].owned \in Ownership
         /\ p.life.accepted[1].owned.bin = p.life.accepted[1].release
<1>1. p.life \in State /\ StateFits(p, p.life, u)
  BY DEF Pi, RecordFits
<1>2. Valid(p.life) /\ p.life.accepted # <<>> /\ p.life.accepted \in Seq(AcceptedPair)
  BY <1>1 DEF StateFits, State
<1>3. Len(p.life.accepted) \in Nat /\ 1 \in 1 .. Len(p.life.accepted)
      /\ DOMAIN p.life.accepted = 1 .. Len(p.life.accepted)
  BY <1>2, EmptySeq, LenProperties
<1>4. p.life.accepted[1] \in AcceptedPair
  BY <1>2, <1>3, ElementOfSeq
<1>5. WellOwned(p.life.accepted[1])
  BY <1>1, <1>3 DEF StateFits
<1>6. QED BY <1>1, <1>2, <1>3, <1>4, <1>5 DEF WellOwned, AcceptedPair

\* ... and the transaction, when one is pending.
LEMMA RecordedTransaction ==
  ASSUME NEW p \in Pi, NEW u, RecordFits(p, u), p.life # Absent, p.life.tx # Absent
  PROVE  /\ p.life.tx \in Transaction /\ p.life.tx.phase \in Phases /\ p.life.un = Absent
         /\ p.life.tx.prior \in AcceptedPair /\ p.life.tx.cand \in Releases
         /\ p.life.tx.helper \in Releases /\ TxFits(p, p.life.tx, u)
         /\ p.life.tx.prior.release \in Releases /\ p.life.tx.prior.owned \in Ownership
         /\ p.life.tx.prior.owned.bin = p.life.tx.prior.release
         /\ p.life.tx.prior.release # p.life.tx.cand
<1>1. p.life \in State /\ StateFits(p, p.life, u) /\ Valid(p.life)
  BY RecordedState
<1>2. p.life.tx \in Transaction /\ TxFits(p, p.life.tx, u)
  BY <1>1 DEF State, StateFits
<1>3. p.life.un = Absent
  BY <1>1 DEF Valid
<1>4. p.life.tx.prior \in AcceptedPair /\ p.life.tx.cand \in Releases /\ p.life.tx.phase \in Phases
      /\ p.life.tx.helper \in Releases
  BY <1>2 DEF Transaction
<1>5. WellOwned(p.life.tx.prior) /\ p.life.tx.prior.release # p.life.tx.cand
  BY <1>2 DEF TxFits
<1>6. QED BY <1>2, <1>3, <1>4, <1>5 DEF WellOwned, AcceptedPair

----
(* Loading and choosing *)

\* The parts of the invariant; only an upgrade that is under way is undone on failure.
LEMMA Basics ==
  ASSUME IInv
  PROVE  /\ pi \in Pi /\ cmd \in Process /\ undone \in BOOLEAN /\ RecordFits(pi, undone)
         /\ MemoryFits(pi, cmd, undone) /\ PhaseFits(pi, cmd) /\ WorkFits(pi, cmd, undone)
         /\ cmd.pc \notin Doing \cup {"save"} => ~cmd.applying
<1>1. /\ pi \in Pi /\ cmd \in Process /\ undone \in BOOLEAN /\ RecordFits(pi, undone)
      /\ MemoryFits(pi, cmd, undone) /\ PhaseFits(pi, cmd) /\ WorkFits(pi, cmd, undone)
  BY DEF IInv, Fits
<1>2. cmd.pc \notin Doing \cup {"save"} => ~cmd.applying
  BY <1>1 DEF PhaseFits, Heading
<1>3. QED BY <1>1, <1>2

\* Helpers come and go without touching what is installed.
LEMMA HelpersAlike ==
  ASSUME IInv, NEW H, H \subseteq Releases
  PROVE  Alike(pi, [pi EXCEPT !.helpers = H])
<1> DEFINE q == [pi EXCEPT !.helpers = H]
<1>1. q \in Pi /\ q.life = pi.life /\ q.compat = pi.compat /\ q.disk = pi.disk /\ q.drv = pi.drv
  BY Basics DEF Pi
<1> HIDE DEF q
<1>2. Alike(pi, q)
  BY <1>1 DEF Alike
<1>3. QED BY <1>2 DEF q

\* A new process remembers nothing.
LEMMA BeginKeeps == ASSUME IInv, NEW op \in Ops, Begin(op) PROVE IInv'
<1> DEFINE c == NewProcess(op, "load")
<1>1. c \in Process /\ c.pc = "load" /\ c.op = op /\ ~c.applying /\ c.state = EmptyState
      /\ c.cand = Absent /\ c.helper = Absent
  BY DEF NewProcess, Process, EmptyState, State, MaybeRelease, Pcs
<1>2. cmd' = c /\ UNCHANGED <<pi, faults, undone>>
  BY DEF Begin
<1> HIDE DEF c
<1>3. Fits(pi, c, undone)
  BY <1>1, Basics, LoadingFits
<1>4. QED BY <1>2, <1>3, MoveOnly

\* A pending transaction is taken up where its phase says.
LEMMA LoadTransactionKeeps == ASSUME IInv, LoadTransaction PROVE IInv'
<1> DEFINE tx == pi.life.tx
           q == [pi EXCEPT !.helpers = @ \cup {tx.helper}]
           pc == Resumption(pi.life)
           c == [Go(pc) EXCEPT !.state = pi.life, !.helper = tx.helper]
<1>1. cmd.pc = "load" /\ pi.life # Absent /\ tx # Absent /\ Call(TRUE, <<pi, q>>, c)
  BY DEF LoadTransaction
<1>2. /\ tx.helper \in Releases /\ tx.phase \in Phases /\ pi.life \in State
  BY <1>1, Basics, RecordedTransaction, RecordedState
<1>3. q = [pi EXCEPT !.helpers = pi.helpers \cup {tx.helper}] /\ pi.helpers \subseteq Releases
  BY Basics DEF Pi
<1>4. Alike(pi, q)
  BY <1>2, <1>3, HelpersAlike
<1>5. /\ tx.phase = "PairAccepted" => pc \in {"finalizeDriver", "finish"}
      /\ tx.phase \in ForwardPhases => pc = "restoreDriver"
      /\ tx.phase = "RecoveryDriverRestored" => pc = "restoreApplication"
      /\ tx.phase \in {"RecoveryApplicationRestored", "RecoveryCandidateRetired"} => pc = "restartPrior"
  BY DEF Resumption, ForwardPhases
<1>6. pc \in {"finalizeDriver", "finish"} \cup Recovering /\ pc \in Pcs
  BY <1>2, <1>5 DEF Phases, RecoveryPhases, Recovering, Pcs
<1> HIDE DEF pc
<1>7. /\ c \in Process /\ c.pc = pc /\ c.state = pi.life /\ c.applying = cmd.applying
  BY <1>2, <1>6, Basics, GoFields DEF Process, MaybeRelease
<1>8. ~c.applying /\ c.state.tx = tx
  BY <1>1, <1>7, Basics DEF Doing
<1> HIDE DEF c
<1>9. Fits(pi, c, undone)
  BY <1>1, <1>2, <1>5, <1>6, <1>7, <1>8, Basics, EndingFits DEF Phases, RecoveryPhases, Recovering, ForwardPhases
<1> HIDE DEF q
<1>10. QED BY <1>1, <1>4, <1>9, QuietTwo

\* The commands start with these steps.
LEMMA OperationSteps ==
  ASSUME NEW op \in Ops
  PROVE  Operation(op) \in {"resolve", "choose", "uninstall"} /\ Operation(op) \in Pcs
BY DEF Operation, Ops, Pcs

\* A recorded uninstall is taken up with the record in memory.
LEMMA LoadUninstallKeeps == ASSUME IInv, LoadUninstall PROVE IInv'
<1> DEFINE un == pi.life.un
           can == un.phase # "DriverRemoved" => un.helper \in pi.helpers
           c == [Go(Operation(cmd.op)) EXCEPT !.state = pi.life, !.unHelper = un.helper]
<1>1. cmd.pc = "load" /\ pi.life # Absent /\ un # Absent /\ Call(can, <<pi>>, c)
  BY DEF LoadUninstall
<1>2. /\ un \in Uninstall /\ pi.life \in State /\ pi.life.tx = Absent
  BY <1>1, Basics, RecordedState DEF State, Valid
<1>3. cmd.op \in Ops
  BY <1>1, Basics DEF MemoryFits
<1>4. c \in Process /\ c.pc = Operation(cmd.op) /\ c.state = pi.life /\ c.applying = cmd.applying
      /\ c.op = cmd.op
  <2> DEFINE g == Go(Operation(cmd.op))
  <2>1. g \in Process /\ g.pc = Operation(cmd.op) /\ g.applying = cmd.applying /\ g.op = cmd.op
    BY <1>3, Basics, GoFields, OperationSteps
  <2>2. un.helper \in MaybeRelease
    BY <1>2 DEF Uninstall, MaybeRelease
  <2>3. c = [g EXCEPT !.state = pi.life, !.unHelper = un.helper]
    OBVIOUS
  <2> HIDE DEF g, c
  <2>4. QED BY <1>2, <2>1, <2>2, <2>3 DEF Process
<1>5. ~c.applying
  BY <1>1, <1>4, Basics DEF Doing
<1> HIDE DEF c, can
<1>6. Fits(pi, c, undone)
  BY <1>1, <1>2, <1>3, <1>4, <1>5, Basics, ChoosingFits, OperationSteps
<1>7. QED BY <1>1, <1>6, QuietOne

\* On a settled Pi only helpers of accepted releases go.
LEMMA LoadSettledKeeps == ASSUME IInv, LoadSettled PROVE IInv'
<1> DEFINE left(n) == [pi EXCEPT !.helpers = @ \ Newest(pi.life.accepted, n - 1)]
           steps == [n \in 1 .. Len(pi.life.accepted) + 1 |-> left(n)]
           c == [Go(Operation(cmd.op)) EXCEPT !.state = pi.life]
<1>1. cmd.pc = "load" /\ pi.life # Absent /\ pi.life.tx = Absent /\ Call(TRUE, steps, c)
  BY DEF LoadSettled
<1>2. pi.life \in State
  BY <1>1, Basics, RecordedState
<1>3. cmd.op \in Ops
  BY <1>1, Basics DEF MemoryFits
<1>4. c \in Process /\ c.pc = Operation(cmd.op) /\ c.state = pi.life /\ c.applying = cmd.applying
     /\ c.op = cmd.op
  BY <1>2, <1>3, Basics, GoFields, OperationSteps DEF Process
<1>5. ~c.applying
  BY <1>1, <1>4, Basics DEF Doing
<1>6. \A n : Alike(pi, left(n))
  <2> SUFFICES ASSUME NEW n PROVE Alike(pi, left(n))
    OBVIOUS
  <2> DEFINE some == pi.helpers \ Newest(pi.life.accepted, n - 1)
  <2>1. left(n) = [pi EXCEPT !.helpers = some] /\ some \subseteq Releases
    BY Basics DEF Pi
  <2> HIDE DEF some, left
  <2>2. QED BY <2>1, HelpersAlike
<1>7. Fits(pi, c, undone)
  BY <1>1, <1>2, <1>3, <1>4, <1>5, Basics, ChoosingFits, OperationSteps
<1>8. \A i \in DOMAIN steps : Alike(pi, steps[i])
  BY <1>6
<1>9. \E n : Last(steps) = left(n)
  <2> DEFINE k == Len(pi.life.accepted) + 1
  <2>1. k \in Nat /\ k \in 1 .. k
    BY <1>2, LenProperties DEF State
  <2>2. Len(steps) = k /\ steps[k] = left(k)
    BY <2>1
  <2> HIDE DEF steps, left
  <2>3. QED BY <2>2 DEF Last
<1> HIDE DEF c, left, steps
<1>10. Fits(Last(steps), c, undone)
  BY <1>6, <1>7, <1>9, AlikeFits
<1>11. QED BY <1>1, <1>8, <1>10, QuietCall

\* Without a lifecycle.json the process remembers nothing, and migrates only what
\* state.json holds.
LEMMA LoadNothingKeeps == ASSUME IInv, LoadNothing PROVE IInv'
<1>1. cmd.pc = "load" /\ pi.life = Absent /\ UNCHANGED <<pi, faults, undone>>
  BY DEF LoadNothing
<1>2. /\ cmd.op \in Ops /\ (cmd.cand = Absent <=> cmd.helper = Absent)
      /\ cmd.state = EmptyState /\ ~cmd.applying
  BY <1>1, Basics DEF MemoryFits, Doing
<1>3. /\ {"migrate", "resolve", "apply"} \subseteq Pcs
  BY DEF Pcs
<1>4. CASE cmd' = Go("migrate") /\ pi.compat # Absent /\ cmd.helper # Absent
  BY <1>1, <1>2, <1>3, <1>4, Basics, GoFields, LoadingFits, MoveOnly
<1>5. CASE cmd' = Go("resolve")
  BY <1>1, <1>2, <1>3, <1>5, Basics, GoFields, ChoosingFits, MoveOnly
<1>6. CASE cmd' = Idle
  BY <1>1, <1>6, Basics, IdleFits, MoveOnly
<1>7. CASE cmd' = Go("apply") /\ cmd.cand # Absent
  BY <1>1, <1>2, <1>3, <1>7, Basics, GoFields, ChoosingFits, MoveOnly
<1>8. CASE cmd' = Go(Operation(cmd.op))
  BY <1>1, <1>2, <1>8, Basics, GoFields, OperationSteps, ChoosingFits, MoveOnly
<1>9. QED BY <1>4, <1>5, <1>6, <1>7, <1>8 DEF LoadNothing

\* The journal is told of the installed driver; what boots stays.
LEMMA MigrateKeeps == ASSUME IInv, Migrate PROVE IInv'
<1> DEFINE driver == DriverOf[pi.compat.release]
           q == [pi EXCEPT !.drv.accepted = driver]
           can == pi.drv.normal = driver
<1>1. cmd.pc = "migrate" /\ Call(can, <<pi, q>>, Go("saveMigrated"))
  BY DEF Migrate
<1>2. /\ pi.compat # Absent /\ pi.life = Absent /\ cmd.state = EmptyState
      /\ cmd.cand # Absent /\ cmd.helper # Absent /\ ~cmd.applying
  BY <1>1, Basics DEF MemoryFits, Doing
<1>3. driver \in Drivers
  BY <1>2, Basics, DriversAssumption DEF Pi, AcceptedPair
<1>4. Alike(pi, q)
  <2> HIDE DEF driver
  <2>1. [pi.drv EXCEPT !.accepted = driver] \in Driver
    BY <1>3, Basics DEF Pi, Driver
  <2>2. q \in Pi /\ q.life = pi.life /\ q.compat = pi.compat /\ q.disk = pi.disk
        /\ q.drv = [pi.drv EXCEPT !.accepted = driver]
    BY <2>1, Basics DEF Pi
  <2>3. q.drv.normal = pi.drv.normal /\ q.drv.booted = pi.drv.booted
        /\ q.drv.files = pi.drv.files
    BY <2>2, Basics DEF Pi, Driver
  <2> HIDE DEF q
  <2>4. QED BY <1>2, <2>2, <2>3 DEF Alike, InUse
<1>5. "saveMigrated" \in Pcs
  BY DEF Pcs
<1>6. Fits(pi, Go("saveMigrated"), undone)
  BY <1>2, <1>5, Basics, GoFields, LoadingFits
<1> HIDE DEF q, can
<1>7. QED BY <1>1, <1>4, <1>6, QuietTwo

\* The resolved release is candidate and helper at once.
LEMMA ResolveKeeps == ASSUME IInv, Resolve PROVE IInv'
<1> DEFINE pc == IF cmd.state = EmptyState THEN "load" ELSE "apply"
           q(r) == [pi EXCEPT !.helpers = @ \cup {r}]
           c(r) == [Go(pc) EXCEPT !.cand = r, !.helper = r]
<1>1. PICK r \in Releases : Call(TRUE, <<pi, q(r)>>, c(r))
  BY DEF Resolve
<1>2. /\ cmd.pc = "resolve" /\ ~cmd.applying
      /\ \/ cmd.state = EmptyState /\ pi.life = Absent
         \/ pi.life # Absent /\ cmd.state = pi.life /\ cmd.state.tx = Absent
  BY Basics DEF Resolve, MemoryFits, Doing
<1>3. Alike(pi, q(r))
  <2>1. q(r) = [pi EXCEPT !.helpers = pi.helpers \cup {r}] /\ pi.helpers \subseteq Releases
    BY Basics DEF Pi
  <2>2. QED BY <2>1, HelpersAlike
<1>4. pc \in Pcs
  BY DEF Pcs
<1>5. /\ c(r) \in Process /\ c(r).pc = pc /\ c(r).state = cmd.state /\ ~c(r).applying
      /\ c(r).cand = r /\ c(r).helper = r /\ c(r).op = cmd.op
  BY <1>2, <1>4, Basics, GoFields DEF Process, MaybeRelease
<1>6. r # Absent
  BY ReleasesAssumption
<1> HIDE DEF c, q
<1>7. CASE cmd.state = EmptyState
  <2>1. cmd.op \in Ops
    BY <1>2, Basics DEF MemoryFits
  <2>2. QED BY <1>1, <1>3, <1>5, <1>6, <1>7, <2>1, Basics, LoadingFits, QuietTwo
<1>8. CASE cmd.state # EmptyState
  <2>1. Fits(pi, c(r), undone)
    BY <1>2, <1>5, <1>6, <1>8, Basics, ChoosingFits
  <2>2. QED BY <1>1, <1>3, <2>1, QuietTwo
<1>9. QED BY <1>7, <1>8

\* An accepted release to go back to, with the current one as helper.
LEMMA ChooseKeeps == ASSUME IInv, Choose PROVE IInv'
<1> DEFINE helper == cmd.state.accepted[1].release
           q == [pi EXCEPT !.helpers = @ \cup {helper}]
           c(i) == [Go("apply") EXCEPT !.cand = cmd.state.accepted[i].release, !.helper = helper]
<1>1. PICK i \in 2 .. Len(cmd.state.accepted) : Call(TRUE, <<pi, q>>, c(i))
  BY DEF Choose
<1>2. /\ cmd.pc = "choose" /\ ~cmd.applying
      /\ \/ cmd.state = EmptyState /\ pi.life = Absent
         \/ pi.life # Absent /\ cmd.state = pi.life /\ cmd.state.tx = Absent
  BY Basics DEF Choose, MemoryFits, Doing
<1>3. cmd.state.accepted \in Seq(AcceptedPair)
  BY Basics DEF Process, State
<1>4. /\ cmd.state.accepted[1] \in AcceptedPair /\ cmd.state.accepted[i] \in AcceptedPair
  <2>1. Len(cmd.state.accepted) \in Nat
    BY <1>3, LenProperties
  <2>2. 1 \in 1 .. Len(cmd.state.accepted) /\ i \in 1 .. Len(cmd.state.accepted)
    BY <2>1
  <2>3. QED BY <1>3, <2>2, ElementOfSeq
<1>5. helper \in Releases /\ cmd.state.accepted[i].release \in Releases
  BY <1>4 DEF AcceptedPair
<1>6. Alike(pi, q)
  <2> HIDE DEF helper
  <2>1. q = [pi EXCEPT !.helpers = pi.helpers \cup {helper}] /\ pi.helpers \subseteq Releases
    BY Basics DEF Pi
  <2>2. QED BY <2>1, <1>5, HelpersAlike
<1>7. /\ c(i) \in Process /\ c(i).pc = "apply" /\ c(i).state = cmd.state /\ ~c(i).applying
      /\ c(i).cand # Absent /\ c(i).helper # Absent
  <2>1. "apply" \in Pcs
    BY DEF Pcs
  <2>2. QED BY <1>2, <1>5, <2>1, Basics, GoFields, ReleasesAssumption DEF Process, MaybeRelease
<1> HIDE DEF c, q
<1>8. Fits(pi, c(i), undone)
  BY <1>2, <1>7, Basics, ChoosingFits
<1>9. QED BY <1>1, <1>6, <1>8, QuietTwo

\* A process that gives up before it did anything leaves the Pi alone.
LEMMA GivingUpKeeps ==
  ASSUME IInv, NothingToChoose \/ Refused \/ UninstallRefused
  PROVE  IInv'
<1>1. cmd' = Idle /\ UNCHANGED <<pi, faults, undone>>
  BY DEF NothingToChoose, Refused, UninstallRefused
<1>2. QED BY <1>1, Basics, IdleFits, MoveOnly

\* A call whose failure is ignored needs both ways on.
LEMMA QuietAttempt ==
  ASSUME IInv, NEW q, NEW done, NEW failed, Attempt(<<pi, q>>, done, failed),
         Alike(pi, q), Fits(pi, done, undone), Fits(pi, failed, undone)
  PROVE  IInv'
<1> DEFINE steps == <<pi, q>>
<1>1. Last(steps) = q /\ \A i \in DOMAIN steps : steps[i] \in {pi, q}
  BY ShortCalls
<1>2. Attempt(steps, done, failed)
  OBVIOUS
<1> HIDE DEF steps
<1>3. pi' \in {pi, q} /\ cmd' \in {done, failed} /\ undone' = undone
  BY <1>1, <1>2 DEF Attempt
<1>4. faults' \in 0 .. MaxFaults
  BY <1>2, BoundsAssumption DEF Attempt, IInv
<1>5. Fits(q, done, undone) /\ Fits(q, failed, undone)
  BY AlikeFits
<1>6. Fits(pi', cmd', undone')
  BY <1>3, <1>5
<1>7. QED BY <1>4, <1>6 DEF IInv

\* The invariant does not speak of the helpers on the Pi.
LEMMA HelperRetired ==
  ASSUME IInv, NEW r
  PROVE  Alike(pi, WithoutHelper(r))
<1>1. WithoutHelper(r) = [pi EXCEPT !.helpers = pi.helpers \ {r}] /\ (pi.helpers \ {r}) \subseteq Releases
  BY Basics DEF WithoutHelper, Pi
<1>2. QED BY <1>1, HelpersAlike

\* The release that runs already is not upgraded to.
LEMMA AlreadyAcceptedKeeps == ASSUME IInv, AlreadyAccepted PROVE IInv'
<1>1. Attempt(<<pi, WithoutHelper(cmd.cand)>>, Idle, Idle)
  BY DEF AlreadyAccepted
<1>2. QED BY <1>1, HelperRetired, Basics, IdleFits, QuietAttempt

----
(* Saving *)

\* What of the Pi the invariant asks of a state is in its files and its driver.
LEMMA SameFilesFit ==
  ASSUME NEW p, NEW q, q.disk = p.disk, q.drv = p.drv, NEW s, NEW u, StateFits(p, s, u)
  PROVE  StateFits(q, s, u)
<1>1. \A r : DriverIs(p, r) <=> DriverIs(q, r)
  BY DEF DriverIs
<1>2. TxFits(p, s.tx, u) <=> TxFits(q, s.tx, u)
  BY <1>1 DEF TxFits
<1>3. UnFits(p, s) <=> UnFits(q, s)
  BY DEF UnFits
<1>4. QED BY <1>1, <1>2, <1>3 DEF StateFits

\* A state may be saved when it fits the Pi, keeps the current pair of a settled
\* record, and leaves an upgrade that is under way undoable.
LEMMA SaveCall ==
  ASSUME IInv, NEW s \in State, NEW done, Save(s, done),
         CanSave(s) =>
           /\ StateFits(pi, s, undone)
           /\ pi.life # Absent /\ pi.life.tx = Absent /\ pi.life.un = Absent =>
                s.accepted[1].release = pi.life.accepted[1].release
           /\ pi.life = Absent =>
                pi.compat # Absent /\ s.accepted[1].release = pi.compat.release
           /\ cmd.applying =>
                /\ SameChange(s.tx, cmd.state.tx)
                /\ s.tx.phase \in ForwardPhases \cup {"PairAccepted"}
           /\ \A q \in Pi : q.life = s /\ RecordFits(q, undone) /\ q.disk = pi.disk /\ q.drv = pi.drv
                              => Fits(q, [done EXCEPT !.state = s], undone)
  PROVE  IInv'
<1> DEFINE q == Compatible(s)
           w == [q EXCEPT !.life = s]
           steps == <<pi, q, w>>
           c == [done EXCEPT !.state = s]
<1>1. /\ undone' = undone
      /\ CallOnly(CanSave(s), steps, c) \/ CallOnly(CanSave(s), <<pi, q>>, Failed)
  BY DEF Save, Call, SaveSteps
<1>2. Last(steps) = w /\ \A i \in DOMAIN steps : steps[i] \in {pi, q, w}
  <2>1. steps = <<pi, q, w>>
    OBVIOUS
  <2> HIDE DEF q, w, steps
  <2>2. QED BY <2>1, ThreeStates
<1>3. ASSUME CanSave(s)
      PROVE  Fits(q, Failed, undone) /\ Fits(w, Failed, undone) /\ Fits(w, c, undone)
  <2> DEFINE pair == s.accepted[1]
  <2>1. pair \in AcceptedPair /\ WellOwned(pair)
    <3>1. s.accepted \in Seq(AcceptedPair) /\ s.accepted # <<>>
      BY <1>3 DEF StateFits, State
    <3>2. 1 \in 1 .. Len(s.accepted) /\ DOMAIN s.accepted = 1 .. Len(s.accepted)
      BY <3>1, EmptySeq, LenProperties
    <3>3. QED BY <1>3, <3>1, <3>2, ElementOfSeq DEF StateFits
  <2> HIDE DEF pair
  <2>2. q \in Pi /\ q.life = pi.life /\ q.compat = pair /\ q.disk = pi.disk /\ q.drv = pi.drv
    BY <2>1, Basics DEF Pi, pair, Compatible
  <2>3. w \in Pi /\ w.life = s /\ w.compat = pair /\ w.disk = pi.disk /\ w.drv = pi.drv
    BY <2>2 DEF Pi
  <2> HIDE DEF q, w, steps, c
  <2>4. StateFits(q, s, undone) /\ StateFits(w, s, undone)
    BY <1>3, <2>2, <2>3, SameFilesFit
  <2>5. pair # Absent /\ s # Absent
    BY <2>1, AbsentAssumption
  <2>6. RecordFits(w, undone)
    BY <2>1, <2>3, <2>4, <2>5 DEF RecordFits, pair
  <2>7. RecordFits(q, undone)
    <3>1. CASE pi.life = Absent
      <4>1. /\ pi.compat # Absent /\ Installed(pi.disk, pi.compat.release)
            /\ DriverIs(pi, pi.compat.release) /\ pair.release = pi.compat.release
        BY <3>1, <1>3, Basics DEF RecordFits, pair
      <4>2. DriverIs(q, pair.release)
        BY <4>1, <2>2 DEF DriverIs
      <4>3. QED BY <3>1, <4>1, <4>2, <2>1, <2>2, <2>5 DEF RecordFits
    <3>2. CASE pi.life # Absent
      <4>1. StateFits(q, pi.life, undone)
        BY <3>2, <2>2, Basics, SameFilesFit DEF RecordFits
      <4>2. pi.life.tx = Absent /\ pi.life.un = Absent => pair.release = pi.life.accepted[1].release
        BY <3>2, <1>3 DEF pair
      <4>3. QED BY <3>2, <4>1, <4>2, <2>1, <2>2, <2>5 DEF RecordFits
    <3>3. QED BY <3>1, <3>2
  <2>8. cmd.applying => Undoable(q, undone) /\ Undoable(w, undone)
    <3> SUFFICES ASSUME cmd.applying PROVE Undoable(q, undone) /\ Undoable(w, undone)
      OBVIOUS
    <3>1. Undoable(pi, undone)
      BY ApplyingIsUndoable
    <3>2. StateFits(q, cmd.state, undone) /\ StateFits(w, cmd.state, undone)
      BY <3>1, <2>2, <2>3, SameFilesFit DEF Undoable
    <3>3. QED BY <1>3, <3>1, <3>2, <2>2, <2>3, <2>5 DEF Undoable
  <2>9. Fits(q, Failed, undone) /\ Fits(w, Failed, undone)
    BY <2>2, <2>3, <2>6, <2>7, <2>8, Basics, FailedFits
  <2>10. Fits(w, c, undone)
    BY <1>3, <2>3, <2>6 DEF c
  <2>11. QED BY <2>9, <2>10 DEF q, w, c
<1>4. Fits(pi, Failed, undone) /\ undone \in BOOLEAN
  BY FailureFits, Basics
<1>5. Last(<<pi, q>>) = q /\ \A i \in DOMAIN <<pi, q>> : <<pi, q>>[i] \in {pi, q}
  BY ShortCalls
<1> DEFINE refused == <<pi, q>>
<1> HIDE DEF q, w, steps, c, refused
<1>6. CASE CallOnly(CanSave(s), steps, c)
  BY <1>1, <1>2, <1>3, <1>4, <1>6, CallCases
<1>7. CASE CallOnly(CanSave(s), refused, Failed)
  <2>1. Last(refused) = q /\ \A i \in DOMAIN refused : refused[i] \in {pi, q}
    BY <1>5 DEF refused
  <2>2. QED BY <1>1, <1>3, <1>4, <1>7, <2>1, CallCases
<1>8. QED BY <1>1, <1>6, <1>7 DEF refused

\* The first record of a Pi names what state.json names and the Pi runs.
LEMMA SaveMigratedKeeps == ASSUME IInv, SaveMigrated PROVE IInv'
<1> DEFINE s == Migrated(pi.compat)
           c == [Go("apply") EXCEPT !.state = s]
<1>1. cmd.pc = "saveMigrated" /\ Save(s, Go("apply"))
  BY DEF SaveMigrated
<1>2. /\ pi.compat # Absent /\ pi.life = Absent /\ ~cmd.applying
      /\ cmd.cand # Absent /\ cmd.helper # Absent
  BY <1>1, Basics DEF MemoryFits, Doing
<1>3. pi.compat \in AcceptedPair /\ WellOwned(pi.compat)
      /\ Installed(pi.disk, pi.compat.release) /\ DriverIs(pi, pi.compat.release)
  BY <1>2, Basics DEF Pi, RecordFits
<1>4. s.accepted = <<pi.compat>> /\ s.tx = Absent /\ s.un = Absent /\ s \in State
  <2>1. <<pi.compat>> \in Seq(AcceptedPair)
    BY <1>3
  <2>2. s = [accepted |-> <<pi.compat>>, tx |-> Absent, un |-> Absent]
    BY DEF Migrated, EmptyState
  <2>3. QED BY <2>1, <2>2 DEF State
<1> HIDE DEF s
<1>5. s.accepted[1] = pi.compat /\ s.accepted # <<>> /\ DOMAIN s.accepted = {1} /\ Len(s.accepted) = 1
  BY <1>4
<1>6. CanSave(s) => StateFits(pi, s, undone)
  <2>1. pi.drv.normal # Stock
    BY <1>3, DriversAssumption DEF DriverIs, AcceptedPair
  <2>2. QED BY <1>3, <1>4, <1>5, <2>1 DEF CanSave, StateFits
<1>7. c \in Process /\ c.pc = "apply" /\ ~c.applying /\ c.cand # Absent /\ c.helper # Absent
      /\ c.state = s
  <2>1. "apply" \in Pcs
    BY DEF Pcs
  <2>2. QED BY <1>2, <1>4, <2>1, Basics, GoFields DEF Process
<1> HIDE DEF c
<1>8. \A q \in Pi : q.life = s /\ RecordFits(q, undone) => Fits(q, c, undone)
  <2>1. s # Absent
    BY <1>4, AbsentAssumption
  <2>2. QED BY <1>4, <1>7, <2>1, Basics, ChoosingFits
<1>9. QED BY <1>1, <1>2, <1>4, <1>5, <1>6, <1>8, SaveCall DEF c

\* The step after the save of a phase.
LEMMA StepsAfterSave ==
  ASSUME NEW s
  PROVE  /\ s.tx.phase \in ForwardPhases => AfterSave(s) \in Doing
         /\ s.tx.phase \in ForwardPhases \ {"Prepared"} => AfterSave(s) \notin {"preserve", "deploy"}
         /\ s.tx.phase \in RecoveryPhases => AfterSave(s) \in Recovering
         /\ s.tx.phase = "RecoveryDriverRestored" => AfterSave(s) = "restoreApplication"
         /\ s.tx.phase = "RecoveryApplicationRestored" => AfterSave(s) = "restartPrior"
         /\ s.tx.phase = "RecoveryCandidateRetired" => AfterSave(s) = "conclude"
BY FollowingSteps DEF AfterSave, ForwardPhases, RecoveryPhases, Doing, Recovering

\* A process in the middle of an upgrade, and one that has saved, or saves next.
LEMMA DoingFits ==
  ASSUME NEW p \in Pi, NEW u \in BOOLEAN, RecordFits(p, u), NEW c \in Process,
         c.pc \in Doing, c.applying, p.life # Absent, c.state = p.life, c.state.tx # Absent,
         c.state.tx.phase \in ForwardPhases, WorkFits(p, c, u)
  PROVE  Fits(p, c, u)
<1>1. Heading(c) = c.pc
  BY DEF Heading, Doing
<1>2. MemoryFits(p, c, u)
  BY DEF MemoryFits, Working, Remembering, Doing, Recovering, Removing
<1>3. PhaseFits(p, c)
  BY <1>1 DEF PhaseFits, Doing
<1>4. QED BY <1>2, <1>3 DEF Fits

\* A process that has reached a phase and saves it next.
LEMMA SavingFits ==
  ASSUME NEW p \in Pi, NEW u \in BOOLEAN, RecordFits(p, u), NEW c \in Process,
         c.pc = "save", p.life # Absent, StateFits(p, c.state, u),
         SameChange(p.life.tx, c.state.tx), c.state.tx # Absent,
         \/ /\ c.applying /\ WorkFits(p, c, u)
            /\ c.state.tx.phase \in ForwardPhases \ {"Prepared"}
            /\ p.life.tx.phase \in ForwardPhases
         \/ ~c.applying /\ c.state.tx.phase \in RecoveryPhases
  PROVE  Fits(p, c, u)
<1>1. c.state.un = Absent
  BY DEF StateFits, Valid
<1>2. Heading(c) = AfterSave(c.state)
  BY <1>1 DEF Heading
<1>3. /\ c.applying => Heading(c) \in Doing
      /\ ~c.applying => Heading(c) \in Recovering
  BY <1>2, StepsAfterSave
<1>4. \A x : ~(x \in Doing /\ x \in Recovering)
  BY DEF Doing, Recovering
<1>5. MemoryFits(p, c, u)
  BY DEF MemoryFits, Working, Remembering, Doing, Recovering, Removing
<1>6. PhaseFits(p, c)
  BY <1>3, <1>4 DEF PhaseFits, ForwardPhases, RecoveryPhases
<1>7. WorkFits(p, c, u)
  <2>1. CASE c.applying
    BY <2>1
  <2>2. CASE ~c.applying
    BY <2>2, <1>3 DEF WorkFits, Doing, Recovering, Trial, Switched
  <2>3. QED BY <2>1, <2>2
<1>8. QED BY <1>5, <1>6, <1>7 DEF Fits

\* A transaction begins from the settled Pi, whose current pair is the prior one.
LEMMA BeginTransactionKeeps == ASSUME IInv, BeginTransaction PROVE IInv'
<1> DEFINE s == Begun(cmd.state, cmd.cand, cmd.helper)
           done == [Go(AfterSave(s)) EXCEPT !.applying = TRUE]
           c == [done EXCEPT !.state = s]
           tx == [ prior |-> cmd.state.accepted[1], cand |-> cmd.cand, helper |-> cmd.helper,
                   restored |-> Absent, phase |-> "Prepared" ]
<1>1. /\ cmd.pc = "apply" /\ cmd.state.accepted # <<>> /\ ~CurrentIs(cmd.cand)
      /\ cmd.state.un = Absent /\ Save(s, done)
  BY DEF BeginTransaction
<1>2. /\ pi.life # Absent /\ cmd.state = pi.life /\ pi.life.tx = Absent /\ pi.life.un = Absent
      /\ cmd.cand \in Releases /\ cmd.helper \in Releases /\ ~cmd.applying
  BY <1>1, Basics DEF MemoryFits, EmptyState, Doing, Process, MaybeRelease
<1>3. /\ pi.life \in State /\ StateFits(pi, pi.life, undone) /\ pi.life.accepted # <<>>
      /\ pi.life.accepted[1] \in AcceptedPair /\ pi.life.accepted[1].release \in Releases
      /\ WellOwned(pi.life.accepted[1])
  BY <1>2, Basics, RecordedState DEF WellOwned
<1>4. tx \in Transaction /\ tx.prior = pi.life.accepted[1] /\ tx.cand = cmd.cand
      /\ tx.restored = Absent /\ tx.phase = "Prepared"
  BY <1>2, <1>3 DEF Transaction, Phases, ForwardPhases
<1>5. s = [pi.life EXCEPT !.tx = tx]
  BY <1>2 DEF Begun
<1> HIDE DEF tx
<1>6. s \in State /\ s.tx = tx /\ s.un = Absent /\ s.accepted = pi.life.accepted
  BY <1>2, <1>3, <1>4, <1>5 DEF State
<1> HIDE DEF s
<1>7. tx # Absent
  BY <1>4, AbsentAssumption
<1>8. TxFits(pi, tx, undone)
  <2>1. tx.prior.release # tx.cand
    BY <1>1, <1>2, <1>4 DEF CurrentIs
  <2>2. Installed(pi.disk, tx.prior.release) /\ (undone \/ DriverIs(pi, tx.prior.release))
    BY <1>2, <1>3, <1>4 DEF StateFits
  <2>3. QED BY <1>3, <1>4, <2>1, <2>2 DEF TxFits, ForwardPhases, RecoveryPhases
<1>9. CanSave(s) => StateFits(pi, s, undone)
  BY <1>2, <1>3, <1>6, <1>7, <1>8 DEF StateFits, CanSave
<1>10. AfterSave(s) = "preserve" /\ "preserve" \in Pcs /\ "preserve" \in Doing
  BY <1>4, <1>6, FollowingSteps DEF AfterSave, Pcs, Doing
<1>11. c \in Process /\ c.pc = "preserve" /\ c.applying /\ c.state = s
  <2>1. done \in Process /\ done.pc = "preserve" /\ done.applying
    <3>1. done = [Go("preserve") EXCEPT !.applying = TRUE]
      BY <1>10
    <3>2. Go("preserve") \in Process /\ Go("preserve").pc = "preserve"
      BY <1>10, Basics, GoFields
    <3> HIDE DEF done
    <3>3. QED BY <3>1, <3>2 DEF Process
  <2> HIDE DEF done
  <2>2. QED BY <1>6, <2>1 DEF Process
<1> HIDE DEF c
<1>12. ASSUME NEW q \in Pi, q.life = s, RecordFits(q, undone), q.disk = pi.disk, q.drv = pi.drv
       PROVE  Fits(q, c, undone)
  <2>1. s # Absent
    BY <1>6, AbsentAssumption
  <2>2. WorkFits(q, c, undone)
    <3>1. Heading(c) = "preserve"
      BY <1>11 DEF Heading
    <3>2. Installed(q.disk, tx.prior.release)
      BY <1>8, <1>4, <1>12 DEF TxFits
    <3>3. QED BY <1>4, <1>6, <1>11, <3>1, <3>2 DEF WorkFits, Doing, Trial, Switched
  <2>3. QED BY <1>4, <1>6, <1>7, <1>10, <1>11, <1>12, <2>1, <2>2, Basics, DoingFits DEF ForwardPhases
<1>13. QED BY <1>1, <1>2, <1>6, <1>9, <1>12, SaveCall DEF c

\* What a phase promises has been done by the time it is saved.
LEMMA SavePhaseKeeps == ASSUME IInv, SavePhase PROVE IInv'
<1> DEFINE s == cmd.state
           pc == IF s.un = Absent THEN AfterSave(s) ELSE AfterUninstallSave[s.un.phase]
           c == [Go(pc) EXCEPT !.state = s]
<1>1. cmd.pc = "save" /\ Save(s, Go(pc))
  BY DEF SavePhase
<1>2. /\ pi.life # Absent /\ StateFits(pi, s, undone) /\ s \in State
      /\ s.tx # Absent => SameChange(pi.life.tx, s.tx)
      /\ s.tx = Absent => s.un # Absent /\ pi.life.un # Absent
  BY <1>1, Basics DEF MemoryFits, Process
<1>3. Heading(cmd) = pc
  BY <1>1 DEF Heading
<1>4. s.tx # Absent => s.un = Absent
  BY <1>2 DEF StateFits, Valid
<1>5. /\ s.tx # Absent => s.tx.phase \in (ForwardPhases \cup RecoveryPhases) \ {"Prepared"}
      /\ s.un # Absent => s.un \in Uninstall /\ s.un.phase \in UninstallPhases
  <2>1. s.tx # Absent => s.tx.phase \in Phases /\ s.tx.phase \notin {"Prepared", "PairAccepted"}
    BY <1>1, <1>2, Basics DEF PhaseFits, State, Transaction
  <2>2. QED BY <2>1, <1>2 DEF Phases, State, Uninstall
<1>6. pc \in Pcs
  <2>1. CASE s.tx # Absent
    BY <2>1, <1>4, <1>5, StepsAfterSave DEF Pcs
  <2>2. CASE s.tx = Absent
    BY <2>2, <1>2, <1>5 DEF Pcs, AfterUninstallSave, UninstallPhases, Removing
  <2>3. QED BY <2>1, <2>2
<1>7. c \in Process /\ c.pc = pc /\ c.state = s /\ c.applying = cmd.applying /\ c.last = cmd.last
      /\ c.unHelper = cmd.unHelper
  BY <1>2, <1>6, Basics, GoFields DEF Process
<1>8. cmd.applying => s.tx # Absent /\ s.tx.phase \in ForwardPhases
  <2>1. cmd.applying => Undoable(pi, undone)
    BY ApplyingIsUndoable
  <2>2. QED BY <2>1 DEF Undoable, SameChange
<1> HIDE DEF c
<1>9. ASSUME NEW q \in Pi, q.life = s, RecordFits(q, undone), q.disk = pi.disk, q.drv = pi.drv
      PROVE  Fits(q, c, undone)
  <2>1. s # Absent
    BY <1>2, AbsentAssumption
  <2>2. CASE cmd.applying
    <3>1. pc \in Doing
      BY <2>2, <1>4, <1>8, StepsAfterSave
    <3>2. Heading(c) = pc
      BY <1>7, <3>1 DEF Heading, Doing
    <3>3. \A r : DriverIs(pi, r) => DriverIs(q, r)
      BY <1>9 DEF DriverIs
    <3> HIDE DEF pc
    <3>4. WorkFits(q, c, undone)
      BY <1>3, <1>7, <1>9, <3>2, <3>3, Basics DEF WorkFits, KeepsPrior
    <3>5. QED BY <1>7, <1>8, <1>9, <2>1, <2>2, <3>1, <3>4, Basics, DoingFits
  <2>3. CASE ~cmd.applying /\ s.tx # Absent
    <3>1. pc \notin Doing
      BY <2>3, <1>3, Basics DEF PhaseFits
    <3>2. s.tx.phase \in RecoveryPhases
      BY <2>3, <3>1, <1>4, <1>5, StepsAfterSave
    <3>3. /\ pc \in Recovering
          /\ s.tx.phase = "RecoveryDriverRestored" => pc = "restoreApplication"
          /\ s.tx.phase = "RecoveryApplicationRestored" => pc = "restartPrior"
          /\ s.tx.phase = "RecoveryCandidateRetired" => pc = "conclude"
      BY <2>3, <3>2, <1>4, StepsAfterSave
    <3> HIDE DEF pc
    <3>4. QED BY <1>7, <1>9, <2>1, <2>3, <3>2, <3>3, Basics, EndingFits DEF RecoveryPhases, Recovering
  <2>4. CASE ~cmd.applying /\ s.tx = Absent
    <3>1. s.un # Absent /\ s.un.phase \in UninstallPhases
      BY <2>4, <1>2, <1>5
    <3>2. /\ pc \in Removing /\ pc # "beginUninstall"
          /\ pc = "uninstallDriver" => s.un.phase = "ApplicationRemoved"
          /\ pc = "finalizeDriverUninstall" => s.un.phase = "DriverRemoved"
          /\ pc # "finalizeUninstall"
      BY <3>1 DEF AfterUninstallSave, UninstallPhases, Removing
    <3> HIDE DEF pc
    <3>3. QED BY <1>7, <1>9, <2>1, <2>4, <3>1, <3>2, Basics, RemovingFits DEF Removing
  <2>5. QED BY <2>2, <2>3, <2>4
<1>10. CanSave(s) =>
         /\ StateFits(pi, s, undone)
         /\ pi.life # Absent /\ pi.life.tx = Absent /\ pi.life.un = Absent =>
              s.accepted[1].release = pi.life.accepted[1].release
         /\ pi.life = Absent => pi.compat # Absent /\ s.accepted[1].release = pi.compat.release
         /\ cmd.applying =>
              /\ SameChange(s.tx, cmd.state.tx)
              /\ s.tx.phase \in ForwardPhases \cup {"PairAccepted"}
  BY <1>2, <1>8 DEF SameChange
<1>11. QED BY <1>1, <1>2, <1>9, <1>10, SaveCall DEF c

\* An accepted candidate is installed and its driver selected, so the transaction
\* can be forgotten.
LEMMA FinishKeeps == ASSUME IInv, Finish PROVE IInv'
<1> DEFINE s == Finished(cmd.state)
           c == [Go("retireHelper") EXCEPT !.state = s]
<1>1. cmd.pc = "finish" /\ Save(s, Go("retireHelper"))
  BY DEF Finish
<1>2. /\ pi.life # Absent /\ cmd.state = pi.life /\ pi.life.tx # Absent /\ ~cmd.applying
      /\ pi.life.tx.phase = "PairAccepted"
  BY <1>1, Basics DEF MemoryFits, PhaseFits, Working, Remembering, Doing
<1>3. /\ pi.life \in State /\ StateFits(pi, pi.life, undone) /\ Valid(pi.life)
      /\ pi.life.un = Absent /\ TxFits(pi, pi.life.tx, undone)
  BY <1>2, Basics, RecordedState, RecordedTransaction
<1>4. s \in State /\ s.tx = Absent /\ s.un = Absent /\ s.accepted = pi.life.accepted
  BY <1>2, <1>3 DEF Finished, State
<1>5. s # Absent
  BY <1>4, AbsentAssumption
<1> HIDE DEF s
<1>6. s.accepted[1].release = pi.life.tx.cand
  BY <1>2, <1>3, <1>4 DEF Valid
<1>7. Installed(pi.disk, s.accepted[1].release) /\ (undone \/ DriverIs(pi, s.accepted[1].release))
  BY <1>2, <1>3, <1>6 DEF TxFits
<1>8. CanSave(s) => StateFits(pi, s, undone)
  BY <1>3, <1>4, <1>7 DEF StateFits, CanSave
<1>9. c \in Process /\ c.pc = "retireHelper" /\ c.state = s /\ ~c.applying
  <2>1. "retireHelper" \in Pcs
    BY DEF Pcs
  <2>2. QED BY <1>2, <1>4, <2>1, Basics, GoFields DEF Process
<1> HIDE DEF c
<1>10. ASSUME NEW q \in Pi, q.life = s, RecordFits(q, undone)
       PROVE  Fits(q, c, undone)
  BY <1>4, <1>5, <1>9, <1>10, Basics, RemovingFits DEF Removing
<1>11. QED BY <1>1, <1>2, <1>4, <1>8, <1>10, SaveCall DEF c

\* The helper goes after the record is settled, and the next command starts.
LEMMA RetireHelperKeeps == ASSUME IInv, RetireHelper PROVE IInv'
<1> DEFINE next == IF cmd.op = "none" THEN Idle ELSE Go(Operation(cmd.op))
           done == [next EXCEPT !.helper = Absent]
<1>1. cmd.pc = "retireHelper" /\ Attempt(<<pi, WithoutHelper(cmd.helper)>>, done, next)
  BY DEF RetireHelper
<1>2. /\ pi.life # Absent /\ cmd.state = pi.life /\ cmd.state.tx = Absent /\ ~cmd.applying
  BY <1>1, Basics DEF MemoryFits, Remembering, Doing
<1>3. Fits(pi, next, undone) /\ Fits(pi, done, undone)
  <2>1. CASE cmd.op = "none"
    <3>1. next = Idle
      BY <2>1
    <3> HIDE DEF next
    <3>2. /\ done \in Process /\ done.pc = "idle" /\ ~done.applying
      BY <3>1, IdleFields DEF Process, MaybeRelease
    <3> HIDE DEF done
    <3>3. QED BY <3>1, <3>2, Basics, IdleFits, RestingFits
  <2>2. CASE cmd.op # "none"
    <3>1. cmd.op \in Ops
      BY <2>2, Basics DEF Process
    <3>2. Operation(cmd.op) \in {"resolve", "choose", "uninstall"} /\ Operation(cmd.op) \in Pcs
      BY <3>1, OperationSteps
    <3>3. /\ next \in Process /\ next.pc = Operation(cmd.op) /\ next.state = cmd.state
          /\ ~next.applying /\ next.op = cmd.op
      BY <1>2, <2>2, <3>2, Basics, GoFields
    <3> HIDE DEF next
    <3>4. /\ done \in Process /\ done.pc = Operation(cmd.op) /\ done.state = cmd.state
          /\ ~done.applying /\ done.op = cmd.op
      BY <3>3 DEF Process, MaybeRelease
    <3> HIDE DEF done
    <3>5. QED BY <1>2, <3>1, <3>2, <3>3, <3>4, Basics, ChoosingFits
  <2>3. QED BY <2>1, <2>2
<1> HIDE DEF done, next
<1>4. QED BY <1>1, <1>3, HelperRetired, QuietAttempt

\* The journal accepts the driver that boots.
LEMMA FinalizeDriverKeeps == ASSUME IInv, FinalizeDriver PROVE IInv'
<1> DEFINE q == [pi EXCEPT !.drv.accepted = pi.drv.normal]
<1>1. cmd.pc = "finalizeDriver" /\ Call(TRUE, <<pi, q>>, Go("finish"))
  BY DEF FinalizeDriver
<1>2. /\ pi.life # Absent /\ cmd.state = pi.life /\ pi.life.tx # Absent /\ ~cmd.applying
      /\ pi.life.tx.phase = "PairAccepted"
  BY <1>1, Basics DEF MemoryFits, PhaseFits, Working, Remembering, Doing
<1>3. pi.drv.normal # Stock /\ pi.life.un = Absent
  BY <1>2, Basics, RecordedState, RecordedTransaction DEF StateFits, Valid
<1>4. Alike(pi, q)
  <2>1. [pi.drv EXCEPT !.accepted = pi.drv.normal] \in Driver
    BY <1>3, Basics DEF Pi, Driver
  <2>2. q \in Pi /\ q.life = pi.life /\ q.compat = pi.compat /\ q.disk = pi.disk
        /\ q.drv = [pi.drv EXCEPT !.accepted = pi.drv.normal]
    BY <2>1, Basics DEF Pi
  <2>3. q.drv.normal = pi.drv.normal /\ q.drv.booted = pi.drv.booted
        /\ q.drv.files = pi.drv.files
    BY <2>2, Basics DEF Pi, Driver
  <2> HIDE DEF q
  <2>4. QED BY <1>2, <1>3, <2>2, <2>3 DEF Alike, InUse
<1>5. Fits(pi, Go("finish"), undone)
  <2>1. "finish" \in Pcs
    BY DEF Pcs
  <2>2. QED BY <1>2, <2>1, Basics, GoFields, EndingFits DEF Recovering
<1> HIDE DEF q
<1>6. QED BY <1>1, <1>4, <1>5, QuietTwo

----
(* Uninstalling *)

\* The installed binary becomes the helper of its own removal.
LEMMA PrepareUninstallKeeps == ASSUME IInv, PrepareUninstall PROVE IInv'
<1> DEFINE helper == Current.owned.bin
           q == [pi EXCEPT !.helpers = @ \cup {helper}]
           c == [Go("beginUninstall") EXCEPT !.unHelper = helper]
           can == helper \in pi.helpers \/ pi.disk.bin = helper
<1>1. cmd.pc = "uninstall" /\ cmd.state.un = Absent /\ cmd.state.accepted # <<>>
      /\ Call(can, <<pi, q>>, c)
  BY DEF PrepareUninstall
<1>2. /\ pi.life # Absent /\ cmd.state = pi.life /\ cmd.state.tx = Absent /\ ~cmd.applying
  BY <1>1, Basics DEF MemoryFits, EmptyState, Doing
<1>3. helper \in Releases
  BY <1>2, Basics, RecordedState DEF Current, Ownership
<1>4. Alike(pi, q)
  <2> HIDE DEF helper
  <2>1. q = [pi EXCEPT !.helpers = pi.helpers \cup {helper}] /\ pi.helpers \subseteq Releases
    BY Basics DEF Pi
  <2>2. QED BY <1>3, <2>1, HelpersAlike
<1>5. /\ c \in Process /\ c.pc = "beginUninstall" /\ c.state = cmd.state /\ ~c.applying
      /\ c.unHelper = helper /\ helper # Absent
  <2>1. "beginUninstall" \in Pcs
    BY DEF Pcs, Removing
  <2> HIDE DEF helper
  <2>2. QED BY <1>2, <1>3, <2>1, Basics, GoFields, ReleasesAssumption DEF Process, MaybeRelease
<1> HIDE DEF c, q, can
<1>6. Fits(pi, c, undone)
  BY <1>1, <1>2, <1>5, Basics, RemovingFits DEF Removing
<1>7. QED BY <1>1, <1>4, <1>6, QuietTwo

\* An uninstall begins on a settled Pi.
LEMMA BeginUninstallKeeps == ASSUME IInv, BeginUninstall PROVE IInv'
<1> DEFINE un == [helper |-> cmd.unHelper, purge |-> Purging, phase |-> "UninstallPrepared"]
           s == [cmd.state EXCEPT !.un = un]
           c == [Go("uninstallApplication") EXCEPT !.state = s]
<1>1. cmd.pc = "beginUninstall" /\ Save(s, Go("uninstallApplication"))
  BY DEF BeginUninstall
<1>2. /\ pi.life # Absent /\ cmd.state = pi.life /\ pi.life.tx = Absent /\ pi.life.un = Absent
      /\ cmd.unHelper \in Releases /\ ~cmd.applying
  BY <1>1, Basics DEF MemoryFits, Remembering, Removing, Doing, Process, MaybeRelease
<1>3. /\ pi.life \in State /\ StateFits(pi, pi.life, undone)
  BY <1>2, Basics, RecordedState
<1>4. un \in Uninstall /\ un.phase = "UninstallPrepared"
  BY <1>2 DEF Uninstall, UninstallPhases, Purging
<1> HIDE DEF un
<1>5. s \in State /\ s.tx = Absent /\ s.un = un /\ s.accepted = pi.life.accepted
  BY <1>2, <1>3, <1>4 DEF State
<1>6. un # Absent /\ s # Absent
  BY <1>4, <1>5, AbsentAssumption
<1> HIDE DEF s
<1>7. CanSave(s) => StateFits(pi, s, undone)
  BY <1>3, <1>4, <1>5, <1>6 DEF StateFits, CanSave, UnFits
<1>8. c \in Process /\ c.pc = "uninstallApplication" /\ c.state = s /\ ~c.applying
  <2>1. "uninstallApplication" \in Pcs
    BY DEF Pcs, Removing
  <2>2. QED BY <1>2, <1>5, <2>1, Basics, GoFields DEF Process
<1> HIDE DEF c
<1>9. ASSUME NEW q \in Pi, q.life = s, RecordFits(q, undone)
      PROVE  Fits(q, c, undone)
  BY <1>5, <1>6, <1>8, <1>9, Basics, RemovingFits DEF Removing
<1>10. QED BY <1>1, <1>2, <1>5, <1>7, <1>9, SaveCall DEF c

\* An uninstall goes on with the step its recorded phase names.
LEMMA ResumeUninstallKeeps == ASSUME IInv, ResumeUninstall PROVE IInv'
<1> DEFINE pc == AfterUninstallSave[cmd.state.un.phase]
<1>1. /\ cmd.pc = "uninstall" /\ cmd.state.un # Absent
      /\ cmd' = Go(pc) /\ UNCHANGED <<pi, faults, undone>>
  BY DEF ResumeUninstall
<1>2. pi.life # Absent /\ cmd.state = pi.life /\ ~cmd.applying
  BY <1>1, Basics DEF MemoryFits, EmptyState, Doing
<1>3. cmd.state.un.phase \in UninstallPhases
  BY <1>1, Basics DEF Process, State, Uninstall
<1>4. /\ pc \in Removing /\ pc # "beginUninstall"
      /\ pc = "uninstallDriver" => cmd.state.un.phase = "ApplicationRemoved"
      /\ pc = "finalizeDriverUninstall" => cmd.state.un.phase = "DriverRemoved"
      /\ pc # "finalizeUninstall" /\ pc \in Pcs
  BY <1>3 DEF AfterUninstallSave, UninstallPhases, Removing, Pcs
<1> HIDE DEF pc
<1>5. Fits(pi, Go(pc), undone)
  BY <1>1, <1>2, <1>4, Basics, GoFields, RemovingFits DEF Removing
<1>6. QED BY <1>1, <1>5, MoveOnly

----
(* Upgrading *)

\* What a process in the middle of an upgrade holds and finds.
LEMMA WhileDoing ==
  ASSUME IInv, cmd.pc \in Doing
  PROVE  /\ pi.life # Absent /\ cmd.state = pi.life /\ cmd.applying /\ Heading(cmd) = cmd.pc
         /\ pi.life \in State /\ StateFits(pi, pi.life, undone) /\ pi.life.accepted # <<>>
         /\ pi.life.un = Absent /\ pi.life.tx # Absent /\ pi.life.tx \in Transaction
         /\ pi.life.tx.phase \in ForwardPhases /\ TxFits(pi, pi.life.tx, undone)
         /\ Prior = pi.life.tx.prior /\ Cand = pi.life.tx.cand
         /\ Prior.release \in Releases /\ Prior.owned \in Ownership /\ Cand \in Releases
         /\ Prior.owned.bin = Prior.release /\ Prior.release # Cand
         /\ pi.drv.normal # Stock
<1>1. Heading(cmd) = cmd.pc
  BY DEF Heading, Doing
<1>2. /\ pi.life # Absent /\ cmd.state = pi.life /\ cmd.applying /\ pi.life.tx # Absent
      /\ pi.life.tx.phase \in ForwardPhases
  BY <1>1, Basics DEF MemoryFits, PhaseFits, Working, Remembering
<1>3. /\ pi.life \in State /\ StateFits(pi, pi.life, undone) /\ pi.life.accepted # <<>>
  BY <1>2, Basics, RecordedState
<1>4. /\ pi.life.un = Absent /\ pi.life.tx \in Transaction /\ TxFits(pi, pi.life.tx, undone)
      /\ pi.life.tx.prior.release \in Releases /\ pi.life.tx.prior.owned \in Ownership
      /\ pi.life.tx.cand \in Releases /\ pi.life.tx.prior.owned.bin = pi.life.tx.prior.release
      /\ pi.life.tx.prior.release # pi.life.tx.cand
  BY <1>2, Basics, RecordedTransaction
<1>5. pi.drv.normal # Stock
  BY <1>3, <1>4 DEF StateFits
<1>6. Prior = pi.life.tx.prior /\ Cand = pi.life.tx.cand
  BY <1>2 DEF Prior, Cand
<1>7. QED BY <1>1, <1>2, <1>3, <1>4, <1>5, <1>6

\* A Pi on which the recorded transaction still fits.
LEMMA PendingFits ==
  ASSUME IInv, pi.life # Absent, pi.life.tx # Absent, NEW u,
         NEW q \in Pi, q.life = pi.life, q.compat = pi.compat,
         TxFits(q, pi.life.tx, u), q.drv.normal # Stock
  PROVE  RecordFits(q, u) /\ StateFits(q, pi.life, u)
<1>1. StateFits(pi, pi.life, undone) /\ pi.life.un = Absent
  BY Basics, RecordedState, RecordedTransaction
<1>2. StateFits(q, pi.life, u)
  BY <1>1 DEF StateFits
<1>3. QED BY <1>1, <1>2, Basics DEF RecordFits

\* It can give up on any Pi that fits the recorded transaction.
LEMMA GivingUpWhileDoing ==
  ASSUME IInv, cmd.pc \in Doing, NEW q \in Pi, q.life = pi.life, q.compat = pi.compat,
         TxFits(q, pi.life.tx, undone), q.drv.normal # Stock
  PROVE  Fits(q, Failed, undone)
<1>1. pi.life # Absent /\ pi.life.tx # Absent /\ cmd.state = pi.life
      /\ pi.life.tx.phase \in ForwardPhases
  BY WhileDoing
<1>2. RecordFits(q, undone) /\ StateFits(q, pi.life, undone)
  BY <1>1, PendingFits
<1>3. Undoable(q, undone)
  BY <1>1, <1>2 DEF Undoable, SameChange
<1>4. QED BY <1>2, <1>3, Basics, FailedFits

\* A transaction that moves on to a later phase.
LEMMA LaterPhaseFits ==
  ASSUME IInv, cmd.pc \in Doing, NEW q \in Pi, TxFits(q, pi.life.tx, undone), q.drv.normal # Stock,
         NEW phase \in ForwardPhases \ {"Prepared"}, Prior.release \in q.disk.kept
  PROVE  StateFits(q, InPhase(cmd.state, phase), undone)
<1> DEFINE s == InPhase(cmd.state, phase)
<1>1. /\ cmd.state = pi.life /\ pi.life \in State /\ pi.life.tx # Absent /\ pi.life.un = Absent
      /\ StateFits(pi, pi.life, undone) /\ Prior = pi.life.tx.prior
      /\ pi.life.tx.phase \in ForwardPhases
  BY WhileDoing
<1>2. phase \in Phases
  BY DEF Phases
<1>3. /\ s.accepted = pi.life.accepted /\ s.un = Absent /\ s.tx # Absent /\ s.tx.phase = phase
      /\ s.tx.prior = pi.life.tx.prior /\ s.tx.cand = pi.life.tx.cand
      /\ s.tx.helper = pi.life.tx.helper /\ s.tx.restored = pi.life.tx.restored
  BY <1>1, <1>2, InPhaseFields
<1> HIDE DEF s
<1>4. Valid(s)
  BY <1>1, <1>3 DEF StateFits, Valid, ForwardPhases
<1>5. TxFits(q, s.tx, undone)
  BY <1>1, <1>3 DEF TxFits, ForwardPhases, RecoveryPhases
<1>6. StateFits(q, s, undone)
  BY <1>1, <1>3, <1>4, <1>5 DEF StateFits
<1>7. QED BY <1>6 DEF s

\* The step that follows the save of a phase.
LEMMA ReachHeading ==
  ASSUME cmd \in Process, cmd.state.tx # Absent, cmd.state.un = Absent, NEW phase \in Phases,
         NEW c, c.pc = "save", c.state = InPhase(cmd.state, phase)
  PROVE  /\ Heading(c) = Following(DriverChanged(cmd.state))[phase]
         /\ DriverChanged(c.state) = DriverChanged(cmd.state)
         /\ c.state.tx.prior = Prior /\ c.state.tx.cand = Cand /\ c.state.tx.phase = phase
<1>1. cmd.state \in State
  BY DEF Process
<1>2. /\ c.state.tx.prior = Prior /\ c.state.tx.cand = Cand /\ c.state.un = Absent
      /\ c.state.tx.phase = phase
  BY <1>1, InPhaseFields DEF Prior, Cand
<1>3. DriverChanged(c.state) = DriverChanged(cmd.state)
  BY <1>2 DEF DriverChanged, Prior, Cand
<1>4. Heading(c) = Following(DriverChanged(cmd.state))[phase]
  BY <1>2, <1>3 DEF Heading, AfterSave
<1>5. QED BY <1>2, <1>3, <1>4

\* A step of an upgrade is done and its phase is saved next.
LEMMA ReachFits ==
  ASSUME IInv, cmd.pc \in Doing, NEW q \in Pi, q.life = pi.life, q.compat = pi.compat,
         TxFits(q, pi.life.tx, undone), q.drv.normal # Stock,
         NEW phase \in ForwardPhases \ {"Prepared"}, Prior.release \in q.disk.kept,
         NEW c \in Process, c.pc = "save", c.state = InPhase(cmd.state, phase), c.applying,
         WorkFits(q, c, undone)
  PROVE  Fits(q, c, undone)
<1>1. /\ cmd.state = pi.life /\ pi.life \in State /\ pi.life.tx # Absent /\ pi.life # Absent
      /\ pi.life.tx.phase \in ForwardPhases
  BY WhileDoing
<1>2. phase \in Phases
  BY DEF Phases
<1>3. /\ c.state.tx # Absent /\ c.state.tx.phase = phase
      /\ SameChange(pi.life.tx, c.state.tx)
  BY <1>1, <1>2, InPhaseFields DEF SameChange
<1>4. RecordFits(q, undone) /\ StateFits(q, c.state, undone)
  BY <1>1, PendingFits, LaterPhaseFits
<1>5. QED BY <1>1, <1>3, <1>4, Basics, SavingFits

\* A step that tries the driver leaves the application alone.
LEMMA TrialStep ==
  ASSUME IInv, cmd.pc \in Trial, NEW q \in Pi, q.life = pi.life, q.compat = pi.compat,
         q.disk.bin = pi.disk.bin, q.disk.meta = pi.disk.meta, q.disk.kept = pi.disk.kept,
         q.drv.normal # Stock
  PROVE  /\ Fits(q, Failed, undone)
         /\ \A phase \in ForwardPhases \ {"Prepared"} :
              LET next == Following(TRUE)[phase] IN
              next \in Trial \/ (next = "activate" /\ DriverIs(q, Cand))
                => Fits(q, Reach(phase), undone)
<1>1. cmd.pc \in Doing
  BY DEF Trial, Doing
<1>2. /\ cmd.state = pi.life /\ pi.life.tx # Absent /\ cmd.applying /\ Heading(cmd) = cmd.pc
      /\ TxFits(pi, pi.life.tx, undone) /\ pi.life.tx.phase \in ForwardPhases
      /\ Prior = pi.life.tx.prior /\ Cand = pi.life.tx.cand /\ pi.life.un = Absent
  BY <1>1, WhileDoing
<1>3. /\ DriverChanged(cmd.state) /\ Installed(pi.disk, Prior.release)
      /\ Prior.release \in pi.disk.kept /\ cmd.last # Absent
      /\ Prior.release \notin
           ToSet(cmd.last.kept) \ ToSet(ProspectiveOwnership(cmd.last, Cand).kept)
  BY <1>2, Basics DEF WorkFits, KeepsPrior, Trial, Doing, Switched, Prior, Cand
<1>4. DriverOf[Prior.release] # DriverOf[Cand]
  BY <1>3 DEF DriverChanged, Prior, Cand
<1>5. Installed(q.disk, Prior.release) /\ Prior.release \in q.disk.kept
  BY <1>3 DEF Installed
<1>6. TxFits(q, pi.life.tx, undone)
  BY <1>2, <1>4, <1>5 DEF TxFits, ForwardPhases, RecoveryPhases
<1>7. Fits(q, Failed, undone)
  BY <1>1, <1>6, GivingUpWhileDoing
<1>8. ASSUME NEW phase \in ForwardPhases \ {"Prepared"}, NEW next, next = Following(TRUE)[phase],
             next \in Trial \/ (next = "activate" /\ DriverIs(q, Cand))
      PROVE  Fits(q, Reach(phase), undone)
  <2> DEFINE c == Reach(phase)
  <2>1. phase \in Phases
    BY DEF Phases
  <2>2. /\ c \in Process /\ c.pc = "save" /\ c.state = InPhase(cmd.state, phase)
        /\ c.applying /\ c.last = cmd.last
    BY <1>2, <2>1, Basics, ReachFields
  <2> HIDE DEF c
  <2>3. /\ Heading(c) = next /\ DriverChanged(c.state)
        /\ c.state.tx.prior = Prior /\ c.state.tx.cand = Cand /\ c.state.tx.phase = phase
    <3>1. DriverChanged(cmd.state) = TRUE
      BY <1>3 DEF DriverChanged
    <3>2. /\ Heading(c) = Following(DriverChanged(cmd.state))[phase]
          /\ DriverChanged(c.state) = DriverChanged(cmd.state)
          /\ c.state.tx.prior = Prior /\ c.state.tx.cand = Cand /\ c.state.tx.phase = phase
      BY <1>2, <2>1, <2>2, Basics, ReachHeading
    <3>3. Following(DriverChanged(cmd.state))[phase] = next
      BY <1>8, <3>1
    <3>4. QED BY <1>3, <3>2, <3>3
  <2>4. KeepsPrior(c)
    BY <1>3, <2>2, <2>3 DEF KeepsPrior
  <2>5. WorkFits(q, c, undone)
    BY <1>3, <1>5, <1>8, <2>2, <2>3, <2>4 DEF WorkFits, Trial, Doing, Switched
  <2>6. Fits(q, c, undone)
    BY <1>1, <1>5, <1>6, <2>2, <2>5, ReachFits
  <2>7. QED BY <2>6 DEF c
<1>9. QED BY <1>7, <1>8

\* A staged driver is booted once at most: normal boots keep the prior one.
LEMMA StageDriverKeeps == ASSUME IInv, StageDriver PROVE IInv'
<1> DEFINE can == pi.drv.normal = DriverOf[Prior.release]
           q == [pi EXCEPT !.drv.accepted = DriverOf[Prior.release]]
           w == [q EXCEPT !.drv.trial = DriverOf[Cand], !.drv.files = @ \cup {DriverOf[Cand]}]
           steps == <<pi, q, w>>
           c == Reach("DriverStaged")
<1>1. cmd.pc = "stageDriver" /\ Call(can, steps, c)
  BY DEF StageDriver
<1>2. cmd.pc \in Trial /\ cmd.pc \in Doing
  BY <1>1 DEF Trial, Doing
<1>3. DriverOf[Prior.release] \in Drivers /\ DriverOf[Cand] \in Drivers
  BY <1>2, WhileDoing, DriversAssumption
<1>4. /\ q \in Pi /\ q.life = pi.life /\ q.compat = pi.compat
      /\ q.disk = pi.disk /\ q.drv.normal = pi.drv.normal
      /\ w \in Pi /\ w.life = pi.life /\ w.compat = pi.compat
      /\ w.disk = pi.disk /\ w.drv.normal = pi.drv.normal
  <2> DEFINE e == [pi.drv EXCEPT !.accepted = DriverOf[Prior.release]]
             f == [e EXCEPT !.trial = DriverOf[Cand], !.files = @ \cup {DriverOf[Cand]}]
  <2>1. pi.drv \in Driver
    BY Basics DEF Pi
  <2>2. e \in Driver /\ e.normal = pi.drv.normal /\ e.booted = pi.drv.booted
    BY <1>3, <2>1 DEF Driver
  <2> HIDE DEF e
  <2>3. f \in Driver /\ f.normal = pi.drv.normal /\ f.booted = pi.drv.booted
    BY <1>3, <2>2 DEF Driver
  <2>4. q = [pi EXCEPT !.drv = e]
    BY Basics DEF e, Pi
  <2> HIDE DEF q
  <2>5. q \in Pi /\ q.life = pi.life /\ q.compat = pi.compat /\ q.disk = pi.disk /\ q.drv = e
    BY <2>2, <2>4, Basics DEF Pi
  <2>6. w = [q EXCEPT !.drv = f]
    BY <2>5 DEF f, Pi
  <2> HIDE DEF f, w
  <2>7. w \in Pi /\ w.life = pi.life /\ w.compat = pi.compat /\ w.disk = pi.disk /\ w.drv = f
    BY <2>3, <2>5, <2>6 DEF Pi
  <2>8. QED BY <2>2, <2>3, <2>5, <2>7
<1>5. Last(steps) = w /\ \A i \in DOMAIN steps : steps[i] \in {pi, q, w}
  <2>1. steps = <<pi, q, w>>
    OBVIOUS
  <2> HIDE DEF q, w, steps
  <2>2. QED BY <2>1, ThreeStates
<1> HIDE DEF q, w, steps, can
<1>6. Fits(w, c, undone)
  <2>1. Following(TRUE)["DriverStaged"] \in Trial /\ "DriverStaged" \in ForwardPhases \ {"Prepared"}
    BY DEF Following, Trial, ForwardPhases
  <2>2. QED BY <1>2, <1>4, <2>1, TrialStep, WhileDoing
<1>7. Fits(pi, Failed, undone) /\ undone \in BOOLEAN
  BY FailureFits, Basics
<1>8. Fits(q, Failed, undone) /\ Fits(w, Failed, undone)
  BY <1>2, <1>4, TrialStep, WhileDoing
<1>9. \A i \in DOMAIN steps : Fits(steps[i], Failed, undone)
  BY <1>5, <1>7, <1>8
<1>10. CallOnly(can, steps, c) /\ undone' = undone
  BY <1>1 DEF Call
<1> HIDE DEF c
<1>11. QED BY <1>5, <1>6, <1>7, <1>9, <1>10, CallCases

\* A boot changes what runs.
LEMMA BootFields ==
  ASSUME NEW p \in Pi, NEW driver \in Drivers \cup {Stock}
  PROVE  LET q == Boot(p, driver) IN
         /\ q \in Pi /\ q.life = p.life /\ q.compat = p.compat
         /\ q.disk.bin = p.disk.bin /\ q.disk.meta = p.disk.meta /\ q.disk.kept = p.disk.kept
         /\ q.drv.normal = p.drv.normal /\ q.drv.booted = driver /\ q.drv.trial = p.drv.trial
         /\ q.drv.accepted = p.drv.accepted /\ q.drv.files = p.drv.files
         /\ q.disk.enabled = p.disk.enabled
<1> DEFINE d == Rebooted(p.disk)
           e == [p.drv EXCEPT !.booted = driver]
           q == Boot(p, driver)
<1>1. p.disk \in Disk /\ p.drv \in Driver
  BY DEF Pi
<1>2. d \in Disk /\ d.bin = p.disk.bin /\ d.meta = p.disk.meta /\ d.kept = p.disk.kept
      /\ d.enabled = p.disk.enabled
  BY <1>1 DEF Rebooted, Disk, MaybeRelease
<1>3. e \in Driver /\ e.normal = p.drv.normal /\ e.booted = driver /\ e.trial = p.drv.trial
      /\ e.accepted = p.drv.accepted /\ e.files = p.drv.files
  BY <1>1 DEF Driver
<1>4. q = [p EXCEPT !.drv = e, !.disk = d]
  BY DEF Boot, Pi
<1> HIDE DEF d, e, q
<1>5. q \in Pi /\ q.life = p.life /\ q.compat = p.compat /\ q.disk = d /\ q.drv = e
  BY <1>2, <1>3, <1>4 DEF Pi
<1>6. QED BY <1>2, <1>3, <1>5 DEF q

\* A step of the trial with one change of the Pi.
LEMMA TrialCall ==
  ASSUME IInv, cmd.pc \in Trial, NEW can, NEW q, NEW phase \in ForwardPhases \ {"Prepared"},
         Call(can, <<pi, q>>, Reach(phase)),
         can => /\ q \in Pi /\ q.life = pi.life /\ q.compat = pi.compat /\ q.disk.bin = pi.disk.bin
                /\ q.disk.meta = pi.disk.meta /\ q.disk.kept = pi.disk.kept /\ q.drv.normal # Stock
                /\ \/ Following(TRUE)[phase] \in Trial
                   \/ Following(TRUE)[phase] = "activate" /\ DriverIs(q, Cand)
  PROVE  IInv'
<1> DEFINE steps == <<pi, q>>
           c == Reach(phase)
<1>1. CallOnly(can, steps, c) /\ undone' = undone
  BY DEF Call
<1>2. Last(steps) = q /\ \A i \in DOMAIN steps : steps[i] \in {pi, q}
  BY ShortCalls
<1> HIDE DEF steps
<1>3. can => Fits(q, Failed, undone) /\ Fits(q, c, undone)
  BY TrialStep
<1>4. Fits(pi, Failed, undone) /\ undone \in BOOLEAN
  BY FailureFits, Basics
<1> HIDE DEF c
<1>5. QED BY <1>1, <1>2, <1>3, <1>4, CallCases

\* The trial boots the candidate's driver, and the prior application with it.
LEMMA TrybootKeeps == ASSUME IInv, Tryboot PROVE IInv'
<1>1. cmd.pc = "tryboot" /\ Call(pi.drv.trial = DriverOf[Cand], <<pi, Boot(pi, DriverOf[Cand])>>,
                                  Reach("TrybootVerified"))
  BY DEF Tryboot
<1>2. cmd.pc \in Trial /\ cmd.pc \in Doing
  BY <1>1 DEF Trial, Doing
<1>3. DriverOf[Cand] \in Drivers \cup {Stock} /\ pi.drv.normal # Stock
  BY <1>2, WhileDoing, DriversAssumption
<1>4. Following(TRUE)["TrybootVerified"] \in Trial /\ "TrybootVerified" \in ForwardPhases \ {"Prepared"}
  BY DEF Following, Trial, ForwardPhases
<1> DEFINE q == Boot(pi, DriverOf[Cand])
<1>5. /\ q \in Pi /\ q.life = pi.life /\ q.compat = pi.compat
      /\ q.disk.bin = pi.disk.bin /\ q.disk.meta = pi.disk.meta /\ q.disk.kept = pi.disk.kept
      /\ q.drv.normal = pi.drv.normal
  BY <1>3, Basics, BootFields
<1> HIDE DEF q
<1>6. Call(pi.drv.trial = DriverOf[Cand], <<pi, q>>, Reach("TrybootVerified"))
  BY <1>1 DEF q
<1>7. QED BY <1>2, <1>3, <1>4, <1>5, <1>6, TrialCall

\* From here on a normal boot selects the candidate's driver.
LEMMA CommitKeeps == ASSUME IInv, Commit PROVE IInv'
<1> DEFINE q == [pi EXCEPT !.drv.normal = DriverOf[Cand], !.drv.trial = Absent]
           can == pi.drv.booted = DriverOf[Cand]
<1>1. cmd.pc = "commit" /\ Call(can, <<pi, q>>, Reach("DriverCommitted"))
  BY DEF Commit
<1>2. cmd.pc \in Trial /\ cmd.pc \in Doing
  BY <1>1 DEF Trial, Doing
<1>3. DriverOf[Cand] \in Drivers /\ DriverOf[Cand] # Stock
  BY <1>2, WhileDoing, DriversAssumption
<1>4. Following(TRUE)["DriverCommitted"] \in Trial /\ "DriverCommitted" \in ForwardPhases \ {"Prepared"}
  BY DEF Following, Trial, ForwardPhases
<1>5. q \in Pi /\ q.life = pi.life /\ q.compat = pi.compat /\ q.disk = pi.disk
      /\ q.drv.normal = DriverOf[Cand]
  <2> DEFINE e == [pi.drv EXCEPT !.normal = DriverOf[Cand], !.trial = Absent]
  <2>1. e \in Driver /\ e.normal = DriverOf[Cand]
    BY <1>3, Basics DEF Pi, Driver
  <2>2. q = [pi EXCEPT !.drv = e]
    BY Basics DEF Pi
  <2> HIDE DEF e, q
  <2>3. QED BY <2>1, <2>2, Basics DEF Pi
<1> HIDE DEF q, can
<1>6. QED BY <1>1, <1>2, <1>3, <1>4, <1>5, TrialCall

\* A normal boot has been verified to run the candidate's driver.
LEMMA RebootKeeps == ASSUME IInv, ExplicitNormal \/ NormalizedBoot PROVE IInv'
<1> DEFINE q == Boot(pi, pi.drv.normal)
           can == pi.drv.normal = DriverOf[Cand] /\ q.disk.running # Absent
<1>1. /\ cmd.pc \in Trial /\ cmd.pc \in Doing
      /\ \E phase \in {"ExplicitNormalVerified", "NormalizedBootVerified"} :
           Call(can, <<pi, q>>, Reach(phase))
  BY DEF ExplicitNormal, NormalizedBoot, RebootNormal, Trial, Doing
<1>2. PICK phase \in {"ExplicitNormalVerified", "NormalizedBootVerified"} :
        Call(can, <<pi, q>>, Reach(phase))
  BY <1>1
<1>3. pi.drv.normal \in Drivers \cup {Stock} /\ pi.drv.normal # Stock
  BY <1>1, Basics, WhileDoing DEF Pi, Driver
<1>4. /\ phase \in ForwardPhases \ {"Prepared"}
      /\ Following(TRUE)[phase] \in Trial \/ Following(TRUE)[phase] = "activate"
  BY DEF Following, Trial, ForwardPhases
<1>5. /\ q \in Pi /\ q.life = pi.life /\ q.compat = pi.compat
      /\ q.disk.bin = pi.disk.bin /\ q.disk.meta = pi.disk.meta /\ q.disk.kept = pi.disk.kept
      /\ q.drv.normal = pi.drv.normal /\ q.drv.booted = pi.drv.normal
  BY <1>3, Basics, BootFields
<1>6. can => DriverIs(q, Cand)
  BY <1>5 DEF DriverIs
<1> HIDE DEF q, can
<1>7. QED BY <1>1, <1>2, <1>3, <1>4, <1>5, <1>6, TrialCall

\* The states of a call that touches only the files.
LEMMA OnDiskFacts ==
  ASSUME IInv, NEW steps \in Seq(Disk), steps # <<>>
  PROVE  /\ DOMAIN OnDisk(steps) = DOMAIN steps
         /\ Last(steps) \in Disk /\ \A i \in DOMAIN steps : steps[i] \in Disk
         /\ Last(OnDisk(steps)) = [pi EXCEPT !.disk = Last(steps)]
         /\ \A i \in DOMAIN steps : OnDisk(steps)[i] = [pi EXCEPT !.disk = steps[i]]
<1>1. Len(steps) \in Nat /\ DOMAIN steps = 1 .. Len(steps) /\ Len(steps) \in 1 .. Len(steps)
  BY EmptySeq, LenProperties
<1>2. \A i \in DOMAIN steps : steps[i] \in Disk
  BY <1>1, ElementOfSeq
<1>3. DOMAIN OnDisk(steps) = 1 .. Len(steps)
      /\ \A i \in DOMAIN steps : OnDisk(steps)[i] = [pi EXCEPT !.disk = steps[i]]
  BY <1>1 DEF OnDisk
<1>4. \A i \in 1 .. Len(steps) : OnDisk(steps)[i] \in Pi
  BY <1>1, <1>2, <1>3, Basics DEF Pi
<1>5. OnDisk(steps) \in Seq(Pi) /\ Len(OnDisk(steps)) = Len(steps)
  <2>1. OnDisk(steps) \in [1 .. Len(steps) -> Pi]
    <3>1. OnDisk(steps) = [i \in 1 .. Len(steps) |-> OnDisk(steps)[i]]
      BY <1>1 DEF OnDisk
    <3>2. QED BY <1>4, <3>1
  <2>2. OnDisk(steps) \in Seq(Pi)
    BY <1>1, <2>1, SeqDef
  <2>3. QED BY <1>1, <1>3, <2>2, LenProperties
<1>6. Last(OnDisk(steps)) = OnDisk(steps)[Len(steps)] /\ Last(steps) = steps[Len(steps)]
  BY <1>5 DEF Last
<1>7. QED BY <1>1, <1>2, <1>3, <1>6

\* A call on the files keeps the invariant if every state of the files fits.
LEMMA DiskCall ==
  ASSUME IInv, NEW can, NEW steps \in Seq(Disk), steps # <<>>, NEW done,
         Call(can, OnDisk(steps), done),
         can => \A q \in Pi :
           q.life = pi.life /\ q.compat = pi.compat /\ q.drv = pi.drv =>
             /\ \A i \in DOMAIN steps : q.disk = steps[i] => Fits(q, Failed, undone)
             /\ q.disk = Last(steps) => Fits(q, done, undone)
  PROVE  IInv'
<1> DEFINE calls == OnDisk(steps)
<1>1. /\ DOMAIN calls = DOMAIN steps /\ Last(calls) = [pi EXCEPT !.disk = Last(steps)]
      /\ Last(steps) \in Disk
      /\ \A i \in DOMAIN steps : steps[i] \in Disk /\ calls[i] = [pi EXCEPT !.disk = steps[i]]
  BY OnDiskFacts
<1>2. \A d \in Disk : LET q == [pi EXCEPT !.disk = d] IN
        q \in Pi /\ q.life = pi.life /\ q.compat = pi.compat /\ q.drv = pi.drv /\ q.disk = d
  BY Basics DEF Pi
<1>3. CallOnly(can, calls, done) /\ undone' = undone
  BY DEF Call
<1>4. Fits(pi, Failed, undone) /\ undone \in BOOLEAN
  BY FailureFits, Basics
<1> HIDE DEF calls
<1>5. can => Fits(Last(calls), done, undone)
  BY <1>1, <1>2
<1>6. ASSUME can, NEW i \in DOMAIN calls PROVE Fits(calls[i], Failed, undone)
  <2> DEFINE q == [pi EXCEPT !.disk = steps[i]]
  <2>1. steps[i] \in Disk /\ calls[i] = q /\ i \in DOMAIN steps
    BY <1>1
  <2>2. q \in Pi /\ q.life = pi.life /\ q.compat = pi.compat /\ q.drv = pi.drv /\ q.disk = steps[i]
    BY <1>2, <2>1
  <2> HIDE DEF q
  <2>3. Fits(q, Failed, undone)
    BY <1>6, <2>1, <2>2
  <2>4. QED BY <2>1, <2>3
<1>7. QED BY <1>3, <1>4, <1>5, <1>6, CallCases

\* The files before and after one write.
LEMMA TwoDisks ==
  ASSUME NEW d \in Disk, NEW e \in Disk
  PROVE  /\ <<d, e>> \in Seq(Disk) /\ <<d, e>> # <<>>
         /\ Last(<<d, e>>) = e /\ \A i \in DOMAIN <<d, e>> : <<d, e>>[i] \in {d, e}
<1>1. <<d, e>> \in Seq(Disk) /\ <<d, e>> # <<>>
  OBVIOUS
<1>2. Last(<<d, e>>) = e /\ \A i \in DOMAIN <<d, e>> : <<d, e>>[i] \in {d, e}
  BY ShortCalls
<1>3. QED BY <1>1, <1>2

\* The service may be stopped and started: nothing else changes.
LEMMA ServiceDisks ==
  ASSUME NEW d \in Disk
  PROVE  \A e \in {Started(d), Stopped(d)} :
           e \in Disk /\ e.bin = d.bin /\ e.meta = d.meta /\ e.kept = d.kept /\ e.enabled = d.enabled
BY DEF Started, Stopped, Disk, MaybeRelease

\* Stopping the service touches nothing the invariant speaks of.
LEMMA NormalizeKeeps == ASSUME IInv, Normalize PROVE IInv'
<1> DEFINE c == Reach("DriverNormalized")
           e == Stopped(pi.disk)
           steps == <<pi.disk, e>>
<1>1. cmd.pc = "normalize" /\ \/ Call(TRUE, OnDisk(steps), c)
                              \/ Call(TRUE, <<pi>>, c)
  BY DEF Normalize
<1>2. cmd.pc \in Trial /\ cmd.pc \in Doing
  BY <1>1 DEF Trial, Doing
<1>3. Following(TRUE)["DriverNormalized"] \in Trial /\ "DriverNormalized" \in ForwardPhases \ {"Prepared"}
  BY DEF Following, Trial, ForwardPhases
<1>4. pi.drv.normal # Stock /\ pi.disk \in Disk
  BY <1>2, WhileDoing, Basics DEF Pi
<1>5. /\ steps \in Seq(Disk) /\ steps # <<>> /\ Last(steps) = e
      /\ \A i \in DOMAIN steps : steps[i] \in {pi.disk, e}
      /\ e.bin = pi.disk.bin /\ e.meta = pi.disk.meta /\ e.kept = pi.disk.kept
  <2>1. e \in Disk /\ e.bin = pi.disk.bin /\ e.meta = pi.disk.meta /\ e.kept = pi.disk.kept
    BY <1>4, ServiceDisks
  <2> HIDE DEF e
  <2>2. QED BY <1>4, <2>1, TwoDisks
<1> HIDE DEF e, steps
<1>6. ASSUME NEW q \in Pi, q.life = pi.life, q.compat = pi.compat, q.drv = pi.drv,
             q.disk \in {pi.disk, e}
      PROVE  Fits(q, Failed, undone) /\ Fits(q, c, undone)
  BY <1>2, <1>3, <1>4, <1>5, <1>6, TrialStep
<1> HIDE DEF c
<1>7. CASE Call(TRUE, OnDisk(steps), c)
  BY <1>5, <1>6, <1>7, DiskCall
<1>8. CASE Call(TRUE, <<pi>>, c)
  BY <1>6, <1>8, Basics, QuietOne
<1>9. QED BY <1>1, <1>7, <1>8

\* What an activation does to the files, wherever it stops: the binary and its
\* metadata are the ones before or those of the activated release, whose file is
\* kept from the first write on, and no file disappears but those it retires.
LEMMA ActivationFacts ==
  ASSUME NEW d \in Disk, NEW owned \in Ownership, NEW r \in Releases
  PROVE  LET steps   == ActivationSteps(d, owned, r)
             retired == ToSet(owned.kept) \ ToSet(ProspectiveOwnership(owned, r).kept)
             last    == Last(steps)
         IN  /\ steps \in Seq(Disk) /\ steps # <<>>
             /\ \A i \in DOMAIN steps :
                  /\ steps[i].bin \in {d.bin, r} /\ steps[i].meta \in {d.meta, r}
                  /\ (d.kept \ retired) \subseteq steps[i].kept
                  /\ steps[i] = d \/ r \in steps[i].kept
                  /\ d.bin = r /\ d.meta = r => Installed(steps[i], r)
             /\ Installed(last, r) /\ r \in last.kept /\ (d.kept \ retired) \subseteq last.kept
             /\ last.bin = r
<1> DEFINE retired == ToSet(owned.kept) \ ToSet(ProspectiveOwnership(owned, r).kept)
           kept     == [d    EXCEPT !.kept = @ \cup {r}]
           switched == [kept EXCEPT !.bin = r]
           recorded == [switched EXCEPT !.meta = r]
           final    == [recorded EXCEPT !.kept = @ \ retired]
           steps == <<d, kept, switched, recorded, final>>
<1>1. ActivationSteps(d, owned, r) = steps
  BY DEF ActivationSteps
<1>2. r \notin retired
  BY ProspectiveFacts
<1> HIDE DEF retired
<1>3. kept \in Disk /\ kept.bin = d.bin /\ kept.meta = d.meta /\ kept.kept = d.kept \cup {r}
  BY DEF Disk
<1> HIDE DEF kept
<1>4. switched \in Disk /\ switched.bin = r /\ switched.meta = d.meta /\ switched.kept = kept.kept
  BY <1>3 DEF Disk, MaybeRelease
<1> HIDE DEF switched
<1>5. recorded \in Disk /\ recorded.bin = r /\ recorded.meta = r /\ recorded.kept = kept.kept
  BY <1>4 DEF Disk, MaybeRelease
<1> HIDE DEF recorded
<1>6. final \in Disk /\ final.bin = r /\ final.meta = r /\ final.kept = kept.kept \ retired
  BY <1>5 DEF Disk
<1> HIDE DEF final
<1>7. steps \in Seq(Disk) /\ steps # <<>> /\ Last(steps) = final
      /\ \A i \in DOMAIN steps : steps[i] \in {d, kept, switched, recorded, final}
  BY <1>3, <1>4, <1>5, <1>6 DEF Last
<1> HIDE DEF steps
<1>8. \A e \in {d, kept, switched, recorded, final} :
        /\ e.bin \in {d.bin, r} /\ e.meta \in {d.meta, r}
        /\ (d.kept \ retired) \subseteq e.kept
        /\ e = d \/ r \in e.kept
        /\ d.bin = r /\ d.meta = r => Installed(e, r)
  BY <1>2, <1>3, <1>4, <1>5, <1>6 DEF Installed
<1>9. Installed(final, r) /\ r \in final.kept /\ (d.kept \ retired) \subseteq final.kept
  BY <1>2, <1>3, <1>6 DEF Installed
<1>10. QED BY <1>1, <1>6, <1>7, <1>8, <1>9 DEF retired

\* The prior release, installed, is copied: every write leaves it installed.
LEMMA PreserveKeeps == ASSUME IInv, Preserve PROVE IInv'
<1> DEFINE r == Prior.release
           owned == Prior.owned
           steps == ActivationSteps(pi.disk, owned, r)
           manifest == ProspectiveOwnership(owned, r)
           can == CanActivate(r, owned, pi.disk.bin = r)
           c == [Go("deploy") EXCEPT !.last = manifest]
<1>1. cmd.pc = "preserve" /\ Call(can, OnDisk(steps), c)
  BY DEF Preserve
<1>2. cmd.pc \in Doing
  BY <1>1 DEF Doing
<1>3. /\ r \in Releases /\ owned \in Ownership /\ Cand \in Releases /\ Cand # r
      /\ pi.drv.normal # Stock /\ pi.disk \in Disk /\ cmd.state = pi.life /\ cmd.applying
      /\ pi.life # Absent /\ pi.life.tx # Absent /\ Heading(cmd) = "preserve"
      /\ TxFits(pi, pi.life.tx, undone) /\ pi.life.tx.phase \in ForwardPhases
      /\ Prior = pi.life.tx.prior /\ Cand = pi.life.tx.cand
  BY <1>1, <1>2, WhileDoing, Basics DEF Pi
<1>4. Installed(pi.disk, r) /\ pi.life.tx.phase = "Prepared"
  BY <1>1, <1>2, <1>3, Basics DEF WorkFits, Switched, Prior
<1>5. /\ steps \in Seq(Disk) /\ steps # <<>>
      /\ \A i \in DOMAIN steps : Installed(steps[i], r)
      /\ Installed(Last(steps), r) /\ r \in Last(steps).kept
  BY <1>3, <1>4, ActivationFacts DEF Installed
<1>6. manifest \in Ownership /\ manifest # Absent
  BY <1>3, ProspectiveFacts, AbsentAssumption
<1>7. r \notin ToSet(manifest.kept) \ ToSet(ProspectiveOwnership(manifest, Cand).kept)
  BY <1>3, ProspectiveKeeps
<1> HIDE DEF steps, manifest
<1>8. /\ c \in Process /\ c.pc = "deploy" /\ c.state = cmd.state /\ c.applying /\ c.last = manifest
  <2>1. "deploy" \in Pcs
    BY DEF Pcs, Doing
  <2>2. QED BY <1>3, <1>6, <2>1, Basics, GoFields DEF Process
<1> HIDE DEF c, can
<1>9. ASSUME NEW q \in Pi, q.life = pi.life, q.compat = pi.compat, q.drv = pi.drv,
             Installed(q.disk, r)
      PROVE  Fits(q, Failed, undone) /\ (r \in q.disk.kept => Fits(q, c, undone))
  <2>1. \A x : DriverIs(pi, x) => DriverIs(q, x)
    BY <1>9 DEF DriverIs
  <2>2. TxFits(q, pi.life.tx, undone)
    BY <1>3, <1>4, <1>9, <2>1 DEF TxFits
  <2>3. Fits(q, Failed, undone)
    BY <1>2, <1>3, <1>9, <2>2, GivingUpWhileDoing
  <2>4. ASSUME r \in q.disk.kept PROVE Fits(q, c, undone)
    <3>1. RecordFits(q, undone)
      BY <1>3, <1>9, <2>2, PendingFits
    <3>2. Heading(c) = "deploy" /\ c.pc \in Doing
      BY <1>8 DEF Heading, Doing
    <3>3. c.state.tx.prior = Prior /\ c.state.tx.cand = Cand /\ c.state.tx.phase = "Prepared"
      BY <1>3, <1>4, <1>8
    <3>4. KeepsPrior(c)
      BY <1>6, <1>7, <1>8, <3>3 DEF KeepsPrior
    <3>5. WorkFits(q, c, undone)
      BY <1>6, <1>8, <1>9, <2>4, <3>2, <3>3, <3>4 DEF WorkFits, Trial, Switched
    <3>6. QED BY <1>3, <1>8, <1>9, <3>1, <3>2, <3>5, Basics, DoingFits
  <2>5. QED BY <2>3, <2>4
<1>10. QED BY <1>1, <1>5, <1>9, DiskCall

\* The candidate's file is added beside the retained ones.
LEMMA DeployKeeps == ASSUME IInv, Deploy PROVE IInv'
<1> DEFINE e == [pi.disk EXCEPT !.kept = @ \cup {Cand}]
           q == [pi EXCEPT !.disk = e]
           steps == <<pi.disk, e>>
           c == Reach("ApplicationStaged")
           r == Prior.release
<1>1. cmd.pc = "deploy" /\ Call(TRUE, OnDisk(steps), c)
  BY DEF Deploy
<1>2. cmd.pc \in Doing
  BY <1>1 DEF Doing
<1>3. /\ Cand \in Releases /\ pi.drv.normal # Stock /\ pi.disk \in Disk
      /\ cmd.state = pi.life /\ cmd.applying /\ pi.life # Absent
      /\ pi.life.tx # Absent /\ pi.life.un = Absent /\ Heading(cmd) = "deploy"
      /\ TxFits(pi, pi.life.tx, undone) /\ pi.life.tx.phase \in ForwardPhases
      /\ Prior = pi.life.tx.prior /\ Cand = pi.life.tx.cand
  BY <1>1, <1>2, WhileDoing, Basics DEF Pi
<1>4. /\ Installed(pi.disk, r) /\ r \in pi.disk.kept
      /\ cmd.last # Absent
      /\ r \notin ToSet(cmd.last.kept) \ ToSet(ProspectiveOwnership(cmd.last, Cand).kept)
  BY <1>1, <1>2, <1>3, Basics DEF WorkFits, KeepsPrior, Switched, Prior, Cand
<1>5. e \in Disk /\ e.bin = pi.disk.bin /\ e.meta = pi.disk.meta /\ pi.disk.kept \subseteq e.kept
  BY <1>3 DEF Disk
<1> HIDE DEF e
<1>6. /\ steps \in Seq(Disk) /\ steps # <<>> /\ Last(steps) = e
      /\ \A i \in DOMAIN steps : steps[i] \in {pi.disk, e}
  BY <1>3, <1>5, TwoDisks
<1> HIDE DEF steps
<1>7. /\ c \in Process /\ c.pc = "save" /\ c.state = InPhase(cmd.state, "ApplicationStaged")
      /\ c.applying /\ c.last = cmd.last
      /\ "ApplicationStaged" \in ForwardPhases \ {"Prepared"} /\ "ApplicationStaged" \in Phases
  <2>1. "ApplicationStaged" \in Phases /\ "ApplicationStaged" \in ForwardPhases \ {"Prepared"}
    BY DEF Phases, ForwardPhases
  <2>2. QED BY <1>3, <2>1, Basics, ReachFields
<1> HIDE DEF c
<1>8. /\ Heading(c) = IF DriverChanged(cmd.state) THEN "stageDriver" ELSE "activate"
      /\ DriverChanged(c.state) = DriverChanged(cmd.state)
      /\ c.state.tx.prior = Prior /\ c.state.tx.cand = Cand
      /\ c.state.tx.phase = "ApplicationStaged"
  <2>1. /\ Heading(c) = Following(DriverChanged(cmd.state))["ApplicationStaged"]
        /\ DriverChanged(c.state) = DriverChanged(cmd.state)
        /\ c.state.tx.prior = Prior /\ c.state.tx.cand = Cand
        /\ c.state.tx.phase = "ApplicationStaged"
    BY <1>3, <1>7, Basics, ReachHeading
  <2>2. QED BY <2>1, FollowingSteps
<1>9. ASSUME NEW p \in Pi, p.life = pi.life, p.compat = pi.compat, p.drv = pi.drv,
             p.disk \in {pi.disk, e}
      PROVE  Fits(p, Failed, undone) /\ Fits(p, c, undone)
  <2>1. Alike(pi, p)
    BY <1>5, <1>9 DEF Alike
  <2>2. \A x : DriverIs(pi, x) => DriverIs(p, x)
    BY <1>9 DEF DriverIs
  <2>3. Installed(p.disk, r) /\ r \in p.disk.kept
    BY <1>4, <1>5, <1>9 DEF Installed
  <2>4. \A x : Installed(pi.disk, x) <=> Installed(p.disk, x)
    BY <1>5, <1>9 DEF Installed
  <2>5. TxFits(p, pi.life.tx, undone)
    BY <1>3, <2>2, <2>3, <2>4 DEF TxFits, ForwardPhases
  <2>6. KeepsPrior(c)
    BY <1>4, <1>7, <1>8 DEF KeepsPrior
  <2>7. ~DriverChanged(c.state) => undone \/ DriverIs(p, Cand)
    BY <1>3, <1>8, <2>5 DEF TxFits, DriverChanged, DriverIs
  <2>8. Heading(c) \in {"stageDriver", "activate"} /\ (Heading(c) = "stageDriver" <=> DriverChanged(c.state))
    BY <1>8 DEF DriverChanged
  <2>9. WorkFits(p, c, undone)
    BY <1>4, <1>7, <1>8, <2>3, <2>6, <2>7, <2>8 DEF WorkFits, Trial, Switched, Doing
  <2>10. Fits(p, c, undone)
    BY <1>2, <1>3, <1>7, <1>9, <2>3, <2>5, <2>9, ReachFits
  <2>11. Fits(p, Failed, undone)
    BY <1>2, <1>3, <1>9, <2>5, GivingUpWhileDoing
  <2>12. QED BY <2>10, <2>11
<1>10. QED BY <1>1, <1>6, <1>9, DiskCall

\* Between the writes of an activation the files are neither the one release nor
\* the other, but the prior one is retained throughout.
LEMMA ActivateKeeps == ASSUME IInv, Activate PROVE IInv'
<1> DEFINE r == Prior.release
           steps == ActivationSteps(pi.disk, cmd.last, Cand)
           manifest == ProspectiveOwnership(cmd.last, Cand)
           can == CanActivate(Cand, cmd.last, Cand \in pi.disk.kept)
           c == [Reach("ApplicationActivated") EXCEPT !.last = manifest]
           retired == ToSet(cmd.last.kept) \ ToSet(manifest.kept)
<1>1. cmd.pc = "activate" /\ Call(can, OnDisk(steps), c)
  <2>1. /\ cmd.pc = "activate"
        /\ Call(can, OnDisk(steps),
                [Reach("ApplicationActivated") EXCEPT !.last = ProspectiveOwnership(@, Cand)])
    BY DEF Activate
  <2>2. [Reach("ApplicationActivated") EXCEPT !.last = ProspectiveOwnership(@, Cand)] = c
    BY Basics DEF Reach, Process
  <2>3. QED BY <2>1, <2>2
<1>2. cmd.pc \in Doing
  BY <1>1 DEF Doing
<1>3. /\ Cand \in Releases /\ pi.drv.normal # Stock /\ pi.disk \in Disk
      /\ cmd.state = pi.life /\ cmd.applying /\ pi.life # Absent
      /\ pi.life.tx # Absent /\ pi.life.un = Absent /\ Heading(cmd) = "activate"
      /\ TxFits(pi, pi.life.tx, undone) /\ pi.life.tx.phase \in ForwardPhases
      /\ Prior = pi.life.tx.prior /\ Cand = pi.life.tx.cand
  BY <1>1, <1>2, WhileDoing, Basics DEF Pi
<1>4. /\ r \in pi.disk.kept /\ cmd.last # Absent
      /\ r \notin retired
      /\ undone \/ DriverIs(pi, Cand)
      /\ pi.life.tx.phase # "Prepared"
  BY <1>1, <1>2, <1>3, Basics DEF WorkFits, KeepsPrior, Switched, Prior, Cand
<1>5. cmd.last \in Ownership
  BY <1>4, Basics DEF Process
<1>6. /\ steps \in Seq(Disk) /\ steps # <<>>
      /\ \A i \in DOMAIN steps : r \in steps[i].kept
      /\ r \in Last(steps).kept
  <2>1. /\ steps \in Seq(Disk) /\ steps # <<>>
        /\ \A i \in DOMAIN steps : (pi.disk.kept \ retired) \subseteq steps[i].kept
        /\ (pi.disk.kept \ retired) \subseteq Last(steps).kept
    BY <1>3, <1>5, ActivationFacts
  <2>2. r \in (pi.disk.kept \ retired)
    BY <1>4
  <2> HIDE DEF steps, retired
  <2>3. \A i \in DOMAIN steps : r \in steps[i].kept
    BY <2>1, <2>2
  <2>4. r \in Last(steps).kept
    BY <2>1, <2>2
  <2>5. QED BY <2>1, <2>3, <2>4
<1>7. manifest \in Ownership /\ manifest # Absent /\ manifest.bin = Cand
  BY <1>3, <1>5, ProspectiveFacts, AbsentAssumption
<1> HIDE DEF steps, manifest, can
<1>8. /\ c \in Process /\ c.pc = "save" /\ c.state = InPhase(cmd.state, "ApplicationActivated")
      /\ c.applying /\ c.last = manifest
      /\ "ApplicationActivated" \in ForwardPhases \ {"Prepared"} /\ "ApplicationActivated" \in Phases
  <2>1. "ApplicationActivated" \in Phases /\ "ApplicationActivated" \in ForwardPhases \ {"Prepared"}
    BY DEF Phases, ForwardPhases
  <2> DEFINE g == Reach("ApplicationActivated")
  <2>2. g \in Process /\ g.pc = "save" /\ g.state = InPhase(cmd.state, "ApplicationActivated") /\ g.applying
    BY <1>3, <2>1, Basics, ReachFields
  <2>3. c = [g EXCEPT !.last = manifest]
    OBVIOUS
  <2> HIDE DEF g, c
  <2>4. QED BY <1>7, <2>1, <2>2, <2>3 DEF Process
<1> HIDE DEF c
<1>9. /\ Heading(c) = "restart"
      /\ c.state.tx.prior = Prior /\ c.state.tx.cand = Cand
      /\ c.state.tx.phase = "ApplicationActivated"
  BY <1>3, <1>8, Basics, ReachHeading, FollowingSteps
<1>10. ASSUME NEW q \in Pi, q.life = pi.life, q.compat = pi.compat, q.drv = pi.drv, r \in q.disk.kept
       PROVE  Fits(q, Failed, undone) /\ Fits(q, c, undone)
  <2>1. \A x : DriverIs(pi, x) => DriverIs(q, x)
    BY <1>10 DEF DriverIs
  <2>2. TxFits(q, pi.life.tx, undone)
    BY <1>3, <1>4, <1>10, <2>1 DEF TxFits, ForwardPhases
  <2>3. WorkFits(q, c, undone)
    BY <1>4, <1>7, <1>8, <1>9, <1>10, <2>1 DEF WorkFits, Trial, Switched, Doing
  <2>4. Fits(q, c, undone)
    BY <1>2, <1>3, <1>8, <1>10, <2>2, <2>3, ReachFits
  <2>5. Fits(q, Failed, undone)
    BY <1>2, <1>3, <1>10, <2>2, GivingUpWhileDoing
  <2>6. QED BY <2>4, <2>5
<1>11. QED BY <1>1, <1>6, <1>10, DiskCall

\* What is known between the activation and the acceptance.
LEMMA WhileSwitched ==
  ASSUME IInv, cmd.pc \in Switched
  PROVE  /\ cmd.pc \in Doing /\ Prior.release \in pi.disk.kept /\ cmd.last # Absent
         /\ undone \/ DriverIs(pi, Cand)
         /\ cmd.last.bin = Cand /\ pi.life.tx.phase # "Prepared" /\ cmd.state.tx.phase # "Prepared"
         /\ cmd.pc = "accept" => Installed(pi.disk, Cand)
<1>1. cmd.pc \in Doing /\ cmd.pc \notin {"preserve", "deploy"} /\ cmd.pc \in Switched
  BY DEF Switched, Doing
<1>2. Heading(cmd) = cmd.pc /\ cmd.state = pi.life
  BY <1>1, WhileDoing
<1>3. WorkFits(pi, cmd, undone)
  BY Basics
<1>4. QED BY <1>1, <1>2, <1>3 DEF WorkFits, Prior, Cand

\* The service runs what is installed.
LEMMA RestartKeeps == ASSUME IInv, Restart PROVE IInv'
<1> DEFINE can == pi.disk.bin # Absent
           e == Started(pi.disk)
           steps == <<pi.disk, e>>
           c == Reach("ApplicationRestarted")
<1>1. cmd.pc = "restart" /\ Call(can, OnDisk(steps), c)
  BY DEF Restart
<1>2. cmd.pc \in Doing /\ cmd.pc \in Switched
  BY <1>1 DEF Doing, Switched
<1>3. /\ pi.drv.normal # Stock /\ pi.disk \in Disk /\ pi.life.tx # Absent /\ pi.life.un = Absent
      /\ cmd.state = pi.life /\ cmd.applying /\ TxFits(pi, pi.life.tx, undone)
  BY <1>2, WhileDoing, Basics DEF Pi
<1>4. /\ Prior.release \in pi.disk.kept /\ cmd.last # Absent
      /\ undone \/ DriverIs(pi, Cand)
      /\ cmd.last.bin = Cand
  BY <1>2, WhileSwitched
<1>5. e \in Disk /\ e.bin = pi.disk.bin /\ e.meta = pi.disk.meta /\ e.kept = pi.disk.kept
  BY <1>3, ServiceDisks
<1> HIDE DEF e
<1>6. /\ steps \in Seq(Disk) /\ steps # <<>> /\ Last(steps) = e
      /\ \A i \in DOMAIN steps : steps[i] \in {pi.disk, e}
  BY <1>3, <1>5, TwoDisks
<1> HIDE DEF steps, can
<1>7. /\ c \in Process /\ c.pc = "save" /\ c.state = InPhase(cmd.state, "ApplicationRestarted")
      /\ c.applying /\ c.last = cmd.last
      /\ "ApplicationRestarted" \in ForwardPhases \ {"Prepared"} /\ "ApplicationRestarted" \in Phases
  <2>1. "ApplicationRestarted" \in Phases /\ "ApplicationRestarted" \in ForwardPhases \ {"Prepared"}
    BY DEF Phases, ForwardPhases
  <2>2. QED BY <1>3, <2>1, Basics, ReachFields
<1> HIDE DEF c
<1>8. /\ Heading(c) = "verify"
      /\ c.state.tx.prior = Prior /\ c.state.tx.cand = Cand
      /\ c.state.tx.phase = "ApplicationRestarted"
  BY <1>3, <1>7, Basics, ReachHeading, FollowingSteps
<1>9. ASSUME NEW p \in Pi, p.life = pi.life, p.compat = pi.compat, p.drv = pi.drv,
             p.disk \in {pi.disk, e}
      PROVE  Fits(p, Failed, undone) /\ Fits(p, c, undone)
  <2>1. Alike(pi, p)
    BY <1>5, <1>9 DEF Alike
  <2>2. \A x : DriverIs(pi, x) => DriverIs(p, x)
    BY <1>9 DEF DriverIs
  <2>3. \A x : Installed(pi.disk, x) <=> Installed(p.disk, x)
    BY <1>5, <1>9 DEF Installed
  <2>4. p.disk.kept = pi.disk.kept
    BY <1>5, <1>9
  <2>5. TxFits(p, pi.life.tx, undone)
    BY <1>3, <2>2, <2>3, <2>4 DEF TxFits
  <2>6. WorkFits(p, c, undone)
    BY <1>4, <1>7, <1>8, <2>2, <2>4 DEF WorkFits, Trial, Switched, Doing
  <2>7. Fits(p, c, undone)
    BY <1>2, <1>3, <1>4, <1>7, <1>9, <2>4, <2>5, <2>6, ReachFits
  <2>8. Fits(p, Failed, undone)
    BY <2>1, FailureFits, AlikeFits
  <2>9. QED BY <2>7, <2>8
<1>10. QED BY <1>1, <1>6, <1>9, DiskCall

\* The verification finds the candidate installed.
LEMMA VerifyKeeps == ASSUME IInv, Verify PROVE IInv'
<1> DEFINE can == PairRuns(pi, Cand)
           c == Go("accept")
<1>1. cmd.pc = "verify" /\ Call(can, <<pi>>, c)
  BY DEF Verify
<1>2. cmd.pc \in Doing /\ cmd.pc \in Switched
  BY <1>1 DEF Doing, Switched
<1>3. /\ cmd.state = pi.life /\ cmd.applying /\ pi.life # Absent /\ pi.life.tx # Absent
      /\ pi.life.tx.phase \in ForwardPhases
  BY <1>2, WhileDoing
<1>4. /\ Prior.release \in pi.disk.kept /\ cmd.last # Absent
      /\ undone \/ DriverIs(pi, Cand)
      /\ cmd.last.bin = Cand /\ pi.life.tx.phase # "Prepared"
  BY <1>2, WhileSwitched
<1>5. can => Installed(pi.disk, Cand)
  BY DEF PairRuns, Healthy
<1>6. /\ c \in Process /\ c.pc = "accept" /\ c.state = cmd.state /\ c.applying /\ c.last = cmd.last
      /\ Heading(c) = "accept" /\ c.pc \in Doing
  <2>1. "accept" \in Pcs /\ "accept" \in Doing
    BY DEF Pcs, Doing
  <2>2. QED BY <1>3, <2>1, Basics, GoFields DEF Heading
<1> HIDE DEF c, can
<1>7. can => WorkFits(pi, c, undone)
  BY <1>3, <1>4, <1>5, <1>6 DEF WorkFits, Trial, Switched, Doing, Prior, Cand
<1>8. can => Fits(pi, c, undone)
  BY <1>3, <1>6, <1>7, Basics, DoingFits
<1>9. QED BY <1>1, <1>8, QuietOne

\* The first n pairs of a sequence.
LEMMA FirstPairs ==
  ASSUME NEW S, NEW s \in Seq(S), NEW n \in 1 .. Len(s)
  PROVE  /\ SubSeq(s, 1, n) \in Seq(S) /\ Len(SubSeq(s, 1, n)) = n
         /\ \A i \in 1 .. n : SubSeq(s, 1, n)[i] = s[i]
<1>1. Len(s) \in Nat /\ n \in Nat /\ n >= 1
  BY LenProperties
<1>2. \A i \in 1 .. n : s[i] \in S
  BY <1>1, ElementOfSeq
<1>3. /\ SubSeq(s, 1, n) \in Seq(S) /\ Len(SubSeq(s, 1, n)) = n - 1 + 1
      /\ \A i \in 1 .. n - 1 + 1 : SubSeq(s, 1, n)[i] = s[1 + i - 1]
  BY <1>1, <1>2, SubSeqProperties
<1>4. QED BY <1>1, <1>3

\* The pairs after an acceptance: the candidate's, then others of those before.
LEMMA AcceptedFacts ==
  ASSUME NEW s \in State, s.tx # Absent, NEW owned \in Ownership
  PROVE  LET new == Accepted(s, owned) IN
         /\ new \in State /\ new.un = s.un /\ new.tx = InPhase(s, "PairAccepted").tx
         /\ new.accepted # <<>> /\ DOMAIN new.accepted = 1 .. Len(new.accepted)
         /\ new.accepted[1] = [release |-> s.tx.cand, owned |-> owned]
         /\ \A i \in DOMAIN new.accepted :
              i # 1 => \E j \in DOMAIN s.accepted :
                         new.accepted[i] = s.accepted[j] /\ s.accepted[j].release # s.tx.cand
         /\ \A i, j \in DOMAIN new.accepted :
              i # 1 /\ i < j => \E a, b \in DOMAIN s.accepted :
                 a < b /\ new.accepted[i] = s.accepted[a] /\ new.accepted[j] = s.accepted[b]
         /\ Len(new.accepted) \in 1 .. MaxAccepted
         /\ s.accepted # <<>> /\ s.accepted[1].release # s.tx.cand =>
              s.accepted[1] \in ToSet(new.accepted)
<1> DEFINE gone == {a \in ToSet(s.accepted) : a.release = s.tx.cand}
           others == Without(s.accepted, gone)
           pair == [release |-> s.tx.cand, owned |-> owned]
           pairs == <<pair>> \o others
           n == IF Len(pairs) < MaxAccepted THEN Len(pairs) ELSE MaxAccepted
           kept == SubSeq(pairs, 1, n)
           new == Accepted(s, owned)
<1>1. s.tx.cand \in Releases /\ s.accepted \in Seq(AcceptedPair)
  BY DEF State, Transaction
<1>2. pair \in AcceptedPair /\ <<pair>> \in Seq(AcceptedPair) /\ Len(<<pair>>) = 1 /\ <<pair>>[1] = pair
  BY <1>1 DEF AcceptedPair
<1>3. \A j \in DOMAIN s.accepted : s.accepted[j] \notin gone => s.accepted[j].release # s.tx.cand
  BY DEF ToSet
<1>4. s.accepted # <<>> /\ s.accepted[1].release # s.tx.cand => s.accepted[1] \notin gone
  OBVIOUS
<1> HIDE DEF gone
<1>5. others \in Seq(AcceptedPair) /\ Kept(others, s.accepted, gone, Len(s.accepted))
  BY <1>1, WithoutFacts
<1> HIDE DEF others, pair
<1>6. Len(others) \in Nat /\ Len(s.accepted) \in Nat /\ DOMAIN s.accepted = 1 .. Len(s.accepted)
  BY <1>1, <1>5, LenProperties
<1>7. /\ pairs \in Seq(AcceptedPair) /\ Len(pairs) = 1 + Len(others)
      /\ \A i \in 1 .. 1 + Len(others) :
           pairs[i] = IF i <= 1 THEN <<pair>>[i] ELSE others[i - 1]
  BY <1>2, <1>5, ConcatProperties
<1> HIDE DEF pairs
<1>8. n \in 1 .. Len(pairs)
  BY <1>6, <1>7, BoundsAssumption
<1> HIDE DEF n
<1>9. /\ kept \in Seq(AcceptedPair) /\ Len(kept) = n /\ \A i \in 1 .. n : kept[i] = pairs[i]
  BY <1>7, <1>8, FirstPairs
<1> HIDE DEF kept
<1>10. kept # <<>> /\ DOMAIN kept = 1 .. n
  BY <1>6, <1>7, <1>8, <1>9, LenProperties, EmptySeq
<1>11. kept[1] = pair
  BY <1>2, <1>6, <1>7, <1>8, <1>9
<1>12. ASSUME NEW i \in DOMAIN kept, i # 1
       PROVE  /\ i - 1 \in 1 .. Len(others) /\ kept[i] = others[i - 1]
              /\ \E j \in DOMAIN s.accepted :
                   kept[i] = s.accepted[j] /\ s.accepted[j].release # s.tx.cand
  <2>1. i \in 1 .. Len(pairs) /\ i - 1 \in 1 .. Len(others) /\ ~(i <= 1)
    BY <1>6, <1>7, <1>8, <1>10, <1>12
  <2>2. kept[i] = others[i - 1]
    BY <1>7, <1>9, <1>10, <2>1
  <2>3. PICK a \in 1 .. Len(s.accepted) :
          others[i - 1] = s.accepted[a] /\ s.accepted[a] \notin gone
    BY <1>5, <2>1 DEF Kept
  <2>4. QED BY <1>3, <1>6, <2>1, <2>2, <2>3
<1>13. ASSUME NEW i \in DOMAIN kept, NEW j \in DOMAIN kept, i # 1, i < j
        PROVE  \E a, b \in DOMAIN s.accepted :
                 a < b /\ kept[i] = s.accepted[a] /\ kept[j] = s.accepted[b]
  <2>1. j # 1 /\ i - 1 < j - 1
    BY <1>6, <1>7, <1>8, <1>10, <1>13
  <2>2. /\ i - 1 \in 1 .. Len(others) /\ j - 1 \in 1 .. Len(others)
        /\ kept[i] = others[i - 1] /\ kept[j] = others[j - 1]
    BY <1>12, <1>13, <2>1
  <2>3. PICK a \in 1 .. Len(s.accepted), b \in 1 .. Len(s.accepted) :
          a < b /\ others[i - 1] = s.accepted[a] /\ others[j - 1] = s.accepted[b]
    BY <1>5, <2>1, <2>2 DEF Kept
  <2>4. QED BY <1>6, <2>2, <2>3
<1>14. Len(kept) \in 1 .. MaxAccepted
  BY <1>6, <1>7, <1>8, <1>9, BoundsAssumption DEF n
<1>15. ASSUME s.accepted # <<>>, s.accepted[1].release # s.tx.cand
        PROVE  s.accepted[1] \in ToSet(kept)
  <2>1. Len(s.accepted) >= 1 /\ s.accepted[1] \notin gone
    BY <1>1, <1>4, <1>6, <1>15, EmptySeq
  <2>2. Len(others) >= 1 /\ others[1] = s.accepted[1]
    BY <1>5, <1>6, <2>1 DEF Kept
  <2>3. n >= 2 /\ n \in Nat
    BY <1>6, <1>7, <2>2, BoundsAssumption DEF n
  <2>4. 2 \in 1 .. n /\ 2 \in 1 .. 1 + Len(others) /\ ~(2 <= 1) /\ 2 - 1 = 1
    BY <1>6, <2>2, <2>3
  <2>5. kept[2] = s.accepted[1]
    BY <1>7, <1>9, <2>2, <2>4
  <2>6. QED BY <1>10, <2>4, <2>5 DEF ToSet
<1>16. "PairAccepted" \in Phases
  BY DEF Phases
<1>17. InPhase(s, "PairAccepted") \in State /\ InPhase(s, "PairAccepted").un = s.un
  BY <1>16, InPhaseFields
<1>18. new = [InPhase(s, "PairAccepted") EXCEPT !.accepted = kept]
  BY DEF Accepted, kept, n, pairs, pair, others, gone
<1> HIDE DEF new
<1>19. /\ new \in State /\ new.un = s.un /\ new.tx = InPhase(s, "PairAccepted").tx
       /\ new.accepted = kept
  BY <1>9, <1>17, <1>18 DEF State
<1>20. QED BY <1>9, <1>10, <1>11, <1>12, <1>13, <1>14, <1>15, <1>19 DEF new, pair

\* The acceptance is recorded when the candidate is installed, its driver selected
\* and the prior release still retained.
LEMMA AcceptKeeps == ASSUME IInv, Accept PROVE IInv'
<1> DEFINE s == Accepted(cmd.state, cmd.last)
           next == IF DriverChanged(s) THEN "finalizeDriver" ELSE "finish"
           done == [Go(next) EXCEPT !.op = "none", !.applying = FALSE]
           c == [done EXCEPT !.state = s]
<1>1. cmd.pc = "accept" /\ Save(s, done)
  BY DEF Accept
<1>2. cmd.pc \in Doing /\ cmd.pc \in Switched
  BY <1>1 DEF Doing, Switched
<1>3. /\ pi.drv.normal # Stock /\ pi.life \in State /\ pi.life # Absent /\ pi.life.un = Absent
      /\ pi.life.tx # Absent /\ StateFits(pi, pi.life, undone)
      /\ cmd.state = pi.life /\ TxFits(pi, pi.life.tx, undone)
      /\ Prior = pi.life.tx.prior /\ Cand = pi.life.tx.cand /\ Prior.release # Cand
  BY <1>2, WhileDoing
<1>4. /\ Prior.release \in pi.disk.kept /\ cmd.last # Absent
      /\ undone \/ DriverIs(pi, Cand)
      /\ cmd.last.bin = Cand /\ Installed(pi.disk, Cand)
  BY <1>1, <1>2, WhileSwitched
<1>5. cmd.last \in Ownership
  BY <1>4, Basics DEF Process
<1>6. /\ s \in State /\ s.un = Absent /\ s.tx = InPhase(pi.life, "PairAccepted").tx
      /\ s.accepted # <<>> /\ s.accepted[1] = [release |-> Cand, owned |-> cmd.last]
      /\ \A i \in DOMAIN s.accepted :
           i # 1 => \E j \in DOMAIN pi.life.accepted : s.accepted[i] = pi.life.accepted[j]
  BY <1>3, <1>5, AcceptedFacts
<1> HIDE DEF s
<1>7. /\ s.tx # Absent /\ s.tx.phase = "PairAccepted" /\ s.tx.prior = Prior /\ s.tx.cand = Cand
      /\ s.tx.helper = pi.life.tx.helper /\ s.tx.restored = pi.life.tx.restored
  <2>1. "PairAccepted" \in Phases
    BY DEF Phases
  <2>2. QED BY <1>3, <1>6, <2>1, InPhaseFields
<1>8. TxFits(pi, s.tx, undone)
  BY <1>3, <1>4, <1>7 DEF TxFits, ForwardPhases, RecoveryPhases
<1>9. \A i \in DOMAIN s.accepted : WellOwned(s.accepted[i])
  <2>1. \A j \in DOMAIN pi.life.accepted : WellOwned(pi.life.accepted[j])
    BY <1>3 DEF StateFits
  <2>2. WellOwned(s.accepted[1])
    BY <1>4, <1>6 DEF WellOwned
  <2>3. QED BY <1>6, <2>1, <2>2
<1>10. CanSave(s) => StateFits(pi, s, undone)
  BY <1>3, <1>6, <1>7, <1>8, <1>9 DEF StateFits, CanSave
<1>11. SameChange(s.tx, cmd.state.tx)
  BY <1>3, <1>7 DEF SameChange
<1>12. c \in Process /\ c.pc \in {"finalizeDriver", "finish"} /\ c.state = s /\ ~c.applying
  <2>1. next \in Pcs /\ next \in {"finalizeDriver", "finish"}
    BY DEF Pcs
  <2> HIDE DEF next
  <2>2. Go(next) \in Process /\ Go(next).pc = next
    BY <2>1, Basics, GoFields
  <2>3. done \in Process /\ done.pc = next /\ ~done.applying
    BY <2>2 DEF Process
  <2> HIDE DEF done
  <2>4. QED BY <1>6, <2>1, <2>3 DEF Process
<1> HIDE DEF c
<1>13. ASSUME NEW q \in Pi, q.life = s, RecordFits(q, undone)
       PROVE  Fits(q, c, undone)
  <2>1. s # Absent
    BY <1>6, AbsentAssumption
  <2>2. QED BY <1>7, <1>12, <1>13, <2>1, Basics, EndingFits DEF Recovering
<1> HIDE DEF done
<1>14. QED BY <1>1, <1>3, <1>6, <1>7, <1>10, <1>11, <1>13, SaveCall DEF c

----
(* Recovering *)

\* What is known while a process undoes an upgrade, or takes an undoing up.
LEMMA WhileRecovering ==
  ASSUME IInv, cmd.pc \in Recovering
  PROVE  /\ pi.life # Absent /\ pi.life.tx # Absent /\ ~cmd.applying
         /\ cmd.state \in State /\ StateFits(pi, cmd.state, undone) /\ cmd.state.tx # Absent
         /\ cmd.state.un = Absent /\ cmd.state.tx \in Transaction
         /\ TxFits(pi, cmd.state.tx, undone) /\ SameChange(pi.life.tx, cmd.state.tx)
         /\ Prior \in AcceptedPair /\ Prior.release \in Releases /\ Prior.owned \in Ownership
         /\ Prior.owned.bin = Prior.release /\ Cand \in Releases
         /\ pi.drv.normal # Stock
         /\ cmd.state.accepted # <<>>
         /\ cmd.pc # "restoreDriver" => cmd.state = pi.life
<1>1. ~cmd.applying
  BY Basics DEF Recovering, Doing
<1>2. cmd.state.tx # Absent /\ cmd.state \in State
  BY Basics DEF MemoryFits, Working, Process
<1>3. /\ pi.life # Absent /\ StateFits(pi, cmd.state, undone)
      /\ SameChange(pi.life.tx, cmd.state.tx)
      /\ cmd.pc # "restoreDriver" => cmd.state = pi.life
  <2>1. CASE cmd.pc = "restoreDriver"
    BY <1>2, <2>1, Basics DEF MemoryFits
  <2>2. CASE cmd.pc # "restoreDriver"
    <3>1. pi.life # Absent /\ cmd.state = pi.life
      BY <2>2, Basics DEF MemoryFits, Remembering
    <3>2. QED BY <1>2, <3>1, Basics, RecordedState DEF SameChange
  <2>3. QED BY <2>1, <2>2
<1>4. cmd.state.un = Absent /\ cmd.state.tx \in Transaction /\ TxFits(pi, cmd.state.tx, undone)
      /\ cmd.state.accepted # <<>>
  BY <1>2, <1>3 DEF StateFits, Valid, State
<1>5. pi.drv.normal # Stock
  BY <1>3, <1>4 DEF StateFits
<1>6. /\ Prior \in AcceptedPair /\ Prior.release \in Releases /\ Prior.owned \in Ownership
      /\ Prior.owned.bin = Prior.release /\ Cand \in Releases
  BY <1>4 DEF Prior, Cand, Transaction, AcceptedPair, TxFits, WellOwned
<1>7. QED BY <1>1, <1>2, <1>3, <1>4, <1>5, <1>6 DEF SameChange

\* Without an upgrade of its own to undo, a process that fails just ends.
LEMMA EndingOnFailure ==
  ASSUME IInv, ~cmd.applying, NEW q \in Pi, NEW u \in BOOLEAN, RecordFits(q, u)
  PROVE  Fits(q, Failed, u)
BY IdleFits DEF Failed

\* The next phase of an undoing is saved.
LEMMA RecoveryPhaseFits ==
  ASSUME IInv, cmd.pc \in Recovering, NEW q \in Pi, q.life = pi.life, q.compat = pi.compat,
         NEW u \in BOOLEAN, RecordFits(q, u), q.drv.normal # Stock,
         NEW phase \in RecoveryPhases, NEW c \in Process, c.pc = "save", ~c.applying,
         c.state.accepted = cmd.state.accepted, c.state.un = Absent, c.state.tx # Absent,
         c.state.tx.prior = Prior, c.state.tx.cand = Cand,
         c.state.tx.helper = cmd.state.tx.helper, c.state.tx.phase = phase,
         cmd.state.tx.phase # "PairAccepted",
         TxFits(q, c.state.tx, u)
  PROVE  Fits(q, c, u)
<1>1. /\ StateFits(pi, cmd.state, undone) /\ cmd.state.un = Absent /\ cmd.state.tx # Absent
      /\ pi.life # Absent /\ pi.life.tx # Absent /\ SameChange(pi.life.tx, cmd.state.tx)
      /\ cmd.state.accepted # <<>>
  BY WhileRecovering
<1>2. Valid(c.state)
  BY <1>1 DEF StateFits, Valid, Prior, Cand, RecoveryPhases
<1>3. StateFits(q, c.state, u)
  BY <1>1, <1>2 DEF StateFits
<1>4. SameChange(pi.life.tx, c.state.tx)
  BY <1>1 DEF SameChange, Prior, Cand
<1>5. QED BY <1>1, <1>3, <1>4, SavingFits

\* A phase of the recovery, in memory.
LEMMA ReachRecovery ==
  ASSUME IInv, cmd.pc \in Recovering, NEW phase \in RecoveryPhases
  PROVE  LET c == Reach(phase) IN
         /\ c \in Process /\ c.pc = "save" /\ ~c.applying /\ c.last = cmd.last
         /\ c.state \in State
         /\ c.state.accepted = cmd.state.accepted /\ c.state.un = Absent /\ c.state.tx # Absent
         /\ c.state.tx \in Transaction
         /\ c.state.tx.prior = Prior /\ c.state.tx.cand = Cand
         /\ c.state.tx.helper = cmd.state.tx.helper /\ c.state.tx.phase = phase
         /\ c.state.tx.restored = cmd.state.tx.restored
<1>1. phase \in Phases
  BY DEF Phases
<1>2. cmd.state.tx # Absent /\ cmd.state.un = Absent /\ cmd.state \in State /\ ~cmd.applying
  BY WhileRecovering
<1>3. /\ Reach(phase) \in Process /\ Reach(phase).pc = "save" /\ ~Reach(phase).applying
      /\ Reach(phase).last = cmd.last
      /\ Reach(phase).state = InPhase(cmd.state, phase)
  BY <1>1, <1>2, Basics, ReachFields
<1>4. QED BY <1>1, <1>2, <1>3, InPhaseFields DEF Prior, Cand

\* Where the driver did not change there is none to restore.
LEMMA SameDriverKeeps == ASSUME IInv, SameDriver PROVE IInv'
<1> DEFINE c == Reach("RecoveryDriverRestored")
<1>1. /\ cmd.pc = "restoreDriver" /\ ~DriverChanged(cmd.state)
      /\ cmd' = c /\ UNCHANGED <<pi, faults, undone>>
  BY DEF SameDriver
<1>2. cmd.pc \in Recovering /\ "RecoveryDriverRestored" \in RecoveryPhases
  BY <1>1 DEF Recovering, RecoveryPhases
<1>3. /\ c \in Process /\ c.pc = "save" /\ ~c.applying
      /\ c.state.accepted = cmd.state.accepted /\ c.state.un = Absent /\ c.state.tx # Absent
      /\ c.state.tx.prior = Prior /\ c.state.tx.cand = Cand
      /\ c.state.tx.helper = cmd.state.tx.helper /\ c.state.tx.phase = "RecoveryDriverRestored"
      /\ c.state.tx.restored = cmd.state.tx.restored
  BY <1>2, ReachRecovery
<1>4. /\ TxFits(pi, cmd.state.tx, undone) /\ pi.drv.normal # Stock
  BY <1>2, WhileRecovering
<1>5. cmd.state.tx.phase \in ForwardPhases
  BY <1>1, Basics DEF PhaseFits
<1>6. DriverOf[Prior.release] = DriverOf[Cand]
  BY <1>1 DEF DriverChanged, Prior, Cand
<1> HIDE DEF c
<1>7. TxFits(pi, c.state.tx, undone)
  <2>1. cmd.state.tx.prior = Prior /\ cmd.state.tx.cand = Cand
    BY DEF Prior, Cand
  <2>2. QED BY <1>3, <1>4, <1>5, <1>6, <2>1 DEF TxFits, ForwardPhases, RecoveryPhases
<1>8. Fits(pi, c, undone)
  BY <1>2, <1>3, <1>4, <1>5, <1>7, Basics, RecoveryPhaseFits DEF ForwardPhases
<1>9. QED BY <1>1, <1>8, MoveOnly

\* The journal goes back to a driver of ours.
LEMMA JournalFields ==
  ASSUME NEW drv \in Driver, drv.normal # Stock
  PROVE  JournalRecovered(drv) \in Driver /\ JournalRecovered(drv).normal # Stock
         /\ JournalRecovered(drv).booted = drv.booted
<1>1. drv.accepted # Absent => drv.accepted \in Drivers /\ drv.accepted # Stock
  BY DriversAssumption DEF Driver
<1>2. QED BY <1>1 DEF JournalRecovered, Driver

\* A call with one more step.
LEMMA OneMoreState ==
  ASSUME NEW S, NEW s \in Seq(S), NEW t \in Seq(S), Len(t) = 1
  PROVE  Last(s \o t) = t[1] /\ \A i \in DOMAIN (s \o t) : (s \o t)[i] \in S
<1> DEFINE both == s \o t
<1>1. Len(s) \in Nat
  BY LenProperties
<1>2. /\ both \in Seq(S) /\ Len(both) = Len(s) + Len(t)
      /\ \A i \in 1 .. Len(s) + Len(t) : both[i] = IF i <= Len(s) THEN s[i] ELSE t[i - Len(s)]
  BY ConcatProperties
<1> HIDE DEF both
<1>3. Len(both) = Len(s) + 1 /\ Len(s) + 1 \in 1 .. Len(s) + Len(t) /\ ~(Len(s) + 1 <= Len(s))
      /\ Len(s) + 1 - Len(s) = 1
  BY <1>1, <1>2
<1>4. both[Len(both)] = t[1]
  BY <1>2, <1>3
<1>5. \A i \in DOMAIN both : both[i] \in S
  BY <1>2, LenProperties, ElementOfSeq
<1>6. QED BY <1>4, <1>5 DEF Last, both

\* A call with several more steps.
LEMMA ManyMoreStates ==
  ASSUME NEW S, NEW s \in Seq(S), NEW t \in Seq(S), t # <<>>
  PROVE  Last(s \o t) = Last(t) /\ \A i \in DOMAIN (s \o t) : (s \o t)[i] \in S
<1> DEFINE both == s \o t
<1>1. Len(s) \in Nat /\ Len(t) \in Nat /\ Len(t) # 0
  BY LenProperties, EmptySeq
<1>2. /\ both \in Seq(S) /\ Len(both) = Len(s) + Len(t)
      /\ \A i \in 1 .. Len(s) + Len(t) : both[i] = IF i <= Len(s) THEN s[i] ELSE t[i - Len(s)]
  BY ConcatProperties
<1> HIDE DEF both
<1>3. Len(both) \in 1 .. Len(s) + Len(t) /\ ~(Len(both) <= Len(s)) /\ Len(both) - Len(s) = Len(t)
  BY <1>1, <1>2
<1>4. both[Len(both)] = t[Len(t)]
  BY <1>2, <1>3
<1>5. \A i \in DOMAIN both : both[i] \in S
  BY <1>2, LenProperties, ElementOfSeq
<1>6. QED BY <1>4, <1>5 DEF Last, both

\* The states of a call with four steps.
LEMMA FourStates ==
  ASSUME NEW p, NEW q, NEW r, NEW w
  PROVE  LET steps == <<p, q, r>> \o <<w>>
         IN  Last(steps) = w /\ \A i \in DOMAIN steps : steps[i] \in {p, q, r, w}
<1> DEFINE s == <<p, q, r>>
           t == <<w>>
           S == {p, q, r, w}
<1>1. s \in Seq(S) /\ t \in Seq(S) /\ Len(t) = 1 /\ t[1] = w
  OBVIOUS
<1> HIDE DEF s, t, S
<1>2. Last(s \o t) = w /\ \A i \in DOMAIN (s \o t) : (s \o t)[i] \in S
  BY <1>1, OneMoreState
<1>3. QED BY <1>2 DEF s, t, S

\* The prior driver is selected and runs when its restoration is recorded; undoing
\* a written acceptance is remembered.
LEMMA RestoreDriverKeeps == ASSUME IInv, RestoreDriver PROVE IInv'
<1> DEFINE stopped   == [pi EXCEPT !.disk = Stopped(@)]
           recovered == [stopped EXCEPT !.drv = JournalRecovered(@)]
           normal    == recovered.drv.normal
           booted    == Boot(recovered, normal)
           rebooted  == IF pi.drv.booted = normal THEN <<>> ELSE <<booted>>
           steps     == <<pi, stopped, recovered>> \o rebooted
           right     == normal = DriverOf[Prior.release]
           can       == pi.disk.enabled
           c         == Reach("RecoveryDriverRestored")
           u         == undone \/ pi.life.tx.phase = "PairAccepted"
<1>1. /\ cmd.pc = "restoreDriver" /\ DriverChanged(cmd.state)
      /\ CallOnly(can, steps, IF right THEN c ELSE Failed) /\ undone' = u
  BY DEF RestoreDriver
<1>2. cmd.pc \in Recovering /\ "RecoveryDriverRestored" \in RecoveryPhases
  BY <1>1 DEF Recovering, RecoveryPhases
<1>3. /\ c \in Process /\ c.pc = "save" /\ ~c.applying
      /\ c.state.accepted = cmd.state.accepted /\ c.state.un = Absent /\ c.state.tx # Absent
      /\ c.state.tx.prior = Prior /\ c.state.tx.cand = Cand
      /\ c.state.tx.helper = cmd.state.tx.helper /\ c.state.tx.phase = "RecoveryDriverRestored"
      /\ c.state.tx.restored = cmd.state.tx.restored
  BY <1>2, ReachRecovery
<1>4. /\ TxFits(pi, cmd.state.tx, undone) /\ pi.drv.normal # Stock /\ ~cmd.applying
      /\ pi.life # Absent /\ pi.life.tx # Absent /\ SameChange(pi.life.tx, cmd.state.tx)
      /\ pi.disk \in Disk /\ pi.drv \in Driver /\ u \in BOOLEAN
  BY <1>2, WhileRecovering, Basics DEF Pi
<1>5. /\ cmd.state.tx.phase \in ForwardPhases
      /\ pi.life.tx.phase \in ForwardPhases \cup {"PairAccepted"}
      /\ TxFits(pi, pi.life.tx, undone)
  BY <1>1, <1>4, Basics, RecordedTransaction DEF PhaseFits
<1>6. /\ DriverOf[Prior.release] # DriverOf[Cand]
      /\ pi.life.tx.prior = Prior /\ pi.life.tx.cand = Cand
      /\ cmd.state.tx.prior = Prior /\ cmd.state.tx.cand = Cand
  BY <1>1, <1>4 DEF DriverChanged, Prior, Cand, SameChange
<1>7. /\ stopped \in Pi /\ stopped.life = pi.life /\ stopped.compat = pi.compat
      /\ stopped.disk.bin = pi.disk.bin /\ stopped.disk.meta = pi.disk.meta
      /\ stopped.disk.kept = pi.disk.kept /\ stopped.drv = pi.drv
  <2> DEFINE e == Stopped(pi.disk)
  <2>1. e \in Disk /\ e.bin = pi.disk.bin /\ e.meta = pi.disk.meta /\ e.kept = pi.disk.kept
    BY <1>4, ServiceDisks
  <2>2. stopped = [pi EXCEPT !.disk = e]
    OBVIOUS
  <2> HIDE DEF e, stopped
  <2>3. QED BY <2>1, <2>2, Basics DEF Pi
<1> HIDE DEF stopped
<1>8. /\ recovered \in Pi /\ recovered.life = pi.life /\ recovered.compat = pi.compat
      /\ recovered.disk = stopped.disk /\ normal # Stock /\ recovered.drv.booted = pi.drv.booted
      /\ normal \in Drivers \cup {Stock}
  <2> DEFINE e == JournalRecovered(pi.drv)
  <2>1. e \in Driver /\ e.normal # Stock /\ e.booted = pi.drv.booted /\ e.normal \in Drivers \cup {Stock}
    BY <1>4, JournalFields DEF Driver
  <2>2. recovered = [stopped EXCEPT !.drv = e]
    BY <1>7
  <2> HIDE DEF e, recovered
  <2>3. QED BY <1>7, <2>1, <2>2 DEF Pi
<1> HIDE DEF recovered
<1>9. /\ booted \in Pi /\ booted.life = pi.life /\ booted.compat = pi.compat
      /\ booted.disk.bin = pi.disk.bin /\ booted.disk.meta = pi.disk.meta
      /\ booted.disk.kept = pi.disk.kept
      /\ booted.drv.normal = normal /\ booted.drv.booted = normal
  BY <1>7, <1>8, BootFields
<1> HIDE DEF booted, normal
<1>10. recovered.drv.normal = normal
  BY DEF normal
<1>11. ASSUME NEW q \in {pi, stopped, recovered, booted}
       PROVE  /\ q \in Pi /\ q.life = pi.life /\ q.compat = pi.compat /\ q.drv.normal # Stock
              /\ q.disk.bin = pi.disk.bin /\ q.disk.meta = pi.disk.meta
              /\ q.disk.kept = pi.disk.kept
              /\ RecordFits(q, u)
  <2>1. /\ q \in Pi /\ q.life = pi.life /\ q.compat = pi.compat /\ q.drv.normal # Stock
        /\ q.disk.bin = pi.disk.bin /\ q.disk.meta = pi.disk.meta
        /\ q.disk.kept = pi.disk.kept
    BY <1>4, <1>7, <1>8, <1>9, <1>10, Basics
  <2>2. TxFits(q, pi.life.tx, u)
    BY <1>5, <1>6, <2>1 DEF TxFits, Installed, ForwardPhases, RecoveryPhases
  <2> HIDE DEF u
  <2>3. QED BY <1>4, <2>1, <2>2, PendingFits
<1>12. ASSUME NEW q \in {recovered, booted}, DriverIs(q, Prior.release)
       PROVE  Fits(q, c, u)
  <2>1. q \in {pi, stopped, recovered, booted}
    OBVIOUS
  <2>2. /\ q \in Pi /\ q.life = pi.life /\ q.compat = pi.compat /\ q.drv.normal # Stock
        /\ q.disk.bin = pi.disk.bin /\ q.disk.meta = pi.disk.meta
        /\ q.disk.kept = pi.disk.kept
        /\ RecordFits(q, u)
    BY <1>11, <2>1
  <2> HIDE DEF c, u
  <2>3. TxFits(q, c.state.tx, u)
    BY <1>3, <1>4, <1>5, <1>6, <1>12, <2>2 DEF TxFits, Installed, ForwardPhases, RecoveryPhases
  <2>4. cmd.state.tx.phase # "PairAccepted"
    BY <1>5 DEF ForwardPhases
  <2>5. QED BY <1>2, <1>3, <1>4, <2>2, <2>3, <2>4, RecoveryPhaseFits
<1>13. /\ \A i \in DOMAIN steps : steps[i] \in {pi, stopped, recovered, booted}
       /\ Last(steps) \in {recovered, booted}
       /\ right => Last(steps) \in {recovered, booted} /\ DriverIs(Last(steps), Prior.release)
  <2>1. CASE pi.drv.booted = normal
    <3>1. steps = <<pi, stopped, recovered>> \o <<>>
      BY <2>1
    <3>2. steps = <<pi, stopped, recovered>>
      <4>1. <<pi, stopped, recovered>> \in Seq({pi, stopped, recovered})
        OBVIOUS
      <4>2. QED BY <3>1, <4>1, ConcatEmptySeq
    <3> HIDE DEF steps
    <3>3. /\ Last(steps) = recovered
          /\ \A i \in DOMAIN steps : steps[i] \in {pi, stopped, recovered, booted}
      BY <3>2, ThreeStates
    <3>4. QED BY <1>8, <1>10, <2>1, <3>3 DEF DriverIs
  <2>2. CASE pi.drv.booted # normal
    <3> DEFINE four == <<pi, stopped, recovered>> \o <<booted>>
    <3>1. steps = four
      BY <2>2
    <3>2. Last(four) = booted /\ \A i \in DOMAIN four : four[i] \in {pi, stopped, recovered, booted}
      BY FourStates
    <3> HIDE DEF steps, four
    <3>3. QED BY <1>9, <3>1, <3>2 DEF DriverIs
  <2>3. QED BY <2>1, <2>2
<1> HIDE DEF steps, can, right, c, u
<1>14. right => Fits(Last(steps), c, u)
  BY <1>12, <1>13
<1>15. ASSUME NEW q \in {pi, stopped, recovered, booted}
       PROVE  Fits(q, Failed, u)
  BY <1>4, <1>11, EndingOnFailure
<1>16. /\ \A i \in DOMAIN steps : Fits(steps[i], Failed, u)
       /\ Fits(pi, Failed, u) /\ Fits(Last(steps), Failed, u)
  BY <1>13, <1>15
<1>17. Fits(Last(steps), IF right THEN c ELSE Failed, u)
  BY <1>14, <1>16
<1>18. QED BY <1>1, <1>4, <1>16, <1>17, CallCases

\* The application is restored, and owns o.
LEMMA RestoredFits ==
  ASSUME IInv, cmd.pc = "restoreApplication", NEW o \in Ownership, o.bin = Prior.release,
         NEW c \in Process, c.pc = "save", ~c.applying,
         c.state = [Reach("RecoveryApplicationRestored").state EXCEPT !.tx.restored = o],
         NEW q \in Pi, q.life = pi.life, q.compat = pi.compat, q.drv = pi.drv,
         RecordFits(q, undone), Installed(q.disk, Prior.release)
  PROVE  Fits(q, c, undone)
<1> DEFINE s == Reach("RecoveryApplicationRestored").state
<1>1. cmd.pc \in Recovering /\ "RecoveryApplicationRestored" \in RecoveryPhases
  BY DEF Recovering, RecoveryPhases
<1>2. /\ s \in State /\ s.accepted = cmd.state.accepted /\ s.un = Absent /\ s.tx \in Transaction
      /\ s.tx.prior = Prior /\ s.tx.cand = Cand /\ s.tx.helper = cmd.state.tx.helper
      /\ s.tx.phase = "RecoveryApplicationRestored"
  BY <1>1, ReachRecovery
<1> HIDE DEF s
<1>3. /\ c.state.accepted = cmd.state.accepted /\ c.state.un = Absent
      /\ c.state.tx = [s.tx EXCEPT !.restored = o]
  <2>1. c.state = [s EXCEPT !.tx.restored = o]
    BY DEF s
  <2>2. QED BY <1>2, <2>1 DEF State
<1>4. /\ c.state.tx # Absent
      /\ c.state.tx.prior = Prior /\ c.state.tx.cand = Cand
      /\ c.state.tx.helper = cmd.state.tx.helper
      /\ c.state.tx.phase = "RecoveryApplicationRestored" /\ c.state.tx.restored = o
  <2>1. [s.tx EXCEPT !.restored = o] \in Transaction
    BY <1>2 DEF Transaction
  <2>2. QED BY <1>2, <1>3, <2>1, AbsentAssumption DEF Transaction
<1>5. /\ TxFits(pi, cmd.state.tx, undone) /\ pi.drv.normal # Stock /\ ~cmd.applying
      /\ cmd.state.tx.phase = "RecoveryDriverRestored" /\ o # Absent
  BY <1>1, WhileRecovering, Basics, AbsentAssumption DEF PhaseFits
<1>6. undone \/ DriverIs(q, Prior.release)
  BY <1>5 DEF TxFits, RecoveryPhases, DriverIs, Prior
<1>7. TxFits(q, c.state.tx, undone)
  <2>1. cmd.state.tx.prior = Prior /\ cmd.state.tx.cand = Cand
    BY DEF Prior, Cand
  <2>2. QED BY <1>4, <1>5, <1>6, <2>1 DEF TxFits, ForwardPhases, RecoveryPhases
<1>8. /\ q.drv.normal # Stock /\ cmd.state.tx.phase # "PairAccepted"
      /\ "RecoveryApplicationRestored" \in RecoveryPhases /\ undone \in BOOLEAN
  BY <1>5, Basics DEF RecoveryPhases
<1>9. c.state.accepted = cmd.state.accepted /\ c.state.un = Absent
  BY <1>3
<1>10. cmd.pc \in Recovering /\ ~c.applying /\ RecordFits(q, undone)
  BY <1>1
<1>11. QED BY <1>4, <1>7, <1>8, <1>9, <1>10, RecoveryPhaseFits

\* The prior application is installed when its restoration is recorded, with the
\* manifest that names it.
LEMMA RestoreApplicationKeeps == ASSUME IInv, RestoreApplication PROVE IInv'
<1> DEFINE r     == Prior.release
           owned == IF cmd.last # Absent THEN cmd.last ELSE Prior.owned
           manifest == ProspectiveOwnership(owned, r)
           g     == Reach("RecoveryApplicationRestored")
           restored(o) == [g EXCEPT !.state.tx.restored = o]
           steps == ActivationSteps(pi.disk, owned, r)
           can   == CanActivate(r, owned, r \in pi.disk.kept)
           b     == restored(Prior.owned)
           c     == [restored(manifest) EXCEPT !.last = manifest]
<1>1. cmd.pc = "restoreApplication"
      /\ \/ Healthy(pi.disk, r) /\ Call(TRUE, <<pi>>, b)
         \/ Call(can, OnDisk(steps), c)
  BY DEF RestoreApplication
<1>2. cmd.pc \in Recovering /\ "RecoveryApplicationRestored" \in RecoveryPhases
  BY <1>1 DEF Recovering, RecoveryPhases
<1>3. /\ g \in Process /\ g.pc = "save" /\ ~g.applying /\ g.state \in State
      /\ g.state.tx \in Transaction
  BY <1>2, ReachRecovery
<1>4. /\ pi.life # Absent /\ pi.life.tx # Absent /\ ~cmd.applying /\ cmd.state = pi.life
      /\ r \in Releases /\ Prior.owned \in Ownership /\ Prior.owned.bin = r
      /\ pi.drv.normal # Stock /\ TxFits(pi, pi.life.tx, undone) /\ pi.disk \in Disk
      /\ Prior = pi.life.tx.prior
  BY <1>1, <1>2, WhileRecovering, Basics DEF Pi, Prior
<1>5. pi.life.tx.phase = "RecoveryDriverRestored"
  BY <1>1, <1>4, Basics DEF PhaseFits
<1>6. owned \in Ownership
  BY <1>4, Basics DEF Process
<1>7. manifest \in Ownership /\ manifest.bin = r
  BY <1>4, <1>6, ProspectiveFacts
<1>8. ASSUME NEW o \in Ownership
      PROVE  /\ restored(o) \in Process /\ restored(o).pc = "save" /\ ~restored(o).applying
             /\ restored(o).state = [g.state EXCEPT !.tx.restored = o]
  <2> HIDE DEF g
  <2>1. [g.state EXCEPT !.tx.restored = o] \in State
    <3>1. [g.state.tx EXCEPT !.restored = o] \in Transaction
      BY <1>3 DEF Transaction
    <3>2. [g.state EXCEPT !.tx.restored = o] = [g.state EXCEPT !.tx = [g.state.tx EXCEPT !.restored = o]]
      BY <1>3 DEF State
    <3>3. QED BY <1>3, <3>1, <3>2 DEF State
  <2>2. restored(o) = [g EXCEPT !.state = [g.state EXCEPT !.tx.restored = o]]
    BY <1>3 DEF Process
  <2> HIDE DEF restored
  <2>3. QED BY <1>3, <2>1, <2>2 DEF Process
<1>9. CASE Healthy(pi.disk, r) /\ Call(TRUE, <<pi>>, b)
  <2>1. Installed(pi.disk, r)
    BY <1>9 DEF Healthy
  <2>2. /\ b \in Process /\ b.pc = "save" /\ ~b.applying
        /\ b.state = [g.state EXCEPT !.tx.restored = Prior.owned]
    BY <1>4, <1>8
  <2> HIDE DEF b
  <2>3. Fits(pi, b, undone)
    BY <1>1, <1>4, <2>1, <2>2, Basics, RestoredFits
  <2>4. QED BY <1>9, <2>3, QuietOne
<1>10. CASE Call(can, OnDisk(steps), c)
  <2>1. /\ c \in Process /\ c.pc = "save" /\ ~c.applying
        /\ c.state = [g.state EXCEPT !.tx.restored = manifest]
    <3>1. /\ restored(manifest) \in Process /\ restored(manifest).pc = "save"
          /\ ~restored(manifest).applying
          /\ restored(manifest).state = [g.state EXCEPT !.tx.restored = manifest]
      BY <1>7, <1>8
    <3> HIDE DEF restored, manifest
    <3>2. QED BY <1>7, <3>1 DEF Process
  <2>2. /\ steps \in Seq(Disk) /\ steps # <<>>
        /\ \A i \in DOMAIN steps :
             /\ steps[i] = pi.disk \/ r \in steps[i].kept
        /\ Installed(Last(steps), r) /\ r \in Last(steps).kept
    BY <1>4, <1>6, ActivationFacts
  <2> HIDE DEF steps, c, can, manifest, g, owned
  <2>3. ASSUME NEW q \in Pi, q.life = pi.life, q.compat = pi.compat, q.drv = pi.drv,
               q.disk = pi.disk \/ r \in q.disk.kept
        PROVE  RecordFits(q, undone)
    <3>1. \A x : DriverIs(pi, x) => DriverIs(q, x)
      BY <2>3 DEF DriverIs
    <3>2. Installed(q.disk, r) \/ r \in q.disk.kept
      BY <1>4, <1>5, <2>3 DEF TxFits
    <3>3. TxFits(q, pi.life.tx, undone)
      BY <1>4, <1>5, <3>1, <3>2 DEF TxFits, ForwardPhases, RecoveryPhases
    <3>4. QED BY <1>4, <2>3, <3>3, PendingFits
  <2>4. ASSUME NEW q \in Pi, q.life = pi.life, q.compat = pi.compat, q.drv = pi.drv
        PROVE  /\ \A i \in DOMAIN steps : q.disk = steps[i] => Fits(q, Failed, undone)
               /\ q.disk = Last(steps) => Fits(q, c, undone)
    <3>1. ASSUME NEW i \in DOMAIN steps, q.disk = steps[i] PROVE Fits(q, Failed, undone)
      <4>1. q.disk = pi.disk \/ r \in q.disk.kept
        BY <2>2, <3>1
      <4>2. RecordFits(q, undone)
        BY <2>3, <2>4, <4>1
      <4>3. QED BY <1>4, <4>2, Basics, EndingOnFailure
    <3>2. ASSUME q.disk = Last(steps) PROVE Fits(q, c, undone)
      <4>1. Installed(q.disk, r) /\ r \in q.disk.kept
        BY <2>2, <3>2
      <4>2. RecordFits(q, undone)
        BY <2>3, <2>4, <4>1
      <4>3. c.state = [Reach("RecoveryApplicationRestored").state EXCEPT !.tx.restored = manifest]
        BY <2>1 DEF g
      <4>4. QED BY <1>1, <1>7, <2>1, <2>4, <4>1, <4>2, <4>3, RestoredFits
    <3>3. QED BY <3>1, <3>2
  <2>5. QED BY <1>10, <2>2, <2>4, DiskCall
<1>11. QED BY <1>1, <1>9, <1>10

\* The prior pair is started and verified.
LEMMA RestartPriorKeeps == ASSUME IInv, RestartPrior PROVE IInv'
<1> DEFINE e == Started(pi.disk)
           started == [pi EXCEPT !.disk = Started(@)]
           can == pi.disk.bin # Absent /\ PairRuns(started, Prior.release)
           pc == IF cmd.state.tx.phase = "RecoveryCandidateRetired" THEN "conclude"
                 ELSE "retireCandidate"
<1>1. cmd.pc = "restartPrior" /\ Call(can, <<pi, started>>, Go(pc))
  BY DEF RestartPrior
<1>2. cmd.pc \in Recovering
  BY <1>1 DEF Recovering
<1>3. /\ pi.life # Absent /\ ~cmd.applying /\ cmd.state = pi.life /\ cmd.state.tx # Absent
      /\ pi.disk \in Disk
      /\ cmd.state.tx.phase \in {"RecoveryApplicationRestored", "RecoveryCandidateRetired"}
  BY <1>1, <1>2, WhileRecovering, Basics DEF PhaseFits, Pi
<1>4. Alike(pi, started)
  <2>1. e \in Disk /\ e.bin = pi.disk.bin /\ e.meta = pi.disk.meta /\ e.kept = pi.disk.kept
    BY <1>3, ServiceDisks
  <2>2. started = [pi EXCEPT !.disk = e]
    OBVIOUS
  <2> HIDE DEF e, started
  <2>3. started \in Pi /\ started.life = pi.life /\ started.compat = pi.compat
        /\ started.drv = pi.drv /\ started.disk = e
    BY <2>1, <2>2, Basics DEF Pi
  <2>4. QED BY <2>1, <2>3 DEF Alike
<1>5. pc \in Pcs /\ pc \in {"conclude", "retireCandidate"}
      /\ (pc = "conclude" => cmd.state.tx.phase = "RecoveryCandidateRetired")
      /\ (pc = "retireCandidate" => cmd.state.tx.phase = "RecoveryApplicationRestored")
  BY <1>3 DEF Pcs, Recovering
<1> HIDE DEF started, can, pc
<1>6. Fits(pi, Go(pc), undone)
  BY <1>3, <1>5, Basics, GoFields, EndingFits DEF Recovering
<1>7. QED BY <1>1, <1>4, <1>6, QuietTwo

\* The candidate's file goes, never the prior one's: they differ.
LEMMA RetireCandidateKeeps == ASSUME IInv, RetireCandidate PROVE IInv'
<1> DEFINE e == Retired(pi.disk, Cand)
           steps == <<pi.disk, e>>
           can == cmd.helper \in pi.helpers
           c == Reach("RecoveryCandidateRetired")
<1>1. cmd.pc = "retireCandidate" /\ Call(can, OnDisk(steps), c)
  BY DEF RetireCandidate
<1>2. cmd.pc \in Recovering /\ "RecoveryCandidateRetired" \in RecoveryPhases
  BY <1>1 DEF Recovering, RecoveryPhases
<1>3. /\ c \in Process /\ c.pc = "save" /\ ~c.applying
      /\ c.state.accepted = cmd.state.accepted /\ c.state.un = Absent /\ c.state.tx # Absent
      /\ c.state.tx.prior = Prior /\ c.state.tx.cand = Cand
      /\ c.state.tx.helper = cmd.state.tx.helper /\ c.state.tx.phase = "RecoveryCandidateRetired"
      /\ c.state.tx.restored = cmd.state.tx.restored
  BY <1>2, ReachRecovery
<1>4. /\ pi.life # Absent /\ pi.life.tx # Absent /\ ~cmd.applying /\ cmd.state = pi.life
      /\ pi.drv.normal # Stock /\ TxFits(pi, pi.life.tx, undone) /\ pi.disk \in Disk
      /\ Prior = pi.life.tx.prior /\ Cand = pi.life.tx.cand
      /\ pi.life.tx.phase = "RecoveryApplicationRestored"
  BY <1>1, <1>2, WhileRecovering, Basics DEF PhaseFits, Pi, Prior, Cand
<1>5. e \in Disk /\ e.bin = pi.disk.bin /\ e.meta = pi.disk.meta
  BY <1>4 DEF Retired, Disk
<1> HIDE DEF e
<1>6. /\ steps \in Seq(Disk) /\ steps # <<>> /\ Last(steps) = e
      /\ \A i \in DOMAIN steps : steps[i] \in {pi.disk, e}
  BY <1>4, <1>5, TwoDisks
<1> HIDE DEF steps, can, c
<1>7. ASSUME NEW q \in Pi, q.life = pi.life, q.compat = pi.compat, q.drv = pi.drv,
             q.disk \in {pi.disk, e}
      PROVE  Fits(q, Failed, undone) /\ Fits(q, c, undone)
  <2>1. \A x : DriverIs(pi, x) => DriverIs(q, x)
    BY <1>7 DEF DriverIs
  <2>2. \A x : Installed(pi.disk, x) <=> Installed(q.disk, x)
    BY <1>5, <1>7 DEF Installed
  <2>3. TxFits(q, pi.life.tx, undone)
    BY <1>4, <2>1, <2>2 DEF TxFits, ForwardPhases, RecoveryPhases
  <2>4. RecordFits(q, undone)
    BY <1>4, <1>7, <2>3, PendingFits
  <2>5. TxFits(q, c.state.tx, undone)
    BY <1>3, <1>4, <2>3 DEF TxFits, ForwardPhases, RecoveryPhases
  <2>6. Fits(q, c, undone)
    BY <1>2, <1>3, <1>4, <1>7, <2>4, <2>5, Basics, RecoveryPhaseFits
  <2>7. Fits(q, Failed, undone)
    BY <1>4, <2>4, Basics, EndingOnFailure
  <2>8. QED BY <2>6, <2>7
<1>8. QED BY <1>1, <1>6, <1>7, DiskCall

\* The pairs at the end of an undoing: those before, the first with what was restored.
LEMMA RecoveredFacts ==
  ASSUME IInv, cmd.pc = "conclude"
  PROVE  LET s == Recovered(cmd.state) IN
         /\ s \in State /\ s.tx = Absent /\ s.un = Absent /\ s.accepted # <<>>
         /\ DOMAIN s.accepted = DOMAIN pi.life.accepted
         /\ s.accepted[1].release = pi.life.tx.prior.release
         /\ s.accepted[1].owned.bin = pi.life.tx.prior.release
         /\ \A i \in DOMAIN s.accepted : i # 1 => s.accepted[i] = pi.life.accepted[i]
<1> DEFINE s == Recovered(cmd.state)
           owned == [cmd.state.tx.restored EXCEPT !.kept = Drop(@, cmd.state.tx.cand)]
           pair == [cmd.state.accepted[1] EXCEPT !.owned = owned]
           pairs == [cmd.state.accepted EXCEPT ![1] = pair]
<1>2. cmd.pc \in Recovering
  BY DEF Recovering
<1>3. /\ pi.life # Absent /\ pi.life.tx # Absent /\ ~cmd.applying /\ cmd.state = pi.life
      /\ pi.drv.normal # Stock /\ TxFits(pi, pi.life.tx, undone) /\ pi.life \in State
      /\ StateFits(pi, pi.life, undone) /\ pi.life.un = Absent /\ pi.life.tx \in Transaction
      /\ pi.life.tx.phase = "RecoveryCandidateRetired"
  BY <1>2, WhileRecovering, Basics DEF PhaseFits
<1>4. /\ Installed(pi.disk, pi.life.tx.prior.release) /\ pi.life.tx.restored # Absent
      /\ pi.life.tx.restored.bin = pi.life.tx.prior.release
      /\ undone \/ DriverIs(pi, pi.life.tx.prior.release)
  BY <1>3 DEF TxFits, RecoveryPhases
<1>5. /\ pi.life.accepted \in Seq(AcceptedPair) /\ pi.life.accepted # <<>>
      /\ pi.life.accepted[1] = pi.life.tx.prior /\ pi.life.accepted[1] \in AcceptedPair
      /\ pi.life.tx.restored \in Ownership /\ pi.life.tx.cand \in Releases
  BY <1>3, <1>4, Basics, RecordedState DEF StateFits, Valid, State, Transaction
<1>6. owned \in Ownership /\ owned.bin = pi.life.tx.prior.release
  <2>1. Drop(pi.life.tx.restored.kept, pi.life.tx.cand) \in Seq(Releases)
    BY <1>5, WithoutFacts DEF Drop, Ownership
  <2>2. QED BY <1>3, <1>4, <1>5, <2>1 DEF Ownership
<1> HIDE DEF owned
<1>7. pair \in AcceptedPair /\ pair.release = pi.life.tx.prior.release /\ pair.owned = owned
  BY <1>3, <1>5, <1>6 DEF AcceptedPair
<1> HIDE DEF pair
<1>8. /\ pairs \in Seq(AcceptedPair) /\ DOMAIN pairs = DOMAIN pi.life.accepted
      /\ pairs[1] = pair /\ pairs # <<>>
      /\ \A i \in DOMAIN pairs : i # 1 => pairs[i] = pi.life.accepted[i]
  <2> DEFINE old == pi.life.accepted
  <2>1. Len(old) \in Nat /\ 1 \in 1 .. Len(old) /\ DOMAIN old = 1 .. Len(old)
    BY <1>5, EmptySeq, LenProperties
  <2>2. pairs = [old EXCEPT ![1] = pair]
    BY <1>3
  <2>3. /\ [old EXCEPT ![1] = pair] \in Seq(AcceptedPair)
        /\ Len([old EXCEPT ![1] = pair]) = Len(old)
        /\ \A i \in 1 .. Len(old) : [old EXCEPT ![1] = pair][i] = IF i = 1 THEN pair ELSE old[i]
    BY <1>5, <1>7, <2>1, ExceptSeq
  <2> HIDE DEF pairs, old
  <2>4. DOMAIN pairs = 1 .. Len(old) /\ pairs[1] = pair /\ pairs # <<>>
    BY <2>1, <2>2, <2>3, LenProperties, EmptySeq
  <2>5. \A i \in 1 .. Len(old) : i # 1 => pairs[i] = old[i]
    BY <2>2, <2>3
  <2>6. QED BY <2>1, <2>2, <2>3, <2>4, <2>5 DEF old
<1>9. s = [accepted |-> pairs, tx |-> Absent, un |-> Absent]
  <2>1. s = [cmd.state EXCEPT !.tx = Absent, !.accepted[1].owned = owned]
    BY DEF Recovered, owned
  <2>2. s = [cmd.state EXCEPT !.tx = Absent, !.accepted = pairs]
    BY <2>1 DEF pair
  <2> HIDE DEF s, pairs
  <2>3. QED BY <1>3, <2>2 DEF State
<1> HIDE DEF s, pairs
<1>10. s \in State /\ s.tx = Absent /\ s.un = Absent /\ s.accepted = pairs /\ s # Absent
  BY <1>8, <1>9, AbsentAssumption DEF State
<1>11. QED BY <1>6, <1>7, <1>8, <1>10 DEF s

\* The record is settled again on the prior pair, which runs.
LEMMA ConcludeKeeps == ASSUME IInv, Conclude PROVE IInv'
<1> DEFINE s == Recovered(cmd.state)
           c == [Go("retireHelper") EXCEPT !.state = s]
<1>1. cmd.pc = "conclude" /\ Save(s, Go("retireHelper"))
  BY DEF Conclude
<1>2. cmd.pc \in Recovering
  BY <1>1 DEF Recovering
<1>3. /\ pi.life # Absent /\ pi.life.tx # Absent /\ ~cmd.applying /\ cmd.state = pi.life
      /\ pi.drv.normal # Stock /\ TxFits(pi, pi.life.tx, undone)
      /\ StateFits(pi, pi.life, undone) /\ pi.life.un = Absent
      /\ pi.life.tx.phase = "RecoveryCandidateRetired"
  BY <1>1, <1>2, WhileRecovering, Basics DEF PhaseFits
<1>4. /\ Installed(pi.disk, pi.life.tx.prior.release)
      /\ undone \/ DriverIs(pi, pi.life.tx.prior.release)
  BY <1>3 DEF TxFits, RecoveryPhases
<1>5. /\ s \in State /\ s.tx = Absent /\ s.un = Absent /\ s.accepted # <<>>
      /\ DOMAIN s.accepted = DOMAIN pi.life.accepted
      /\ s.accepted[1].release = pi.life.tx.prior.release
      /\ s.accepted[1].owned.bin = pi.life.tx.prior.release
      /\ \A i \in DOMAIN s.accepted : i # 1 => s.accepted[i] = pi.life.accepted[i]
  BY <1>1, RecoveredFacts
<1> HIDE DEF s
<1>6. s # Absent
  BY <1>5, AbsentAssumption
<1>7. CanSave(s) => StateFits(pi, s, undone)
  <2>1. \A i \in DOMAIN s.accepted : WellOwned(s.accepted[i])
    BY <1>3, <1>5 DEF StateFits, WellOwned
  <2>2. QED BY <1>3, <1>4, <1>5, <2>1 DEF StateFits, CanSave
<1>8. c \in Process /\ c.pc = "retireHelper" /\ c.state = s /\ ~c.applying
  <2>1. "retireHelper" \in Pcs
    BY DEF Pcs
  <2>2. QED BY <1>3, <1>5, <2>1, Basics, GoFields DEF Process
<1> HIDE DEF c
<1>9. ASSUME NEW q \in Pi, q.life = s, RecordFits(q, undone)
      PROVE  Fits(q, c, undone)
  BY <1>5, <1>6, <1>8, <1>9, Basics, RemovingFits DEF Removing
<1>10. QED BY <1>1, <1>3, <1>5, <1>7, <1>9, SaveCall DEF c

----
(* Removing *)

\* What is known while an uninstall goes on.
LEMMA WhileRemoving ==
  ASSUME IInv, cmd.pc \in Removing, cmd.pc # "beginUninstall"
  PROVE  /\ pi.life # Absent /\ cmd.state = pi.life /\ ~cmd.applying
         /\ pi.life.tx = Absent /\ pi.life.un # Absent /\ pi.life.un \in Uninstall
         /\ UnFits(pi, pi.life) /\ StateFits(pi, pi.life, undone) /\ pi.life \in State
         /\ Current \in AcceptedPair /\ Current.owned \in Ownership /\ Current.release \in Releases
<1>1. pi.life # Absent /\ cmd.state = pi.life /\ ~cmd.applying /\ pi.life.un # Absent
  BY Basics DEF MemoryFits, Remembering, Removing, Doing
<1>2. pi.life \in State /\ StateFits(pi, pi.life, undone) /\ pi.life.accepted[1] \in AcceptedPair
  BY <1>1, Basics, RecordedState
<1>3. pi.life.tx = Absent /\ pi.life.un \in Uninstall /\ UnFits(pi, pi.life)
  BY <1>1, <1>2 DEF StateFits, Valid, State
<1>4. QED BY <1>1, <1>2, <1>3 DEF Current, AcceptedPair

\* A Pi on which the recorded uninstall still fits.
LEMMA RemovalFits ==
  ASSUME IInv, cmd.pc \in Removing, cmd.pc # "beginUninstall",
         NEW q \in Pi, q.life = pi.life, q.compat \in {pi.compat, Absent},
         UnFits(q, pi.life)
  PROVE  RecordFits(q, undone) /\ Fits(q, Failed, undone)
<1>1. /\ pi.life # Absent /\ ~cmd.applying /\ pi.life.tx = Absent /\ pi.life.un # Absent
      /\ StateFits(pi, pi.life, undone)
  BY WhileRemoving
<1>2. StateFits(q, pi.life, undone)
  BY <1>1 DEF StateFits
<1>3. RecordFits(q, undone)
  BY <1>1, <1>2, Basics DEF RecordFits
<1>4. QED BY <1>1, <1>3, Basics, EndingOnFailure

\* The next phase of an uninstall is saved.
LEMMA ReachUninstallFits ==
  ASSUME IInv, cmd.pc \in Removing, cmd.pc # "beginUninstall", NEW phase \in UninstallPhases,
         NEW q \in Pi, q.life = pi.life, q.compat = pi.compat,
         UnFits(q, pi.life),
         \A s : s.accepted = pi.life.accepted /\ s.un.phase = phase => UnFits(q, s)
  PROVE  Fits(q, ReachUninstall(phase), undone)
<1> DEFINE c == ReachUninstall(phase)
           un == [pi.life.un EXCEPT !.phase = phase]
           s == [pi.life EXCEPT !.un = un]
<1>1. /\ pi.life # Absent /\ ~cmd.applying /\ pi.life.tx = Absent /\ pi.life.un # Absent
      /\ StateFits(pi, pi.life, undone) /\ cmd.state = pi.life /\ pi.life \in State
      /\ pi.life.un \in Uninstall
  BY WhileRemoving
<1>2. un \in Uninstall /\ un.phase = phase /\ un.helper = pi.life.un.helper /\ un # Absent
  <2>1. un \in Uninstall
    BY <1>1 DEF Uninstall
  <2>2. QED BY <1>1, <2>1, AbsentAssumption DEF Uninstall
<1>3. s = [pi.life EXCEPT !.un.phase = phase]
  BY <1>1 DEF State
<1> HIDE DEF un
<1>4. s \in State /\ s.un = un /\ s.tx = Absent /\ s.accepted = pi.life.accepted
  BY <1>1, <1>2 DEF State
<1>5. c = [cmd EXCEPT !.pc = "save", !.state = s]
  BY <1>1, <1>3, Basics DEF ReachUninstall, Process
<1> HIDE DEF s, c
<1>6. "save" \in Pcs
  BY DEF Pcs
<1>7. c \in Process /\ c.pc = "save" /\ c.state = s /\ ~c.applying
  BY <1>1, <1>4, <1>5, <1>6, Basics DEF Process
<1>8. StateFits(q, s, undone)
  <2>1. Valid(s)
    BY <1>1, <1>2, <1>4 DEF StateFits, Valid
  <2>2. QED BY <1>1, <1>2, <1>4, <2>1 DEF StateFits
<1>9. RecordFits(q, undone)
  BY RemovalFits
<1>10. Heading(c) \in Removing
  BY <1>2, <1>4, <1>7 DEF Heading, AfterUninstallSave, UninstallPhases, Removing
<1>11. MemoryFits(q, c, undone)
  BY <1>1, <1>2, <1>4, <1>7, <1>8 DEF MemoryFits, Working, Remembering, Doing, Recovering, Removing
<1>12. PhaseFits(q, c)
  BY <1>4, <1>7, <1>10 DEF PhaseFits, Doing, Removing
<1>13. WorkFits(q, c, undone)
  BY <1>10 DEF WorkFits, Doing, Trial, Switched, Removing
<1>14. Fits(q, c, undone)
  BY <1>7, <1>9, <1>11, <1>12, <1>13, Basics DEF Fits
<1>15. QED BY <1>14 DEF c

\* Binary and metadata go and nothing replaces them.
LEMMA UninstallFacts ==
  ASSUME NEW d \in Disk, NEW owned \in Ownership
  PROVE  LET steps == UninstallSteps(d, owned) IN
         /\ steps \in Seq(Disk) /\ steps # <<>>
         /\ \A i \in DOMAIN steps :
              steps[i].bin \in {d.bin, Absent} /\ steps[i].meta \in {d.meta, Absent}
         /\ Last(steps).bin = Absent /\ Last(steps).meta = Absent
<1> DEFINE disabled == [d EXCEPT !.enabled = FALSE, !.running = Absent]
           unbound  == [disabled EXCEPT !.bin = Absent]
           bare     == [unbound EXCEPT !.meta = Absent]
           empty    == [bare EXCEPT !.kept = @ \ ToSet(owned.kept)]
           steps    == <<d, disabled, unbound, bare, empty>>
<1>1. UninstallSteps(d, owned) = steps
  BY DEF UninstallSteps
<1>2. disabled \in Disk /\ disabled.bin = d.bin /\ disabled.meta = d.meta
  BY DEF Disk, MaybeRelease
<1> HIDE DEF disabled
<1>3. unbound \in Disk /\ unbound.bin = Absent /\ unbound.meta = d.meta
  BY <1>2 DEF Disk, MaybeRelease
<1> HIDE DEF unbound
<1>4. bare \in Disk /\ bare.bin = Absent /\ bare.meta = Absent
  BY <1>3 DEF Disk, MaybeRelease
<1> HIDE DEF bare
<1>5. empty \in Disk /\ empty.bin = Absent /\ empty.meta = Absent
  BY <1>4 DEF Disk
<1> HIDE DEF empty
<1>6. steps \in Seq(Disk) /\ steps # <<>> /\ Last(steps) = empty
      /\ \A i \in DOMAIN steps : steps[i] \in {d, disabled, unbound, bare, empty}
  BY <1>2, <1>3, <1>4, <1>5 DEF Last
<1> HIDE DEF steps
<1>7. QED BY <1>1, <1>2, <1>3, <1>4, <1>5, <1>6

\* The application's removal is recorded once its files are gone.
LEMMA UninstallApplicationKeeps == ASSUME IInv, UninstallApplication PROVE IInv'
<1> DEFINE steps == UninstallSteps(pi.disk, Current.owned)
           can == CommandHelper \in pi.helpers
                    /\ Uninstallable(pi.disk, Current.owned, cmd.state.un.purge)
           c == ReachUninstall("ApplicationRemoved")
<1>1. cmd.pc = "uninstallApplication" /\ Call(can, OnDisk(steps), c)
  BY DEF UninstallApplication
<1>2. cmd.pc \in Removing /\ cmd.pc # "beginUninstall"
  BY <1>1 DEF Removing
<1>3. /\ UnFits(pi, pi.life) /\ Current.owned \in Ownership /\ pi.disk \in Disk
  BY <1>2, WhileRemoving, Basics DEF Pi
<1>4. /\ steps \in Seq(Disk) /\ steps # <<>>
      /\ \A i \in DOMAIN steps :
           steps[i].bin \in {pi.disk.bin, Absent} /\ steps[i].meta \in {pi.disk.meta, Absent}
      /\ Last(steps).bin = Absent /\ Last(steps).meta = Absent
  BY <1>3, UninstallFacts
<1>5. "ApplicationRemoved" \in UninstallPhases
  BY DEF UninstallPhases
<1> HIDE DEF steps, can, c
<1>6. ASSUME NEW q \in Pi, q.life = pi.life, q.compat = pi.compat, q.drv = pi.drv
      PROVE  /\ \A i \in DOMAIN steps : q.disk = steps[i] => Fits(q, Failed, undone)
             /\ q.disk = Last(steps) => Fits(q, c, undone)
  <2>1. ASSUME q.disk.bin \in {pi.disk.bin, Absent}, q.disk.meta \in {pi.disk.meta, Absent}
        PROVE  UnFits(q, pi.life)
    BY <1>3, <1>6, <2>1 DEF UnFits
  <2>2. ASSUME NEW i \in DOMAIN steps, q.disk = steps[i] PROVE Fits(q, Failed, undone)
    <3>1. UnFits(q, pi.life)
      BY <1>4, <2>1, <2>2
    <3>2. QED BY <1>2, <1>6, <3>1, RemovalFits
  <2>3. ASSUME q.disk = Last(steps) PROVE Fits(q, c, undone)
    <3>1. UnFits(q, pi.life)
      BY <1>4, <2>1, <2>3
    <3>2. \A s : s.un.phase = "ApplicationRemoved" => UnFits(q, s)
      BY <1>4, <2>3 DEF UnFits
    <3>3. QED BY <1>2, <1>5, <1>6, <3>1, <3>2, ReachUninstallFits DEF c
  <2>4. QED BY <2>2, <2>3
<1>7. QED BY <1>1, <1>4, <1>6, DiskCall

\* The driver's removal is recorded once a normal boot selects the stock display.
LEMMA UninstallDriverKeeps == ASSUME IInv, UninstallDriver PROVE IInv'
<1> DEFINE accepted == cmd.state.accepted
           without(n) == pi.drv.files \ {DriverOf[r] : r \in Newest(accepted, n)}
           removed == [pi EXCEPT !.drv.normal = Stock, !.drv.files = without(1)]
           booted == Boot(removed, Stock)
           left(n) == [booted EXCEPT !.drv.files = without(n)]
           retired == [n \in DOMAIN accepted |-> left(n)]
           steps == <<pi, removed>> \o retired
           can == pi.drv.normal \in {DriverOf[Current.release], Stock}
           c == ReachUninstall("DriverRemoved")
<1>1. cmd.pc = "uninstallDriver" /\ Call(can, steps, c)
  BY DEF UninstallDriver
<1>2. cmd.pc \in Removing /\ cmd.pc # "beginUninstall"
  BY <1>1 DEF Removing
<1>3. /\ UnFits(pi, pi.life) /\ cmd.state = pi.life
      /\ pi.life.un.phase = "ApplicationRemoved"
      /\ accepted \in Seq(AcceptedPair) /\ accepted # <<>> /\ accepted = pi.life.accepted
  BY <1>1, <1>2, WhileRemoving, Basics DEF PhaseFits, StateFits, State
<1>4. removed \in Pi /\ removed.life = pi.life /\ removed.compat = pi.compat
      /\ removed.disk = pi.disk /\ removed.drv.normal = Stock
  <2> DEFINE e == [pi.drv EXCEPT !.normal = Stock, !.files = without(1)]
  <2> HIDE DEF without
  <2>1. without(1) \subseteq Drivers
    BY Basics DEF Pi, Driver, without
  <2>2. e \in Driver /\ e.normal = Stock
    BY <2>1, Basics DEF Pi, Driver
  <2>3. removed = [pi EXCEPT !.drv = e]
    BY Basics DEF Pi
  <2> HIDE DEF e, removed
  <2>4. QED BY <2>2, <2>3, Basics DEF Pi
<1> HIDE DEF removed
<1>5. booted \in Pi /\ booted.life = pi.life /\ booted.compat = pi.compat
      /\ booted.disk.bin = pi.disk.bin /\ booted.disk.meta = pi.disk.meta
      /\ booted.drv.normal = Stock
  BY <1>4, BootFields
<1> HIDE DEF booted
<1>6. ASSUME NEW n
      PROVE  /\ left(n) \in Pi /\ left(n).life = pi.life /\ left(n).compat = pi.compat
             /\ left(n).disk.bin = pi.disk.bin /\ left(n).disk.meta = pi.disk.meta
             /\ left(n).drv.normal = Stock /\ left(n).drv.files = without(n)
  <2> DEFINE e == [booted.drv EXCEPT !.files = without(n)]
  <2>1. without(n) \subseteq Drivers
    BY Basics DEF Pi, Driver
  <2> HIDE DEF without
  <2>2. e \in Driver /\ e.normal = Stock /\ e.files = without(n)
    BY <1>5, <2>1 DEF Pi, Driver
  <2>3. left(n) = [booted EXCEPT !.drv = e]
    BY <1>5 DEF Pi
  <2> HIDE DEF e, left
  <2>4. QED BY <1>5, <2>2, <2>3 DEF Pi
<1> HIDE DEF left
<1>7. /\ Len(accepted) \in DOMAIN accepted /\ retired # <<>>
      /\ \A i \in DOMAIN accepted : accepted[i].release \in Newest(accepted, Len(accepted))
  <2>1. Len(accepted) \in Nat /\ DOMAIN accepted = 1 .. Len(accepted) /\ Len(accepted) # 0
    BY <1>3, EmptySeq, LenProperties
  <2>2. retired # <<>>
    <3>1. retired = <<>> => DOMAIN retired = DOMAIN <<>>
      OBVIOUS
    <3>2. DOMAIN retired = 1 .. Len(accepted) /\ DOMAIN <<>> = 1 .. Len(<<>>) /\ Len(<<>>) = 0
      BY <2>1
    <3> HIDE DEF retired
    <3>3. QED BY <2>1, <3>1, <3>2
  <2>3. QED BY <2>1, <2>2 DEF Newest
<1> DEFINE last == left(Len(accepted))
           S == {pi, removed} \cup {left(n) : n \in DOMAIN accepted}
<1>8. Last(steps) = last /\ \A i \in DOMAIN steps : steps[i] \in S
  <2>1. retired \in Seq(S) /\ Len(retired) = Len(accepted) /\ Last(retired) = last
    <3>1. Len(accepted) \in Nat /\ DOMAIN accepted = 1 .. Len(accepted)
      BY <1>3, LenProperties
    <3>2. \A n \in DOMAIN accepted : left(n) \in S
      OBVIOUS
    <3> HIDE DEF S
    <3>3. retired \in Seq(S) /\ Len(retired) = Len(accepted) /\ retired[Len(accepted)] = last
      BY <1>7, <3>1, <3>2
    <3> HIDE DEF retired, last
    <3>4. QED BY <3>3 DEF Last
  <2>2. <<pi, removed>> \in Seq(S)
    OBVIOUS
  <2> DEFINE first == <<pi, removed>>
  <2> HIDE DEF S, retired, last, first
  <2>3. Last(first \o retired) = Last(retired) /\ \A i \in DOMAIN (first \o retired) : (first \o retired)[i] \in S
    BY <1>7, <2>1, <2>2, ManyMoreStates DEF first
  <2>4. QED BY <2>1, <2>3 DEF first
<1>9. "DriverRemoved" \in UninstallPhases
  BY DEF UninstallPhases
<1>10. ASSUME NEW q \in S
       PROVE  q \in Pi /\ q.life = pi.life /\ q.compat = pi.compat /\ UnFits(q, pi.life)
              /\ q.disk.bin = Absent /\ q.disk.meta = Absent
  <2>1. q \in Pi /\ q.life = pi.life /\ q.compat = pi.compat
        /\ q.disk.bin = pi.disk.bin /\ q.disk.meta = pi.disk.meta
    BY <1>4, <1>6, Basics
  <2>2. QED BY <1>3, <2>1 DEF UnFits
<1>11. last \in S
  BY <1>7
<1> HIDE DEF steps, can, c, S
<1>12. \A i \in DOMAIN steps : Fits(steps[i], Failed, undone)
  <2>1. \A q \in S : Fits(q, Failed, undone)
    BY <1>2, <1>10, RemovalFits
  <2>2. QED BY <1>8, <2>1
<1>13. Fits(Last(steps), c, undone)
  <2>1. last.drv.normal = Stock /\ last.drv.files = without(Len(accepted))
    BY <1>6
  <2>2. \A i \in DOMAIN accepted : DriverOf[accepted[i].release] \notin last.drv.files
    BY <1>7, <2>1
  <2>3. \A s : s.accepted = pi.life.accepted /\ s.un.phase = "DriverRemoved" => UnFits(last, s)
    <3> HIDE DEF last, accepted
    <3>1. QED BY <1>3, <1>10, <1>11, <2>1, <2>2 DEF UnFits
  <2> HIDE DEF last
  <2>4. Fits(last, c, undone)
    BY <1>2, <1>9, <1>10, <1>11, <2>3, ReachUninstallFits DEF c
  <2>5. QED BY <1>8, <2>4
<1>14. CallOnly(can, steps, c) /\ undone' = undone /\ undone \in BOOLEAN
       /\ Fits(pi, Failed, undone)
  BY <1>1, FailureFits, Basics DEF Call
<1>15. QED BY <1>12, <1>13, <1>14, CallCases

\* The driver's journal is closed before the records go.
LEMMA FinalizeDriverUninstallKeeps == ASSUME IInv, FinalizeDriverUninstall PROVE IInv'
<1> DEFINE q == [pi EXCEPT !.drv.accepted = Absent]
           c == Go("finalizeUninstall")
           steps == <<pi, q>>
<1>1. cmd.pc = "finalizeDriverUninstall" /\ Call(TRUE, steps, c)
  BY DEF FinalizeDriverUninstall
<1>2. cmd.pc \in Removing /\ cmd.pc # "beginUninstall"
  BY <1>1 DEF Removing
<1>3. /\ UnFits(pi, pi.life) /\ cmd.state = pi.life /\ ~cmd.applying /\ pi.life # Absent
      /\ pi.life.tx = Absent /\ pi.life.un # Absent /\ pi.life.un.phase = "DriverRemoved"
  BY <1>1, <1>2, WhileRemoving, Basics DEF PhaseFits
<1>4. /\ q \in Pi /\ q.life = pi.life /\ q.compat = pi.compat /\ q.disk = pi.disk
      /\ q.drv.normal = pi.drv.normal /\ q.drv.files = pi.drv.files /\ q.drv.accepted = Absent
  <2> DEFINE e == [pi.drv EXCEPT !.accepted = Absent]
  <2>1. e \in Driver /\ e.normal = pi.drv.normal /\ e.files = pi.drv.files /\ e.accepted = Absent
    BY Basics DEF Pi, Driver
  <2>2. q = [pi EXCEPT !.drv = e]
    BY Basics DEF Pi
  <2> HIDE DEF e, q
  <2>3. QED BY <2>1, <2>2, Basics DEF Pi
<1>5. Last(steps) = q /\ \A i \in DOMAIN steps : steps[i] \in {pi, q}
  BY ShortCalls
<1>6. "finalizeUninstall" \in Pcs
  BY DEF Pcs, Removing
<1> HIDE DEF q, steps
<1>7. UnFits(q, pi.life)
  BY <1>3, <1>4 DEF UnFits
<1>8. RecordFits(q, undone) /\ Fits(q, Failed, undone)
  BY <1>2, <1>4, <1>7, RemovalFits
<1>9. c \in Process /\ c.pc = "finalizeUninstall" /\ c.state = pi.life /\ ~c.applying
  BY <1>3, <1>6, Basics, GoFields
<1> HIDE DEF c
<1>10. Fits(q, c, undone)
  BY <1>3, <1>4, <1>8, <1>9, Basics, RemovingFits DEF Removing
<1>11. Fits(pi, Failed, undone) /\ undone \in BOOLEAN
  BY FailureFits, Basics
<1>12. CallOnly(TRUE, steps, c) /\ undone' = undone
  BY <1>1 DEF Call
<1>13. QED BY <1>5, <1>8, <1>10, <1>11, <1>12, CallCases

\* The records go only after everything they describe.
LEMMA FinalizeUninstallKeeps == ASSUME IInv, FinalizeUninstall PROVE IInv'
<1> DEFINE un == cmd.state.un
           unaided  == WithoutHelper(un.helper)
           unstated == [unaided EXCEPT !.compat = Absent]
           gone == [unstated EXCEPT !.life = Absent]
           steps == <<pi, unaided, unstated, gone>>
           can == /\ cmd.unHelper = un.helper
                  /\ pi.life = cmd.state /\ pi.compat \in {Absent, Current}
<1>1. cmd.pc = "finalizeUninstall" /\ Call(can, steps, Idle)
  BY DEF FinalizeUninstall
<1>2. cmd.pc \in Removing /\ cmd.pc # "beginUninstall"
  BY <1>1 DEF Removing
<1>3. /\ UnFits(pi, pi.life) /\ cmd.state = pi.life /\ ~cmd.applying
      /\ pi.life.un.phase = "DriverRemoved" /\ pi.drv.accepted = Absent
  BY <1>1, <1>2, WhileRemoving, Basics DEF PhaseFits
<1>4. /\ pi.disk.bin = Absent /\ pi.disk.meta = Absent
      /\ pi.drv.normal = Stock /\ pi.drv.accepted = Absent
  BY <1>3 DEF UnFits
<1>5. /\ unaided \in Pi /\ unaided.life = pi.life /\ unaided.compat = pi.compat
      /\ unaided.disk = pi.disk /\ unaided.drv = pi.drv
  BY Basics DEF WithoutHelper, Pi
<1> HIDE DEF unaided
<1>6. /\ unstated \in Pi /\ unstated.life = pi.life /\ unstated.compat = Absent
      /\ unstated.disk = pi.disk /\ unstated.drv = pi.drv
  BY <1>5 DEF Pi
<1> HIDE DEF unstated
<1>7. /\ gone \in Pi /\ gone.life = Absent /\ gone.compat = Absent
      /\ gone.disk = pi.disk /\ gone.drv = pi.drv
  BY <1>6 DEF Pi
<1> HIDE DEF gone
<1>8. Last(steps) = gone /\ \A i \in DOMAIN steps : steps[i] \in {pi, unaided, unstated, gone}
  BY DEF Last
<1>9. RecordFits(gone, undone)
  BY <1>4, <1>7 DEF RecordFits
<1>10. ASSUME NEW q \in {pi, unaided, unstated, gone} PROVE Fits(q, Failed, undone)
  <2>1. CASE q = gone
    BY <1>3, <1>7, <1>9, <2>1, Basics, EndingOnFailure
  <2>2. CASE q # gone
    <3>1. q \in Pi /\ q.life = pi.life /\ q.compat \in {pi.compat, Absent} /\ UnFits(q, pi.life)
      BY <1>3, <1>5, <1>6, <2>2, Basics DEF UnFits
    <3>2. QED BY <1>2, <3>1, RemovalFits
  <2>3. QED BY <2>1, <2>2
<1> HIDE DEF steps, can
<1>11. Fits(Last(steps), Idle, undone)
  BY <1>7, <1>8, <1>9, Basics, IdleFits
<1>12. CallOnly(can, steps, Idle) /\ undone' = undone /\ undone \in BOOLEAN
       /\ Fits(pi, Failed, undone)
  BY <1>1, FailureFits, Basics DEF Call
<1>13. QED BY <1>8, <1>10, <1>11, <1>12, CallCases

----
(* The whole *)

\* A process may end, and the Pi lose power, at any moment.
LEMMA MishapsKeep == ASSUME IInv, ProcessEnds \/ PowerCycle PROVE IInv'
<1>1. faults < MaxFaults /\ faults' = faults + 1 /\ undone' = undone
  BY DEF ProcessEnds, PowerCycle
<1>2. faults' \in 0 .. MaxFaults
  BY <1>1, BoundsAssumption DEF IInv
<1>3. Fits(pi', cmd', undone)
  <2>1. CASE ProcessEnds
    <3>1. Fits(pi, Idle, undone)
      BY Basics, IdleFits
    <3>2. QED BY <2>1, <3>1 DEF ProcessEnds
  <2>2. CASE PowerCycle
    <3> DEFINE q == Boot(pi, pi.drv.normal)
    <3>1. pi.drv.normal \in Drivers \cup {Stock}
      BY Basics DEF Pi, Driver
    <3>2. Alike(pi, q)
      <4>1. /\ q \in Pi /\ q.life = pi.life /\ q.compat = pi.compat
            /\ q.disk.bin = pi.disk.bin /\ q.disk.meta = pi.disk.meta /\ q.disk.kept = pi.disk.kept
            /\ q.drv.normal = pi.drv.normal /\ q.drv.booted = pi.drv.normal
            /\ q.drv.files = pi.drv.files /\ q.drv.accepted = pi.drv.accepted
        BY <3>1, Basics, BootFields
      <4> HIDE DEF q
      <4>2. QED BY <4>1 DEF Alike
    <3>3. pi' = q /\ cmd' = cmd
      BY <2>2 DEF PowerCycle
    <3> HIDE DEF q
    <3>4. Fits(q, cmd, undone)
      BY <3>2, AlikeFits DEF IInv
    <3>5. QED BY <3>3, <3>4
  <2>3. QED BY <2>1, <2>2
<1>4. Fits(pi', cmd', undone')
  BY <1>1, <1>3
<1>5. QED BY <1>2, <1>4 DEF IInv

\* The Pi as the installer leaves it.
LEMMA InitialFits == ASSUME Init PROVE IInv
<1> DEFINE compat == [release |-> First, owned |-> [bin |-> First, kept |-> <<>>]]
           drv == [ normal |-> DriverOf[First], booted |-> DriverOf[First],
                    trial |-> Absent, accepted |-> Absent,
                    files |-> {DriverOf[First]} ]
           disk(seeded) == [ bin |-> First, meta |-> First, kept |-> {},
                             enabled |-> TRUE, running |-> First, seeded |-> seeded ]
<1>1. PICK seeded \in BOOLEAN, knows \in HelperVariants :
        pi = [ life |-> Absent, compat |-> compat, helpers |-> {}, knows |-> knows,
               disk |-> disk(seeded), drv |-> drv ]
  BY DEF Init
<1>2. cmd = Idle /\ faults = 0 /\ undone = FALSE
  BY DEF Init
<1>3. compat \in AcceptedPair /\ compat # Absent /\ compat.release = First /\ WellOwned(compat)
  <2>1. compat \in AcceptedPair
    BY FirstAssumption DEF AcceptedPair, Ownership
  <2>2. QED BY <2>1, AbsentAssumption DEF WellOwned
<1>4. drv \in Driver /\ drv.normal = DriverOf[First] /\ drv.booted = DriverOf[First]
  BY FirstAssumption, DriversAssumption DEF Driver
<1>5. disk(seeded) \in Disk /\ Installed(disk(seeded), First)
  BY FirstAssumption DEF Disk, MaybeRelease, Installed
<1> HIDE DEF compat, drv, disk
<1>6. /\ pi \in Pi /\ pi.life = Absent /\ pi.compat = compat /\ pi.disk = disk(seeded) /\ pi.drv = drv
  BY <1>1, <1>3, <1>4, <1>5 DEF Pi
<1>7. RecordFits(pi, undone)
  BY <1>3, <1>4, <1>5, <1>6 DEF RecordFits, DriverIs
<1>8. Fits(pi, Idle, undone)
  BY <1>2, <1>6, <1>7, IdleFits
<1>9. faults \in 0 .. MaxFaults
  BY <1>2, BoundsAssumption
<1>10. QED BY <1>2, <1>8, <1>9 DEF IInv

\* Every step keeps the invariant.
LEMMA StepKeeps == ASSUME IInv, [Next]_vars PROVE IInv'
<1>1. CASE \E op \in Ops : Begin(op)
  BY <1>1, BeginKeeps
<1>2. CASE LoadTransaction \/ LoadUninstall \/ LoadSettled \/ LoadNothing
  BY <1>2, LoadTransactionKeeps, LoadUninstallKeeps, LoadSettledKeeps, LoadNothingKeeps
<1>3. CASE Migrate \/ SaveMigrated \/ Resolve \/ Choose \/ NothingToChoose
  BY <1>3, MigrateKeeps, SaveMigratedKeeps, ResolveKeeps, ChooseKeeps, GivingUpKeeps
<1>4. CASE AlreadyAccepted \/ Refused \/ BeginTransaction \/ SavePhase
  BY <1>4, AlreadyAcceptedKeeps, GivingUpKeeps, BeginTransactionKeeps, SavePhaseKeeps
<1>5. CASE Preserve \/ Deploy \/ StageDriver \/ Tryboot \/ Commit
  BY <1>5, PreserveKeeps, DeployKeeps, StageDriverKeeps, TrybootKeeps, CommitKeeps
<1>6. CASE ExplicitNormal \/ Normalize \/ NormalizedBoot
  BY <1>6, RebootKeeps, NormalizeKeeps
<1>7. CASE Activate \/ Restart \/ Verify \/ Accept
  BY <1>7, ActivateKeeps, RestartKeeps, VerifyKeeps, AcceptKeeps
<1>8. CASE FinalizeDriver \/ Finish \/ RetireHelper
  BY <1>8, FinalizeDriverKeeps, FinishKeeps, RetireHelperKeeps
<1>9. CASE RestoreDriver \/ SameDriver \/ RestoreApplication
  BY <1>9, RestoreDriverKeeps, SameDriverKeeps, RestoreApplicationKeeps
<1>10. CASE RestartPrior \/ RetireCandidate \/ Conclude
  BY <1>10, RestartPriorKeeps, RetireCandidateKeeps, ConcludeKeeps
<1>11. CASE UninstallRefused \/ PrepareUninstall \/ BeginUninstall \/ ResumeUninstall
  BY <1>11, GivingUpKeeps, PrepareUninstallKeeps, BeginUninstallKeeps, ResumeUninstallKeeps
<1>12. CASE UninstallApplication \/ UninstallDriver \/ FinalizeDriverUninstall \/ FinalizeUninstall
  BY <1>12, UninstallApplicationKeeps, UninstallDriverKeeps, FinalizeDriverUninstallKeeps,
     FinalizeUninstallKeeps
<1>13. CASE ProcessEnds \/ PowerCycle
  BY <1>13, MishapsKeep
<1>14. CASE UNCHANGED vars
  BY <1>14 DEF vars, IInv
<1>15. QED BY <1>1, <1>2, <1>3, <1>4, <1>5, <1>6, <1>7, <1>8, <1>9, <1>10, <1>11, <1>12, <1>13, <1>14
         DEF Next, Step

\* Whatever is interrupted, fails half-way or is power-cycled, in whatever order,
\* the record, the files, the driver and the process keep fitting together.
THEOREM LifecycleInvariant == Spec => []IInv
<1>1. Init => IInv
  BY InitialFits
<1>2. IInv /\ [Next]_vars => IInv'
  BY StepKeeps
<1>3. QED BY <1>1, <1>2, PTL DEF Spec

----
(* What follows *)

\* Every component keeps its type.
THEOREM LifecycleTypes == Spec => []TypeOK
<1>1. IInv => TypeOK
  BY DEF IInv, Fits, TypeOK
<1>2. QED BY <1>1, LifecycleInvariant, PTL

\* Whenever lifecycle.json says that nothing is pending, it names what the Pi
\* runs: the installed application, state.json and, unless a written acceptance
\* was undone, the driver of the normal boot (verify_pair, accept_pending_...).
THEOREM RecordTellsWhatRuns == Spec => []PiMatchesRecord
<1>1. IInv => PiMatchesRecord
  BY DEF IInv, Fits, RecordFits, StateFits, DriverIs, PiMatchesRecord, AppMatchesRecord,
         DriverMatchesRecord, Settled, Pending, Uninstalling
<1>2. QED BY <1>1, LifecycleInvariant, PTL

\* From the first write of a transaction to its acceptance the release to go
\* back to is installed or its file is retained.
THEOREM PriorStaysAtHand == Spec => []PriorIsAtHand
<1>1. ASSUME IInv, Pending PROVE PriorIsAtHand
  <2>1. StateFits(pi, pi.life, undone) /\ pi.life.tx # Absent /\ pi.life \in State
    BY <1>1, AbsentAssumption DEF IInv, Fits, RecordFits, Pending, Pi
  <2>2. TxFits(pi, pi.life.tx, undone) /\ pi.life.tx.phase \in Phases
    BY <2>1 DEF StateFits, State, Transaction
  <2>3. QED BY <2>2 DEF TxFits, PriorIsAtHand, Phases, RecoveryPhases
<1>2. IInv => PriorIsAtHand
  BY <1>1 DEF PriorIsAtHand
<1>3. QED BY <1>2, LifecycleInvariant, PTL

\* finalize_uninstall removes the last record only when the application and the
\* driver it describes are gone.
THEOREM RecordsGoLast == Spec => []GoneMeansGone
<1>1. IInv => GoneMeansGone
  <2> SUFFICES ASSUME IInv PROVE GoneMeansGone
    OBVIOUS
  <2>1. RecordFits(pi, undone)
    BY DEF IInv, Fits
  <2>2. Uninstalling /\ pi.life.un.phase = "DriverRemoved"
          => \A i \in DOMAIN pi.life.accepted : DriverOf[pi.life.accepted[i].release] \notin pi.drv.files
    BY <2>1 DEF Uninstalling, RecordFits, StateFits, UnFits
  <2>3. Uninstalling /\ pi.life.un.phase = "DriverRemoved"
          => \A a \in ToSet(pi.life.accepted) : DriverOf[a.release] \notin pi.drv.files
    BY <2>2 DEF ToSet
  <2>4. QED BY <2>1, <2>3 DEF RecordFits, GoneMeansGone
<1>2. QED BY <1>1, LifecycleInvariant, PTL

----
(* Which binary meets which driver *)

\* The binary of q is the one before, or none, or q's driver is the one paired
\* with it.
FitsBin(q) == q.disk.bin \in {pi.disk.bin, Absent} \/ undone \/ DriverIs(q, q.disk.bin)

\* A call over one, two or three states that leave the files' binary alone.
LEMMA CallBin ==
  ASSUME NEW p, NEW q, NEW r, NEW can, NEW done, NEW steps,
         steps \in {<<pi>>, <<pi, q>>, <<pi, q, r>>}, CallOnly(can, steps, done),
         q.disk.bin \in {pi.disk.bin, Absent}, r.disk.bin \in {pi.disk.bin, Absent}
  PROVE  FitsBin(pi')
<1>1. /\ Last(steps).disk.bin \in {pi.disk.bin, Absent}
      /\ \A i \in DOMAIN steps : steps[i].disk.bin \in {pi.disk.bin, Absent}
  <2>1. CASE steps = <<pi>>
    <3>1. Last(<<pi>>) = pi /\ \A i \in DOMAIN <<pi>> : <<pi>>[i] = pi
      BY ShortCalls
    <3>2. QED BY <2>1, <3>1
  <2>2. CASE steps = <<pi, q>>
    <3>1. Last(<<pi, q>>) = q /\ \A i \in DOMAIN <<pi, q>> : <<pi, q>>[i] \in {pi, q}
      BY ShortCalls
    <3>2. QED BY <2>2, <3>1
  <2>3. CASE steps = <<pi, q, r>>
    <3>1. Last(steps) = r /\ \A i \in DOMAIN steps : steps[i] \in {pi, q, r}
      BY <2>3, ThreeStates
    <3>2. QED BY <3>1
  <2>4. QED BY <2>1, <2>2, <2>3
<1>2. pi'.disk.bin \in {pi.disk.bin, Absent}
  BY <1>1 DEF CallOnly
<1>3. QED BY <1>2 DEF FitsBin

\* A call that changes only the files.
LEMMA DiskCallBin ==
  ASSUME IInv, NEW can, NEW steps \in Seq(Disk), steps # <<>>, NEW done,
         Call(can, OnDisk(steps), done),
         can => \A i \in DOMAIN steps :
                  \/ steps[i].bin \in {pi.disk.bin, Absent}
                  \/ undone
                  \/ DriverIs(pi, steps[i].bin)
  PROVE  FitsBin(pi')
<1> DEFINE calls == OnDisk(steps)
<1>1. /\ DOMAIN calls = DOMAIN steps /\ Last(calls) = [pi EXCEPT !.disk = Last(steps)]
      /\ \A i \in DOMAIN steps : steps[i] \in Disk /\ calls[i] = [pi EXCEPT !.disk = steps[i]]
  BY OnDiskFacts
<1>2. PICK n \in DOMAIN steps : Last(steps) = steps[n]
  BY EmptySeq, LenProperties DEF Last
<1>3. CallOnly(can, calls, done)
  BY DEF Call
<1> HIDE DEF calls
<1>4. pi' = pi \/ (can /\ \E i \in DOMAIN steps : pi' = [pi EXCEPT !.disk = steps[i]])
  BY <1>1, <1>2, <1>3 DEF CallOnly
<1>5. ASSUME can, NEW i \in DOMAIN steps, pi' = [pi EXCEPT !.disk = steps[i]]
      PROVE  FitsBin(pi')
  <2>1. pi'.disk = steps[i] /\ pi'.drv = pi.drv
    BY <1>5, Basics DEF Pi
  <2>2. QED BY <1>5, <2>1 DEF FitsBin, DriverIs
<1>6. CASE pi' = pi
  BY <1>6 DEF FitsBin
<1>7. QED BY <1>4, <1>5, <1>6

\* A boot installs nothing.
LEMMA BootBin ==
  ASSUME NEW p \in Pi, NEW driver
  PROVE  Boot(p, driver).disk.bin = p.disk.bin
BY DEF Boot, Rebooted, Pi, Disk

\* Whatever the removal of the drivers comes to, it leaves the records and the
\* binary alone.
LEMMA UninstallDriverLeaves ==
  ASSUME IInv, UninstallDriver
  PROVE  /\ pi'.life = pi.life /\ pi'.knows = pi.knows /\ pi'.disk.bin = pi.disk.bin
         /\ cmd' \in {ReachUninstall("DriverRemoved"), Failed} /\ undone' = undone
<1> DEFINE accepted == cmd.state.accepted
           without(n) == pi.drv.files \ {DriverOf[r] : r \in Newest(accepted, n)}
           removed == [pi EXCEPT !.drv.normal = Stock, !.drv.files = without(1)]
           booted == Boot(removed, Stock)
           left(n) == [booted EXCEPT !.drv.files = without(n)]
           retired == [n \in DOMAIN accepted |-> left(n)]
           steps == <<pi, removed>> \o retired
           S == {q \in {pi, removed} \cup {left(n) : n \in DOMAIN accepted} :
                   q.life = pi.life /\ q.knows = pi.knows /\ q.disk.bin = pi.disk.bin}
<1>1. /\ \E can : Call(can, steps, ReachUninstall("DriverRemoved"))
      /\ cmd.pc = "uninstallDriver"
  BY DEF UninstallDriver
<1>2. removed \in Pi /\ removed.life = pi.life /\ removed.knows = pi.knows
      /\ removed.disk = pi.disk
  <2> DEFINE e == [pi.drv EXCEPT !.normal = Stock, !.files = without(1)]
  <2> HIDE DEF without
  <2>1. without(1) \subseteq Drivers
    BY Basics DEF Pi, Driver, without
  <2>2. e \in Driver
    BY <2>1, Basics DEF Pi, Driver
  <2>3. removed = [pi EXCEPT !.drv = e]
    BY Basics DEF Pi
  <2> HIDE DEF e, removed
  <2>4. QED BY <2>2, <2>3, Basics DEF Pi
<1> HIDE DEF removed
<1>3. /\ DOMAIN booted = DOMAIN pi
      /\ booted.life = pi.life /\ booted.knows = pi.knows /\ booted.disk.bin = pi.disk.bin
  BY <1>2, BootBin, Basics DEF Boot, Pi
<1> HIDE DEF booted
<1>4. \A n : left(n).life = pi.life /\ left(n).knows = pi.knows /\ left(n).disk.bin = pi.disk.bin
  BY <1>3, Basics DEF Pi
<1> HIDE DEF left
<1>5. accepted \in Seq(AcceptedPair) /\ accepted # <<>>
  <2>1. cmd.pc \in Removing /\ cmd.pc # "beginUninstall"
    BY <1>1 DEF Removing
  <2>2. cmd.state = pi.life /\ StateFits(pi, pi.life, undone) /\ pi.life \in State
    BY <2>1, WhileRemoving
  <2>3. QED BY <2>2 DEF StateFits, State
<1>6. Len(accepted) \in Nat /\ DOMAIN accepted = 1 .. Len(accepted) /\ Len(accepted) # 0
  BY <1>5, EmptySeq, LenProperties
<1>7. pi \in S /\ removed \in S /\ \A n \in DOMAIN accepted : left(n) \in S
  BY <1>2, <1>4
<1> HIDE DEF S
<1>8. <<pi, removed>> \in Seq(S) /\ retired \in Seq(S) /\ Len(retired) = Len(accepted)
  BY <1>6, <1>7
<1>9. retired # <<>>
  BY <1>6, <1>8
<1>10. Last(retired) \in S
  BY <1>6, <1>7, <1>8 DEF Last
<1>11. Last(steps) \in S /\ \A i \in DOMAIN steps : steps[i] \in S
  <2> DEFINE first == <<pi, removed>>
  <2>1. first \in Seq(S)
    BY <1>8
  <2> HIDE DEF first, retired
  <2>2. /\ Last(first \o retired) = Last(retired)
        /\ \A i \in DOMAIN (first \o retired) : (first \o retired)[i] \in S
    BY <1>8, <1>9, <2>1, ManyMoreStates
  <2>3. QED BY <1>10, <2>2 DEF first
<1> HIDE DEF steps
<1>12. pi' \in S /\ cmd' \in {ReachUninstall("DriverRemoved"), Failed} /\ undone' = undone
  BY <1>1, <1>7, <1>11 DEF Call, CallOnly
<1>13. QED BY <1>12 DEF S

\* The steps that do not touch the files.
LEMMA RecordStepsBin ==
  ASSUME IInv,
         \/ LoadTransaction \/ LoadUninstall \/ LoadSettled \/ Migrate \/ SaveMigrated
         \/ Resolve \/ Choose \/ BeginTransaction \/ SavePhase \/ StageDriver \/ Commit
         \/ Accept \/ FinalizeDriver \/ Finish \/ Conclude
         \/ PrepareUninstall \/ BeginUninstall \/ FinalizeDriverUninstall
  PROVE  FitsBin(pi')
<1>1. ASSUME NEW can, NEW done, NEW q, Call(can, <<pi, q>>, done), q.disk = pi.disk
      PROVE  FitsBin(pi')
  BY <1>1, CallBin DEF Call
<1>2. ASSUME NEW can, NEW done, NEW q, NEW r, Call(can, <<pi, q, r>>, done),
             q.disk = pi.disk, r.disk = pi.disk
      PROVE  FitsBin(pi')
  BY <1>2, CallBin DEF Call
<1>3. ASSUME NEW s, NEW done, Save(s, done) PROVE FitsBin(pi')
  <2> DEFINE q == Compatible(s)
             r == [q EXCEPT !.life = s]
  <2>1. \/ Call(CanSave(s), <<pi, q, r>>, [done EXCEPT !.state = s])
        \/ Call(CanSave(s), <<pi, q>>, Failed)
    BY <1>3 DEF Save, SaveSteps
  <2>2. q.disk = pi.disk /\ r.disk = pi.disk
    BY Basics DEF Pi, Compatible
  <2> HIDE DEF q, r
  <2>3. QED BY <1>1, <1>2, <2>1, <2>2
<1>4. CASE SaveMigrated \/ BeginTransaction \/ SavePhase \/ Accept \/ Finish \/ Conclude \/ BeginUninstall
  BY <1>3, <1>4 DEF SaveMigrated, BeginTransaction, SavePhase, Accept, Finish, Conclude, BeginUninstall
<1>5. ASSUME NEW H, NEW can, NEW done, Call(can, <<pi, [pi EXCEPT !.helpers = H]>>, done)
      PROVE  FitsBin(pi')
  <2>1. [pi EXCEPT !.helpers = H].disk = pi.disk
    BY Basics DEF Pi
  <2>2. QED BY <1>1, <1>5, <2>1
<1>6. CASE LoadTransaction \/ Resolve \/ Choose \/ PrepareUninstall
  BY <1>5, <1>6 DEF LoadTransaction, Resolve, Choose, PrepareUninstall
<1>7. CASE LoadUninstall
  BY <1>7, CallBin DEF LoadUninstall, Call
<1>8. CASE Migrate \/ FinalizeDriver \/ FinalizeDriverUninstall
  <2>1. \A x : [pi EXCEPT !.drv.accepted = x].disk = pi.disk
    BY Basics DEF Pi
  <2>2. QED BY <1>1, <1>8, <2>1 DEF Migrate, FinalizeDriver, FinalizeDriverUninstall
<1>9. CASE StageDriver
  <2> DEFINE q == [pi EXCEPT !.drv.accepted = DriverOf[Prior.release]]
             r == [q EXCEPT !.drv.trial = DriverOf[Cand],
                            !.drv.files = @ \cup {DriverOf[Cand]}]
  <2>1. \E can, done : Call(can, <<pi, q, r>>, done)
    BY <1>9 DEF StageDriver
  <2>2. q.disk = pi.disk /\ r.disk = pi.disk
    BY Basics DEF Pi
  <2> HIDE DEF q, r
  <2>3. QED BY <1>2, <2>1, <2>2
<1>10. CASE Commit
  <2> DEFINE q == [pi EXCEPT !.drv.normal = DriverOf[Cand], !.drv.trial = Absent]
  <2>1. \E can, done : Call(can, <<pi, q>>, done)
    BY <1>10 DEF Commit
  <2>2. q.disk = pi.disk
    BY Basics DEF Pi
  <2> HIDE DEF q
  <2>3. QED BY <1>1, <2>1, <2>2
<1>11. CASE LoadSettled
  <2> DEFINE accepted == pi.life.accepted
             step(n)  == [pi EXCEPT !.helpers = @ \ Newest(accepted, n - 1)]
             steps    == [n \in 1..Len(accepted) + 1 |-> step(n)]
  <2>1. \E can, done : Call(can, steps, done)
    BY <1>11 DEF LoadSettled
  <2>2. \A n : step(n).disk = pi.disk
    BY Basics DEF Pi
  <2>3. Len(accepted) \in Nat
    BY <1>11, Basics DEF LoadSettled, Pi, State
  <2>4. Len(steps) = Len(accepted) + 1 /\ DOMAIN steps = 1..Len(accepted) + 1
    BY <2>3
  <2>5. \A n \in DOMAIN steps : steps[n].disk = pi.disk
    BY <2>2
  <2>6. Last(steps).disk = pi.disk
    BY <2>3, <2>4, <2>5 DEF Last
  <2> HIDE DEF steps
  <2>7. pi'.disk = pi.disk
    BY <2>1, <2>5, <2>6 DEF Call, CallOnly
  <2>8. QED BY <2>7 DEF FitsBin
<1>12. QED BY <1>4, <1>6, <1>7, <1>8, <1>9, <1>10, <1>11

\* Boots, and the service's restarts, leave the binary alone.
LEMMA BootStepsBin ==
  ASSUME IInv,
         Tryboot \/ ExplicitNormal \/ NormalizedBoot \/ RestoreDriver \/ RestartPrior
           \/ UninstallDriver \/ PowerCycle
  PROVE  FitsBin(pi')
<1>1. pi \in Pi /\ pi.disk \in Disk /\ pi.drv \in Driver
  BY Basics DEF Pi
<1>2. ASSUME NEW can, NEW done, NEW driver, Call(can, <<pi, Boot(pi, driver)>>, done)
      PROVE  FitsBin(pi')
  BY <1>1, <1>2, BootBin, CallBin DEF Call
<1>3. CASE Tryboot \/ ExplicitNormal \/ NormalizedBoot
  BY <1>2, <1>3 DEF Tryboot, ExplicitNormal, NormalizedBoot, RebootNormal
<1>4. CASE RestoreDriver
  <2> DEFINE stopped   == [pi EXCEPT !.disk = Stopped(@)]
             recovered == [stopped EXCEPT !.drv = JournalRecovered(@)]
             booted    == Boot(recovered, recovered.drv.normal)
             steps     == <<pi, stopped, recovered>>
  <2>1. \E can, done : CallOnly(can, steps, done) \/ CallOnly(can, steps \o <<booted>>, done)
    <3>1. CASE pi.drv.booted = recovered.drv.normal
      <4>1. \E can, done : CallOnly(can, steps \o <<>>, done)
        BY <1>4, <3>1 DEF RestoreDriver
      <4>2. steps \o <<>> = steps
        <5>1. steps \in Seq({pi, stopped, recovered})
          OBVIOUS
        <5> HIDE DEF stopped, recovered, steps
        <5>2. QED BY <5>1, ConcatEmptySeq
      <4>3. QED BY <4>1, <4>2
    <3>2. CASE pi.drv.booted # recovered.drv.normal
      BY <1>4, <3>2 DEF RestoreDriver
    <3>3. QED BY <3>1, <3>2
  <2>2. stopped \in Pi /\ stopped.disk.bin = pi.disk.bin /\ stopped.drv = pi.drv
    <3> DEFINE d == Stopped(pi.disk)
    <3>1. d \in Disk /\ d.bin = pi.disk.bin
      BY <1>1, ServiceDisks
    <3> HIDE DEF d
    <3>2. [pi EXCEPT !.disk = d] \in Pi /\ [pi EXCEPT !.disk = d].disk = d
          /\ [pi EXCEPT !.disk = d].drv = pi.drv
      BY <1>1, <3>1 DEF Pi
    <3>3. QED BY <3>1, <3>2 DEF d
  <2>3. JournalRecovered(pi.drv) \in Driver
    <3>1. cmd.pc \in Recovering
      BY <1>4 DEF RestoreDriver, Recovering
    <3>2. pi.drv.normal # Stock
      BY <3>1, WhileRecovering
    <3>3. QED BY <1>1, <3>2, JournalFields
  <2> HIDE DEF stopped
  <2>4. recovered \in Pi /\ recovered.disk = stopped.disk
    BY <2>2, <2>3 DEF Pi
  <2> HIDE DEF recovered
  <2>5. booted.disk.bin = pi.disk.bin
    BY <2>2, <2>4, BootBin
  <2> HIDE DEF booted
  <2>6. PICK can, done :
          CallOnly(can, steps, done) \/ CallOnly(can, steps \o <<booted>>, done)
    BY <2>1
  <2>7. CASE CallOnly(can, steps, done)
    BY <2>2, <2>4, <2>7, CallBin
  <2>8. CASE CallOnly(can, steps \o <<booted>>, done)
    <3> DEFINE four == <<pi, stopped, recovered>> \o <<booted>>
    <3>1. Last(four) = booted /\ \A i \in DOMAIN four : four[i] \in {pi, stopped, recovered, booted}
      BY FourStates
    <3>2. CallOnly(can, four, done)
      BY <2>8
    <3> HIDE DEF four
    <3>3. pi' \in {pi, stopped, recovered, booted}
      BY <3>1, <3>2 DEF CallOnly
    <3>4. QED BY <2>2, <2>4, <2>5, <3>3 DEF FitsBin
  <2>9. QED BY <2>6, <2>7, <2>8
<1>5. CASE RestartPrior
  <2> DEFINE q == [pi EXCEPT !.disk = Started(@)]
  <2>1. \E can, done : Call(can, <<pi, q>>, done)
    BY <1>5 DEF RestartPrior
  <2>2. q.disk.bin = pi.disk.bin
    <3>1. q.disk = Started(pi.disk)
      BY <1>1 DEF Pi
    <3>2. QED BY <1>1, <3>1, ServiceDisks
  <2> HIDE DEF q
  <2>3. QED BY <2>1, <2>2, CallBin DEF Call
<1>6. CASE UninstallDriver
  BY <1>6, UninstallDriverLeaves DEF FitsBin
<1>7. CASE PowerCycle
  BY <1>1, <1>7, BootBin DEF PowerCycle, FitsBin
<1>8. QED BY <1>3, <1>4, <1>5, <1>6, <1>7

\* So do the commands that only add and remove other files, and the uninstall.
LEMMA FileStepsBin ==
  ASSUME IInv,
         Normalize \/ Deploy \/ Restart \/ RetireCandidate \/ UninstallApplication
           \/ FinalizeUninstall
  PROVE  FitsBin(pi')
<1>1. pi \in Pi /\ pi.disk \in Disk
  BY Basics DEF Pi
<1>2. ASSUME NEW can, NEW done, NEW d \in Disk, d.bin = pi.disk.bin,
             Call(can, OnDisk(<<pi.disk, d>>), done)
      PROVE  FitsBin(pi')
  <2> DEFINE steps == <<pi.disk, d>>
  <2>1. steps \in Seq(Disk) /\ steps # <<>> /\ \A i \in DOMAIN steps : steps[i] \in {pi.disk, d}
    BY <1>1, TwoDisks
  <2>2. Call(can, OnDisk(steps), done)
    BY <1>2
  <2> HIDE DEF steps
  <2>3. \A i \in DOMAIN steps : steps[i].bin = pi.disk.bin
    BY <1>2, <2>1
  <2>4. QED BY <2>1, <2>2, <2>3, DiskCallBin
<1>3. CASE Deploy
  <2> DEFINE d == [pi.disk EXCEPT !.kept = @ \cup {Cand}]
  <2>1. Cand \in Releases
    BY <1>3, WhileDoing DEF Deploy, Doing
  <2>2. d \in Disk /\ d.bin = pi.disk.bin
    BY <1>1, <2>1 DEF Disk
  <2>3. \E can, done : Call(can, OnDisk(<<pi.disk, d>>), done)
    BY <1>3 DEF Deploy
  <2> HIDE DEF d
  <2>4. QED BY <1>2, <2>2, <2>3
<1>4. CASE RetireCandidate
  <2> DEFINE d == Retired(pi.disk, Cand)
  <2>1. d \in Disk /\ d.bin = pi.disk.bin
    BY <1>1 DEF Disk, Retired
  <2>2. \E can, done : Call(can, OnDisk(<<pi.disk, d>>), done)
    BY <1>4 DEF RetireCandidate
  <2> HIDE DEF d
  <2>3. QED BY <1>2, <2>1, <2>2
<1>5. CASE Normalize \/ Restart
  <2>1. CASE \E can, done : Call(can, <<pi>>, done)
    BY <2>1, CallBin DEF Call
  <2>2. ASSUME NEW d \in {Started(pi.disk), Stopped(pi.disk)},
               \E can, done : Call(can, OnDisk(<<pi.disk, d>>), done)
        PROVE  FitsBin(pi')
    <3>1. d \in Disk /\ d.bin = pi.disk.bin
      BY <1>1, ServiceDisks
    <3>2. QED BY <1>2, <2>2, <3>1
  <2>3. CASE Restart
    <3>1. \E can, done : Call(can, OnDisk(<<pi.disk, Started(pi.disk)>>), done)
      BY <2>3 DEF Restart
    <3>2. QED BY <2>2, <3>1
  <2>4. CASE Normalize
    <3>1. \/ \E can, done : Call(can, OnDisk(<<pi.disk, Stopped(pi.disk)>>), done)
          \/ \E can, done : Call(can, <<pi>>, done)
      <4>1. PICK inactive \in BOOLEAN :
              Call(TRUE, IF inactive THEN OnDisk(<<pi.disk, Stopped(pi.disk)>>) ELSE <<pi>>,
                   Reach("DriverNormalized"))
        BY <2>4 DEF Normalize
      <4>2. CASE inactive
        BY <4>1, <4>2
      <4>3. CASE ~inactive
        BY <4>1, <4>3
      <4>4. QED BY <4>2, <4>3
    <3>2. QED BY <2>1, <2>2, <3>1
  <2>5. QED BY <1>5, <2>3, <2>4
<1>6. CASE UninstallApplication
  <2> DEFINE steps == UninstallSteps(pi.disk, Current.owned)
  <2>1. Current.owned \in Ownership
    BY <1>6, WhileRemoving DEF UninstallApplication, Removing
  <2>2. /\ steps \in Seq(Disk) /\ steps # <<>>
        /\ \A i \in DOMAIN steps : steps[i].bin \in {pi.disk.bin, Absent}
    BY <1>1, <2>1, UninstallFacts
  <2>3. \E can, done : Call(can, OnDisk(steps), done)
    BY <1>6 DEF UninstallApplication
  <2> HIDE DEF steps
  <2>4. QED BY <2>2, <2>3, DiskCallBin
<1>7. CASE FinalizeUninstall
  <2> DEFINE unaided  == WithoutHelper(cmd.state.un.helper)
             unstated == [unaided EXCEPT !.compat = Absent]
             gone     == [unstated EXCEPT !.life = Absent]
             steps    == <<pi, unaided, unstated, gone>>
  <2>1. \E can, done : CallOnly(can, steps, done)
    BY <1>7 DEF FinalizeUninstall, Call
  <2>2. unaided \in Pi /\ unaided.disk = pi.disk
    BY <1>1 DEF WithoutHelper, Pi
  <2> HIDE DEF unaided
  <2>3. unstated \in Pi /\ unstated.disk = pi.disk
    BY <2>2 DEF Pi
  <2> HIDE DEF unstated
  <2>4. gone.disk = pi.disk
    BY <2>3 DEF Pi
  <2> HIDE DEF gone
  <2>5. Last(steps) = gone /\ \A i \in DOMAIN steps : steps[i] \in {pi, unaided, unstated, gone}
    BY DEF Last
  <2> HIDE DEF steps
  <2>6. pi' \in {pi, unaided, unstated, gone}
    BY <2>1, <2>5 DEF CallOnly
  <2>7. QED BY <2>2, <2>3, <2>4, <2>6 DEF FitsBin
<1>8. QED BY <1>3, <1>4, <1>5, <1>6, <1>7

\* An activation installs the prior release, or the candidate once its driver is
\* the one that a normal boot selects and that runs.
LEMMA ActivationStepsBin ==
  ASSUME IInv, Preserve \/ Activate \/ RestoreApplication
  PROVE  FitsBin(pi')
<1>1. pi \in Pi /\ pi.disk \in Disk
  BY Basics DEF Pi
<1>2. ASSUME NEW owned \in Ownership, NEW r \in Releases, NEW can, NEW done,
             Call(can, OnDisk(ActivationSteps(pi.disk, owned, r)), done),
             r = pi.disk.bin \/ undone \/ DriverIs(pi, r)
      PROVE  FitsBin(pi')
  <2> DEFINE steps == ActivationSteps(pi.disk, owned, r)
  <2>1. /\ steps \in Seq(Disk) /\ steps # <<>>
        /\ \A i \in DOMAIN steps : steps[i].bin \in {pi.disk.bin, r}
    BY <1>1, ActivationFacts
  <2>2. Call(can, OnDisk(steps), done)
    BY <1>2
  <2> HIDE DEF steps
  <2>3. \A i \in DOMAIN steps :
          steps[i].bin \in {pi.disk.bin, Absent} \/ undone \/ DriverIs(pi, steps[i].bin)
    BY <1>2, <2>1
  <2>4. QED BY <2>1, <2>2, <2>3, DiskCallBin
<1>3. CASE Preserve
  <2>1. cmd.pc \in Doing /\ cmd.pc = "preserve"
    BY <1>3 DEF Preserve, Doing
  <2>2. Prior.release \in Releases /\ Prior.owned \in Ownership /\ Heading(cmd) = "preserve"
    BY <2>1, WhileDoing DEF Prior
  <2>3. Prior.release = pi.disk.bin
    BY <2>1, <2>2, Basics DEF WorkFits, Switched, Installed, Prior
  <2>4. \E can, done : Call(can, OnDisk(ActivationSteps(pi.disk, Prior.owned, Prior.release)), done)
    BY <1>3 DEF Preserve
  <2>5. QED BY <1>2, <2>2, <2>3, <2>4
<1>4. CASE Activate
  <2>1. cmd.pc \in Doing /\ cmd.pc = "activate"
    BY <1>4 DEF Activate, Doing
  <2>2. Cand \in Releases /\ Heading(cmd) = "activate"
    BY <2>1, WhileDoing DEF Cand
  <2>3. (undone \/ DriverIs(pi, Cand)) /\ cmd.last # Absent
    BY <2>1, <2>2, Basics DEF WorkFits, Cand
  <2>4. cmd.last \in Ownership
    BY <2>3, Basics DEF Process
  <2>5. \E can, done : Call(can, OnDisk(ActivationSteps(pi.disk, cmd.last, Cand)), done)
    BY <1>4 DEF Activate
  <2>6. QED BY <1>2, <2>2, <2>3, <2>4, <2>5
<1>5. CASE RestoreApplication
  <2> DEFINE owned == IF cmd.last # Absent THEN cmd.last ELSE Prior.owned
  <2>1. cmd.pc \in Recovering /\ cmd.pc = "restoreApplication"
    BY <1>5 DEF RestoreApplication, Recovering
  <2>2. /\ Prior.release \in Releases /\ Prior.owned \in Ownership
        /\ TxFits(pi, cmd.state.tx, undone) /\ cmd.state.tx.phase = "RecoveryDriverRestored"
    BY <2>1, WhileRecovering, Basics DEF PhaseFits, Prior
  <2>3. undone \/ DriverIs(pi, Prior.release)
    BY <2>2 DEF TxFits, RecoveryPhases, Prior
  <2>4. owned \in Ownership
    BY <2>2, Basics DEF Process
  <2>5. \/ \E can, done : Call(can, <<pi>>, done)
        \/ \E can, done : Call(can, OnDisk(ActivationSteps(pi.disk, owned, Prior.release)), done)
    BY <1>5 DEF RestoreApplication
  <2> HIDE DEF owned
  <2>6. CASE \E can, done : Call(can, <<pi>>, done)
    BY <2>6, CallBin DEF Call
  <2>7. CASE \E can, done : Call(can, OnDisk(ActivationSteps(pi.disk, owned, Prior.release)), done)
    BY <1>2, <2>2, <2>3, <2>4, <2>7
  <2>8. QED BY <2>5, <2>6, <2>7
<1>6. QED BY <1>3, <1>4, <1>5

\* The steps that leave the Pi alone, or only a helper of it.
LEMMA IdleStepsBin ==
  ASSUME IInv,
         \/ \E op \in Ops : Begin(op)
         \/ LoadNothing \/ NothingToChoose \/ AlreadyAccepted \/ Refused \/ Verify
         \/ RetireHelper \/ SameDriver \/ UninstallRefused \/ ResumeUninstall \/ ProcessEnds
         \/ UNCHANGED vars
  PROVE  FitsBin(pi')
<1>1. CASE pi' = pi
  BY <1>1 DEF FitsBin
<1>2. CASE Verify
  BY <1>2, CallBin DEF Verify, Call
<1>3. CASE AlreadyAccepted \/ RetireHelper
  <2>1. ASSUME NEW r, NEW done, NEW failed, Attempt(<<pi, WithoutHelper(r)>>, done, failed)
        PROVE  FitsBin(pi')
    <3> DEFINE q == WithoutHelper(r)
    <3>1. q.disk = pi.disk
      BY Basics DEF WithoutHelper, Pi
    <3>2. Last(<<pi, q>>) = q /\ \A i \in DOMAIN <<pi, q>> : <<pi, q>>[i] \in {pi, q}
      BY ShortCalls
    <3>3. Attempt(<<pi, q>>, done, failed)
      BY <2>1
    <3> HIDE DEF q
    <3>4. pi' \in {pi, q}
      BY <3>2, <3>3 DEF Attempt
    <3>5. QED BY <3>1, <3>4 DEF FitsBin
  <2>2. QED BY <1>3, <2>1 DEF AlreadyAccepted, RetireHelper
<1>4. QED BY <1>1, <1>2, <1>3
      DEF Begin, LoadNothing, NothingToChoose, Refused, SameDriver, UninstallRefused,
          ResumeUninstall, ProcessEnds, vars

\* lifecycle-activate replaces the binary only by a release whose driver the
\* normal boot selects and runs, whatever went wrong before (activate_application
\* after NormalizedBootVerified, restore_application after restore_driver).
THEOREM NoForeignDriver == Spec => AppFitsDriver
<1>1. ASSUME IInv, [Next]_vars PROVE FitsBin(pi')
  BY <1>1, RecordStepsBin, BootStepsBin, FileStepsBin, ActivationStepsBin, IdleStepsBin
     DEF Next, Step
<1>2. IInv /\ [Next]_vars =>
        [ pi'.disk.bin \notin {pi.disk.bin, Absent} /\ ~undone
            => /\ pi'.drv.normal = DriverOf[pi'.disk.bin]
               /\ pi'.drv.booted = DriverOf[pi'.disk.bin] ]_vars
  BY <1>1 DEF FitsBin, DriverIs
<1>3. QED BY <1>2, LifecycleInvariant, PTL DEF Spec, AppFitsDriver

----
(* Without mishaps *)

\* Something of ours is installed and is not being removed.
InService(p) == IF p.life = Absent THEN p.compat # Absent ELSE p.life.un = Absent

\* What an upgrade that nothing disturbed finds when it reaches each of its steps.
Ready(p, c) ==
  LET h == Heading(c)
      r == c.state.tx.prior.release
      n == c.state.tx.cand
  IN  /\ c.helper = c.state.tx.helper /\ c.helper \in p.helpers
      /\ h \in {"preserve", "deploy", "stageDriver"} => DriverIs(p, r)
      /\ h \notin {"preserve", "deploy"} => n \in p.disk.kept
      /\ h \notin Switched \cup {"preserve"} => c.last.bin = r
      /\ h = "tryboot" => p.drv.trial = DriverOf[n]
      /\ h = "commit" => p.drv.booted = DriverOf[n]
      /\ h \in {"explicitNormal", "normalize", "normalizedBoot"} => p.drv.normal = DriverOf[n]
      /\ h \in Switched => Installed(p.disk, n)
      /\ h \in {"verify", "accept"} => p.disk.running # Absent
      /\ c.state.tx.phase \in LaterPhases => DriverChanged(c.state)

\* Nothing went wrong: an upgrade that is not under way any more failed to save a
\* phase that its helper does not know.
Undisturbed(p, c, u) ==
  /\ ~u
  /\ InService(p) => p.disk.enabled
  /\ p.life # Absent /\ p.life.tx # Absent /\ p.life.tx.phase \in ForwardPhases /\ ~c.applying =>
       DriverChanged(p.life) /\ p.knows # Phases
  /\ c.pc = "restoreDriver" => p.life.tx.phase \in ForwardPhases
  /\ c.applying => Ready(p, c)

UInv == IInv /\ (faults = 0 => Undisturbed(pi, cmd, undone))

\* Without a mishap a call is done or refused.
LEMMA DoneOrRefused ==
  ASSUME IInv, NEW can, NEW steps, NEW done, CallOnly(can, steps, done), faults' = 0
  PROVE  /\ faults = 0
         /\ \/ can /\ pi' = Last(steps) /\ cmd' = done
            \/ ~can /\ pi' = pi /\ cmd' = Failed
BY BoundsAssumption DEF CallOnly, IInv

\* What a process without an upgrade under way may do to the Pi and to itself.
Resting(p, c) ==
  /\ p.life = pi.life /\ p.knows = pi.knows /\ (InService(p) => p.disk.enabled)
  /\ ~c.applying /\ c.pc = "restoreDriver" => pi.life.tx.phase \in ForwardPhases

\* ... leaves an undisturbed Pi undisturbed.
LEMMA RestingKeeps ==
  ASSUME Undisturbed(pi, cmd, undone), ~cmd.applying, NEW p, NEW c, ~c.applying, Resting(p, c)
  PROVE  Undisturbed(p, c, undone)
BY DEF Undisturbed, Resting

\* Such a process makes a call.
LEMMA RestingCall ==
  ASSUME UInv, faults' = 0, ~cmd.applying, NEW can, NEW steps, NEW done,
         CallOnly(can, steps, done), undone' = undone,
         can => ~done.applying /\ Resting(Last(steps), done)
  PROVE  Undisturbed(pi', cmd', undone')
<1>1. /\ faults = 0
      /\ \/ can /\ pi' = Last(steps) /\ cmd' = done
         \/ ~can /\ pi' = pi /\ cmd' = Failed
  BY DoneOrRefused DEF UInv
<1>2. Undisturbed(pi, cmd, undone)
  BY <1>1 DEF UInv
<1>3. ~Idle.applying /\ Resting(pi, Idle) /\ Failed = Idle
  BY <1>2, IdleFields DEF Resting, Undisturbed, Failed
<1>4. QED BY <1>1, <1>2, <1>3, RestingKeeps

\* Such a process saves no phase of an upgrade under way.
LEMMA RestingSave ==
  ASSUME UInv, faults' = 0, ~cmd.applying, NEW s \in State, NEW done, Save(s, done),
         InService(pi) \/ s.un # Absent, s.tx # Absent => s.tx.phase \notin ForwardPhases,
         ~[done EXCEPT !.state = s].applying, [done EXCEPT !.state = s].pc # "restoreDriver"
  PROVE  Undisturbed(pi', cmd', undone')
<1> DEFINE q == Compatible(s)
           w == [q EXCEPT !.life = s]
           two == <<pi, q>>
           steps == <<pi, q, w>>
           c == [done EXCEPT !.state = s]
<1>1. /\ undone' = undone
      /\ \/ CallOnly(CanSave(s), steps, c)
         \/ ~Knows(pi, s) /\ CallOnly(CanSave(s), two, Failed)
  BY DEF Save, Call, SaveSteps
<1>2. /\ w.life = s /\ w.disk = pi.disk /\ w.knows = pi.knows
      /\ q.life = pi.life /\ q.disk = pi.disk /\ q.knows = pi.knows
  BY Basics DEF Pi, UInv, Compatible
<1>3. Last(steps) = w /\ Last(two) = q
  <2>1. steps = <<pi, q, w>> /\ two = <<pi, q>>
    OBVIOUS
  <2> HIDE DEF q, w, steps, two
  <2>2. Last(steps) = w
    BY <2>1, ThreeStates
  <2>3. Last(two) = q
    BY <2>1, ShortCalls
  <2>4. QED BY <2>2, <2>3
<1>4. ~c.applying /\ c.pc # "restoreDriver" /\ s # Absent
  BY AbsentAssumption
<1> HIDE DEF q, w, steps, two, c
<1>5. /\ faults = 0
      /\ \/ pi' = w /\ cmd' = c
         \/ CanSave(s) /\ ~Knows(pi, s) /\ pi' = q /\ cmd' = Failed
         \/ pi' = pi /\ cmd' = Failed
  <2>1. CASE CallOnly(CanSave(s), steps, c)
    BY <1>3, <2>1, DoneOrRefused DEF UInv
  <2>2. CASE ~Knows(pi, s) /\ CallOnly(CanSave(s), two, Failed)
    BY <1>3, <2>2, DoneOrRefused DEF UInv
  <2>3. QED BY <1>1, <2>1, <2>2
<1>6. Undisturbed(pi, cmd, undone)
  BY <1>5 DEF UInv
<1>7. Undisturbed(w, c, undone)
  BY <1>2, <1>4, <1>6 DEF Undisturbed, InService
<1>8. ~Idle.applying /\ Resting(pi, Idle) /\ Failed = Idle
  BY <1>6, IdleFields DEF Resting, Undisturbed, Failed
<1>9. ASSUME CanSave(s), ~Knows(pi, s) PROVE Resting(q, Idle)
  <2>1. InService(pi)
    BY <1>9 DEF CanSave, Valid, Knows
  <2>2. QED BY <1>2, <1>6, <2>1, IdleFields DEF Resting, Undisturbed
<1>10. QED BY <1>1, <1>5, <1>6, <1>7, <1>8, <1>9, RestingKeeps

\* No command starts by undoing.
LEMMA OperationFields ==
  /\ \A op \in Ops : Operation(op) \in Pcs \ {"restoreDriver"}
BY DEF Operation, Ops, Pcs, Doing, Recovering, Removing

\* The process goes on to a step that is none of an upgrade's.
LEMMA GoRests ==
  ASSUME UInv, faults = 0, ~cmd.applying, NEW pc \in Pcs \ {"restoreDriver"}
  PROVE  /\ ~Go(pc).applying /\ Go(pc).pc # "restoreDriver"
         /\ Resting(pi, Go(pc))
BY Basics, GoFields DEF UInv, Undisturbed, Resting

\* Loading the record and choosing a candidate: a forward phase that is found is
\* one that the helper did not let advance.
LEMMA LoadStepsUndisturbed ==
  ASSUME UInv, faults' = 0, LoadTransaction \/ LoadUninstall \/ LoadSettled \/ Resolve \/ Choose
  PROVE  Undisturbed(pi', cmd', undone')
<1>1. /\ IInv /\ pi \in Pi /\ cmd \in Process /\ pi.disk \in Disk
      /\ ~cmd.applying
  BY Basics
     DEF UInv, LoadTransaction, LoadUninstall, LoadSettled, Resolve, Choose, Doing, Pi
<1>2. ASSUME NEW can, NEW done, NEW H, Call(can, <<pi, [pi EXCEPT !.helpers = H]>>, done),
             ~done.applying, done.pc = "restoreDriver" => pi.life.tx.phase \in ForwardPhases
      PROVE  Undisturbed(pi', cmd', undone')
  <2> DEFINE q == [pi EXCEPT !.helpers = H]
             steps == <<pi, q>>
  <2>1. q.life = pi.life /\ q.compat = pi.compat /\ q.knows = pi.knows /\ q.disk = pi.disk
    BY <1>1 DEF Pi
  <2>2. Last(steps) = q
    BY ShortCalls
  <2>3. CallOnly(can, steps, done) /\ undone' = undone
    BY <1>2 DEF Call
  <2> HIDE DEF q, steps
  <2>4. faults = 0
    BY <1>1, <2>3, DoneOrRefused
  <2>5. Resting(q, done)
    BY <1>2, <2>1, <2>4 DEF Resting, UInv, Undisturbed, InService
  <2>6. QED BY <1>1, <1>2, <2>2, <2>3, <2>5, RestingCall
<1>3. CASE LoadTransaction
  <2> DEFINE done == [Go(Resumption(pi.life)) EXCEPT !.state = pi.life, !.helper = pi.life.tx.helper]
  <2>1. \E H : Call(TRUE, <<pi, [pi EXCEPT !.helpers = H]>>, done)
    BY <1>3 DEF LoadTransaction
  <2>2. ~done.applying /\ done.pc = Resumption(pi.life)
    BY <1>1 DEF Go, Process
  <2>3. Resumption(pi.life) = "restoreDriver" => pi.life.tx.phase \in ForwardPhases
    BY DEF Resumption
  <2> HIDE DEF done
  <2>4. QED BY <1>2, <2>1, <2>2, <2>3
<1>4. CASE LoadUninstall \/ LoadSettled
  <2>1. cmd.op \in Ops
    BY <1>1, <1>4, Basics DEF LoadUninstall, LoadSettled, MemoryFits
  <2>2. Operation(cmd.op) \in Pcs \ {"restoreDriver"}
    BY <2>1, OperationFields
  <2> DEFINE pc == Operation(cmd.op)
  <2> HIDE DEF pc
  <2>3. CASE LoadSettled
    <3> DEFINE done == [Go(pc) EXCEPT !.state = pi.life]
               left(n) == [pi EXCEPT !.helpers = @ \ Newest(pi.life.accepted, n - 1)]
               steps == [n \in 1 .. Len(pi.life.accepted) + 1 |-> left(n)]
    <3>1. pi.life # Absent /\ Call(TRUE, steps, done)
      BY <2>3 DEF LoadSettled, pc
    <3>2. ~done.applying /\ done.pc # "restoreDriver"
      BY <1>1, <2>2 DEF Go, Process, pc
    <3>3. \A n : left(n).life = pi.life /\ left(n).compat = pi.compat
                 /\ left(n).knows = pi.knows /\ left(n).disk = pi.disk
      BY <1>1 DEF Pi
    <3> HIDE DEF done, left
    <3>4. PICK n : Last(steps) = left(n)
      <4> DEFINE k == Len(pi.life.accepted) + 1
      <4>1. k \in Nat /\ k \in 1 .. k
        BY <1>1, <3>1, RecordedState, LenProperties DEF State
      <4>2. Len(steps) = k /\ steps[k] = left(k)
        BY <4>1
      <4> HIDE DEF steps
      <4>3. QED BY <4>2 DEF Last
    <3> HIDE DEF steps
    <3>5. CallOnly(TRUE, steps, done) /\ undone' = undone
      BY <3>1 DEF Call
    <3>6. faults = 0
      BY <1>1, <3>5, DoneOrRefused
    <3>7. Resting(Last(steps), done)
      BY <3>2, <3>3, <3>4, <3>6 DEF Resting, UInv, Undisturbed, InService
    <3>8. QED BY <1>1, <3>2, <3>5, <3>7, RestingCall
  <2>4. CASE LoadUninstall
    <3> DEFINE done == [Go(pc) EXCEPT !.state = pi.life, !.unHelper = pi.life.un.helper]
               steps == <<pi>>
    <3>1. PICK can : CallOnly(can, steps, done) /\ undone' = undone
      BY <2>4 DEF LoadUninstall, pc, Call
    <3>2. ~done.applying /\ done.pc # "restoreDriver" /\ Last(steps) = pi
      BY <1>1, <2>2, ShortCalls DEF Go, Process, pc
    <3> HIDE DEF done, steps
    <3>3. Resting(pi, done)
      BY <1>1, <3>1, <3>2, DoneOrRefused DEF Resting, UInv, Undisturbed
    <3>4. QED BY <1>1, <3>1, <3>2, <3>3, RestingCall
  <2>5. QED BY <1>4, <2>3, <2>4
<1>5. CASE Resolve
  <2>1. PICK r \in Releases :
          Call(TRUE, <<pi, [pi EXCEPT !.helpers = @ \cup {r}]>>,
               [Go(IF cmd.state = EmptyState THEN "load" ELSE "apply") EXCEPT
                  !.cand = r, !.helper = r])
    BY <1>5 DEF Resolve
  <2> DEFINE done == [Go(IF cmd.state = EmptyState THEN "load" ELSE "apply") EXCEPT
                        !.cand = r, !.helper = r]
  <2>2. ~done.applying /\ done.pc # "restoreDriver"
    BY <1>1 DEF Go, Process
  <2>3. \E can, H : Call(can, <<pi, [pi EXCEPT !.helpers = H]>>, done)
    BY <2>1
  <2> HIDE DEF done
  <2>4. QED BY <1>2, <2>2, <2>3
<1>6. CASE Choose
  <2>1. PICK i : LET helper == cmd.state.accepted[1].release IN
          Call(TRUE, <<pi, [pi EXCEPT !.helpers = @ \cup {helper}]>>,
               [Go("apply") EXCEPT !.cand = cmd.state.accepted[i].release, !.helper = helper])
    BY <1>6 DEF Choose
  <2> DEFINE done == [Go("apply") EXCEPT !.cand = cmd.state.accepted[i].release,
                                         !.helper = cmd.state.accepted[1].release]
  <2>2. ~done.applying /\ done.pc # "restoreDriver"
    BY <1>1 DEF Go, Process
  <2>3. \E can, H : Call(can, <<pi, [pi EXCEPT !.helpers = H]>>, done)
    BY <2>1
  <2> HIDE DEF done
  <2>4. QED BY <1>2, <2>2, <2>3
<1>7. QED BY <1>3, <1>4, <1>5, <1>6

\* Steps of the process alone.
LEMMA MovesUndisturbed ==
  ASSUME UInv, faults' = 0,
         \/ \E op \in Ops : Begin(op)
         \/ LoadNothing \/ NothingToChoose \/ AlreadyAccepted \/ Refused \/ RetireHelper
         \/ SameDriver \/ UninstallRefused \/ ResumeUninstall
  PROVE  Undisturbed(pi', cmd', undone')
<1>1. IInv /\ pi \in Pi /\ cmd \in Process /\ faults \in Nat /\ ~cmd.applying
  <2>1. IInv /\ pi \in Pi /\ cmd \in Process /\ faults \in Nat
    BY Basics, BoundsAssumption DEF UInv, IInv
  <2>2. cmd.pc \notin Doing \cup {"save"}
    BY DEF Begin, LoadNothing, NothingToChoose, AlreadyAccepted, Refused, RetireHelper, SameDriver,
           UninstallRefused, ResumeUninstall, Doing
  <2>3. QED BY <2>1, <2>2, Basics
<1>2. faults = 0 /\ undone' = undone
  BY <1>1 DEF Begin, LoadNothing, NothingToChoose, AlreadyAccepted, Refused, RetireHelper, SameDriver,
              UninstallRefused, ResumeUninstall, Attempt
<1>3. Undisturbed(pi, cmd, undone)
  BY <1>2 DEF UInv
<1>4. pi'.life = pi.life /\ pi'.compat = pi.compat /\ pi'.knows = pi.knows /\ pi'.disk = pi.disk
  <2>1. ASSUME NEW r, NEW done, NEW failed, Attempt(<<pi, WithoutHelper(r)>>, done, failed)
        PROVE  pi'.life = pi.life /\ pi'.compat = pi.compat /\ pi'.knows = pi.knows /\ pi'.disk = pi.disk
    <3> DEFINE q == WithoutHelper(r)
    <3>1. q.life = pi.life /\ q.compat = pi.compat /\ q.knows = pi.knows /\ q.disk = pi.disk
      BY <1>1 DEF WithoutHelper, Pi
    <3>2. Last(<<pi, q>>) = q /\ \A i \in DOMAIN <<pi, q>> : <<pi, q>>[i] \in {pi, q}
      BY ShortCalls
    <3>3. Attempt(<<pi, q>>, done, failed)
      BY <2>1
    <3> HIDE DEF q
    <3>4. pi' \in {pi, q}
      BY <3>2, <3>3 DEF Attempt
    <3>5. QED BY <3>1, <3>4
  <2>2. CASE AlreadyAccepted \/ RetireHelper
    BY <2>1, <2>2 DEF AlreadyAccepted, RetireHelper
  <2>3. CASE pi' = pi
    BY <2>3
  <2>4. QED BY <2>2, <2>3
        DEF Begin, LoadNothing, NothingToChoose, Refused, SameDriver, UninstallRefused, ResumeUninstall
<1>5. ~cmd'.applying /\ cmd'.pc # "restoreDriver"
  <2>1. ASSUME NEW pc \in Pcs \ {"restoreDriver"}
        PROVE  ~Go(pc).applying /\ Go(pc).pc # "restoreDriver"
    BY <1>1, GoFields
  <2>2. ~Idle.applying /\ Idle.pc # "restoreDriver"
    BY IdleFields
  <2>3. CASE \E op \in Ops : Begin(op)
    BY <2>3 DEF Begin, NewProcess
  <2>4. CASE LoadNothing
    <3>1. cmd.op \in Ops
      BY <1>1, <2>4, Basics DEF LoadNothing, MemoryFits
    <3>2. Operation(cmd.op) \in Pcs \ {"restoreDriver"}
      BY <3>1, OperationFields
    <3>3. {"migrate", "resolve", "apply"} \subseteq Pcs \ {"restoreDriver"}
      BY DEF Pcs
    <3>4. cmd' = Idle \/ \E pc \in Pcs \ {"restoreDriver"} : cmd' = Go(pc)
      BY <2>4, <3>2, <3>3 DEF LoadNothing
    <3>5. QED BY <2>1, <2>2, <3>4
  <2>5. CASE NothingToChoose \/ AlreadyAccepted \/ Refused \/ UninstallRefused
    BY <1>2, <2>2, <2>5 DEF NothingToChoose, AlreadyAccepted, Refused, UninstallRefused, Attempt
  <2>6. CASE RetireHelper
    <3> DEFINE next == IF cmd.op = "none" THEN Idle ELSE Go(Operation(cmd.op))
    <3>1. cmd' \in {next, [next EXCEPT !.helper = Absent]}
      BY <2>6 DEF RetireHelper, Attempt
    <3>2. next \in Process /\ ~next.applying /\ next.pc # "restoreDriver"
      <4>1. cmd.op = "none" \/ cmd.op \in Ops
        BY <1>1 DEF Process
      <4>2. cmd.op \in Ops => Operation(cmd.op) \in Pcs \ {"restoreDriver"}
        BY OperationFields
      <4>3. QED BY <1>1, <2>2, <4>1, <4>2, IdleFields, GoFields
    <3> HIDE DEF next
    <3>3. QED BY <3>1, <3>2 DEF Process
  <2>7. CASE SameDriver
    BY <1>1, <2>7 DEF SameDriver, Reach, Process
  <2>8. CASE ResumeUninstall
    <3>1. cmd.state.un \in Uninstall
      BY <1>1, <2>8 DEF ResumeUninstall, Process, State
    <3>2. AfterUninstallSave[cmd.state.un.phase] \in Pcs \ {"restoreDriver"}
      BY <3>1 DEF AfterUninstallSave, Uninstall, UninstallPhases, Pcs, Removing
    <3>3. QED BY <2>1, <2>8, <3>2 DEF ResumeUninstall
  <2>9. QED BY <2>3, <2>4, <2>5, <2>6, <2>7, <2>8
<1>6. Resting(pi', cmd')
  BY <1>3, <1>4, <1>5 DEF Resting, Undisturbed, InService
<1>7. Undisturbed(pi', cmd', undone)
  BY <1>1, <1>3, <1>5, <1>6, RestingKeeps
<1>8. QED BY <1>2, <1>7

\* An activation leaves the service alone.
LEMMA ActivationService ==
  ASSUME NEW d \in Disk, NEW owned \in Ownership, NEW r \in Releases
  PROVE  LET last == Last(ActivationSteps(d, owned, r)) IN
         last.enabled = d.enabled /\ last.running = d.running
<1> DEFINE retired  == ToSet(owned.kept) \ ToSet(ProspectiveOwnership(owned, r).kept)
           kept     == [d    EXCEPT !.kept = @ \cup {r}]
           switched == [kept EXCEPT !.bin = r]
           recorded == [switched EXCEPT !.meta = r]
           final    == [recorded EXCEPT !.kept = @ \ retired]
           steps == <<d, kept, switched, recorded, final>>
<1>1. ActivationSteps(d, owned, r) = steps
  BY DEF ActivationSteps
<1> HIDE DEF retired
<1>2. kept \in Disk /\ kept.enabled = d.enabled /\ kept.running = d.running
  BY DEF Disk
<1> HIDE DEF kept
<1>3. switched \in Disk /\ switched.enabled = d.enabled /\ switched.running = d.running
  BY <1>2 DEF Disk, MaybeRelease
<1> HIDE DEF switched
<1>4. recorded \in Disk /\ recorded.enabled = d.enabled /\ recorded.running = d.running
  BY <1>3 DEF Disk, MaybeRelease
<1> HIDE DEF recorded
<1>5. final.enabled = d.enabled /\ final.running = d.running
  BY <1>4 DEF Disk
<1> HIDE DEF final
<1>6. Last(steps) = final
  BY DEF Last
<1>7. QED BY <1>1, <1>5, <1>6

\* A boot starts the enabled service and changes no record.
LEMMA BootService ==
  ASSUME NEW p \in Pi, NEW driver
  PROVE  /\ Boot(p, driver).life = p.life /\ Boot(p, driver).compat = p.compat
         /\ Boot(p, driver).knows = p.knows /\ Boot(p, driver).helpers = p.helpers
         /\ Boot(p, driver).disk.enabled = p.disk.enabled
         /\ p.disk.enabled => Boot(p, driver).disk.running = p.disk.bin
BY DEF Boot, Rebooted, Pi, Disk

\* Undoing an upgrade or taking one back does not start another.
LEMMA RecoveryStepsUndisturbed ==
  ASSUME UInv, faults' = 0,
         RestoreDriver \/ RestoreApplication \/ RestartPrior \/ RetireCandidate
  PROVE  Undisturbed(pi', cmd', undone')
<1>1. /\ IInv /\ pi \in Pi /\ cmd \in Process /\ pi.disk \in Disk /\ pi.drv \in Driver
      /\ cmd.pc \in Recovering
  BY Basics
     DEF UInv, RestoreDriver, RestoreApplication, RestartPrior, RetireCandidate, Recovering, Pi
<1>2. /\ ~cmd.applying /\ pi.drv.normal # Stock /\ Prior.release \in Releases /\ Prior.owned \in Ownership
  BY <1>1, WhileRecovering
<1>3. ASSUME NEW phase \in RecoveryPhases
      PROVE  Reach(phase) \in Process /\ ~Reach(phase).applying /\ Reach(phase).pc = "save"
  BY <1>1, ReachRecovery
<1>4. "RecoveryDriverRestored" \in RecoveryPhases /\ "RecoveryApplicationRestored" \in RecoveryPhases
      /\ "RecoveryCandidateRetired" \in RecoveryPhases
  BY DEF RecoveryPhases
<1>5. ASSUME NEW can, NEW steps, NEW done, CallOnly(can, steps, done), undone' = undone,
             ~done.applying, done.pc # "restoreDriver",
             Last(steps).life = pi.life, Last(steps).compat = pi.compat, Last(steps).knows = pi.knows,
             Last(steps).disk.enabled = pi.disk.enabled
      PROVE  Undisturbed(pi', cmd', undone')
  <2>1. faults = 0
    BY <1>1, <1>5, DoneOrRefused
  <2>2. Undisturbed(pi, cmd, undone)
    BY <2>1 DEF UInv
  <2>3. Resting(Last(steps), done)
    BY <1>5, <2>2 DEF Resting, Undisturbed, InService
  <2>4. QED BY <1>2, <1>5, <2>3, RestingCall
<1>6. CASE RestoreDriver
  <2> DEFINE stopped   == [pi EXCEPT !.disk = Stopped(@)]
             recovered == [stopped EXCEPT !.drv = JournalRecovered(@)]
             normal    == recovered.drv.normal
             booted    == Boot(recovered, normal)
             rebooted  == IF pi.drv.booted = normal THEN <<>> ELSE <<booted>>
             steps     == <<pi, stopped, recovered>> \o rebooted
             can       == pi.disk.enabled
             c         == IF normal = DriverOf[Prior.release] THEN Reach("RecoveryDriverRestored")
                                                              ELSE Failed
  <2>1. /\ cmd.pc = "restoreDriver" /\ CallOnly(can, steps, c)
        /\ undone' = (undone \/ pi.life.tx.phase = "PairAccepted")
    BY <1>6 DEF RestoreDriver
  <2>2. stopped \in Pi /\ stopped.disk.enabled = pi.disk.enabled /\ stopped.drv = pi.drv
        /\ stopped.life = pi.life /\ stopped.compat = pi.compat /\ stopped.knows = pi.knows
    <3> DEFINE d == Stopped(pi.disk)
    <3>1. d \in Disk /\ d.enabled = pi.disk.enabled
      BY <1>1, ServiceDisks
    <3> HIDE DEF d
    <3>2. stopped = [pi EXCEPT !.disk = d]
      BY <1>1 DEF Pi, d
    <3> HIDE DEF stopped
    <3>3. QED BY <1>1, <3>1, <3>2 DEF Pi
  <2>3. JournalRecovered(pi.drv) \in Driver
    BY <1>1, <1>2, JournalFields
  <2> HIDE DEF stopped
  <2>4. recovered \in Pi /\ recovered.disk = stopped.disk
        /\ recovered.life = pi.life /\ recovered.compat = pi.compat /\ recovered.knows = pi.knows
    BY <2>2, <2>3 DEF Pi
  <2> HIDE DEF recovered
  <2>5. booted.disk.enabled = pi.disk.enabled /\ booted.life = pi.life
        /\ booted.compat = pi.compat /\ booted.knows = pi.knows
    BY <2>2, <2>4, BootService
  <2>6. Last(steps) \in {recovered, booted}
    <3>1. CASE pi.drv.booted = normal
      <4>1. steps = <<pi, stopped, recovered>> \o <<>>
        BY <3>1
      <4>2. <<pi, stopped, recovered>> \in Seq({pi, stopped, recovered})
        OBVIOUS
      <4> HIDE DEF steps
      <4>3. steps = <<pi, stopped, recovered>>
        BY <4>1, <4>2, ConcatEmptySeq
      <4>4. QED BY <4>3, ThreeStates
    <3>2. CASE pi.drv.booted # normal
      <4> DEFINE four == <<pi, stopped, recovered>> \o <<booted>>
      <4>1. steps = four
        BY <3>2
      <4>2. Last(four) = booted
        BY FourStates
      <4> HIDE DEF steps, four
      <4>3. QED BY <4>1, <4>2
    <3>3. QED BY <3>1, <3>2
  <2> HIDE DEF steps, can, booted
  <2>7. faults = 0
    BY <1>1, <2>1, DoneOrRefused
  <2>8. pi.life.tx.phase # "PairAccepted"
    <3>1. pi.life.tx.phase \in ForwardPhases
      BY <2>1, <2>7 DEF UInv, Undisturbed
    <3>2. QED BY <3>1 DEF ForwardPhases
  <2>9. undone' = undone
    BY <1>1, <2>1, <2>8, Basics
  <2>10. ~c.applying /\ c.pc # "restoreDriver"
    BY <1>2, <1>3, <1>4, IdleFields DEF Failed
  <2> HIDE DEF c
  <2>11. QED BY <1>5, <2>1, <2>2, <2>4, <2>5, <2>6, <2>9, <2>10
<1>7. CASE RestoreApplication
  <2> DEFINE owned == IF cmd.last # Absent THEN cmd.last ELSE Prior.owned
             manifest == ProspectiveOwnership(owned, Prior.release)
             g     == Reach("RecoveryApplicationRestored")
             restored(o) == [g EXCEPT !.state.tx.restored = o]
             disks == ActivationSteps(pi.disk, owned, Prior.release)
             steps == OnDisk(disks)
             c     == [restored(manifest) EXCEPT !.last = manifest]
  <2>1. \/ Call(TRUE, <<pi>>, restored(Prior.owned))
        \/ \E can : Call(can, steps, c)
    BY <1>7 DEF RestoreApplication
  <2>2. owned \in Ownership
    BY <1>1, <1>2 DEF Process
  <2>3. g \in Process /\ ~g.applying /\ g.pc = "save"
    BY <1>3, <1>4
  <2> HIDE DEF g, owned, manifest
  <2>4. /\ ~c.applying /\ c.pc # "restoreDriver"
        /\ \A o : ~restored(o).applying /\ restored(o).pc # "restoreDriver"
    BY <2>3 DEF Process
  <2> HIDE DEF restored, c
  <2>5. disks \in Seq(Disk) /\ disks # <<>> /\ Last(disks).enabled = pi.disk.enabled
    BY <1>1, <1>2, <2>2, ActivationFacts, ActivationService
  <2> HIDE DEF disks
  <2>6. Last(disks) \in Disk /\ Last(steps) = [pi EXCEPT !.disk = Last(disks)]
    BY <1>1, <2>5, OnDiskFacts
  <2> HIDE DEF steps
  <2>7. /\ Last(steps).life = pi.life /\ Last(steps).compat = pi.compat
        /\ Last(steps).knows = pi.knows /\ Last(steps).disk.enabled = pi.disk.enabled
    BY <1>1, <2>5, <2>6 DEF Pi
  <2>8. CASE \E can : Call(can, steps, c)
    BY <1>5, <2>4, <2>7, <2>8 DEF Call
  <2>9. CASE Call(TRUE, <<pi>>, restored(Prior.owned))
    <3> DEFINE one == <<pi>>
    <3>1. Last(one) = pi /\ Call(TRUE, one, restored(Prior.owned))
      BY <2>9, ShortCalls
    <3> HIDE DEF one
    <3>2. QED BY <1>5, <2>4, <3>1 DEF Call
  <2>10. QED BY <2>1, <2>8, <2>9
<1>8. CASE RestartPrior
  <2> DEFINE q == [pi EXCEPT !.disk = Started(@)]
             steps == <<pi, q>>
             pc == IF cmd.state.tx.phase = "RecoveryCandidateRetired" THEN "conclude"
                   ELSE "retireCandidate"
  <2>1. \E can : Call(can, steps, Go(pc))
    BY <1>8 DEF RestartPrior
  <2>2. pc \in Pcs \ {"restoreDriver"}
    BY DEF Pcs, Recovering
  <2> HIDE DEF pc
  <2>3. ~Go(pc).applying /\ Go(pc).pc # "restoreDriver"
    BY <1>1, <1>2, <2>2, GoFields
  <2>4. Last(steps) = q
    BY ShortCalls
  <2>5. q.life = pi.life /\ q.compat = pi.compat /\ q.knows = pi.knows
        /\ q.disk.enabled = pi.disk.enabled
    <3>1. q.life = pi.life /\ q.compat = pi.compat /\ q.knows = pi.knows /\ q.disk = Started(pi.disk)
      BY <1>1 DEF Pi
    <3>2. QED BY <1>1, <3>1, ServiceDisks
  <2> HIDE DEF q, steps
  <2>6. QED BY <1>5, <2>1, <2>3, <2>4, <2>5 DEF Call
<1>9. CASE RetireCandidate
  <2> DEFINE d == Retired(pi.disk, Cand)
             disks == <<pi.disk, d>>
             steps == OnDisk(disks)
             c == Reach("RecoveryCandidateRetired")
  <2>1. \E can : Call(can, steps, c)
    BY <1>9 DEF RetireCandidate
  <2>2. d \in Disk /\ d.enabled = pi.disk.enabled
    BY <1>1 DEF Retired, Disk
  <2>3. ~c.applying /\ c.pc # "restoreDriver"
    BY <1>3, <1>4
  <2> HIDE DEF d, c
  <2>4. disks \in Seq(Disk) /\ disks # <<>> /\ Last(disks) = d
    BY <1>1, <2>2, TwoDisks
  <2> HIDE DEF disks
  <2>5. Last(steps) = [pi EXCEPT !.disk = d]
    BY <1>1, <2>4, OnDiskFacts
  <2> HIDE DEF steps
  <2>6. /\ Last(steps).life = pi.life /\ Last(steps).compat = pi.compat
        /\ Last(steps).knows = pi.knows /\ Last(steps).disk.enabled = pi.disk.enabled
    BY <1>1, <2>2, <2>5 DEF Pi
  <2>7. QED BY <1>5, <2>1, <2>3, <2>6 DEF Call
<1>10. QED BY <1>6, <1>7, <1>8, <1>9

\* The steps of a migration, of the end of an upgrade and of an uninstall.
LEMMA RemovalStepsUndisturbed ==
  ASSUME UInv, faults' = 0,
         \/ Migrate \/ FinalizeDriver \/ PrepareUninstall \/ UninstallApplication
         \/ UninstallDriver \/ FinalizeDriverUninstall \/ FinalizeUninstall
  PROVE  Undisturbed(pi', cmd', undone')
<1>1. IInv /\ pi \in Pi /\ cmd \in Process /\ pi.disk \in Disk /\ pi.drv \in Driver /\ ~cmd.applying
  <2>1. cmd.pc \notin Doing \cup {"save"}
    BY DEF Migrate, FinalizeDriver, PrepareUninstall, UninstallApplication, UninstallDriver,
           FinalizeDriverUninstall, FinalizeUninstall, Doing
  <2>2. QED BY <2>1, Basics DEF UInv, Pi
<1>2. ASSUME NEW can, NEW steps, NEW done, Call(can, steps, done),
             ~done.applying, done.pc # "restoreDriver",
             Last(steps).life = pi.life, Last(steps).knows = pi.knows,
             InService(Last(steps)) => InService(pi) /\ Last(steps).disk = pi.disk
      PROVE  Undisturbed(pi', cmd', undone')
  <2>1. CallOnly(can, steps, done) /\ undone' = undone
    BY <1>2 DEF Call
  <2>2. faults = 0
    BY <1>1, <2>1, DoneOrRefused
  <2>3. Undisturbed(pi, cmd, undone)
    BY <2>2 DEF UInv
  <2>4. Resting(Last(steps), done)
    BY <1>2, <2>3 DEF Resting, Undisturbed
  <2>5. QED BY <1>1, <1>2, <2>1, <2>4, RestingCall
<1>3. CASE Migrate \/ FinalizeDriver \/ FinalizeDriverUninstall
  <2> SUFFICES ASSUME NEW x, NEW pc, pc \in {"saveMigrated", "finish", "finalizeUninstall"},
                      NEW can,
                      Call(can, <<pi, [pi EXCEPT !.drv.accepted = x]>>, Go(pc))
               PROVE  Undisturbed(pi', cmd', undone')
    BY <1>3 DEF Migrate, FinalizeDriver, FinalizeDriverUninstall
  <2> DEFINE q == [pi EXCEPT !.drv.accepted = x]
             steps == <<pi, q>>
  <2>2. q.life = pi.life /\ q.compat = pi.compat /\ q.knows = pi.knows /\ q.disk = pi.disk
    BY <1>1 DEF Pi
  <2>3. Last(steps) = q /\ Call(can, steps, Go(pc))
    BY ShortCalls
  <2>4. ~Go(pc).applying /\ Go(pc).pc # "restoreDriver"
    BY <1>1 DEF Go, Process
  <2> HIDE DEF q, steps
  <2>5. QED BY <1>2, <2>2, <2>3, <2>4 DEF InService
<1>4. CASE PrepareUninstall
  <2> DEFINE done == [Go("beginUninstall") EXCEPT !.unHelper = Current.owned.bin]
  <2>1. PICK can, H : Call(can, <<pi, [pi EXCEPT !.helpers = H]>>, done)
    BY <1>4 DEF PrepareUninstall
  <2> DEFINE q == [pi EXCEPT !.helpers = H]
             steps == <<pi, q>>
  <2>2. q.life = pi.life /\ q.compat = pi.compat /\ q.knows = pi.knows /\ q.disk = pi.disk
    BY <1>1 DEF Pi
  <2>3. Last(steps) = q /\ Call(can, steps, done)
    BY <2>1, ShortCalls
  <2>4. ~done.applying /\ done.pc # "restoreDriver"
    BY <1>1 DEF Go, Process
  <2> HIDE DEF q, steps, done
  <2>5. QED BY <1>2, <2>2, <2>3, <2>4 DEF InService
<1>5. CASE UninstallApplication \/ UninstallDriver
  <2>1. cmd.pc \in Removing /\ cmd.pc # "beginUninstall"
    BY <1>5 DEF UninstallApplication, UninstallDriver, Removing
  <2>2. pi.life # Absent /\ pi.life.un # Absent /\ Current.owned \in Ownership
    BY <1>1, <2>1, WhileRemoving
  <2>3. \A phase : ~ReachUninstall(phase).applying /\ ReachUninstall(phase).pc # "restoreDriver"
    BY <1>1 DEF ReachUninstall, Process
  <2>4. ASSUME NEW can, NEW steps, NEW phase, Call(can, steps, ReachUninstall(phase)),
               Last(steps).life = pi.life, Last(steps).knows = pi.knows
        PROVE  Undisturbed(pi', cmd', undone')
    BY <1>2, <2>2, <2>3, <2>4 DEF InService
  <2>5. CASE UninstallApplication
    <3> DEFINE disks == UninstallSteps(pi.disk, Current.owned)
               steps == OnDisk(disks)
    <3>1. \E can : Call(can, steps, ReachUninstall("ApplicationRemoved"))
      BY <2>5 DEF UninstallApplication
    <3>2. disks \in Seq(Disk) /\ disks # <<>>
      BY <1>1, <2>2, UninstallFacts
    <3> HIDE DEF disks
    <3>3. Last(steps) = [pi EXCEPT !.disk = Last(disks)]
      BY <1>1, <3>2, OnDiskFacts
    <3> HIDE DEF steps
    <3>4. Last(steps).life = pi.life /\ Last(steps).knows = pi.knows
      BY <1>1, <3>3 DEF Pi
    <3>5. QED BY <2>4, <3>1, <3>4
  <2>6. CASE UninstallDriver
    <3>1. /\ pi'.life = pi.life /\ pi'.knows = pi.knows /\ undone' = undone
          /\ cmd' \in {ReachUninstall("DriverRemoved"), Failed}
      BY <1>1, <2>6, UninstallDriverLeaves
    <3>2. faults = 0
      <4>1. PICK can, steps, done : CallOnly(can, steps, done)
        BY <2>6 DEF UninstallDriver, Call
      <4>2. QED BY <1>1, <4>1, DoneOrRefused
    <3>3. ~cmd'.applying /\ cmd'.pc # "restoreDriver"
      BY <1>1, <2>3, <3>1, IdleFields DEF Failed
    <3>4. Resting(pi', cmd')
      BY <2>2, <3>1, <3>3 DEF Resting, InService
    <3>5. QED BY <1>1, <3>1, <3>2, <3>3, <3>4, RestingKeeps DEF UInv
  <2>7. QED BY <1>5, <2>5, <2>6
<1>6. CASE FinalizeUninstall
  <2> DEFINE unaided  == WithoutHelper(cmd.state.un.helper)
             unstated == [unaided EXCEPT !.compat = Absent]
             gone     == [unstated EXCEPT !.life = Absent]
             steps    == <<pi, unaided, unstated, gone>>
  <2>1. PICK can : CallOnly(can, steps, Idle) /\ undone' = undone
    BY <1>6 DEF FinalizeUninstall, Call
  <2>2. unaided \in Pi /\ unaided.knows = pi.knows
    BY <1>1 DEF WithoutHelper, Pi
  <2> HIDE DEF unaided
  <2>3. unstated \in Pi /\ unstated.compat = Absent /\ unstated.knows = pi.knows
    BY <2>2 DEF Pi
  <2> HIDE DEF unstated
  <2>4. gone.life = Absent /\ gone.compat = Absent /\ gone.knows = pi.knows
    BY <2>3 DEF Pi
  <2>5. Last(steps) = gone
    BY DEF Last
  <2> HIDE DEF gone, steps
  <2>6. /\ faults = 0
        /\ \/ pi' = gone /\ cmd' = Idle
           \/ pi' = pi /\ cmd' = Failed
    <3>1. CallOnly(can, steps, Idle)
      BY <2>1
    <3>2. /\ faults = 0
          /\ \/ can /\ pi' = Last(steps) /\ cmd' = Idle
             \/ ~can /\ pi' = pi /\ cmd' = Failed
      BY <1>1, <3>1, DoneOrRefused
    <3>3. QED BY <2>5, <3>2
  <2>7. Failed = Idle /\ ~Idle.applying /\ Idle.pc = "idle"
    BY <1>1, IdleFields DEF Failed
  <2>8. Undisturbed(pi, cmd, undone)
    BY <2>6 DEF UInv
  <2>9. Undisturbed(gone, Idle, undone) /\ Undisturbed(pi, Idle, undone)
    BY <1>1, <2>4, <2>7, <2>8 DEF Undisturbed, InService
  <2>10. QED BY <2>1, <2>6, <2>7, <2>9
<1>7. QED BY <1>3, <1>4, <1>5, <1>6

\* The saves that are no step of an upgrade under way.
LEMMA RestingSavesUndisturbed ==
  ASSUME UInv, faults' = 0,
         \/ SaveMigrated \/ Finish \/ Conclude \/ BeginUninstall
         \/ SavePhase /\ ~cmd.applying
  PROVE  Undisturbed(pi', cmd', undone')
<1>1. IInv /\ pi \in Pi /\ cmd \in Process /\ cmd.state \in State
  BY Basics DEF UInv, Process
<1>2. ~cmd.applying
  <2>1. CASE SavePhase /\ ~cmd.applying
    BY <2>1
  <2>2. QED BY <1>1, <2>1, Basics DEF SaveMigrated, Finish, Conclude, BeginUninstall, Doing
<1>3. ASSUME NEW pc \in Pcs \ {"restoreDriver"}, NEW s
      PROVE  ~[Go(pc) EXCEPT !.state = s].applying /\ [Go(pc) EXCEPT !.state = s].pc # "restoreDriver"
  BY <1>1, <1>2 DEF Go, Process
<1>4. CASE SaveMigrated
  <2> DEFINE s == Migrated(pi.compat)
  <2>1. pi.compat # Absent /\ pi.life = Absent /\ Save(s, Go("apply"))
    BY <1>1, <1>4, Basics DEF SaveMigrated, MemoryFits
  <2>2. pi.compat \in AcceptedPair
    BY <1>1, <2>1 DEF Pi
  <2>3. s \in State /\ s.tx = Absent
    <3>1. s = [accepted |-> <<pi.compat>>, tx |-> Absent, un |-> Absent]
      BY DEF Migrated, EmptyState
    <3>2. <<pi.compat>> \in Seq(AcceptedPair)
      BY <2>2
    <3>3. QED BY <3>1, <3>2 DEF State
  <2>4. InService(pi)
    BY <2>1 DEF InService
  <2>5. "apply" \in Pcs \ {"restoreDriver"}
    BY DEF Pcs
  <2> HIDE DEF s
  <2>6. ~[Go("apply") EXCEPT !.state = s].applying /\ [Go("apply") EXCEPT !.state = s].pc # "restoreDriver"
    BY <1>3, <2>5
  <2>7. QED BY <1>2, <2>1, <2>3, <2>4, <2>6, RestingSave
<1>5. CASE Finish
  <2> DEFINE s == Finished(cmd.state)
  <2>1. /\ Save(s, Go("retireHelper")) /\ pi.life # Absent /\ pi.life = cmd.state
        /\ cmd.state.tx # Absent
    BY <1>1, <1>5, Basics DEF Finish, MemoryFits, Remembering, Working
  <2>2. pi.life.un = Absent
    BY <1>1, <2>1, Basics, RecordedTransaction
  <2>3. s \in State /\ s.tx = Absent
    BY <1>1 DEF Finished, State
  <2>4. "retireHelper" \in Pcs \ {"restoreDriver"} /\ InService(pi)
    BY <2>1, <2>2 DEF Pcs, InService
  <2> HIDE DEF s
  <2>5. /\ ~[Go("retireHelper") EXCEPT !.state = s].applying
        /\ [Go("retireHelper") EXCEPT !.state = s].pc # "restoreDriver"
    BY <1>3, <2>4
  <2>6. QED BY <1>2, <2>1, <2>3, <2>4, <2>5, RestingSave
<1>6. CASE Conclude
  <2> DEFINE s == Recovered(cmd.state)
  <2>1. cmd.pc \in Recovering /\ cmd.pc = "conclude" /\ Save(s, Go("retireHelper"))
    BY <1>6 DEF Conclude, Recovering
  <2>2. pi.life # Absent /\ pi.life.tx # Absent /\ cmd.state = pi.life
    BY <1>1, <2>1, WhileRecovering
  <2>3. pi.life.un = Absent
    BY <1>1, <2>2, Basics, RecordedTransaction
  <2>4. s \in State /\ s.tx = Absent
    BY <1>1, <2>1, RecoveredFacts
  <2>5. "retireHelper" \in Pcs \ {"restoreDriver"} /\ InService(pi)
    BY <2>2, <2>3 DEF Pcs, InService
  <2> HIDE DEF s
  <2>6. /\ ~[Go("retireHelper") EXCEPT !.state = s].applying
        /\ [Go("retireHelper") EXCEPT !.state = s].pc # "restoreDriver"
    BY <1>3, <2>5
  <2>7. QED BY <1>2, <2>1, <2>4, <2>5, <2>6, RestingSave
<1>7. CASE BeginUninstall
  <2> DEFINE un == [helper |-> cmd.unHelper, purge |-> Purging, phase |-> "UninstallPrepared"]
             s == [cmd.state EXCEPT !.un = un]
  <2>1. Save(s, Go("uninstallApplication")) /\ cmd.unHelper # Absent /\ cmd.state.tx = Absent
    BY <1>1, <1>7, Basics DEF BeginUninstall, MemoryFits
  <2>2. un \in Uninstall
    BY <1>1, <2>1 DEF Uninstall, UninstallPhases, Process, MaybeRelease, Purging
  <2> HIDE DEF un
  <2>3. s \in State /\ s.tx = Absent /\ s.un # Absent
    BY <1>1, <2>1, <2>2, AbsentAssumption DEF State
  <2>4. "uninstallApplication" \in Pcs \ {"restoreDriver"}
    BY DEF Pcs, Removing
  <2> HIDE DEF s
  <2>5. /\ ~[Go("uninstallApplication") EXCEPT !.state = s].applying
        /\ [Go("uninstallApplication") EXCEPT !.state = s].pc # "restoreDriver"
    BY <1>3, <2>4
  <2>6. QED BY <1>2, <2>1, <2>3, <2>5, RestingSave
<1>8. CASE SavePhase /\ ~cmd.applying
  <2> DEFINE s == cmd.state
             pc == IF s.un = Absent THEN AfterSave(s) ELSE AfterUninstallSave[s.un.phase]
  <2>1. cmd.pc = "save" /\ Save(s, Go(pc))
    BY <1>8 DEF SavePhase
  <2>2. /\ pi.life # Absent /\ StateFits(pi, s, undone)
        /\ s.tx # Absent => SameChange(pi.life.tx, s.tx)
        /\ s.tx = Absent => s.un # Absent
        /\ s.tx # Absent => s.un = Absent
    BY <1>1, <2>1, Basics DEF MemoryFits, StateFits, Valid
  <2>3. Heading(cmd) = pc /\ pc \notin Doing
    BY <1>1, <1>2, <2>1, Basics DEF Heading, PhaseFits
  <2>4. s.tx # Absent => s.tx.phase \in RecoveryPhases /\ s.tx.phase \notin ForwardPhases
    <3>1. s.tx # Absent => s.tx.phase \in Phases /\ s.tx.phase \notin {"Prepared", "PairAccepted"}
      BY <1>1, <2>1, Basics DEF PhaseFits, State, Transaction
    <3>2. s.tx # Absent => s.tx.phase \notin ForwardPhases
      BY <2>2, <2>3, StepsAfterSave
    <3>3. QED BY <3>1, <3>2 DEF Phases
  <2>5. pc \in Pcs \ {"restoreDriver"}
    <3>1. CASE s.tx # Absent
      <4>1. AfterSave(s) \in {"restoreApplication", "restartPrior", "conclude"}
        BY <2>4, <3>1, StepsAfterSave DEF RecoveryPhases
      <4>2. QED BY <2>2, <3>1, <4>1 DEF Pcs, Recovering
    <3>2. CASE s.tx = Absent
      <4>1. s.un # Absent /\ s.un.phase \in UninstallPhases
        BY <1>1, <2>2, <3>2 DEF State, Uninstall
      <4>2. QED BY <4>1 DEF AfterUninstallSave, UninstallPhases, Pcs, Removing
    <3>3. QED BY <3>1, <3>2
  <2>6. InService(pi) \/ s.un # Absent
    <3>1. CASE s.tx # Absent
      <4>1. pi.life.tx # Absent
        BY <2>2, <3>1 DEF SameChange
      <4>2. pi.life.un = Absent
        BY <1>1, <2>2, <4>1, Basics, RecordedTransaction
      <4>3. QED BY <2>2, <4>2 DEF InService
    <3>2. QED BY <2>2, <3>1
  <2> HIDE DEF pc
  <2>7. ~[Go(pc) EXCEPT !.state = s].applying /\ [Go(pc) EXCEPT !.state = s].pc # "restoreDriver"
    BY <1>3, <2>5
  <2>8. s \in State
    BY <1>1
  <2>9. QED BY <1>2, <2>1, <2>4, <2>6, <2>7, <2>8, RestingSave
<1>9. QED BY <1>4, <1>5, <1>6, <1>7, <1>8

\* What an undisturbed upgrade finds at the step it has reached.
LEMMA WhileReady ==
  ASSUME UInv, faults = 0, cmd.pc \in Doing
  PROVE  /\ ~undone /\ pi.disk.enabled /\ Ready(pi, cmd)
         /\ Prior = cmd.state.tx.prior /\ Cand = cmd.state.tx.cand
         /\ cmd.helper = pi.life.tx.helper /\ cmd.helper \in pi.helpers
         /\ cmd.pc \in {"preserve", "deploy", "stageDriver"} => DriverIs(pi, Prior.release)
         /\ cmd.pc \notin {"preserve", "deploy"} => Cand \in pi.disk.kept
         /\ cmd.pc \notin Switched \cup {"preserve"} => cmd.last.bin = Prior.release
         /\ cmd.pc = "tryboot" => pi.drv.trial = DriverOf[Cand]
         /\ cmd.pc = "commit" => pi.drv.booted = DriverOf[Cand]
         /\ cmd.pc \in {"explicitNormal", "normalize", "normalizedBoot"} =>
              pi.drv.normal = DriverOf[Cand]
         /\ cmd.pc \in Switched => Installed(pi.disk, Cand)
         /\ cmd.pc \in {"verify", "accept"} => pi.disk.running # Absent
         /\ cmd.state.tx.phase \in LaterPhases => DriverChanged(cmd.state)
         /\ cmd.pc \notin Switched => Installed(pi.disk, Prior.release)
         /\ cmd.pc # "preserve" => cmd.last \in Ownership
         /\ cmd.pc \in Switched \cup {"activate"} => DriverIs(pi, Cand)
         /\ cmd.pc \in Trial => DriverChanged(cmd.state)
<1>1. IInv /\ Undisturbed(pi, cmd, undone)
  BY DEF UInv
<1>2. /\ pi.life # Absent /\ cmd.state = pi.life /\ cmd.applying /\ Heading(cmd) = cmd.pc
      /\ pi.life.un = Absent
  BY <1>1, WhileDoing
<1>3. ~undone /\ pi.disk.enabled /\ Ready(pi, cmd)
  BY <1>1, <1>2 DEF Undisturbed, InService
<1>4. Prior = cmd.state.tx.prior /\ Cand = cmd.state.tx.cand
  BY DEF Prior, Cand
<1>5. /\ cmd.pc \notin Switched => Installed(pi.disk, Prior.release)
      /\ cmd.pc # "preserve" => cmd.last # Absent
      /\ cmd.pc \in Switched \cup {"activate"} => DriverIs(pi, Cand)
      /\ cmd.pc \in Trial => DriverChanged(cmd.state)
  BY <1>1, <1>2, <1>3, <1>4, Basics DEF WorkFits
<1>6. cmd.pc # "preserve" => cmd.last \in Ownership
  BY <1>1, <1>5, Basics DEF Process
<1>7. QED BY <1>2, <1>3, <1>4, <1>5, <1>6 DEF Ready

\* The process has done a step of an undisturbed upgrade.
LEMMA GoingOn ==
  ASSUME UInv, faults' = 0, NEW can, NEW steps, NEW done, CallOnly(can, steps, done),
         undone' = undone, can, done.applying, done.pc # "restoreDriver",
         faults = 0 => Ready(Last(steps), done) /\ Last(steps).disk.enabled
  PROVE  Undisturbed(pi', cmd', undone')
<1>1. faults = 0 /\ pi' = Last(steps) /\ cmd' = done
  BY DoneOrRefused DEF UInv
<1>2. Undisturbed(pi, cmd, undone)
  BY <1>1 DEF UInv
<1>3. QED BY <1>1, <1>2 DEF Undisturbed

\* The step that follows the next phase, and what its record says.
LEMMA ReachReady ==
  ASSUME UInv, cmd.pc \in Doing, NEW phase \in ForwardPhases, NEW c, c.pc = "save",
         c.state = InPhase(cmd.state, phase), c.helper = cmd.helper
  PROVE  /\ Heading(c) = Following(DriverChanged(cmd.state))[phase]
         /\ c.state.tx.prior.release = Prior.release /\ c.state.tx.cand = Cand
         /\ c.state.tx.phase = phase /\ c.state.tx.helper = pi.life.tx.helper
         /\ DriverChanged(c.state) = DriverChanged(cmd.state)
<1>1. phase \in Phases /\ IInv /\ cmd \in Process /\ cmd.state \in State
  BY Basics DEF Phases, UInv, Process
<1>2. cmd.state = pi.life /\ cmd.state.tx # Absent /\ cmd.state.un = Absent
  BY <1>1, WhileDoing
<1>3. /\ Heading(c) = Following(DriverChanged(cmd.state))[phase]
      /\ c.state.tx.prior = Prior /\ c.state.tx.cand = Cand
      /\ c.state.tx.phase = phase
      /\ DriverChanged(c.state) = DriverChanged(cmd.state)
  BY <1>1, <1>2, ReachHeading
<1>4. c.state.tx.helper = pi.life.tx.helper
  BY <1>1, <1>2, InPhaseFields
<1>5. QED BY <1>3, <1>4

\* The steps before the driver is tried: the release files are put in place.
LEMMA StagingUndisturbed ==
  ASSUME UInv, faults' = 0, Preserve \/ Deploy \/ StageDriver
  PROVE  Undisturbed(pi', cmd', undone')
<1>1. /\ IInv /\ cmd.pc \in Doing /\ pi \in Pi /\ pi.disk \in Disk /\ pi.drv \in Driver
      /\ cmd \in Process /\ undone' = undone
  <2>1. IInv /\ pi \in Pi /\ cmd \in Process
    BY Basics DEF UInv
  <2>2. pi.disk \in Disk /\ pi.drv \in Driver
    BY <2>1 DEF Pi
  <2>3. cmd.pc \in Doing /\ undone' = undone
    BY DEF Preserve, Deploy, StageDriver, Doing, Call
  <2>4. QED BY <2>1, <2>2, <2>3
<1>2. /\ cmd.applying /\ cmd.state = pi.life /\ cmd.state.tx # Absent
      /\ Prior.release \in Releases /\ Prior.owned \in Ownership /\ Cand \in Releases
      /\ Prior.owned.bin = Prior.release /\ Prior.release # Cand
      /\ pi.life.tx.phase \in ForwardPhases
  BY <1>1, WhileDoing
<1>3. faults = 0
  BY <1>1, DoneOrRefused DEF Preserve, Deploy, StageDriver, Call
<1>4. CASE Preserve
  <2> DEFINE r == Prior.release
             disks == ActivationSteps(pi.disk, Prior.owned, r)
             steps == OnDisk(disks)
             manifest == ProspectiveOwnership(Prior.owned, r)
             can == CanActivate(r, Prior.owned, pi.disk.bin = r)
             c == [Go("deploy") EXCEPT !.last = manifest]
  <2>1. cmd.pc = "preserve" /\ CallOnly(can, steps, c)
    BY <1>4 DEF Preserve, Call
  <2>2. can
    <3>1. Installed(pi.disk, r) /\ cmd.helper \in pi.helpers
      BY <1>1, <1>3, <2>1, WhileReady DEF Switched
    <3>2. ManifestHolds(pi.disk, Prior.owned)
      BY <1>2, <3>1 DEF ManifestHolds, Installed
    <3>3. QED BY <3>1, <3>2 DEF CanActivate, Installed
  <2>3. /\ disks \in Seq(Disk) /\ disks # <<>> /\ Last(disks).enabled = pi.disk.enabled
        /\ manifest.bin = r
    <3>1. disks \in Seq(Disk) /\ disks # <<>>
      BY <1>1, <1>2, ActivationFacts
    <3>2. Last(disks).enabled = pi.disk.enabled
      BY <1>1, <1>2, ActivationService
    <3>3. manifest.bin = r
      BY <1>2, ProspectiveFacts
    <3>4. QED BY <3>1, <3>2, <3>3
  <2> HIDE DEF disks, manifest, can
  <2>4. Last(disks) \in Disk /\ Last(steps) = [pi EXCEPT !.disk = Last(disks)]
    BY <1>1, <2>3, OnDiskFacts
  <2> HIDE DEF steps
  <2>5. /\ Last(steps).drv = pi.drv /\ Last(steps).helpers = pi.helpers
        /\ Last(steps).disk = Last(disks)
    BY <1>1, <2>4 DEF Pi
  <2>6. /\ c.pc = "deploy" /\ c.applying /\ c.last.bin = r /\ c.helper = cmd.helper
        /\ c.state = cmd.state
    BY <1>1, <1>2, <2>3 DEF Go, Process
  <2> HIDE DEF c
  <2>7. Heading(c) = "deploy"
    BY <2>6 DEF Heading
  <2>8. Ready(Last(steps), c) /\ Last(steps).disk.enabled
    <3>1. /\ pi.disk.enabled /\ cmd.helper = pi.life.tx.helper /\ cmd.helper \in pi.helpers
          /\ DriverIs(pi, r) /\ (cmd.state.tx.phase \in LaterPhases => DriverChanged(cmd.state))
          /\ r = cmd.state.tx.prior.release
      BY <1>1, <1>3, <2>1, WhileReady
    <3>2. DriverIs(Last(steps), r)
      BY <2>5, <3>1 DEF DriverIs
    <3>3. QED BY <1>2, <2>3, <2>5, <2>6, <2>7, <3>1, <3>2 DEF Ready, Switched
  <2>9. QED BY <1>1, <2>1, <2>2, <2>6, <2>8, GoingOn
<1>5. CASE Deploy
  <2> DEFINE d == [pi.disk EXCEPT !.kept = @ \cup {Cand}]
             disks == <<pi.disk, d>>
             steps == OnDisk(disks)
             c == Reach("ApplicationStaged")
  <2>1. cmd.pc = "deploy" /\ CallOnly(TRUE, steps, c)
    BY <1>5 DEF Deploy, Call
  <2>2. d \in Disk /\ d.enabled = pi.disk.enabled /\ Cand \in d.kept
    BY <1>1, <1>2 DEF Disk
  <2> HIDE DEF d
  <2>3. disks \in Seq(Disk) /\ disks # <<>> /\ Last(disks) = d
    BY <1>1, <2>2, TwoDisks
  <2> HIDE DEF disks
  <2>4. Last(steps) = [pi EXCEPT !.disk = d]
    BY <1>1, <2>3, OnDiskFacts
  <2> HIDE DEF steps
  <2>5. Last(steps).drv = pi.drv /\ Last(steps).helpers = pi.helpers /\ Last(steps).disk = d
    BY <1>1, <2>4 DEF Pi
  <2>6. "ApplicationStaged" \in ForwardPhases /\ "ApplicationStaged" \in Phases
    BY DEF ForwardPhases, Phases
  <2>7. /\ c.pc = "save" /\ c.applying /\ c.last = cmd.last /\ c.helper = cmd.helper
        /\ c.state = InPhase(cmd.state, "ApplicationStaged")
    BY <1>1, <1>2, <2>6, ReachFields
  <2> HIDE DEF c
  <2>8. Ready(Last(steps), c) /\ Last(steps).disk.enabled
    <3>1. /\ pi.disk.enabled /\ cmd.helper = pi.life.tx.helper /\ cmd.helper \in pi.helpers
          /\ DriverIs(pi, Prior.release) /\ cmd.last.bin = Prior.release
      BY <1>1, <1>3, <2>1, WhileReady DEF Switched
    <3>2. /\ Heading(c) \in {"stageDriver", "activate"}
          /\ c.state.tx.prior.release = Prior.release /\ c.state.tx.cand = Cand
          /\ c.state.tx.phase = "ApplicationStaged" /\ c.state.tx.helper = pi.life.tx.helper
      BY <1>1, <2>6, <2>7, ReachReady DEF Following
    <3>3. DriverIs(Last(steps), Prior.release)
      BY <2>5, <3>1 DEF DriverIs
    <3>4. QED BY <2>2, <2>5, <2>7, <3>1, <3>2, <3>3 DEF Ready, Switched, LaterPhases
  <2>9. QED BY <1>1, <2>1, <2>7, <2>8, GoingOn
<1>6. CASE StageDriver
  <2> DEFINE q == [pi EXCEPT !.drv.accepted = DriverOf[Prior.release]]
             w == [q EXCEPT !.drv.trial = DriverOf[Cand], !.drv.files = @ \cup {DriverOf[Cand]}]
             steps == <<pi, q, w>>
             c == Reach("DriverStaged")
             can == pi.drv.normal = DriverOf[Prior.release]
  <2>1. cmd.pc = "stageDriver" /\ CallOnly(can, steps, c)
    BY <1>6 DEF StageDriver, Call
  <2>2. can
    BY <1>1, <1>3, <2>1, WhileReady DEF DriverIs
  <2>3. w.disk = pi.disk /\ w.helpers = pi.helpers /\ w.drv.trial = DriverOf[Cand]
    <3> DEFINE e == [pi.drv EXCEPT !.accepted = DriverOf[Prior.release]]
               g == [e EXCEPT !.trial = DriverOf[Cand], !.files = @ \cup {DriverOf[Cand]}]
    <3>1. DOMAIN e = DOMAIN pi.drv
      OBVIOUS
    <3>2. q = [pi EXCEPT !.drv = e]
      BY <1>1 DEF Pi
    <3> HIDE DEF e, q
    <3>3. DOMAIN q = DOMAIN pi /\ q.drv = e /\ q.disk = pi.disk /\ q.helpers = pi.helpers
      BY <1>1, <3>2 DEF Pi
    <3>4. w = [q EXCEPT !.drv = g]
      BY <1>1, <3>3 DEF Pi
    <3>5. g.trial = DriverOf[Cand]
      BY <1>1, <3>1 DEF Driver
    <3> HIDE DEF w, g
    <3>6. QED BY <1>1, <3>3, <3>4, <3>5 DEF Pi
  <2>4. steps = <<pi, q, w>>
    OBVIOUS
  <2> HIDE DEF w, q, steps, can
  <2>5. Last(steps) = w
    BY <2>4, ThreeStates
  <2>6. "DriverStaged" \in ForwardPhases /\ "DriverStaged" \in Phases
    BY DEF ForwardPhases, Phases
  <2>7. /\ c.pc = "save" /\ c.applying /\ c.last = cmd.last /\ c.helper = cmd.helper
        /\ c.state = InPhase(cmd.state, "DriverStaged")
    BY <1>1, <1>2, <2>6, ReachFields
  <2> HIDE DEF c
  <2>8. Ready(Last(steps), c) /\ Last(steps).disk.enabled
    <3>1. /\ pi.disk.enabled /\ cmd.helper = pi.life.tx.helper /\ cmd.helper \in pi.helpers
          /\ Cand \in pi.disk.kept /\ cmd.last.bin = Prior.release
      BY <1>1, <1>3, <2>1, WhileReady DEF Switched
    <3>2. /\ Heading(c) = "tryboot"
          /\ c.state.tx.prior.release = Prior.release /\ c.state.tx.cand = Cand
          /\ c.state.tx.phase = "DriverStaged" /\ c.state.tx.helper = pi.life.tx.helper
      BY <1>1, <2>6, <2>7, ReachReady DEF Following
    <3>3. QED BY <2>3, <2>5, <2>7, <3>1, <3>2 DEF Ready, Switched, LaterPhases
  <2>9. QED BY <1>1, <2>1, <2>2, <2>7, <2>8, GoingOn
<1>7. QED BY <1>4, <1>5, <1>6


\* A step of the trial of the driver leaves the next one ready.
LEMMA TrialReady ==
  ASSUME UInv, faults' = 0, cmd.pc \in Trial, NEW can, NEW steps, NEW q, Last(steps) = q,
         NEW phase \in {"TrybootVerified", "DriverCommitted", "ExplicitNormalVerified",
                        "DriverNormalized", "NormalizedBootVerified"},
         CallOnly(can, steps, Reach(phase)), undone' = undone, can,
         q.helpers = pi.helpers, q.disk.kept = pi.disk.kept, q.disk.enabled = pi.disk.enabled,
         phase = "TrybootVerified" => q.drv.booted = DriverOf[Cand],
         phase \in {"DriverCommitted", "ExplicitNormalVerified", "DriverNormalized"} =>
           q.drv.normal = DriverOf[Cand]
  PROVE  Undisturbed(pi', cmd', undone')
<1> DEFINE c == Reach(phase)
<1>1. cmd.pc \in Doing /\ cmd.pc \notin Switched \cup {"preserve", "deploy"}
  BY DEF Trial, Doing, Switched
<1>2. IInv /\ cmd \in Process
  BY Basics DEF UInv
<1>3. phase \in ForwardPhases /\ phase \in Phases
  BY DEF ForwardPhases, Phases
<1>4. cmd.state.tx # Absent /\ cmd.applying
  BY <1>1, <1>2, WhileDoing
<1>5. /\ c.pc = "save" /\ c.applying /\ c.last = cmd.last /\ c.helper = cmd.helper
      /\ c.state = InPhase(cmd.state, phase)
  BY <1>2, <1>3, <1>4, ReachFields
<1> HIDE DEF c
<1>6. faults = 0 /\ CallOnly(can, steps, c) /\ c.pc # "restoreDriver"
  <2>1. CallOnly(can, steps, c)
    BY DEF c
  <2>2. QED BY <1>2, <1>5, <2>1, DoneOrRefused
<1>7. /\ pi.disk.enabled /\ cmd.helper = pi.life.tx.helper /\ cmd.helper \in pi.helpers
      /\ Cand \in pi.disk.kept /\ cmd.last.bin = Prior.release /\ DriverChanged(cmd.state)
  BY <1>1, <1>6, WhileReady
<1>8. /\ Heading(c) = Following(DriverChanged(cmd.state))[phase]
      /\ c.state.tx.prior.release = Prior.release /\ c.state.tx.cand = Cand
      /\ c.state.tx.phase = phase /\ c.state.tx.helper = pi.life.tx.helper
      /\ DriverChanged(c.state) = DriverChanged(cmd.state)
  BY <1>1, <1>3, <1>5, ReachReady
<1>9. \/ Heading(c) = "commit" /\ q.drv.booted = DriverOf[Cand]
      \/ /\ Heading(c) \in {"explicitNormal", "normalize", "normalizedBoot"}
         /\ q.drv.normal = DriverOf[Cand]
      \/ Heading(c) = "activate"
  BY <1>8, FollowingSteps
<1>10. Ready(Last(steps), c) /\ Last(steps).disk.enabled
  BY <1>5, <1>7, <1>8, <1>9 DEF Ready, Switched
<1>11. QED BY <1>1, <1>5, <1>6, <1>10, GoingOn

\* The steps of the trial of the driver.
LEMMA TrialUndisturbed ==
  ASSUME UInv, faults' = 0, Tryboot \/ Commit \/ ExplicitNormal \/ Normalize \/ NormalizedBoot
  PROVE  Undisturbed(pi', cmd', undone')
<1>1. /\ IInv /\ cmd.pc \in Trial /\ pi \in Pi /\ pi.disk \in Disk /\ pi.drv \in Driver
      /\ cmd \in Process /\ undone' = undone
  <2>1. IInv /\ pi \in Pi /\ cmd \in Process
    BY Basics DEF UInv
  <2>2. pi.disk \in Disk /\ pi.drv \in Driver
    BY <2>1 DEF Pi
  <2>3. cmd.pc \in Trial /\ undone' = undone
    BY DEF Tryboot, Commit, ExplicitNormal, Normalize, NormalizedBoot, RebootNormal, Trial, Call
  <2>4. QED BY <2>1, <2>2, <2>3
<1>2. cmd.pc \in Doing /\ cmd.pc \notin Switched \cup {"preserve", "deploy"}
  BY <1>1 DEF Trial, Doing, Switched
<1>3. Cand \in Releases /\ Prior.release \in Releases /\ pi.drv.normal # Stock
  BY <1>1, <1>2, WhileDoing
<1>4. DriverOf[Cand] \in Drivers /\ pi.drv.normal \in Drivers \cup {Stock}
  BY <1>1, <1>3, DriversAssumption DEF Driver
<1>5. faults = 0
  BY <1>1, DoneOrRefused
     DEF Tryboot, Commit, ExplicitNormal, Normalize, NormalizedBoot, RebootNormal, Call
<1>6. /\ pi.disk.enabled
      /\ cmd.pc = "tryboot" => pi.drv.trial = DriverOf[Cand]
      /\ cmd.pc = "commit" => pi.drv.booted = DriverOf[Cand]
      /\ cmd.pc \in {"explicitNormal", "normalize", "normalizedBoot"} =>
           pi.drv.normal = DriverOf[Cand]
      /\ Installed(pi.disk, Prior.release)
  BY <1>2, <1>5, WhileReady
<1>7. ASSUME NEW driver \in Drivers \cup {Stock}
      PROVE  LET q == Boot(pi, driver) IN
             /\ q.helpers = pi.helpers /\ q.disk.kept = pi.disk.kept
             /\ q.disk.enabled = pi.disk.enabled /\ q.drv.normal = pi.drv.normal
             /\ q.drv.booted = driver /\ q.disk.running # Absent
  <2>1. Boot(pi, driver).disk.running = Prior.release
    BY <1>1, <1>6, <1>7, BootService DEF Installed
  <2>2. Prior.release # Absent
    BY <1>3, ReleasesAssumption
  <2>3. QED BY <1>1, <1>7, <2>1, <2>2, BootService, BootFields
<1>8. CASE Tryboot
  <2> DEFINE q == Boot(pi, DriverOf[Cand])
             steps == <<pi, q>>
             can == pi.drv.trial = DriverOf[Cand]
  <2>1. cmd.pc = "tryboot" /\ CallOnly(can, steps, Reach("TrybootVerified"))
    BY <1>8 DEF Tryboot, Call
  <2>2. Last(steps) = q
    BY ShortCalls
  <2>3. can
    BY <1>6, <2>1
  <2>4. /\ q.helpers = pi.helpers /\ q.disk.kept = pi.disk.kept
        /\ q.disk.enabled = pi.disk.enabled /\ q.drv.booted = DriverOf[Cand]
    BY <1>4, <1>7
  <2> HIDE DEF q, steps, can
  <2>5. QED BY <1>1, <2>1, <2>2, <2>3, <2>4, TrialReady
<1>9. CASE Commit
  <2> DEFINE drv == [pi.drv EXCEPT !.normal = DriverOf[Cand], !.trial = Absent]
             q == [pi EXCEPT !.drv.normal = DriverOf[Cand], !.drv.trial = Absent]
             steps == <<pi, q>>
             can == pi.drv.booted = DriverOf[Cand]
  <2>1. cmd.pc = "commit" /\ CallOnly(can, steps, Reach("DriverCommitted"))
    BY <1>9 DEF Commit, Call
  <2>2. Last(steps) = q
    BY ShortCalls
  <2>3. can
    BY <1>6, <2>1
  <2>4. drv.normal = DriverOf[Cand] /\ q = [pi EXCEPT !.drv = drv]
    BY <1>1 DEF Driver, Pi
  <2> HIDE DEF q, drv
  <2>5. q.helpers = pi.helpers /\ q.disk = pi.disk /\ q.drv.normal = DriverOf[Cand]
    BY <1>1, <2>4 DEF Pi
  <2> HIDE DEF steps, can
  <2>6. QED BY <1>1, <2>1, <2>2, <2>3, <2>5, TrialReady
<1>10. CASE ExplicitNormal \/ NormalizedBoot
  <2> DEFINE q == Boot(pi, pi.drv.normal)
             steps == <<pi, q>>
             can == pi.drv.normal = DriverOf[Cand] /\ q.disk.running # Absent
  <2>1. PICK phase \in {"ExplicitNormalVerified", "NormalizedBootVerified"} :
          /\ cmd.pc \in {"explicitNormal", "normalizedBoot"}
          /\ CallOnly(can, steps, Reach(phase))
    BY <1>10 DEF ExplicitNormal, NormalizedBoot, RebootNormal, Call
  <2>2. Last(steps) = q
    BY ShortCalls
  <2>3. can /\ pi.drv.normal = DriverOf[Cand]
    BY <1>4, <1>6, <1>7, <2>1
  <2>4. /\ q.helpers = pi.helpers /\ q.disk.kept = pi.disk.kept
        /\ q.disk.enabled = pi.disk.enabled /\ q.drv.normal = DriverOf[Cand]
    BY <1>4, <1>7, <2>3
  <2> HIDE DEF q, steps, can
  <2>5. QED BY <1>1, <2>1, <2>2, <2>3, <2>4, TrialReady
<1>11. CASE Normalize
  <2> DEFINE d == Stopped(pi.disk)
             disks == <<pi.disk, d>>
             c == Reach("DriverNormalized")
  <2>1. /\ cmd.pc = "normalize"
        /\ CallOnly(TRUE, OnDisk(disks), c) \/ CallOnly(TRUE, <<pi>>, c)
    BY <1>11 DEF Normalize, Call
  <2>2. d \in Disk /\ d.kept = pi.disk.kept /\ d.enabled = pi.disk.enabled
    BY <1>1, ServiceDisks
  <2> HIDE DEF d
  <2>3. disks \in Seq(Disk) /\ disks # <<>> /\ Last(disks) = d
    BY <1>1, <2>2, TwoDisks
  <2> HIDE DEF disks
  <2>4. Last(OnDisk(disks)) = [pi EXCEPT !.disk = d] /\ Last(<<pi>>) = pi
    BY <1>1, <2>3, OnDiskFacts, ShortCalls
  <2>5. \E steps, q : /\ CallOnly(TRUE, steps, c) /\ Last(steps) = q
                      /\ q.helpers = pi.helpers /\ q.disk.kept = pi.disk.kept
                      /\ q.disk.enabled = pi.disk.enabled /\ q.drv = pi.drv
    <3>1. /\ [pi EXCEPT !.disk = d].helpers = pi.helpers /\ [pi EXCEPT !.disk = d].disk = d
          /\ [pi EXCEPT !.disk = d].drv = pi.drv
      BY <1>1 DEF Pi
    <3> HIDE DEF c
    <3>2. QED BY <2>1, <2>2, <2>4, <3>1
  <2>6. pi.drv.normal = DriverOf[Cand]
    BY <1>6, <2>1
  <2>7. QED BY <1>1, <2>5, <2>6, TrialReady
<1>12. QED BY <1>8, <1>9, <1>10, <1>11

\* The activation of the candidate, its restart and its verification.
LEMMA SwitchUndisturbed ==
  ASSUME UInv, faults' = 0, Activate \/ Restart \/ Verify
  PROVE  Undisturbed(pi', cmd', undone')
<1>1. /\ IInv /\ cmd.pc \in Doing /\ pi \in Pi /\ pi.disk \in Disk /\ cmd \in Process
      /\ undone' = undone
  <2>1. IInv /\ pi \in Pi /\ cmd \in Process
    BY Basics DEF UInv
  <2>2. pi.disk \in Disk
    BY <2>1 DEF Pi
  <2>3. cmd.pc \in Doing /\ undone' = undone
    BY DEF Activate, Restart, Verify, Doing, Call
  <2>4. QED BY <2>1, <2>2, <2>3
<1>2. /\ cmd.applying /\ cmd.state = pi.life /\ cmd.state.tx # Absent /\ Cand \in Releases
      /\ pi.life.tx.phase \in ForwardPhases
  BY <1>1, WhileDoing
<1>3. faults = 0
  BY <1>1, DoneOrRefused DEF Activate, Restart, Verify, Call
<1>4. /\ ~undone /\ pi.disk.enabled /\ cmd.helper = pi.life.tx.helper /\ cmd.helper \in pi.helpers
      /\ Prior.release = cmd.state.tx.prior.release /\ Cand = cmd.state.tx.cand
  BY <1>1, <1>3, WhileReady
<1>5. Cand # Absent
  BY <1>2, ReleasesAssumption
<1>6. CASE Activate
  <2> DEFINE disks == ActivationSteps(pi.disk, cmd.last, Cand)
             steps == OnDisk(disks)
             can == CanActivate(Cand, cmd.last, Cand \in pi.disk.kept)
             g == Reach("ApplicationActivated")
             c == [g EXCEPT !.last = ProspectiveOwnership(@, Cand)]
  <2>1. cmd.pc = "activate" /\ CallOnly(can, steps, c)
    BY <1>6 DEF Activate, Call
  <2>2. /\ Cand \in pi.disk.kept /\ cmd.last.bin = Prior.release /\ cmd.last \in Ownership
        /\ Installed(pi.disk, Prior.release)
    BY <1>1, <1>3, <2>1, WhileReady DEF Switched
  <2>3. can
    <3>1. ManifestHolds(pi.disk, cmd.last)
      BY <2>2 DEF ManifestHolds, Installed
    <3>2. QED BY <1>4, <2>2, <3>1 DEF CanActivate
  <2>4. /\ disks \in Seq(Disk) /\ disks # <<>>
        /\ Installed(Last(disks), Cand) /\ Cand \in Last(disks).kept
    BY <1>1, <1>2, <2>2, ActivationFacts
  <2>5. Last(disks).enabled
    BY <1>1, <1>2, <1>4, <2>2, ActivationService
  <2> HIDE DEF disks, can
  <2>6. Last(disks) \in Disk /\ Last(steps) = [pi EXCEPT !.disk = Last(disks)]
    BY <1>1, <2>4, OnDiskFacts
  <2> HIDE DEF steps
  <2>7. Last(steps).helpers = pi.helpers /\ Last(steps).disk = Last(disks)
    BY <1>1, <2>6 DEF Pi
  <2>8. "ApplicationActivated" \in ForwardPhases /\ "ApplicationActivated" \in Phases
    BY DEF ForwardPhases, Phases
  <2>9. /\ g.pc = "save" /\ g.applying /\ g.helper = cmd.helper /\ g \in Process
        /\ g.state = InPhase(cmd.state, "ApplicationActivated")
    BY <1>1, <1>2, <2>8, ReachFields
  <2> HIDE DEF g
  <2>10. /\ c.pc = "save" /\ c.applying /\ c.helper = cmd.helper
         /\ c.state = InPhase(cmd.state, "ApplicationActivated")
    BY <2>9 DEF Process
  <2>11. CallOnly(can, steps, c)
    BY <2>1
  <2> HIDE DEF c
  <2>12. /\ Heading(c) = "restart"
         /\ c.state.tx.prior.release = Prior.release /\ c.state.tx.cand = Cand
         /\ c.state.tx.phase = "ApplicationActivated" /\ c.state.tx.helper = pi.life.tx.helper
    BY <1>1, <2>8, <2>10, ReachReady DEF Following
  <2>13. Ready(Last(steps), c) /\ Last(steps).disk.enabled
    BY <1>4, <2>4, <2>5, <2>7, <2>10, <2>12 DEF Ready, Switched, LaterPhases
  <2>14. QED BY <1>1, <2>3, <2>10, <2>11, <2>13, GoingOn
<1>7. CASE Restart
  <2> DEFINE d == Started(pi.disk)
             disks == <<pi.disk, d>>
             steps == OnDisk(disks)
             can == pi.disk.bin # Absent
             c == Reach("ApplicationRestarted")
  <2>1. cmd.pc = "restart" /\ CallOnly(can, steps, c)
    BY <1>7 DEF Restart, Call
  <2>2. Cand \in pi.disk.kept /\ Installed(pi.disk, Cand)
    BY <1>1, <1>3, <2>1, WhileReady DEF Switched
  <2>3. can
    BY <1>5, <2>2 DEF Installed
  <2>4. /\ d \in Disk /\ d.bin = pi.disk.bin /\ d.meta = pi.disk.meta /\ d.kept = pi.disk.kept
        /\ d.enabled = pi.disk.enabled
    BY <1>1, ServiceDisks
  <2>5. d.running = pi.disk.bin
    BY <1>1 DEF Started, Disk
  <2> HIDE DEF d
  <2>6. disks \in Seq(Disk) /\ disks # <<>> /\ Last(disks) = d
    BY <1>1, <2>4, TwoDisks
  <2> HIDE DEF disks, can
  <2>7. Last(steps) = [pi EXCEPT !.disk = d]
    BY <1>1, <2>6, OnDiskFacts
  <2> HIDE DEF steps
  <2>8. Last(steps).helpers = pi.helpers /\ Last(steps).disk = d
    BY <1>1, <2>7 DEF Pi
  <2>9. "ApplicationRestarted" \in ForwardPhases /\ "ApplicationRestarted" \in Phases
    BY DEF ForwardPhases, Phases
  <2>10. /\ c.pc = "save" /\ c.applying /\ c.helper = cmd.helper
         /\ c.state = InPhase(cmd.state, "ApplicationRestarted")
    BY <1>1, <1>2, <2>9, ReachFields
  <2> HIDE DEF c
  <2>11. /\ Heading(c) = "verify"
         /\ c.state.tx.prior.release = Prior.release /\ c.state.tx.cand = Cand
         /\ c.state.tx.phase = "ApplicationRestarted" /\ c.state.tx.helper = pi.life.tx.helper
    BY <1>1, <2>9, <2>10, ReachReady DEF Following
  <2>12. Installed(d, Cand) /\ d.running # Absent
    BY <1>5, <2>2, <2>4, <2>5 DEF Installed
  <2>13. Ready(Last(steps), c) /\ Last(steps).disk.enabled
    BY <1>4, <2>2, <2>4, <2>8, <2>10, <2>11, <2>12 DEF Ready, Switched, LaterPhases
  <2>14. QED BY <1>1, <2>1, <2>3, <2>10, <2>13, GoingOn
<1>8. CASE Verify
  <2> DEFINE can == PairRuns(pi, Cand)
             c == Go("accept")
             steps == <<pi>>
  <2>1. cmd.pc = "verify" /\ CallOnly(can, steps, c)
    BY <1>8 DEF Verify, Call
  <2>2. /\ Installed(pi.disk, Cand) /\ pi.disk.running # Absent /\ DriverIs(pi, Cand)
        /\ Ready(pi, cmd)
    BY <1>1, <1>3, <2>1, WhileReady DEF Switched
  <2>3. can
    BY <1>4, <2>2 DEF PairRuns, Healthy, DriverIs
  <2>4. c.pc = "accept" /\ c.applying /\ c.state = cmd.state /\ c.helper = cmd.helper
    BY <1>1, <1>2 DEF Go, Process
  <2>5. Last(steps) = pi
    BY ShortCalls
  <2> HIDE DEF can, c, steps
  <2>6. Heading(c) = "accept" /\ Heading(cmd) = "verify"
    BY <2>1, <2>4 DEF Heading
  <2>7. Ready(pi, c)
    BY <2>2, <2>4, <2>6 DEF Ready, Switched
  <2>8. QED BY <1>1, <1>4, <2>1, <2>3, <2>4, <2>5, <2>7, GoingOn
<1>9. QED BY <1>6, <1>7, <1>8

\* What has changed once a state is saved.
LEMMA SavedPi ==
  ASSUME pi \in Pi, NEW s
  PROVE  /\ Last(SaveSteps(s)).life = s /\ Last(SaveSteps(s)).disk = pi.disk
         /\ Last(SaveSteps(s)).drv = pi.drv /\ Last(SaveSteps(s)).helpers = pi.helpers
         /\ Last(SaveSteps(s)).knows = pi.knows
<1> DEFINE q == Compatible(s)
           w == [q EXCEPT !.life = s]
           steps == <<pi, q, w>>
<1>1. SaveSteps(s) = steps
  BY DEF SaveSteps
<1>2. w.life = s /\ w.disk = pi.disk /\ w.drv = pi.drv /\ w.helpers = pi.helpers /\ w.knows = pi.knows
  BY DEF Pi, Compatible
<1>3. Last(steps) = w
  <2>1. steps = <<pi, q, w>>
    OBVIOUS
  <2> HIDE DEF q, w, steps
  <2>2. QED BY <2>1, ThreeStates
<1> HIDE DEF q, w, steps
<1>4. QED BY <1>1, <1>2, <1>3

\* An undisturbed save is done; or the Pi's helper refuses its phase, with
\* state.json written; or it is not tried.
LEMMA SavedOrRefused ==
  ASSUME UInv, faults' = 0, NEW s, NEW done, Save(s, done)
  PROVE  /\ faults = 0 /\ undone' = undone /\ Undisturbed(pi, cmd, undone)
         /\ \/ /\ CanSave(s) /\ Knows(pi, s)
               /\ pi' = Last(SaveSteps(s)) /\ cmd' = [done EXCEPT !.state = s]
            \/ CanSave(s) /\ ~Knows(pi, s) /\ pi' = Compatible(s) /\ cmd' = Failed
            \/ ~CanSave(s) /\ pi' = pi /\ cmd' = Failed
<1> DEFINE c == [done EXCEPT !.state = s]
           q == Compatible(s)
           two == <<pi, q>>
<1>1. /\ undone' = undone
      /\ \/ Knows(pi, s) /\ CallOnly(CanSave(s), SaveSteps(s), c)
         \/ ~Knows(pi, s) /\ CallOnly(CanSave(s), two, Failed)
  BY DEF Save, Call
<1>2. Last(two) = q
  BY ShortCalls
<1> HIDE DEF c, q, two
<1>3. CASE Knows(pi, s) /\ CallOnly(CanSave(s), SaveSteps(s), c)
  <2>1. faults = 0 /\ \/ CanSave(s) /\ pi' = Last(SaveSteps(s)) /\ cmd' = c
                      \/ ~CanSave(s) /\ pi' = pi /\ cmd' = Failed
    BY <1>3, DoneOrRefused DEF UInv
  <2>2. QED BY <1>1, <1>3, <2>1 DEF UInv, c
<1>4. CASE ~Knows(pi, s) /\ CallOnly(CanSave(s), two, Failed)
  <2>1. faults = 0 /\ \/ CanSave(s) /\ pi' = q /\ cmd' = Failed
                      \/ ~CanSave(s) /\ pi' = pi /\ cmd' = Failed
    BY <1>2, <1>4, DoneOrRefused DEF UInv
  <2>2. QED BY <1>1, <1>4, <2>1 DEF UInv, q
<1>5. QED BY <1>1, <1>3, <1>4

\* state.json alone is written.
LEMMA CompatiblePi ==
  ASSUME pi \in Pi, NEW s
  PROVE  /\ Compatible(s).life = pi.life /\ Compatible(s).disk = pi.disk
         /\ Compatible(s).knows = pi.knows
BY DEF Compatible, Pi

\* Accepting the candidate keeps the record valid: the accepted pairs stay
\* different and few enough, and the prior one is among them.
LEMMA AcceptedIsValid ==
  ASSUME NEW s \in State, Valid(s), s.tx # Absent, s.un = Absent, s.tx.phase # "PairAccepted",
         s.tx.prior.release # s.tx.cand, NEW owned \in Ownership
  PROVE  Valid(Accepted(s, owned))
<1> DEFINE new == Accepted(s, owned)
<1>1. /\ new \in State /\ new.un = s.un /\ new.tx = InPhase(s, "PairAccepted").tx
      /\ new.accepted # <<>> /\ DOMAIN new.accepted = 1 .. Len(new.accepted)
      /\ new.accepted[1] = [release |-> s.tx.cand, owned |-> owned]
      /\ \A i \in DOMAIN new.accepted :
           i # 1 => \E j \in DOMAIN s.accepted :
                      new.accepted[i] = s.accepted[j] /\ s.accepted[j].release # s.tx.cand
      /\ \A i, j \in DOMAIN new.accepted :
           i # 1 /\ i < j => \E a, b \in DOMAIN s.accepted :
              a < b /\ new.accepted[i] = s.accepted[a] /\ new.accepted[j] = s.accepted[b]
      /\ Len(new.accepted) \in 1 .. MaxAccepted
      /\ s.accepted # <<>> /\ s.accepted[1].release # s.tx.cand =>
           s.accepted[1] \in ToSet(new.accepted)
  BY AcceptedFacts
<1> HIDE DEF new
<1>2. /\ s.tx.helper \in {s.tx.prior.release, s.tx.cand} /\ s.accepted # <<>>
      /\ s.accepted[1] = s.tx.prior
      /\ \A i, j \in DOMAIN s.accepted : i # j => s.accepted[i].release # s.accepted[j].release
  BY DEF Valid
<1>3. DOMAIN s.accepted \subseteq Nat /\ DOMAIN new.accepted \subseteq Nat
  <2>1. s.accepted \in Seq(AcceptedPair) /\ new.accepted \in Seq(AcceptedPair)
    BY <1>1 DEF State
  <2>2. QED BY <2>1, LenProperties
<1>4. ASSUME NEW i \in DOMAIN new.accepted, NEW j \in DOMAIN new.accepted, i < j
      PROVE  new.accepted[i].release # new.accepted[j].release
  <2>1. CASE i = 1
    <3>1. j # 1
      BY <1>3, <1>4, <2>1
    <3>2. new.accepted[j].release # s.tx.cand
      BY <1>1, <3>1
    <3>3. new.accepted[i].release = s.tx.cand
      BY <1>1, <2>1
    <3>4. QED BY <3>2, <3>3
  <2>2. CASE i # 1
    <3>1. PICK a \in DOMAIN s.accepted, b \in DOMAIN s.accepted :
            a < b /\ new.accepted[i] = s.accepted[a] /\ new.accepted[j] = s.accepted[b]
      BY <1>1, <1>4, <2>2
    <3>2. a # b
      BY <1>3, <3>1
    <3>3. QED BY <1>2, <3>1, <3>2
  <2>3. QED BY <2>1, <2>2
<1>5. \A i, j \in DOMAIN new.accepted : i # j => new.accepted[i].release # new.accepted[j].release
  <2>1. \A i, j \in DOMAIN new.accepted : i # j => i < j \/ j < i
    BY <1>3
  <2>2. QED BY <1>4, <2>1
<1>6. /\ new.tx # Absent /\ new.tx.phase = "PairAccepted" /\ new.tx.prior = s.tx.prior
      /\ new.tx.cand = s.tx.cand /\ new.tx.helper = s.tx.helper
  <2>1. "PairAccepted" \in Phases
    BY DEF Phases
  <2>2. QED BY <1>1, <2>1, InPhaseFields
<1>7. new.tx.prior \in ToSet(new.accepted) /\ new.accepted[1].release = new.tx.cand
  BY <1>1, <1>2, <1>6
<1>8. Len(new.accepted) <= MaxAccepted
  BY <1>1, BoundsAssumption
<1>9. Valid(new)
  BY <1>1, <1>2, <1>5, <1>6, <1>7, <1>8 DEF Valid
<1>10. QED BY <1>9 DEF new

\* The acceptance is saved.
LEMMA AcceptUndisturbed ==
  ASSUME UInv, faults' = 0, Accept
  PROVE  Undisturbed(pi', cmd', undone')
<1> DEFINE s == Accepted(cmd.state, cmd.last)
           next == IF DriverChanged(s) THEN "finalizeDriver" ELSE "finish"
           done == [Go(next) EXCEPT !.op = "none", !.applying = FALSE]
           c == [done EXCEPT !.state = s]
<1>1. cmd.pc = "accept" /\ Save(s, done)
  BY DEF Accept
<1>2. cmd.pc \in Doing /\ cmd.pc # "preserve"
  BY <1>1 DEF Doing
<1>3. IInv /\ pi \in Pi /\ cmd \in Process
  BY Basics DEF UInv
<1>4. /\ faults = 0 /\ undone' = undone /\ Undisturbed(pi, cmd, undone)
      /\ \/ CanSave(s) /\ Knows(pi, s) /\ pi' = Last(SaveSteps(s)) /\ cmd' = c
         \/ CanSave(s) /\ ~Knows(pi, s) /\ pi' = Compatible(s) /\ cmd' = Failed
         \/ ~CanSave(s) /\ pi' = pi /\ cmd' = Failed
  BY <1>1, SavedOrRefused
<1>5. /\ pi.disk.enabled /\ cmd.helper = pi.life.tx.helper /\ cmd.helper \in pi.helpers
      /\ cmd.last \in Ownership
  BY <1>2, <1>4, WhileReady
<1>6. /\ pi.life \in State /\ cmd.state = pi.life /\ pi.life.tx # Absent /\ pi.life.un = Absent
      /\ pi.life.tx \in Transaction
      /\ pi.life.tx.phase \in ForwardPhases /\ Valid(pi.life) /\ pi.life # Absent
      /\ pi.life.tx.prior.release # pi.life.tx.cand
  BY <1>2, <1>3, WhileDoing DEF StateFits
<1>7. s \in State /\ s.un = Absent /\ s.tx = InPhase(pi.life, "PairAccepted").tx /\ Valid(s)
  <2>1. pi.life.tx.phase # "PairAccepted"
    BY <1>6 DEF ForwardPhases
  <2>2. s = Accepted(pi.life, cmd.last)
    BY <1>6
  <2> HIDE DEF s
  <2>3. Valid(s)
    BY <1>5, <1>6, <2>1, <2>2, AcceptedIsValid
  <2>4. s \in State /\ s.un = pi.life.un /\ s.tx = InPhase(pi.life, "PairAccepted").tx
    BY <1>5, <1>6, <2>2, AcceptedFacts
  <2>5. QED BY <1>6, <2>3, <2>4
<1> HIDE DEF s
<1>8. /\ s.tx # Absent /\ s.tx.phase = "PairAccepted" /\ s.tx.helper = pi.life.tx.helper
  <2>1. "PairAccepted" \in Phases
    BY DEF Phases
  <2>2. QED BY <1>6, <1>7, <2>1, InPhaseFields
<1>9. CanSave(s) /\ Knows(pi, s)
  <2>1. "PairAccepted" \in pi.knows
    BY <1>3, HelperAssumption DEF Pi, Phases, LaterPhases
  <2>2. CommandHelper \in pi.helpers
    <3>1. pi.life.tx.helper # Absent
      BY <1>6, ReleasesAssumption DEF Transaction
    <3>2. QED BY <1>5, <3>1 DEF CommandHelper
  <2>3. QED BY <1>5, <1>7, <1>8, <2>1, <2>2 DEF CanSave, Knows
<1>10. ~c.applying /\ c.pc # "restoreDriver"
  <2>1. ~done.applying /\ done.pc \in {"finalizeDriver", "finish"} /\ done.state = cmd.state
    BY <1>3 DEF Go, Process
  <2>2. QED BY <1>3, <2>1 DEF Go, Process
<1> HIDE DEF c
<1>11. Last(SaveSteps(s)).life = s /\ Last(SaveSteps(s)).disk = pi.disk
  BY <1>3, SavedPi
<1>12. "PairAccepted" \notin ForwardPhases
  BY DEF ForwardPhases
<1>13. QED BY <1>4, <1>5, <1>8, <1>9, <1>10, <1>11, <1>12 DEF Undisturbed

\* A transaction begins on a settled Pi.
LEMMA BeginUndisturbed ==
  ASSUME UInv, faults' = 0, BeginTransaction
  PROVE  Undisturbed(pi', cmd', undone')
<1> DEFINE s == Begun(cmd.state, cmd.cand, cmd.helper)
           done == [Go(AfterSave(s)) EXCEPT !.applying = TRUE]
           c == [done EXCEPT !.state = s]
           tx == [ prior |-> cmd.state.accepted[1], cand |-> cmd.cand, helper |-> cmd.helper,
                   restored |-> Absent, phase |-> "Prepared" ]
<1>1. /\ cmd.pc = "apply" /\ cmd.state.accepted # <<>> /\ cmd.state.un = Absent /\ Save(s, done)
  BY DEF BeginTransaction
<1>2. IInv /\ pi \in Pi /\ cmd \in Process
  BY Basics DEF UInv
<1>3. /\ faults = 0 /\ undone' = undone /\ Undisturbed(pi, cmd, undone)
      /\ \/ CanSave(s) /\ Knows(pi, s) /\ pi' = Last(SaveSteps(s)) /\ cmd' = c
         \/ CanSave(s) /\ ~Knows(pi, s) /\ pi' = Compatible(s) /\ cmd' = Failed
         \/ ~CanSave(s) /\ pi' = pi /\ cmd' = Failed
  BY <1>1, SavedOrRefused
<1>4. /\ pi.life # Absent /\ cmd.state = pi.life /\ pi.life.tx = Absent /\ pi.life.un = Absent
      /\ cmd.helper # Absent /\ ~cmd.applying
  BY <1>1, <1>2, Basics DEF MemoryFits, EmptyState, Doing
<1>5. pi.life \in State /\ DriverIs(pi, pi.life.accepted[1].release)
  <2>1. ~undone
    BY <1>3 DEF Undisturbed
  <2>2. QED BY <1>2, <1>4, <2>1, Basics DEF RecordFits, StateFits, Pi
<1>6. /\ tx.prior = pi.life.accepted[1] /\ tx.helper = cmd.helper /\ tx.phase = "Prepared"
  BY <1>4
<1>7. s = [pi.life EXCEPT !.tx = tx]
  BY <1>4 DEF Begun
<1> HIDE DEF tx
<1>8. s.tx = tx /\ s.un = Absent
  BY <1>4, <1>5, <1>7 DEF State
<1> HIDE DEF s
<1>9. AfterSave(s) = "preserve" /\ "preserve" \in Pcs
  BY <1>6, <1>8, FollowingSteps DEF AfterSave, Pcs, Doing
<1>10. c.pc = "preserve" /\ c.applying /\ c.state = s /\ c.helper = cmd.helper
  <2>1. done = [Go("preserve") EXCEPT !.applying = TRUE]
    BY <1>9
  <2>2. Go("preserve") \in Process /\ Go("preserve").pc = "preserve"
        /\ Go("preserve").helper = cmd.helper
    BY <1>2, <1>9, GoFields
  <2> HIDE DEF done
  <2>3. DOMAIN done = DOMAIN Go("preserve") /\ "state" \in DOMAIN Go("preserve")
        /\ done.pc = "preserve" /\ done.applying /\ done.helper = cmd.helper
    BY <2>1, <2>2 DEF Process
  <2>4. QED BY <2>3
<1> HIDE DEF c
<1>11. Knows(pi, s)
  <2>1. "Prepared" \in pi.knows
    BY <1>2, HelperAssumption DEF Pi, Phases, ForwardPhases, LaterPhases
  <2>2. QED BY <1>6, <1>8, <2>1 DEF Knows
<1>12. CASE CanSave(s)
  <2> DEFINE w == Last(SaveSteps(s))
  <2>1. /\ w.life = s /\ w.disk = pi.disk /\ w.drv = pi.drv /\ w.helpers = pi.helpers
    BY <1>2, SavedPi
  <2> HIDE DEF w
  <2>2. cmd.helper \in pi.helpers
    BY <1>4, <1>12 DEF CanSave, CommandHelper
  <2>3. Heading(c) = "preserve"
    BY <1>10 DEF Heading
  <2>4. Ready(w, c)
    BY <1>5, <1>6, <1>8, <1>10, <2>1, <2>2, <2>3 DEF Ready, Switched, LaterPhases, DriverIs
  <2>5. pi.disk.enabled
    BY <1>3, <1>4 DEF Undisturbed, InService
  <2>6. Undisturbed(w, c, undone)
    BY <1>3, <1>10, <2>1, <2>4, <2>5 DEF Undisturbed
  <2>7. QED BY <1>3, <1>12, <1>11, <2>6 DEF w
<1>13. CASE ~CanSave(s)
  <2>1. Failed = Idle /\ ~Idle.applying /\ Resting(pi, Idle)
    BY <1>3, <1>4, IdleFields DEF Failed, Resting, Undisturbed
  <2>2. Undisturbed(pi, Idle, undone)
    BY <1>3, <1>4, <2>1, RestingKeeps
  <2>3. QED BY <1>3, <1>13, <2>1, <2>2
<1>14. QED BY <1>12, <1>13

\* A phase of an undisturbed upgrade is saved, unless the helper does not know it.
LEMMA SavePhaseUndisturbed ==
  ASSUME UInv, faults' = 0, SavePhase, cmd.applying
  PROVE  Undisturbed(pi', cmd', undone')
<1> DEFINE s == cmd.state
           pc == IF s.un = Absent THEN AfterSave(s) ELSE AfterUninstallSave[s.un.phase]
           c == [Go(pc) EXCEPT !.state = s]
<1>1. cmd.pc = "save" /\ Save(s, Go(pc))
  BY DEF SavePhase
<1>2. IInv /\ pi \in Pi /\ cmd \in Process /\ PhaseFits(pi, cmd)
  BY Basics DEF UInv
<1>3. /\ faults = 0 /\ undone' = undone /\ Undisturbed(pi, cmd, undone)
      /\ \/ CanSave(s) /\ Knows(pi, s) /\ pi' = Last(SaveSteps(s)) /\ cmd' = c
         \/ CanSave(s) /\ ~Knows(pi, s) /\ pi' = Compatible(s) /\ cmd' = Failed
         \/ ~CanSave(s) /\ pi' = pi /\ cmd' = Failed
  BY <1>1, SavedOrRefused
<1>4. /\ pi.life # Absent /\ pi.life.tx.phase \in ForwardPhases \cup {"PairAccepted"}
      /\ StateFits(pi, s, undone) /\ SameChange(pi.life.tx, s.tx) /\ s.tx.phase \in ForwardPhases
  BY <1>2, ApplyingIsUndoable DEF Undoable
<1>5. /\ pi.life.tx # Absent /\ s.tx # Absent /\ Valid(s)
      /\ DriverChanged(pi.life) = DriverChanged(s)
  BY <1>4 DEF SameChange, StateFits, DriverChanged
<1>6. pi.life.un = Absent
  BY <1>2, <1>4, <1>5, Basics, RecordedTransaction
<1>7. Heading(cmd) = pc /\ pc \in Doing /\ pi.life.tx.phase \in ForwardPhases
  BY <1>1, <1>2 DEF Heading, PhaseFits
<1>8. pc \in Pcs /\ pc \notin {"save", "restoreDriver"}
  BY <1>7 DEF Pcs, Doing
<1>9. Ready(pi, cmd) /\ pi.disk.enabled
  BY <1>3, <1>4, <1>6 DEF Undisturbed, InService
<1>10. c.pc = pc /\ c.applying /\ c.state = s /\ c.helper = cmd.helper /\ c.last = cmd.last
  <2> HIDE DEF pc
  <2>1. /\ Go(pc) \in Process /\ Go(pc).pc = pc /\ Go(pc).applying
        /\ Go(pc).helper = cmd.helper /\ Go(pc).last = cmd.last
    BY <1>2, <1>8, GoFields
  <2>2. QED BY <2>1 DEF Process
<1> HIDE DEF c, pc
<1>11. CanSave(s)
  <2>1. cmd.helper = s.tx.helper /\ cmd.helper \in pi.helpers
    BY <1>9 DEF Ready
  <2>2. s.tx \in Transaction
    BY <1>2, <1>5 DEF Process, State
  <2>3. CommandHelper \in pi.helpers
    BY <2>1, <2>2, ReleasesAssumption DEF CommandHelper, Transaction
  <2>4. QED BY <1>5, <2>1, <2>3 DEF CanSave
<1>12. CASE Knows(pi, s)
  <2> DEFINE w == Last(SaveSteps(s))
  <2>1. /\ w.life = s /\ w.disk = pi.disk /\ w.drv = pi.drv /\ w.helpers = pi.helpers
    BY <1>2, SavedPi
  <2> HIDE DEF w
  <2>2. Heading(c) = Heading(cmd)
    BY <1>7, <1>8, <1>10 DEF Heading
  <2>3. Ready(w, c)
    BY <1>9, <1>10, <2>1, <2>2 DEF Ready, DriverIs
  <2>4. Undisturbed(w, c, undone)
    BY <1>3, <1>8, <1>9, <1>10, <2>1, <2>3 DEF Undisturbed
  <2>5. QED BY <1>3, <1>11, <1>12, <2>4 DEF w
<1>13. CASE ~Knows(pi, s)
  <2> DEFINE q == Compatible(s)
  <2>1. s.tx.phase \notin pi.knows /\ s.tx.phase \in Phases
    BY <1>2, <1>5, <1>13 DEF Knows, Process, State, Transaction
  <2>2. s.tx.phase \in LaterPhases /\ pi.knows # Phases
    BY <1>2, <2>1, HelperAssumption DEF Pi
  <2>3. DriverChanged(pi.life)
    BY <1>5, <1>9, <2>2 DEF Ready
  <2>4. ~Failed.applying
    BY <1>2, FailedFields
  <2>5. q.life = pi.life /\ q.disk = pi.disk /\ q.knows = pi.knows
    BY <1>2, CompatiblePi
  <2> HIDE DEF q
  <2>6. Undisturbed(q, Failed, undone)
    BY <1>3, <1>7, <1>9, <2>2, <2>3, <2>4, <2>5 DEF Undisturbed
  <2>7. QED BY <1>3, <1>11, <1>13, <2>6 DEF q
<1>14. QED BY <1>12, <1>13

\* Every step of an undisturbed history leaves it undisturbed.
LEMMA StepUndisturbed ==
  ASSUME UInv, [Next]_vars, faults' = 0
  PROVE  Undisturbed(pi', cmd', undone')
<1>1. IInv /\ faults \in Nat
  BY BoundsAssumption DEF UInv, IInv
<1>2. CASE \E op \in Ops : Begin(op)
  BY <1>2, MovesUndisturbed
<1>3. CASE Step
  BY <1>3, LoadStepsUndisturbed, MovesUndisturbed, RecoveryStepsUndisturbed,
     RemovalStepsUndisturbed, RestingSavesUndisturbed, StagingUndisturbed, TrialUndisturbed,
     SwitchUndisturbed, AcceptUndisturbed, BeginUndisturbed, SavePhaseUndisturbed
     DEF Step
<1>4. CASE ProcessEnds \/ PowerCycle
  <2>1. faults' # 0
    BY <1>1, <1>4 DEF ProcessEnds, PowerCycle
  <2>2. QED BY <2>1
<1>5. CASE UNCHANGED vars
  BY <1>5 DEF vars, UInv
<1>6. QED BY <1>2, <1>3, <1>4, <1>5 DEF Next

\* Nothing is under way on the Pi that the installer leaves.
LEMMA InitUndisturbed == ASSUME Init PROVE Undisturbed(pi, cmd, undone)
<1>1. pi.life = Absent /\ pi.disk.enabled /\ ~undone /\ cmd = Idle
  BY DEF Init
<1>2. ~Idle.applying /\ Idle.pc = "idle"
  BY IdleFields
<1>3. QED BY <1>1, <1>2 DEF Undisturbed

\* apply_candidate undoes an upgrade only after a call failed, a reply was lost,
\* a process ended or the Pi was power-cycled; or when the upgrade changes the
\* driver and the helper that saves its phases does not know all of them.
THEOREM UpgradesPassUndisturbed == Spec => []OnlyMishapsUndo
<1>1. Init => UInv
  BY InitialFits, InitUndisturbed DEF UInv
<1>2. UInv /\ [Next]_vars => UInv'
  <2>1. SUFFICES ASSUME UInv, [Next]_vars PROVE UInv'
    OBVIOUS
  <2>2. IInv'
    BY <2>1, StepKeeps DEF UInv
  <2>3. faults' = 0 => Undisturbed(pi', cmd', undone')
    BY <2>1, StepUndisturbed
  <2>4. QED BY <2>2, <2>3 DEF UInv
<1>3. UInv => OnlyMishapsUndo
  <2>1. SUFFICES ASSUME UInv, cmd.pc = "restoreDriver", faults = 0
                 PROVE  DriverChanged(cmd.state) /\ pi.knows # Phases
    BY DEF OnlyMishapsUndo
  <2>2. IInv /\ Undisturbed(pi, cmd, undone) /\ cmd.pc \in Recovering
    BY <2>1 DEF UInv, Recovering
  <2>3. pi.life # Absent /\ ~cmd.applying /\ SameChange(pi.life.tx, cmd.state.tx)
    BY <2>2, WhileRecovering
  <2>4. DriverChanged(pi.life) /\ pi.knows # Phases
    BY <2>1, <2>2, <2>3 DEF Undisturbed, SameChange
  <2>5. QED BY <2>3, <2>4 DEF SameChange, DriverChanged
<1>4. QED BY <1>1, <1>2, <1>3, PTL DEF Spec
====
