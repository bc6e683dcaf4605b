---------------------------- MODULE NonceProofs ----------------------------
(***************************************************************************)
(* The guarantees of the ping-pong filter, for any number of nonces, any   *)
(* size of the filters and any hash functions.                             *)
(***************************************************************************)
EXTENDS Nonce, FiniteSetTheorems, TLAPS

Other == 1 - current

(***************************************************************************)
(* The inductive invariant.  The current filter holds exactly the nonces   *)
(* verified in the last bloom_count[current] calls, the two filters        *)
(* together those of the last bloom_count[0] + bloom_count[1]; and as long *)
(* as the other filter was never filled, these are all there were.         *)
(***************************************************************************)
Counts ==
  /\ bloom_count[current] < Entries
  /\ bloom_count[Other] \in {0, Entries}

Recent ==
  \A n \in Nonces :
    /\ n \in inserted[current] <=> since[n] < bloom_count[current]
    /\ n \in inserted[0] \cup inserted[1]
         <=> since[n] < bloom_count[0] + bloom_count[1]
    /\ bloom_count[Other] = 0 /\ since[n] < Old
         => since[n] < bloom_count[current]

Covered == \A i \in Filter : bloom[i] = UNION {Hash[n] : n \in inserted[i]}

Small ==
  \A i \in Filter : IsFiniteSet(inserted[i])
                      /\ Cardinality(inserted[i]) <= bloom_count[i]

\* Only nonces of packets that were sent are in the filters.
Genuine == \A i \in Filter : inserted[i] \subseteq sent

NInv == TypeOK /\ Counts /\ Recent /\ Covered /\ Small /\ Genuine

-----------------------------------------------------------------------------

\* A step that leaves the filters and their history alone.
LEMMA Untouched ==
  ASSUME NInv, UNCHANGED <<bloom, bloom_count, current, inserted, since>>,
         buf' \in Nonces, sent' \subseteq Nonces, sent \subseteq sent',
         passed' \in Nonces \cup {NONE}
  PROVE  NInv'
<1>1. TypeOK'
  BY DEF NInv, TypeOK
<1>2. Counts' /\ Recent'
  BY DEF NInv, Counts, Recent, Other
<1>3. Covered' /\ Small'
  BY DEF NInv, Covered, Small
<1>4. Genuine'
  BY DEF NInv, Genuine
<1> QED
  BY <1>1, <1>2, <1>3, <1>4 DEF NInv

\* The two indices are 0 and 1.
LEMMA TwoFilters ==
  ASSUME NEW i \in Filter
  PROVE  /\ 1 - i \in Filter /\ 1 - i # i /\ 1 - (1 - i) = i
         /\ {0, 1} = {i, 1 - i}
BY DEF Filter

\* noncegen_verify, with its switch of filters.
LEMMA VerifyNInv ==
  ASSUME NInv, NEW n \in sent, noncegen_verify(n)
  PROVE  NInv'
<1> DEFINE i == current
           j == 1 - current
           count == bloom_count[i] + 1
           switch == count >= Entries
<1>0. n \in Nonces
  BY DEF NInv, TypeOK
<1>1. /\ bloom' = [bloom EXCEPT ![i] = Added(@, n),
                                ![j] = IF switch THEN {} ELSE @]
      /\ inserted' = [inserted EXCEPT ![i] = @ \cup {n},
                                      ![j] = IF switch THEN {} ELSE @]
      /\ bloom_count' = [bloom_count EXCEPT ![i] = count,
                                            ![j] = IF switch THEN 0 ELSE @]
      /\ current' = IF switch THEN j ELSE i
      /\ passed' \in {NONE, n}
      /\ buf' = buf /\ sent' = sent
  BY DEF noncegen_verify, ppbloom_check_add
<1>2. since' = [m \in Nonces |-> IF m = n THEN 0
                                 ELSE IF since[m] = Old THEN Old
                                 ELSE since[m] + 1]
  BY DEF noncegen_verify
<1>3. /\ i \in Filter /\ j \in Filter /\ j # i
      /\ \A x \in Filter : x = i \/ x = j
  BY TwoFilters DEF NInv, TypeOK, Filter
<1>4. /\ bloom_count[i] \in Nat /\ bloom_count[j] \in Nat
      /\ bloom_count[i] < Entries /\ bloom_count[j] \in {0, Entries}
      /\ Entries \in Nat \ {0}
  BY <1>3, NonceAssumption DEF NInv, TypeOK, Counts, Other
<1>5. /\ inserted[i] \subseteq Nonces /\ inserted[j] \subseteq Nonces
      /\ inserted \in [Filter -> SUBSET Nonces]
  BY <1>3 DEF NInv, TypeOK
<1>6. /\ inserted'[i] = inserted[i] \cup {n}
      /\ inserted'[j] = IF switch THEN {} ELSE inserted[j]
      /\ inserted' \in [Filter -> SUBSET Nonces]
  BY <1>0, <1>1, <1>3, <1>5
<1>7. /\ bloom_count'[i] = count
      /\ bloom_count'[j] = IF switch THEN 0 ELSE bloom_count[j]
      /\ bloom_count' \in [Filter -> Nat]
  BY <1>1, <1>3, <1>4 DEF NInv, TypeOK
<1>8. /\ bloom'[i] = bloom[i] \cup Hash[n]
      /\ bloom'[j] = IF switch THEN {} ELSE bloom[j]
      /\ bloom' \in [Filter -> SUBSET (0..(Bits - 1))]
  <2>1. Hash[n] \subseteq 0..(Bits - 1)
    BY <1>0, NonceAssumption
  <2>2. bloom \in [Filter -> SUBSET (0..(Bits - 1))]
    BY DEF NInv, TypeOK
  <2> QED
    BY <1>1, <1>3, <2>1, <2>2 DEF Added
<1>9. /\ since \in [Nonces -> 0..Old] /\ since' \in [Nonces -> 0..Old]
      /\ since'[n] = 0
      /\ \A m \in Nonces \ {n} :
           since'[m] = IF since[m] = Old THEN Old ELSE since[m] + 1
  <2>1. since \in [Nonces -> 0..Old] /\ Old \in Nat
    BY <1>4 DEF NInv, TypeOK, Old
  <2> QED
    BY <1>0, <1>2, <2>1
<1>10. TypeOK'
  <2>1. current' \in Filter /\ buf' \in Nonces /\ sent' \subseteq Nonces
        /\ passed' \in Nonces \cup {NONE}
    BY <1>0, <1>1, <1>3 DEF NInv, TypeOK
  <2> QED
    BY <1>6, <1>7, <1>8, <1>9, <2>1 DEF TypeOK
<1>11. Counts'
  <2>1. CASE switch
    <3>1. current' = j /\ Other' = i /\ count = Entries
      BY <1>1, <1>3, <1>4, <2>1, TwoFilters DEF Other
    <3> QED
      BY <1>4, <1>7, <2>1, <3>1 DEF Counts
  <2>2. CASE ~switch
    <3>1. current' = i /\ Other' = j /\ count < Entries
      BY <1>1, <1>3, <1>4, <2>2 DEF Other
    <3> QED
      BY <1>4, <1>7, <2>2, <3>1 DEF Counts
  <2> QED
    BY <2>1, <2>2
<1>12. Covered'
  <2>1. bloom[i] = UNION {Hash[m] : m \in inserted[i]}
        /\ bloom[j] = UNION {Hash[m] : m \in inserted[j]}
    BY <1>3 DEF NInv, Covered
  <2>2. bloom'[i] = UNION {Hash[m] : m \in inserted'[i]}
    BY <1>6, <1>8, <2>1
  <2>3. bloom'[j] = UNION {Hash[m] : m \in inserted'[j]}
    BY <1>6, <1>8, <2>1
  <2> QED
    BY <1>3, <2>2, <2>3 DEF Covered
<1>13. Small'
  <2>1. /\ IsFiniteSet(inserted[i]) /\ Cardinality(inserted[i]) <= bloom_count[i]
        /\ IsFiniteSet(inserted[j]) /\ Cardinality(inserted[j]) <= bloom_count[j]
    BY <1>3 DEF NInv, Small
  <2>2. IsFiniteSet(inserted'[i]) /\ Cardinality(inserted'[i]) <= bloom_count'[i]
    <3>1. /\ IsFiniteSet(inserted[i] \cup {n})
          /\ Cardinality(inserted[i] \cup {n}) =
               IF n \in inserted[i] THEN Cardinality(inserted[i])
               ELSE Cardinality(inserted[i]) + 1
      BY <2>1, FS_AddElement
    <3>2. Cardinality(inserted[i]) \in Nat
      BY <2>1, FS_CardinalityType
    <3> QED
      BY <1>4, <1>6, <1>7, <2>1, <3>1, <3>2
  <2>3. IsFiniteSet(inserted'[j]) /\ Cardinality(inserted'[j]) <= bloom_count'[j]
    BY <1>4, <1>6, <1>7, <2>1, FS_EmptySet
  <2> QED
    BY <1>3, <2>2, <2>3 DEF Small
<1>14. Genuine'
  <2>1. inserted[i] \subseteq sent /\ inserted[j] \subseteq sent
    BY <1>3 DEF NInv, Genuine
  <2> QED
    BY <1>1, <1>3, <1>6, <2>1 DEF Genuine
<1>15. Recent'
  <2> DEFINE u == inserted[i] \cup inserted[j]
             c == bloom_count[i]
             d == bloom_count[j]
  <2>1. \A m \in Nonces :
          /\ m \in inserted[i] <=> since[m] < c
          /\ m \in u <=> since[m] < c + d
          /\ d = 0 /\ since[m] < Old => since[m] < c
    <3>1. /\ inserted[0] \cup inserted[1] = u
          /\ bloom_count[0] + bloom_count[1] = c + d
      BY <1>3, <1>4 DEF Filter
    <3> QED
      BY <3>1 DEF NInv, Recent, Other
  <2>2. /\ inserted'[0] \cup inserted'[1] = inserted'[i] \cup inserted'[j]
        /\ bloom_count'[0] + bloom_count'[1] = bloom_count'[i] + bloom_count'[j]
    BY <1>3, <1>7 DEF Filter
  <2>3. c \in Nat /\ d \in {0, Entries} /\ c < Entries /\ Old = 2 * Entries
        /\ Entries \in Nat \ {0}
    BY <1>4 DEF Old
  <2>4. SUFFICES ASSUME NEW m \in Nonces
                 PROVE  /\ m \in inserted'[current'] <=> since'[m] < bloom_count'[current']
                        /\ m \in inserted'[i] \cup inserted'[j]
                             <=> since'[m] < bloom_count'[i] + bloom_count'[j]
                        /\ bloom_count'[1 - current'] = 0 /\ since'[m] < Old
                             => since'[m] < bloom_count'[current']
    BY <2>2 DEF Recent, Other, Old
  <2>5. /\ since[m] \in 0..Old
        /\ m = n => since'[m] = 0
        /\ m # n => since'[m] = IF since[m] = Old THEN Old ELSE since[m] + 1
    BY <1>9
  <2> HIDE DEF c, d, u
  <2>6. /\ m \in inserted[i] <=> since[m] < c
        /\ m \in inserted[i] \/ m \in inserted[j] <=> since[m] < c + d
        /\ d = 0 /\ since[m] < Old => since[m] < c
    BY <2>1 DEF u
  <2>7. CASE switch
    <3>1. current' = j /\ 1 - current' = i
      BY <1>1, <1>3, <2>7, TwoFilters
    <3>2. /\ inserted'[j] = {} /\ bloom_count'[j] = 0
          /\ bloom_count'[i] = c + 1 /\ c + 1 = Entries
      BY <1>6, <1>7, <1>4, <2>3, <2>7 DEF c
    <3>3. m \in inserted'[i] <=> m = n \/ since[m] < c
      BY <1>6, <2>6
    <3>4. (m = n \/ since[m] < c) <=> since'[m] < c + 1
      BY <2>3, <2>5
    <3>5. ~(since'[m] < 0)
      BY <2>3, <2>5
    <3> QED
      BY <2>3, <3>1, <3>2, <3>3, <3>4, <3>5
  <2>8. CASE ~switch
    <3>1. current' = i /\ 1 - current' = j
      BY <1>1, <1>3, <2>8
    <3>2. /\ inserted'[j] = inserted[j] /\ bloom_count'[j] = d
          /\ bloom_count'[i] = c + 1 /\ c + 1 < Entries
      BY <1>6, <1>7, <1>4, <2>3, <2>8 DEF c, d
    <3>3. m \in inserted'[i] <=> m = n \/ since[m] < c
      BY <1>6, <2>6
    <3>4. (m = n \/ since[m] < c) <=> since'[m] < c + 1
      BY <2>3, <2>5
    <3>5. m \in inserted'[i] \cup inserted'[j] <=> m = n \/ since[m] < c + d
      BY <1>6, <2>6, <3>2
    <3>6. (m = n \/ since[m] < c + d) <=> since'[m] < (c + 1) + d
      BY <2>3, <2>5, <3>2
    <3>7. d = 0 /\ since'[m] < Old => since'[m] < c + 1
      BY <2>3, <2>5, <2>6
    <3> QED
      BY <3>1, <3>2, <3>3, <3>4, <3>5, <3>6, <3>7
  <2> QED
    BY <2>7, <2>8
<1> QED
  BY <1>10, <1>11, <1>12, <1>13, <1>14, <1>15 DEF NInv

-----------------------------------------------------------------------------

\* The filters are empty at first, and no nonce was verified.
LEMMA InitNInv == Init => NInv
<1> SUFFICES ASSUME Init
             PROVE  NInv
  OBVIOUS
<1>1. Entries \in Nat \ {0} /\ Old \in Nat /\ NonceMod \in Nat \ {0}
      /\ Hash \in [Nonces -> (SUBSET (0..(Bits - 1))) \ {{}}]
  BY NonceAssumption DEF Old
<1>2. buf \in Nonces
  BY <1>1 DEF Init, noncegen_create, Nonces
<1>3. TypeOK
  BY <1>1, <1>2 DEF Init, noncegen_create, TypeOK, Filter
<1>4. Counts
  BY <1>1 DEF Init, noncegen_create, Counts, Other, Filter
<1>5. Recent
  BY <1>1 DEF Init, noncegen_create, Recent, Other, Filter
<1>6. Covered
  BY DEF Init, noncegen_create, Covered
<1>7. Small
  BY FS_EmptySet DEF Init, noncegen_create, Small
<1>8. Genuine
  BY DEF Init, Genuine
<1> QED
  BY <1>3, <1>4, <1>5, <1>6, <1>7, <1>8 DEF NInv

\* Every step of the sender, of the network and of the receiver keeps it.
LEMMA NextNInv == NInv /\ [Next]_vars => NInv'
<1> SUFFICES ASSUME NInv, [Next]_vars
             PROVE  NInv'
  OBVIOUS
<1>1. buf \in Nonces /\ sent \subseteq Nonces /\ passed \in Nonces \cup {NONE}
  BY DEF NInv, TypeOK
<1>2. CASE crypto_seal_inplace
  <2>1. buf' \in Nonces
    BY <1>1, <1>2, NonceAssumption DEF crypto_seal_inplace, noncegen_next, Nonces
  <2> QED
    BY <1>1, <1>2, <2>1, Untouched DEF crypto_seal_inplace
<1>3. CASE noncegen_init
  BY <1>1, <1>3, Untouched DEF noncegen_init
<1>4. ASSUME NEW n \in sent, crypto_open_inplace(n, TRUE)
      PROVE  NInv'
  BY <1>4, VerifyNInv DEF crypto_open_inplace
<1>5. ASSUME NEW n \in Nonces, crypto_open_inplace(n, FALSE)
      PROVE  NInv'
  BY <1>1, <1>5, Untouched DEF crypto_open_inplace
<1>6. CASE UNCHANGED vars
  BY <1>1, <1>6, Untouched DEF vars
<1> QED
  BY <1>2, <1>3, <1>4, <1>5, <1>6 DEF Next

\* What lets a packet pass was not verified in the last Entries calls.
LEMMA StepNoRepeat == NInv /\ [Next]_vars => [NoRepeatStep]_vars
<1> SUFFICES ASSUME NInv, Next, passed' # NONE
             PROVE  since[passed'] >= Entries
  BY DEF NoRepeatStep
<1>1. PICK n \in sent : noncegen_verify(n)
  BY DEF Next, crypto_seal_inplace, noncegen_init, crypto_open_inplace
<1>2. /\ passed' = n
      /\ ~(Hash[n] \subseteq bloom[current]) /\ ~(Hash[n] \subseteq bloom[1 - current])
  BY <1>1 DEF noncegen_verify, ppbloom_check_add, bloom_check
<1>3. n \in Nonces /\ since[n] \in 0..Old /\ current \in Filter
  BY DEF NInv, TypeOK
<1>4. n \notin inserted[0] \cup inserted[1]
  <2>1. \A i \in Filter : ~(Hash[n] \subseteq bloom[i])
    BY <1>2, <1>3 DEF Filter
  <2> QED
    BY <2>1 DEF NInv, Covered, Filter
<1>5. /\ bloom_count[0] \in Nat /\ bloom_count[1] \in Nat
      /\ Entries \in Nat \ {0} /\ Old = 2 * Entries
  BY NonceAssumption DEF NInv, TypeOK, Filter, Old
<1>6. /\ ~(since[n] < bloom_count[0] + bloom_count[1])
      /\ bloom_count[1 - current] = 0 /\ since[n] < Old
           => since[n] < bloom_count[current]
      /\ bloom_count[1 - current] \in {0, Entries}
  BY <1>3, <1>4 DEF NInv, Recent, Counts, Other
<1>7. since[n] >= Entries
  <2>1. CASE current = 0
    BY <1>3, <1>5, <1>6, <2>1
  <2>2. CASE current = 1
    BY <1>3, <1>5, <1>6, <2>2
  <2> QED
    BY <1>3, <2>1, <2>2 DEF Filter
<1> QED
  BY <1>2, <1>7

\* Load and Forgets follow from the invariant.
LEMMA NInvConsequences == NInv => Load /\ Forgets
<1> SUFFICES ASSUME NInv
             PROVE  Load /\ Forgets
  OBVIOUS
<1>1. /\ current \in Filter /\ Entries \in Nat \ {0} /\ Old = 2 * Entries
      /\ \A i \in Filter : bloom_count[i] \in Nat /\ bloom_count[i] <= Entries
      /\ bloom_count[0] + bloom_count[1] < Old
  <2>1. /\ current \in Filter /\ Entries \in Nat \ {0} /\ Old = 2 * Entries
        /\ bloom_count[0] \in Nat /\ bloom_count[1] \in Nat
    BY NonceAssumption DEF NInv, TypeOK, Filter, Old
  <2>2. bloom_count[current] < Entries /\ bloom_count[1 - current] \in {0, Entries}
    BY DEF NInv, Counts, Other
  <2> QED
    BY <2>1, <2>2 DEF Filter
<1>2. Load
  <2> SUFFICES ASSUME NEW i \in Filter
               PROVE  Cardinality(inserted[i]) <= Entries
    BY DEF NInv, Covered, Genuine, Load
  <2>1. Cardinality(inserted[i]) \in Nat /\ Cardinality(inserted[i]) <= bloom_count[i]
    BY FS_CardinalityType DEF NInv, Small
  <2> QED
    BY <1>1, <2>1
<1>3. Forgets
  <2> SUFFICES ASSUME NEW n \in Nonces, since[n] >= Old - 1
               PROVE  n \notin inserted[0] \cup inserted[1]
    BY DEF Forgets, Filter
  <2>1. since[n] \in 0..Old
    BY DEF NInv, TypeOK
  <2>2. ~(since[n] < bloom_count[0] + bloom_count[1])
    BY <1>1, <2>1 DEF Filter
  <2> QED
    BY <2>2 DEF NInv, Recent
<1> QED
  BY <1>2, <1>3

-----------------------------------------------------------------------------

\* In every state noncegen_verify leaves behind, the filters hold the nonces of
\* the last calls and no others.
THEOREM FilterInvariant == Spec => []NInv
BY InitNInv, NextNInv, PTL DEF Spec

\* crypto_open_inplace opens no packet whose nonce is among the last Entries
\* that ppbloom_check_add has seen.
THEOREM NoRepeatHolds == Spec => NoRepeat
BY FilterInvariant, StepNoRepeat, PTL DEF Spec, NoRepeat

\* ppbloom_check_add loads no filter beyond its entries, and crypto_open_inplace
\* shows it only authentic nonces.
THEOREM LoadHolds == Spec => []Load
BY FilterInvariant, NInvConsequences, PTL

\* The filters of ppbloom_check_add forget a nonce that was not used for long.
THEOREM ForgetsHolds == Spec => []Forgets
BY FilterInvariant, NInvConsequences, PTL

\* The variables of the filter and of the generator keep their types.
THEOREM NonceTypeCorrect == Spec => []TypeOK
<1>1. NInv => TypeOK
  BY DEF NInv
<1> QED
  BY FilterInvariant, <1>1, PTL

=============================================================================
