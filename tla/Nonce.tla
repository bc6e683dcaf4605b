------------------------------- MODULE Nonce -------------------------------
(***************************************************************************)
(* The nonces of encrypted packets: the generator that numbers the packets *)
(* a process seals, the network that repeats, delays and damages them, and *)
(* the ping-pong bloom filter with which the receiving process refuses a   *)
(* nonce it has seen recently (nonce.c, libbloom, and the two functions of *)
(* pktqueue.c that use them).                                              *)
(***************************************************************************)
EXTENDS Integers, FiniteSets

CONSTANTS
  NonceMod,          \* the number of nonces, 2^(8 * nonce_size) in the code
  Entries,           \* ppbloom.entries
  Bits,              \* bloom.bits
  Hash,              \* the bits that the hash functions give to each nonce
  Method             \* noncegen_method: "counter" or "random"

Nonces == 0..(NonceMod - 1)
Filter == {0, 1}

ASSUME NonceAssumption ==
  /\ NonceMod \in Nat \ {0}
  /\ Entries \in Nat \ {0}
  /\ Method \in {"counter", "random"}
  /\ Bits \in Nat \ {0}
  /\ Hash \in [Nonces -> (SUBSET (0..(Bits - 1))) \ {{}}]

VARIABLES
  bloom,             \* the bits set in each of the two filters
  bloom_count,
  current,
  buf,               \* the nonce the sender used last
  sent,              \* the nonces of the packets that were sent
  \* History: the nonces put into each filter since it was reset, how many
  \* packets were verified since each nonce was (at most Old), and the nonce
  \* that the last step let pass.
  inserted,
  since,
  passed

vars == <<bloom, bloom_count, current, buf, sent, inserted, since, passed>>

\* The filter has forgotten a nonce this old; never seen counts as this old.
Old == 2 * Entries

NONE == -1

-----------------------------------------------------------------------------
(* libbloom *)

bloom_check(b, n) == Hash[n] \subseteq b

\* bloom_add returns what bloom_check does, and sets the bits.
Added(b, n) == b \cup Hash[n]

-----------------------------------------------------------------------------
(* nonce.c *)

noncegen_create ==
  /\ bloom = [i \in Filter |-> {}]
  /\ bloom_count = [i \in Filter |-> 0]
  /\ current = 0
  /\ buf \in IF Method = "counter" THEN Nonces ELSE {0}

Init ==
  /\ noncegen_create
  /\ sent = {}
  /\ inserted = [i \in Filter |-> {}]
  /\ since = [n \in Nonces |-> Old]
  /\ passed = NONE

\* The nonces noncegen_next may return after b.
noncegen_next(b) ==
  IF Method = "counter" THEN {(b + 1) % NonceMod} ELSE Nonces

\* Mutants: the filter that was just filled is emptied; off by one; the other
\* filter is not emptied.
ppbloom_check_add_WrongReset(n) ==
  LET i == current
      j == 1 - i
      count == bloom_count[i] + 1
      switch == count >= Entries
  IN  /\ bloom' = [bloom EXCEPT ![i] = IF switch THEN {} ELSE Added(@, n)]
      /\ inserted' = [inserted EXCEPT ![i] = IF switch THEN {} ELSE @ \cup {n}]
      /\ bloom_count' = [bloom_count EXCEPT ![i] = IF switch THEN 0 ELSE count]
      /\ current' = IF switch THEN j ELSE i
      /\ passed' = IF bloom_check(bloom[i], n) \/ bloom_check(bloom[j], n)
                   THEN NONE ELSE n

ppbloom_check_add_OffByOne(n) ==
  LET i == current
      j == 1 - i
      count == bloom_count[i] + 1
      switch == count > Entries
  IN  /\ bloom' = [bloom EXCEPT ![i] = Added(@, n),
                                ![j] = IF switch THEN {} ELSE @]
      /\ inserted' = [inserted EXCEPT ![i] = @ \cup {n},
                                      ![j] = IF switch THEN {} ELSE @]
      /\ bloom_count' = [bloom_count EXCEPT ![i] = count,
                                            ![j] = IF switch THEN 0 ELSE @]
      /\ current' = IF switch THEN j ELSE i
      /\ passed' = IF bloom_check(bloom[i], n) \/ bloom_check(bloom[j], n)
                   THEN NONE ELSE n

ppbloom_check_add_NoReset(n) ==
  LET i == current
      j == 1 - i
      count == bloom_count[i] + 1
      switch == count >= Entries
  IN  /\ bloom' = [bloom EXCEPT ![i] = Added(@, n)]
      /\ inserted' = [inserted EXCEPT ![i] = @ \cup {n}]
      /\ bloom_count' = [bloom_count EXCEPT ![i] = count,
                                            ![j] = IF switch THEN 0 ELSE @]
      /\ current' = IF switch THEN j ELSE i
      /\ passed' = IF bloom_check(bloom[i], n) \/ bloom_check(bloom[j], n)
                   THEN NONE ELSE n

\* Add n to the current filter and look it up in both; when the current filter
\* is full, empty the other one and go on with that.
ppbloom_check_add(n) ==
  LET i == current
      j == 1 - i
      count == bloom_count[i] + 1
      switch == count >= Entries
  IN  /\ bloom' = [bloom EXCEPT ![i] = Added(@, n),
                                ![j] = IF switch THEN {} ELSE @]
      /\ inserted' = [inserted EXCEPT ![i] = @ \cup {n},
                                      ![j] = IF switch THEN {} ELSE @]
      /\ bloom_count' = [bloom_count EXCEPT ![i] = count,
                                            ![j] = IF switch THEN 0 ELSE @]
      /\ current' = IF switch THEN j ELSE i
      /\ passed' = IF bloom_check(bloom[i], n) \/ bloom_check(bloom[j], n)
                   THEN NONE ELSE n

\* noncegen_verify, with the history of the last verification of each nonce.
noncegen_verify(n) ==
  /\ ppbloom_check_add(n)
  /\ since' = [m \in Nonces |-> IF m = n THEN 0
                                ELSE IF since[m] = Old THEN Old
                                ELSE since[m] + 1]
  /\ UNCHANGED <<buf, sent>>

-----------------------------------------------------------------------------
(* pktqueue.c and event_timer.c *)

\* crypto_seal_inplace: a packet is sealed, or fails to be after its nonce was
\* taken.
crypto_seal_inplace ==
  /\ buf' \in noncegen_next(buf)
  /\ \E sealed \in BOOLEAN :
       sent' = IF sealed THEN sent \cup {buf'} ELSE sent
  /\ passed' = NONE
  /\ UNCHANGED <<bloom, bloom_count, current, inserted, since>>

\* resolve_cb: the sender starts again from a random nonce.
noncegen_init ==
  /\ Method = "counter"
  /\ buf' \in Nonces
  /\ passed' = NONE
  /\ UNCHANGED <<bloom, bloom_count, current, sent, inserted, since>>

\* crypto_open_inplace: a packet arrives; if it was damaged on its way, or cut
\* short, it does not open and its nonce is not looked at.
crypto_open_inplace(n, intact) ==
  IF intact THEN noncegen_verify(n)
  ELSE /\ passed' = NONE
       /\ UNCHANGED <<bloom, bloom_count, current, buf, sent, inserted, since>>

Next ==
  \/ crypto_seal_inplace
  \/ noncegen_init
  \/ \E n \in sent : crypto_open_inplace(n, TRUE)
  \/ \E n \in Nonces : sent # {} /\ crypto_open_inplace(n, FALSE)

Spec == Init /\ [][Next]_vars

-----------------------------------------------------------------------------

\* Every variable keeps its type.
TypeOK ==
  /\ bloom \in [Filter -> SUBSET (0..(Bits - 1))]
  /\ bloom_count \in [Filter -> Nat]
  /\ current \in Filter
  /\ buf \in Nonces
  /\ sent \subseteq Nonces
  /\ inserted \in [Filter -> SUBSET Nonces]
  /\ since \in [Nonces -> 0..Old]
  /\ passed \in Nonces \cup {NONE}

\* A packet whose nonce was among the last Entries that were verified does not
\* pass, however the network repeats it and wherever the filters switch.
NoRepeatStep == passed' # NONE => since[passed'] >= Entries
NoRepeat == [][NoRepeatStep]_vars

\* No filter ever holds more nonces than it was dimensioned for, and only those of
\* packets that were really sent: what was damaged on its way is thrown away
\* before.  This is what the rate of packets refused by mistake rests on.
Load ==
  \A i \in Filter :
    /\ inserted[i] \subseteq sent
    /\ Cardinality(inserted[i]) <= Entries
    /\ bloom[i] = UNION {Hash[n] : n \in inserted[i]}

\* The filters forget: a nonce that was not used for long is in neither of
\* them, so that a generator that starts again is not refused forever.
Forgets ==
  \A n \in Nonces : since[n] >= Old - 1 => \A i \in Filter : n \notin inserted[i]

=============================================================================
