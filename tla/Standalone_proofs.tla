-------------------------- MODULE Standalone_proofs --------------------------
(***************************************************************************)
(* Proofs about the crates that no other one builds on: cpufeatures, for   *)
(* any number of threads, any set of builds and any CPU; dbl and cmov, for *)
(* every block, value and condition; hex-literal, for every sequence of    *)
(* literals and groups.                                                    *)
(***************************************************************************)
EXTENDS CpuFeatures, Dbl, Cmov, HexLiteral, ByteArrays_proofs

-----------------------------------------------------------------------------
(* cpufeatures                                                             *)

(* What the stores write.                                                  *)
Stored == IF Detect THEN 1 ELSE 0

(* Only the first entry of the modification order is UNINIT; a thread is   *)
(* detecting only in a build that detects; the holder of a token knows of  *)
(* a later entry.                                                          *)
Cached ==
    /\ Len(written) >= 1 /\ written[1] = UNINIT
    /\ \A i \in 2..Len(written) : written[i] = Stored
DetectingHasBody == \A t \in Thread : pc[t] = "detect" => HasBody
TokenHasSeen == HasBody => \A t \in Thread : token[t] => seen[t] >= 2

(* The inductive invariant.                                                *)
CacheInv ==
    /\ TypeOK
    /\ Cached
    /\ DetectingHasBody
    /\ TokenHasSeen
    /\ AnswersAgree

(* build and cpu never change, so neither does anything computed from them.*)
LEMMA Rigid ==
    ASSUME build' = build, cpu' = cpu
    PROVE  /\ HasBody' = HasBody
           /\ Static' = Static
           /\ Detect' = Detect
  BY DEF HasBody, Static, Detect, AllEnabled, Check

(* Names are answers.                                                      *)
LEMMA NameType == \A b : Name(b) \in {"true", "false"}
  BY DEF Name

(* The first entry is UNINIT and the others are not.                       *)
LEMMA EntryProps ==
    ASSUME CacheInv, NEW i \in 1..Len(written)
    PROVE  /\ i = 1 => written[i] = UNINIT
           /\ i >= 2 => written[i] = Stored /\ written[i] # UNINIT
           /\ i >= 2 => (written[i] = 1 <=> Detect)
<1>1. TypeOK /\ Cached
  BY DEF CacheInv
<1>2. i = 1 \/ (i \in 2..Len(written))
  BY <1>1 DEF TypeOK
<1>3. Stored # UNINIT /\ (Stored = 1 <=> Detect)
  BY DEF Stored, UNINIT
<1> QED
  BY <1>1, <1>2, <1>3 DEF Cached

(* The initial states satisfy the invariant.                               *)
LEMMA InitIInv == Init => CacheInv
<1> SUFFICES ASSUME Init PROVE CacheInv
  OBVIOUS
<1>1. TypeOK
  BY DEF Init, TypeOK, UNINIT
<1>2. Cached
  BY DEF Init, Cached
<1> QED
  BY <1>1, <1>2 DEF Init, CacheInv, DetectingHasBody, TokenHasSeen, AnswersAgree

(* init_get without a body returns the static answer.                      *)
LEMMA InitStaticStep ==
    ASSUME CacheInv, NEW t \in Thread, InitStatic(t)
    PROVE  CacheInv'
<1>1. HasBody' = HasBody /\ Static' = Static /\ Detect' = Detect
  BY Rigid DEF InitStatic
<1>2. TypeOK'
  BY NameType DEF CacheInv, TypeOK, InitStatic, Return
<1>3. Cached' /\ DetectingHasBody' /\ TokenHasSeen'
  BY <1>1 DEF CacheInv, TypeOK, Cached, Stored, DetectingHasBody, TokenHasSeen, InitStatic, Return
<1>4. AnswersAgree'
  BY <1>1 DEF CacheInv, TypeOK, AnswersAgree, InitStatic, Return
<1> QED
  BY <1>2, <1>3, <1>4 DEF CacheInv

(* A load that sees UNINIT sends the thread to detection; any other value  *)
(* is the stored answer, and the thread then knows of an initialised entry.*)
LEMMA InitLoadStep ==
    ASSUME CacheInv, NEW t \in Thread, NEW i \in 1..Len(written), InitLoad(t, i)
    PROVE  CacheInv'
<1>1. HasBody' = HasBody /\ Static' = Static /\ Detect' = Detect /\ HasBody
  BY Rigid DEF InitLoad
<1>2. i \in Nat /\ i >= 1 /\ i <= Len(written) /\ i >= seen[t]
  BY DEF InitLoad, Load, CacheInv, TypeOK
<1>3. Cached'
  BY <1>1 DEF CacheInv, Cached, Stored, InitLoad
<1>4. CASE written[i] = UNINIT
  <2>1. /\ pc' = [pc EXCEPT ![t] = "detect"]
        /\ seen' = [seen EXCEPT ![t] = i]
        /\ UNCHANGED <<token, answer, build, cpu, written>>
    BY <1>4 DEF InitLoad, Load
  <2>2. TypeOK'
    BY <1>2, <2>1 DEF CacheInv, TypeOK
  <2>3. DetectingHasBody' /\ TokenHasSeen'
    BY <1>1, <1>2, <2>1 DEF CacheInv, TypeOK, DetectingHasBody, TokenHasSeen
  <2>4. AnswersAgree'
    BY <1>1, <2>1 DEF CacheInv, AnswersAgree
  <2> QED
    BY <1>3, <2>2, <2>3, <2>4 DEF CacheInv
<1>5. CASE written[i] # UNINIT
  <2>1. i >= 2 /\ (written[i] = 1 <=> Detect)
    BY <1>2, <1>5, EntryProps
  <2>2. /\ pc' = [pc EXCEPT ![t] = "idle"]
        /\ seen' = [seen EXCEPT ![t] = i]
        /\ token' = [token EXCEPT ![t] = TRUE]
        /\ answer' = [answer EXCEPT ![t] = Name(written[i] = 1)]
        /\ UNCHANGED <<build, cpu, written>>
    BY <1>5 DEF InitLoad, Load, Return
  <2>3. Name(written[i] = 1) = Name(Detect)
    BY <2>1 DEF Name
  <2>4. TypeOK'
    BY <1>2, <2>2, NameType DEF CacheInv, TypeOK
  <2>5. DetectingHasBody' /\ TokenHasSeen'
    BY <1>1, <1>2, <2>1, <2>2 DEF CacheInv, TypeOK, DetectingHasBody, TokenHasSeen
  <2>6. AnswersAgree'
    BY <1>1, <2>2, <2>3 DEF CacheInv, TypeOK, AnswersAgree
  <2> QED
    BY <1>3, <2>4, <2>5, <2>6 DEF CacheInv
<1> QED
  BY <1>4, <1>5

(* The store appends the answer, and its thread knows of it.               *)
LEMMA InitStoreStep ==
    ASSUME CacheInv, NEW t \in Thread, InitStore(t)
    PROVE  CacheInv'
<1>1. HasBody' = HasBody /\ Static' = Static /\ Detect' = Detect /\ HasBody
  BY Rigid DEF InitStore, CacheInv, DetectingHasBody
<1>2. /\ written' = Append(written, Stored)
      /\ seen' = [seen EXCEPT ![t] = Len(written')]
      /\ pc' = [pc EXCEPT ![t] = "idle"]
      /\ token' = [token EXCEPT ![t] = TRUE]
      /\ answer' = [answer EXCEPT ![t] = Name(Detect)]
      /\ build' = build
  BY DEF InitStore, Return, Stored
<1>3. /\ written \in Seq({UNINIT, 0, 1}) /\ Len(written) >= 1 /\ Len(written) \in Nat
      /\ Stored \in {UNINIT, 0, 1} /\ Stored' = Stored
  BY <1>1 DEF CacheInv, TypeOK, Cached, Stored
<1>4. /\ written' \in Seq({UNINIT, 0, 1})
      /\ Len(written') = Len(written) + 1
      /\ \A i \in 1..Len(written) : written'[i] = written[i]
      /\ written'[Len(written) + 1] = Stored
  BY <1>2, <1>3
<1>5. TypeOK'
  <2>1. \A u \in Thread : seen'[u] <= Len(written')
    BY <1>2, <1>3, <1>4 DEF CacheInv, TypeOK
  <2>2. seen' \in [Thread -> Nat \ {0}]
    BY <1>2, <1>3, <1>4 DEF CacheInv, TypeOK
  <2> QED
    BY <1>2, <1>4, <2>1, <2>2, NameType DEF CacheInv, TypeOK
<1>6. Cached'
  <2>1. ASSUME NEW i \in 2..Len(written') PROVE written'[i] = Stored
    <3>1. i \in 2..Len(written) \/ i = Len(written) + 1
      BY <1>3, <1>4
    <3> QED
      BY <1>3, <1>4, <3>1 DEF CacheInv, Cached
  <2> QED
    BY <1>3, <1>4, <2>1 DEF CacheInv, Cached
<1>7. DetectingHasBody' /\ TokenHasSeen'
  BY <1>1, <1>2, <1>3, <1>4 DEF CacheInv, TypeOK, DetectingHasBody, TokenHasSeen
<1>8. AnswersAgree'
  BY <1>1, <1>2 DEF CacheInv, TypeOK, AnswersAgree
<1> QED
  BY <1>5, <1>6, <1>7, <1>8 DEF CacheInv

(* Detection that unwinds leaves everything but the thread as it was.      *)
LEMMA InitPanicsStep ==
    ASSUME CacheInv, NEW t \in Thread, InitPanics(t)
    PROVE  CacheInv'
<1>1. HasBody' = HasBody /\ Static' = Static /\ Detect' = Detect
  BY Rigid DEF InitPanics
<1>2. TypeOK'
  BY DEF CacheInv, TypeOK, InitPanics
<1>3. Cached' /\ TokenHasSeen' /\ AnswersAgree'
  BY <1>1 DEF CacheInv, Cached, Stored, TokenHasSeen, AnswersAgree, InitPanics
<1>4. DetectingHasBody'
  BY <1>1 DEF CacheInv, TypeOK, DetectingHasBody, InitPanics
<1> QED
  BY <1>2, <1>3, <1>4 DEF CacheInv

(* A token's holder loads the stored answer.                               *)
LEMMA TokenGetStep ==
    ASSUME CacheInv, NEW t \in Thread, NEW i \in 1..Len(written), TokenGet(t, i)
    PROVE  CacheInv'
<1>1. HasBody' = HasBody /\ Static' = Static /\ Detect' = Detect
  BY Rigid DEF TokenGet
<1>2. Cached' /\ DetectingHasBody'
  BY <1>1 DEF CacheInv, Cached, Stored, DetectingHasBody, TokenGet
<1>3. CASE HasBody
  <2>1. /\ i \in seen[t]..Len(written)
        /\ seen' = [seen EXCEPT ![t] = i]
        /\ answer' = [answer EXCEPT ![t] = Name(written[i] = 1)]
        /\ UNCHANGED <<build, cpu, written, pc, token>>
        /\ token[t]
    BY <1>3 DEF TokenGet, Load
  <2>2. i \in Nat /\ i >= 2 /\ i >= seen[t] /\ i <= Len(written)
    BY <1>3, <2>1 DEF CacheInv, TypeOK, TokenHasSeen
  <2>3. Name(written[i] = 1) = Name(Detect)
    <3>1. written[i] = 1 <=> Detect
      BY <2>2, EntryProps
    <3> QED
      BY <3>1 DEF Name
  <2>4. TypeOK'
    BY <2>1, <2>2, NameType DEF CacheInv, TypeOK
  <2>5. TokenHasSeen'
    BY <1>1, <2>1, <2>2 DEF CacheInv, TypeOK, TokenHasSeen
  <2>6. AnswersAgree'
    BY <1>1, <1>3, <2>1, <2>3 DEF CacheInv, TypeOK, AnswersAgree
  <2> QED
    BY <1>2, <2>4, <2>5, <2>6 DEF CacheInv
<1>4. CASE ~HasBody
  <2>1. /\ answer' = [answer EXCEPT ![t] = Name(Static)]
        /\ UNCHANGED <<build, cpu, written, pc, token, seen>>
    BY <1>4 DEF TokenGet
  <2>2. TypeOK' /\ TokenHasSeen'
    BY <1>1, <1>4, <2>1, NameType DEF CacheInv, TypeOK, TokenHasSeen
  <2>3. AnswersAgree'
    BY <1>1, <1>4, <2>1 DEF CacheInv, TypeOK, AnswersAgree
  <2> QED
    BY <1>2, <2>2, <2>3 DEF CacheInv
<1> QED
  BY <1>3, <1>4

(* Whoever is sent a token knows what its sender knew.                     *)
LEMMA SendTokenStep ==
    ASSUME CacheInv, NEW s \in Thread, NEW t \in Thread, SendToken(s, t)
    PROVE  CacheInv'
<1>1. HasBody' = HasBody /\ Static' = Static /\ Detect' = Detect
  BY Rigid DEF SendToken
<1>2. TypeOK'
  BY DEF CacheInv, TypeOK, SendToken
<1>3. Cached' /\ DetectingHasBody' /\ AnswersAgree'
  BY <1>1 DEF CacheInv, Cached, Stored, DetectingHasBody, AnswersAgree, SendToken
<1>4. TokenHasSeen'
  BY <1>1 DEF CacheInv, TypeOK, TokenHasSeen, SendToken
<1> QED
  BY <1>2, <1>3, <1>4 DEF CacheInv

(* Every step keeps the invariant.                                         *)
LEMMA NextIInv == CacheInv /\ [Next]_vars => CacheInv'
<1> SUFFICES ASSUME CacheInv, [Next]_vars PROVE CacheInv'
  OBVIOUS
<1>1. CASE UNCHANGED vars
  <2>1. HasBody' = HasBody /\ Static' = Static /\ Detect' = Detect
    BY <1>1, Rigid DEF vars
  <2> QED
    BY <1>1, <2>1 DEF vars, CacheInv, TypeOK, Cached, Stored, DetectingHasBody, TokenHasSeen, AnswersAgree
<1>2. CASE Next
  <2>1. PICK t \in Thread : Step(t)
    BY <1>2 DEF Next
  <2> QED
    BY <2>1, InitStaticStep, InitLoadStep, InitStoreStep, InitPanicsStep, TokenGetStep,
       SendTokenStep DEF Step
<1> QED
  BY <1>1, <1>2

(* The invariant holds throughout every execution of new!'s module.        *)
THEOREM FeaturesInvariance == Spec => []CacheInv
  BY InitIInv, NextIInv, PTL DEF Spec

(* STORAGE holds UNINIT, 0 or 1 and no thread knows of an entry that was   *)
(* not written, for any number of threads.                                 *)
THEOREM FeaturesTypeCorrect == Spec => []TypeOK
<1>1. CacheInv => TypeOK
  BY DEF CacheInv
<1> QED
  BY <1>1, FeaturesInvariance, PTL

(* All threads get the same answer, from init_get and from tokens, for any *)
(* number of threads, any interleaving and any staleness of the loads.     *)
THEOREM Agreement == Spec => []AnswersAgree
<1>1. CacheInv => AnswersAgree
  BY DEF CacheInv
<1> QED
  BY <1>1, FeaturesInvariance, PTL

(* No load that the holder of a token can make returns UNINIT.             *)
THEOREM TokenProves == Spec => []TokenMeansInitialised
<1>1. CacheInv => TokenMeansInitialised
  <2> SUFFICES ASSUME CacheInv, HasBody, NEW t \in Thread, token[t],
                      NEW i \in seen[t]..Len(written)
               PROVE  written[i] # UNINIT
    BY DEF TokenMeansInitialised
  <2>1. i \in 1..Len(written) /\ i >= 2
    BY DEF CacheInv, TypeOK, TokenHasSeen
  <2> QED
    BY <2>1, EntryProps
<1> QED
  BY <1>1, FeaturesInvariance, PTL

(* A thread that has made a call or got a token never detects again.       *)
THEOREM CachedForGood == Spec => DetectsAtMostOnce
<1> DEFINE A == \A t \in Thread : token[t] /\ pc[t] = "idle" => pc'[t] # "detect"
<1>1. CacheInv /\ [Next]_vars => [A]_vars
  <2> SUFFICES ASSUME CacheInv, Next, NEW t \in Thread, token[t], pc[t] = "idle"
               PROVE  pc'[t] # "detect"
    OBVIOUS
  <2>1. PICK u \in Thread : Step(u)
    BY DEF Next
  <2>2. CASE InitStatic(u)
    BY <2>2 DEF InitStatic, Return, CacheInv, TypeOK
  <2>3. ASSUME NEW i \in 1..Len(written), InitLoad(u, i) PROVE pc'[t] # "detect"
    <3>1. CASE u = t
      <4>1. i >= 2
        BY <2>3, <3>1 DEF InitLoad, Load, CacheInv, TypeOK, TokenHasSeen
      <4>2. written[i] # UNINIT
        BY <4>1, EntryProps
      <4> QED
        BY <2>3, <3>1, <4>2 DEF InitLoad, Return, CacheInv, TypeOK
    <3>2. CASE u # t
      BY <2>3, <3>2 DEF InitLoad, Return, CacheInv, TypeOK
    <3> QED
      BY <3>1, <3>2
  <2>4. CASE InitStore(u)
    BY <2>4 DEF InitStore, Return, CacheInv, TypeOK
  <2>5. ASSUME NEW i \in 1..Len(written), TokenGet(u, i) PROVE pc'[t] # "detect"
    BY <2>5 DEF TokenGet
  <2>6. ASSUME NEW s \in Thread, SendToken(s, u) PROVE pc'[t] # "detect"
    BY <2>6 DEF SendToken
  <2>7. CASE InitPanics(u)
    BY <2>7 DEF InitPanics, CacheInv, TypeOK
  <2> QED
    BY <2>1, <2>2, <2>3, <2>4, <2>5, <2>6, <2>7 DEF Step
<1> QED
  BY <1>1, FeaturesInvariance, PTL DEF Spec, DetectsAtMostOnce

-----------------------------------------------------------------------------
(* dbl and cmov                                                            *)

(* is_non_zero is 1 exactly for conditions other than 0, although it looks *)
(* at bit 7 only: a condition has 8 bits, and -c has bit 7 when c has not. *)
LEMMA IsNonZero ==
    ASSUME NEW c \in Condition, NEW K \in Nat \ {0}
    PROVE  is_non_zero(c, 256 * K) = (IF c = 0 THEN 0 ELSE 1)
<1> DEFINE M == 256 * K
<1>1. M \in Nat /\ M >= 256
  OBVIOUS
<1>2. c \in 0..255
  BY DEF Condition
<1>3. 2^7 = 128
  OBVIOUS
<1>4. CASE c = 0
  <2>1. wrapping_neg(c, M) = 0
    BY <1>1, <1>4 DEF wrapping_neg
  <2> QED
    BY <2>1, <1>3, <1>4 DEF is_non_zero, BitOf, SHIFT_BITS
<1>5. CASE c >= 128
  BY <1>2, <1>3, <1>5 DEF is_non_zero, BitOf, SHIFT_BITS
<1>6. CASE c \in 1..127
  <2>1. wrapping_neg(c, M) = M - c
    BY <1>1, <1>6 DEF wrapping_neg
  <2>2. (M - c) \div 128 = 2 * K - 1
    BY <1>6
  <2>3. (2 * K - 1) % 2 = 1
    OBVIOUS
  <2> QED
    BY <2>1, <2>2, <2>3, <1>3, <1>6 DEF is_non_zero, BitOf, SHIFT_BITS
<1> QED
  BY <1>2, <1>4, <1>5, <1>6

(* A mask of all ones keeps the integer, one of zeros takes the value.     *)
LEMMA MaskedIsIf ==
    ASSUME NEW self \in Word(64), NEW value \in Word(64), NEW x \in Bit
    PROVE  Masked(self, value, wrapping_dec(x)) = (IF x = 1 THEN value ELSE self)
<1> DEFINE mask == wrapping_dec(x)
<1>1. /\ self = [i \in 0..63 |-> self[i]] /\ value = [i \in 0..63 |-> value[i]]
      /\ \A i \in 0..63 : self[i] \in {0, 1} /\ value[i] \in {0, 1}
  BY DEF Word, Bit
<1>2. And(self, mask) = [i \in 0..63 |-> IF x = 1 THEN 0 ELSE self[i]]
  BY <1>1 DEF And, wrapping_dec, Bit
<1>3. And(value, Not(mask)) = [i \in 0..63 |-> IF x = 1 THEN value[i] ELSE 0]
  BY <1>1 DEF And, Not, wrapping_dec, Bit
<1>4. Masked(self, value, mask) = [i \in 0..63 |-> IF x = 1 THEN value[i] ELSE self[i]]
  <2> DEFINE kept == [i \in 0..63 |-> IF x = 1 THEN 0 ELSE self[i]]
             taken == [i \in 0..63 |-> IF x = 1 THEN value[i] ELSE 0]
  <2>1. \A i \in 0..63 : (IF kept[i] = 1 \/ taken[i] = 1 THEN 1 ELSE 0)
                            = (IF x = 1 THEN value[i] ELSE self[i])
    BY <1>1
  <2>2. DOMAIN kept = 0..63
    OBVIOUS
  <2> HIDE DEF kept, taken
  <2>3. Or(kept, taken) = [i \in 0..63 |-> IF x = 1 THEN value[i] ELSE self[i]]
    BY <2>1, <2>2 DEF Or
  <2> QED
    BY <1>2, <1>3, <2>3 DEF Masked, kept, taken
<1>5. CASE x = 1
  BY <1>1, <1>4, <1>5
<1>6. CASE x # 1
  BY <1>1, <1>4, <1>6
<1> QED
  BY <1>5, <1>6

(* cmovz and cmovnz of u64.                                                *)
LEMMA Move64IsIf ==
    ASSUME NEW self \in Word(64), NEW value \in Word(64), NEW c \in Condition,
           NEW K \in Nat \ {0}, NEW z \in BOOLEAN
    PROVE  Move64(self, value, c, 256 * K, z) = (IF (c = 0) = z THEN value ELSE self)
<1>1. is_non_zero(c, 256 * K) = (IF c = 0 THEN 0 ELSE 1)
  BY IsNonZero
<1>2. /\ Masked(self, value, wrapping_dec(0)) = self
      /\ Masked(self, value, wrapping_dec(1)) = value
  BY MaskedIsIf DEF Bit
<1>3. Flip(1, 0) = 1 /\ Flip(1, 1) = 0
  BY DEF Flip
<1>4. CASE c = 0
  <2>1. is_non_zero(c, 256 * K) = 0
    BY <1>1, <1>4
  <2> QED
    BY <2>1, <1>2, <1>3, <1>4 DEF Move64, cmovz64, cmovnz64
<1>5. CASE c # 0
  <2>1. is_non_zero(c, 256 * K) = 1
    BY <1>1, <1>5
  <2> QED
    BY <2>1, <1>2, <1>3, <1>5 DEF Move64, cmovz64, cmovnz64
<1> QED
  BY <1>4, <1>5

(* A cast makes a word of the other type,                                  *)
LEMMA CastWord ==
    ASSUME NEW w \in Nat, NEW n \in Nat, NEW v \in Word(w)
    PROVE  Cast(v, n) \in Word(n)
BY DEF Cast, Word, Bit

(* widening and narrowing again changes nothing,                           *)
LEMMA CastBack ==
    ASSUME NEW w \in {8, 16, 32, 64}, NEW v \in Word(w)
    PROVE  Cast(Cast(v, 64), w) = v
<1>1. w <= 64 /\ w \in Nat
  OBVIOUS
<1>2. DOMAIN v = 0..w-1 /\ v = [i \in 0..w-1 |-> v[i]]
  BY DEF Word
<1>3. DOMAIN Cast(v, 64) = 0..63 /\ \A i \in 0..w-1 : Cast(v, 64)[i] = v[i]
  <2>1. DOMAIN Cast(v, 64) = 0..63
    BY DEF Cast
  <2>2. ASSUME NEW i \in 0..w-1
        PROVE  Cast(v, 64)[i] = v[i]
    <3>1. i \in 0..63
      BY <1>1
    <3>2. DOMAIN v = 0..w-1
      BY <1>2
    <3>3. Cast(v, 64)[i] = (IF i \in DOMAIN v THEN v[i] ELSE 0)
      BY <3>1 DEF Cast
    <3> QED
      BY <3>2, <3>3
  <2> QED
    BY <2>1, <2>2
<1>4. Cast(Cast(v, 64), w) = [i \in 0..w-1 |-> v[i]]
  BY <1>1, <1>3 DEF Cast
<1> QED
  BY <1>2, <1>4

(* and an u128 is put together again from its halves.                      *)
LEMMA Halves ==
    ASSUME NEW v \in Word(128)
    PROVE  /\ Cast(Shr(v, 0), 64) \in Word(64)
           /\ Cast(Shr(v, 64), 64) \in Word(64)
           /\ Or(Cast(Cast(Shr(v, 0), 64), 128), Shl(Cast(Cast(Shr(v, 64), 64), 128), 64)) = v
<1>1. v = [i \in 0..127 |-> v[i]] /\ \A i \in 0..127 : v[i] \in {0, 1}
  BY DEF Word, Bit
<1>2. Cast(Shr(v, 0), 64) = [i \in 0..63 |-> v[i]]
  BY <1>1 DEF Cast, Shr
<1>3. Cast(Shr(v, 64), 64) = [i \in 0..63 |-> v[i + 64]]
  BY <1>1 DEF Cast, Shr
<1>4. Cast([i \in 0..63 |-> v[i]], 128) = [i \in 0..127 |-> IF i < 64 THEN v[i] ELSE 0]
  BY DEF Cast
<1>5. Cast([i \in 0..63 |-> v[i + 64]], 128) = [i \in 0..127 |-> IF i < 64 THEN v[i + 64] ELSE 0]
  BY DEF Cast
<1>6. Shl([i \in 0..127 |-> IF i < 64 THEN v[i + 64] ELSE 0], 64)
        = [i \in 0..127 |-> IF i >= 64 THEN v[i] ELSE 0]
  BY DEF Shl
<1>7. Or([i \in 0..127 |-> IF i < 64 THEN v[i] ELSE 0],
         [i \in 0..127 |-> IF i >= 64 THEN v[i] ELSE 0]) = [i \in 0..127 |-> v[i]]
  BY <1>1 DEF Or
<1>8. /\ [i \in 0..63 |-> v[i]] \in Word(64)
      /\ [i \in 0..63 |-> v[i + 64]] \in Word(64)
  BY <1>1 DEF Word, Bit
<1>9. Cast(Shr(v, 0), 64) \in Word(64) /\ Cast(Shr(v, 64), 64) \in Word(64)
  BY <1>2, <1>3, <1>8
<1>10. Or(Cast(Cast(Shr(v, 0), 64), 128), Shl(Cast(Cast(Shr(v, 64), 64), 128), 64))
         = [i \in 0..127 |-> v[i]]
  BY <1>2, <1>3, <1>4, <1>5, <1>6, <1>7, SMTT(20), ZenonT(40)
<1>11. [i \in 0..127 |-> v[i]] = v
  BY <1>1
<1> QED
  BY <1>9, <1>10, <1>11

(* The portable cmovz and cmovnz of every integer type move the value when *)
(* the condition is zero, or is not, and leave the integer alone otherwise.*)
THEOREM CmovIsIf ==
    ASSUME NEW w \in Widths, NEW self \in Word(w), NEW value \in Word(w),
           NEW c \in Condition, NEW K \in Nat \ {0}, NEW z \in BOOLEAN
    PROVE  cmov(w, self, value, c, 256 * K, z) = (IF (c = 0) = z THEN value ELSE self)
<1>1. CASE w = 128
  <2> DEFINE half(v, k) == Cast(Shr(v, 64 * k), 64)
             which == IF (c = 0) = z THEN value ELSE self
  <2>1. 64 * 0 = 0 /\ 64 * 1 = 64
    OBVIOUS
  <2>2. self \in Word(128) /\ value \in Word(128) /\ which \in Word(128)
    BY <1>1
  <2>3. /\ half(self, 0) \in Word(64) /\ half(self, 1) \in Word(64)
        /\ half(value, 0) \in Word(64) /\ half(value, 1) \in Word(64)
    BY <2>1, <2>2, Halves
  <2>4. /\ Move64(half(self, 0), half(value, 0), c, 256 * K, z) = half(which, 0)
        /\ Move64(half(self, 1), half(value, 1), c, 256 * K, z) = half(which, 1)
    <3> HIDE DEF half
    <3>1. /\ Move64(half(self, 0), half(value, 0), c, 256 * K, z)
               = (IF (c = 0) = z THEN half(value, 0) ELSE half(self, 0))
          /\ Move64(half(self, 1), half(value, 1), c, 256 * K, z)
               = (IF (c = 0) = z THEN half(value, 1) ELSE half(self, 1))
      BY <2>3, Move64IsIf
    <3> QED
      BY <3>1
  <2>5. Or(Cast(half(which, 0), 128), Shl(Cast(half(which, 1), 128), 64)) = which
    BY <2>1, <2>2, Halves
  <2> HIDE DEF which
  <2>6. cmov(w, self, value, c, 256 * K, z)
          = Or(Cast(half(which, 0), 128), Shl(Cast(half(which, 1), 128), 64))
    BY <2>4, <1>1 DEF cmov
  <2> QED
    BY <2>5, <2>6 DEF which
<1>2. CASE w \in {8, 16, 32, 64}
  <2>1. Cast(self, 64) \in Word(64) /\ Cast(value, 64) \in Word(64)
    BY <1>2, CastWord
  <2>2. Move64(Cast(self, 64), Cast(value, 64), c, 256 * K, z)
          = (IF (c = 0) = z THEN Cast(value, 64) ELSE Cast(self, 64))
    BY <2>1, Move64IsIf
  <2>3. Cast(Cast(self, 64), w) = self /\ Cast(Cast(value, 64), w) = value
    BY <1>2, CastBack
  <2> QED
    BY <2>2, <2>3, <1>2 DEF cmov
<1> QED
  BY <1>1, <1>2 DEF Widths

(* The instructions of x86 do the same.  Those of aarch64 do where the     *)
(* upper part of the condition's register is zero, or cannot matter: they  *)
(* compare all of it, and asm! defines the lower 8 bits only.              *)
THEOREM VariantsAgree ==
    ASSUME NEW w \in Widths, NEW self \in Word(w), NEW value \in Word(w),
           NEW c \in Condition, NEW K \in Nat \ {0}, NEW z \in BOOLEAN, NEW upper \in Nat
    PROVE  /\ test_cmov(self, value, c, z) = cmov(w, self, value, c, 256 * K, z)
           /\ csel(self, value, c, upper, z) = cmov(w, self, value, c, 256 * K, z)
                <=> upper = 0 \/ c # 0 \/ self = value
<1>1. cmov(w, self, value, c, 256 * K, z) = (IF (c = 0) = z THEN value ELSE self)
  BY CmovIsIf
<1>2. c + 256 * upper = 0 <=> c = 0 /\ upper = 0
  BY DEF Condition
<1>3. csel(self, value, c, upper, z) = (IF (c = 0 /\ upper = 0) = z THEN value ELSE self)
  <2>1. (c + 256 * upper = 0) = (c = 0 /\ upper = 0)
    BY <1>2, Zenon
  <2> QED
    BY <2>1, Zenon DEF csel
<1>4. CASE z = TRUE
  <2>1. cmov(w, self, value, c, 256 * K, z) = (IF c = 0 THEN value ELSE self)
    BY <1>1, <1>4, Zenon
  <2>2. test_cmov(self, value, c, z) = (IF c = 0 THEN value ELSE self)
    BY <1>4, Zenon DEF test_cmov
  <2>3. csel(self, value, c, upper, z) = (IF c = 0 /\ upper = 0 THEN value ELSE self)
    BY <1>3, <1>4, Zenon
  <2> QED
    BY <2>1, <2>2, <2>3
<1>5. CASE z = FALSE
  <2>1. cmov(w, self, value, c, 256 * K, z) = (IF c = 0 THEN self ELSE value)
    BY <1>1, <1>5, Zenon
  <2>2. test_cmov(self, value, c, z) = (IF c = 0 THEN self ELSE value)
    BY <1>5, Zenon DEF test_cmov
  <2>3. csel(self, value, c, upper, z) = (IF c = 0 /\ upper = 0 THEN self ELSE value)
    BY <1>3, <1>5, Zenon
  <2> QED
    BY <2>1, <2>2, <2>3
<1> QED
  BY <1>4, <1>5

-----------------------------------------------------------------------------
(* The bytes of a block are words of 8 bits.                               *)
LEMMA BlockBits ==
    ASSUME NEW n \in BlockSizes, NEW b \in Block(n), NEW p \in 0..n-1, NEW i \in 0..7
    PROVE  b[p][i] \in Bit
BY DEF Block, Word, BlockSizes

(* Quotients and remainders of numbers given by them.                      *)
LEMMA Div8 ==
    ASSUME NEW a \in Int, NEW r \in 0..7
    PROVE  (8 * a + r) \div 8 = a /\ (8 * a + r) % 8 = r
OBVIOUS

(* A block has 1, 2 or 4 words.                                            *)
LEMMA WordCount ==
    ASSUME NEW n \in BlockSizes
    PROVE  n = 8 * (n \div 8) /\ n \div 8 \in {1, 2, 4}
BY DEF BlockSizes

(* The coefficients of a block lie in its words in order.                  *)
LEMMA WordCoefficient ==
    ASSUME NEW n \in BlockSizes, NEW b \in Block(n), NEW j \in 0..n \div 8 - 1, NEW i \in 0..63
    PROVE  /\ from_be_bytes(b, j)[i] = Coefficient(b, n, 64 * (n \div 8 - 1 - j) + i)
           /\ from_be_bytes(b, j)[i] \in Bit
<1> DEFINE k == n \div 8
           q == i \div 8
           r == i % 8
           a == 8 * (k - 1 - j) + q
<1>1. q \in 0..7 /\ r \in 0..7 /\ i = 8 * q + r
  OBVIOUS
<1>2. n = 8 * k /\ k \in {1, 2, 4} /\ j \in 0..k-1
  BY WordCount
<1>8. from_be_bytes(b, j)[i] = b[8 * j + 7 - q][r]
  BY DEF from_be_bytes
<1> HIDE DEF k, q, r
<1>3. 64 * (k - 1 - j) + i = 8 * a + r /\ a \in Int
  BY <1>1, <1>2
<1>4. (8 * a + r) \div 8 = a /\ (8 * a + r) % 8 = r
  BY <1>1, <1>3, Div8
<1>5. n - 1 - a = 8 * j + 7 - q
  BY <1>1, <1>2
<1>6. 8 * a + r \in 0..8*n-1
  BY <1>1, <1>2
<1>7. Coefficient(b, n, 8 * a + r) = b[8 * j + 7 - q][r]
  BY <1>4, <1>5, <1>6 DEF Coefficient
<1>9. 8 * j + 7 - q \in 0..n-1
  BY <1>1, <1>2
<1>10. b[8 * j + 7 - q][r] \in Bit
  BY <1>1, <1>9, BlockBits
<1> QED
  BY <1>3, <1>7, <1>8, <1>10 DEF k

(* And so they do after the words are written back.                        *)
LEMMA BytesCoefficient ==
    ASSUME NEW n \in BlockSizes, NEW val,
           NEW j \in 0..n \div 8 - 1, NEW i \in 0..63
    PROVE  Coefficient(to_be_bytes(val, n), n, 64 * (n \div 8 - 1 - j) + i) = val[j][i]
<1> DEFINE k == n \div 8
           q == i \div 8
           r == i % 8
           a == 8 * (k - 1 - j) + q
           p == 8 * j + (7 - q)
<1>1. q \in 0..7 /\ r \in 0..7 /\ i = 8 * q + r
  OBVIOUS
<1>2. n = 8 * k /\ k \in {1, 2, 4} /\ j \in 0..k-1
  BY WordCount
<1> HIDE DEF k, q, r
<1>3. 64 * (k - 1 - j) + i = 8 * a + r /\ a \in Int
  BY <1>1, <1>2
<1>4. (8 * a + r) \div 8 = a /\ (8 * a + r) % 8 = r
  BY <1>1, <1>3, Div8
<1>5. n - 1 - a = p /\ p \in 0..n-1
  BY <1>1, <1>2
<1>6. 8 * a + r \in 0..8*n-1
  BY <1>1, <1>2
<1>7. p \div 8 = j /\ p % 8 = 7 - q
  <2>1. 7 - q \in 0..7 /\ j \in Int
    BY <1>1, <1>2
  <2> QED
    BY <2>1, Div8
<1>8. 8 * (7 - (p % 8)) + r = i
  BY <1>1, <1>7
<1> HIDE DEF a, p
<1>9. Coefficient(to_be_bytes(val, n), n, 8 * a + r) = to_be_bytes(val, n)[p][r]
  BY <1>4, <1>5, <1>6 DEF Coefficient
<1>10. to_be_bytes(val, n)[p][r] = val[p \div 8][8 * (7 - (p % 8)) + r]
  BY <1>1, <1>5 DEF to_be_bytes
<1> QED
  BY <1>3, <1>7, <1>8, <1>9, <1>10 DEF k

(* A block is given by its coefficients.                                   *)
LEMMA SameCoefficients ==
    ASSUME NEW n \in BlockSizes, NEW a \in Block(n), NEW b \in Block(n),
           \A m \in 0..8*n-1 : Coefficient(a, n, m) = Coefficient(b, n, m)
    PROVE  a = b
<1>1. ASSUME NEW p \in 0..n-1, NEW i \in 0..7
      PROVE  a[p][i] = b[p][i]
  <2> DEFINE m == 8 * (n - 1 - p) + i
  <2>1. m \in 0..8*n-1 /\ m \div 8 = n - 1 - p /\ m % 8 = i
    BY DEF BlockSizes
  <2>2. n - 1 - m \div 8 = p
    BY <2>1 DEF BlockSizes
  <2>3. Coefficient(a, n, m) = a[p][i] /\ Coefficient(b, n, m) = b[p][i]
    BY <2>1, <2>2 DEF Coefficient
  <2> QED
    BY <2>1, <2>3
<1>2. ASSUME NEW p \in 0..n-1
      PROVE  a[p] = b[p]
  <2>1. a[p] \in [0..7 -> Bit] /\ b[p] \in [0..7 -> Bit]
    BY DEF Block, Word
  <2> QED
    BY <2>1, <1>1
<1>3. a \in [0..n-1 -> Word(8)] /\ b \in [0..n-1 -> Word(8)]
  BY DEF Block
<1>4. a = [p \in 0..n-1 |-> a[p]] /\ b = [p \in 0..n-1 |-> b[p]]
  BY <1>3
<1>5. [p \in 0..n-1 |-> a[p]] = [p \in 0..n-1 |-> b[p]]
  BY <1>2
<1> QED
  BY <1>4, <1>5

(* The polynomials have the term 1, and else only low ones.                *)
LEMMA PolynomialTerms ==
    ASSUME NEW n \in BlockSizes
    PROVE  0 \in C(n) /\ C(n) \subseteq 0..10
BY DEF BlockSizes, C

(* Where a coefficient is: its word and its place in it.                   *)
LEMMA Position ==
    ASSUME NEW n \in BlockSizes, NEW m \in 0..8*n-1
    PROVE  \E j \in 0..n \div 8 - 1, i \in 0..63 : m = 64 * (n \div 8 - 1 - j) + i
<1> DEFINE k == n \div 8
           j == k - 1 - m \div 64
           i == m % 64
<1>1. n = 8 * k /\ k \in {1, 2, 4}
  BY WordCount
<1> HIDE DEF k
<1>2. j \in 0..k-1 /\ i \in 0..63 /\ m = 64 * (k - 1 - j) + i
  BY <1>1
<1> QED
  BY <1>2 DEF k

(* Coefficients are bits, also where there are none.                       *)
LEMMA CoefficientBit ==
    ASSUME NEW n \in BlockSizes, NEW b \in Block(n), NEW m \in Int
    PROVE  /\ Coefficient(b, n, m) \in Bit
           /\ m \notin 0..8*n-1 => Coefficient(b, n, m) = 0
<1>1. CASE m \in 0..8*n-1
  <2>1. PICK j \in 0..n \div 8 - 1, i \in 0..63 : m = 64 * (n \div 8 - 1 - j) + i
    BY <1>1, Position
  <2> QED
    BY <1>1, <2>1, WordCoefficient
<1>2. CASE m \notin 0..8*n-1
  BY <1>2 DEF Coefficient, Bit
<1> QED
  BY <1>1, <1>2

(* Flip on bits.                                                           *)
LEMMA FlipBits ==
    ASSUME NEW a \in Bit, NEW c \in Bit
    PROVE  /\ Flip(a, 0) = a /\ Flip(0, a) = a /\ Flip(a, c) \in Bit
           /\ Flip(Flip(a, c), c) = a
BY DEF Flip, Bit

(* What dbl does to every coefficient.                                     *)
LEMMA DblCoefficient ==
    ASSUME NEW n \in BlockSizes, NEW b \in Block(n), NEW m \in 0..8*n-1
    PROVE  Coefficient(dbl(b, n), n, m)
             = Flip(Coefficient(b, n, m - 1),
                    IF Coefficient(b, n, 8 * n - 1) = 1 /\ m \in C(n) THEN 1 ELSE 0)
<1> DEFINE k == n \div 8
           B(x) == Coefficient(b, n, x)
<1>1. n = 8 * k /\ k \in {1, 2, 4}
  BY WordCount
<1>2. PICK j \in 0..k-1, i \in 0..63 : m = 64 * (k - 1 - j) + i
  BY Position
<1> DEFINE W(x) == from_be_bytes(b, x)
<1>3. \A x \in 0..k-1, y \in 0..63 : W(x)[y] = B(64 * (k - 1 - x) + y) /\ W(x)[y] \in Bit
  BY WordCoefficient
<1>4. \A x \in 0..k-1 : DOMAIN W(x) = 0..63
  BY DEF from_be_bytes
<1>5. Coefficient(dbl(b, n), n, m) = dblWord(b, n, j)[i]
  <2> DEFINE val == [x \in 0..k-1 |-> dblWord(b, n, x)]
  <2>1. val[j] = dblWord(b, n, j) /\ dbl(b, n) = to_be_bytes(val, n)
    BY DEF dbl
  <2> HIDE DEF val
  <2>2. Coefficient(to_be_bytes(val, n), n, 64 * (n \div 8 - 1 - j) + i) = val[j][i]
    <3>1. j \in 0..n \div 8 - 1
      OBVIOUS
    <3> HIDE DEF k
    <3> QED
      BY <3>1, BytesCoefficient, ZenonT(60)
  <2>3. m = 64 * (n \div 8 - 1 - j) + i
    BY <1>2
  <2> QED
    BY <2>1, <2>2, <2>3
<1> DEFINE carry == IF j < k - 1 THEN Shr(W(j + 1), 63) ELSE Times(W(0)[63], BitsSet(64, C(n)))
<1>6. dblWord(b, n, j)[i] = Flip(Shl(W(j), 1)[i], carry[i])
  <2>1. dblWord(b, n, j) = Xor(Shl(W(j), 1), carry)
    BY DEF dblWord
  <2>2. DOMAIN Shl(W(j), 1) = 0..63
    BY <1>4 DEF Shl
  <2> HIDE DEF W, carry
  <2> QED
    BY <2>1, <2>2 DEF Xor
<1>7. Shl(W(j), 1)[i] = (IF i = 0 THEN 0 ELSE W(j)[i - 1])
  <2> HIDE DEF W
  <2> QED
    BY <1>4 DEF Shl
<1>8. j < k - 1 => carry[i] = (IF i = 0 THEN W(j + 1)[63] ELSE 0)
  <2> SUFFICES ASSUME j < k - 1
               PROVE  Shr(W(j + 1), 63)[i] = (IF i = 0 THEN W(j + 1)[63] ELSE 0)
    OBVIOUS
  <2>1. j + 1 \in 0..k-1
    BY <1>1
  <2>2. DOMAIN W(j + 1) = 0..63
    BY <2>1, <1>4
  <2> HIDE DEF W, k
  <2> QED
    BY <2>2 DEF Shr
<1>9. j = k - 1 => carry[i] = (IF W(0)[63] = 1 /\ i \in C(n) THEN 1 ELSE 0)
  <2> HIDE DEF W
  <2> QED
    BY <1>1 DEF Times, BitsSet
<1> HIDE DEF W, carry, k, B
<1>10. B(m - 1) \in Bit
  BY <1>1, CoefficientBit DEF B
<1>11. C(n) \subseteq 0..10
  BY PolynomialTerms
<1>12. Coefficient(dbl(b, n), n, m)
         = Flip(B(m - 1), IF B(8 * n - 1) = 1 /\ m \in C(n) THEN 1 ELSE 0)
  <2>1. CASE j < k - 1 /\ i = 0
    <3>1. j + 1 \in 0..k-1 /\ 64 * (k - 1 - (j + 1)) + 63 = m - 1 /\ m >= 64
      BY <2>1, <1>1, <1>2
    <3>2. W(j + 1)[63] = B(m - 1)
      <4>1. 63 \in 0..63
        OBVIOUS
      <4> QED
        BY <3>1, <1>3, <4>1
    <3>3. m \notin C(n)
      BY <3>1, <1>11
    <3>4. Coefficient(dbl(b, n), n, m) = Flip(0, B(m - 1))
      BY <2>1, <1>5, <1>6, <1>7, <1>8, <3>2
    <3> QED
      BY <3>3, <3>4, <1>10, FlipBits DEF Bit
  <2>2. CASE j < k - 1 /\ i # 0
    <3>1. i - 1 \in 0..63 /\ 64 * (k - 1 - j) + (i - 1) = m - 1 /\ m >= 64
      BY <2>2, <1>1, <1>2
    <3>2. W(j)[i - 1] = B(m - 1)
      BY <3>1, <1>3
    <3>3. m \notin C(n)
      BY <3>1, <1>11
    <3>4. Coefficient(dbl(b, n), n, m) = Flip(B(m - 1), 0)
      BY <2>2, <1>5, <1>6, <1>7, <1>8, <3>2
    <3> QED
      BY <3>3, <3>4
  <2>3. CASE j = k - 1
    <3>1. m = i /\ 64 * (k - 1 - 0) + 63 = 8 * n - 1 /\ 0 \in 0..k-1 /\ 63 \in 0..63
      BY <2>3, <1>1, <1>2
    <3>2. W(0)[63] = B(8 * n - 1)
      BY <3>1, <1>3
    <3>3. (IF i = 0 THEN 0 ELSE W(j)[i - 1]) = B(m - 1)
      <4>1. CASE i = 0
        <5>1. m - 1 \in Int /\ m - 1 \notin 0..8*n-1
          BY <3>1, <4>1, <1>1
        <5>2. B(m - 1) = 0
          BY <5>1, CoefficientBit DEF B
        <5> QED
          BY <4>1, <5>2
      <4>2. CASE i # 0
        <5>1. i - 1 \in 0..63 /\ 64 * (k - 1 - j) + (i - 1) = m - 1
          BY <4>2, <2>3, <3>1, <1>1
        <5>2. W(j)[i - 1] = B(m - 1)
          BY <5>1, <1>3
        <5> QED
          BY <4>2, <5>2
      <4> QED
        BY <4>1, <4>2
    <3> QED
      BY <2>3, <1>5, <1>6, <1>7, <1>9, <3>1, <3>2, <3>3
  <2> QED
    BY <2>1, <2>2, <2>3, <1>1, <1>2
<1> QED
  BY <1>12 DEF B

(* What inv_dbl does to every coefficient.                                 *)
LEMMA InvDblCoefficient ==
    ASSUME NEW n \in BlockSizes, NEW b \in Block(n), NEW m \in 0..8*n-1
    PROVE  Coefficient(inv_dbl(b, n), n, m)
             = Flip(Coefficient(b, n, m + 1),
                    IF Coefficient(b, n, 0) = 1 /\ (m = 8 * n - 1 \/ m + 1 \in C(n))
                    THEN 1 ELSE 0)
<1> DEFINE k == n \div 8
           B(x) == Coefficient(b, n, x)
<1>1. n = 8 * k /\ k \in {1, 2, 4}
  BY WordCount
<1>2. PICK j \in 0..k-1, i \in 0..63 : m = 64 * (k - 1 - j) + i
  BY Position
<1> DEFINE W(x) == from_be_bytes(b, x)
<1>3. \A x \in 0..k-1, y \in 0..63 : W(x)[y] = B(64 * (k - 1 - x) + y) /\ W(x)[y] \in Bit
  BY WordCoefficient
<1>4. \A x \in 0..k-1 : DOMAIN W(x) = 0..63
  BY DEF from_be_bytes
<1>5. Coefficient(inv_dbl(b, n), n, m) = inv_dblWord(b, n, j)[i]
  <2> DEFINE val == [x \in 0..k-1 |-> inv_dblWord(b, n, x)]
  <2>1. val[j] = inv_dblWord(b, n, j) /\ inv_dbl(b, n) = to_be_bytes(val, n)
    BY DEF inv_dbl
  <2> HIDE DEF val
  <2>2. Coefficient(to_be_bytes(val, n), n, 64 * (n \div 8 - 1 - j) + i) = val[j][i]
    <3>1. j \in 0..n \div 8 - 1
      OBVIOUS
    <3> HIDE DEF k
    <3> QED
      BY <3>1, BytesCoefficient, ZenonT(60)
  <2>3. m = 64 * (n \div 8 - 1 - j) + i
    BY <1>2
  <2> QED
    BY <2>1, <2>2, <2>3
<1> DEFINE d == W(k - 1)[0]
           top == IF j = 0 THEN Times(d, BitsSet(64, {63}))
                  ELSE Shl(And(W(j - 1), BitsSet(64, {0})), 63)
           low == IF j = k - 1 THEN Times(d, Shr(BitsSet(64, C(n)), 1)) ELSE BitsSet(64, {})
<1>6. inv_dblWord(b, n, j)[i] = Flip(Flip(Shr(W(j), 1)[i], top[i]), low[i])
  <2>1. inv_dblWord(b, n, j) = Xor(Xor(Shr(W(j), 1), top), low)
    BY DEF inv_dblWord
  <2>2. DOMAIN Shr(W(j), 1) = 0..63
    BY <1>4 DEF Shr
  <2> HIDE DEF W, top, low
  <2>3. /\ DOMAIN Xor(Shr(W(j), 1), top) = 0..63
        /\ Xor(Shr(W(j), 1), top)[i] = Flip(Shr(W(j), 1)[i], top[i])
    BY <2>2 DEF Xor
  <2>4. Xor(Xor(Shr(W(j), 1), top), low)[i] = Flip(Xor(Shr(W(j), 1), top)[i], low[i])
    BY <2>3 DEF Xor
  <2> QED
    BY <2>1, <2>3, <2>4
<1>7. Shr(W(j), 1)[i] = (IF i = 63 THEN 0 ELSE W(j)[i + 1])
  <2> HIDE DEF W
  <2> QED
    BY <1>4 DEF Shr
<1>8. j = 0 => top[i] = (IF d = 1 /\ i = 63 THEN 1 ELSE 0)
  <2> HIDE DEF d
  <2> QED
    BY DEF Times, BitsSet
<1>9. j # 0 => top[i] = (IF i = 63 THEN W(j - 1)[0] ELSE 0)
  <2> SUFFICES ASSUME j # 0
               PROVE  Shl(And(W(j - 1), BitsSet(64, {0})), 63)[i]
                        = (IF i = 63 THEN W(j - 1)[0] ELSE 0)
    OBVIOUS
  <2>1. j - 1 \in 0..k-1
    BY <1>1
  <2>2. DOMAIN W(j - 1) = 0..63 /\ W(j - 1)[0] \in Bit
    BY <2>1, <1>3, <1>4
  <2> HIDE DEF W, k
  <2>3. /\ DOMAIN And(W(j - 1), BitsSet(64, {0})) = 0..63
        /\ And(W(j - 1), BitsSet(64, {0}))[0] = W(j - 1)[0]
    BY <2>2 DEF And, BitsSet, Bit
  <2> QED
    BY <2>3 DEF Shl
<1>10. low[i] = (IF j = k - 1 /\ d = 1 /\ i + 1 \in C(n) THEN 1 ELSE 0)
  <2>1. C(n) \subseteq 0..10
    BY PolynomialTerms
  <2>2. CASE j = k - 1
    <3> HIDE DEF d, k
    <3>1. low = Times(d, Shr(BitsSet(64, C(n)), 1))
      BY <2>2
    <3>2. /\ DOMAIN Shr(BitsSet(64, C(n)), 1) = 0..63
          /\ Shr(BitsSet(64, C(n)), 1)[i] = (IF i + 1 \in C(n) THEN 1 ELSE 0)
      BY <2>1 DEF Shr, BitsSet
    <3> HIDE DEF low
    <3> QED
      BY <2>2, <3>1, <3>2 DEF Times
  <2>3. CASE j # k - 1
    <3> HIDE DEF d, k
    <3> QED
      BY <2>3 DEF BitsSet
  <2> QED
    BY <2>2, <2>3
<1>11. k - 1 \in 0..k-1 /\ 0 \in 0..63 /\ 64 * (k - 1 - (k - 1)) + 0 = 0
  <2> HIDE DEF k
  <2> QED
    BY <1>1
<1>12. d = B(0)
  <2> HIDE DEF W, k, B
  <2> QED
    BY <1>11, <1>3
<1> HIDE DEF W, top, low, d, k, B
<1>13. B(m + 1) \in Bit
  BY <1>1, CoefficientBit DEF B
<1>14. C(n) \subseteq 0..10
  BY PolynomialTerms
<1>15. j # k - 1 => m >= 64
  BY <1>1, <1>2
<1>16. m = 8 * n - 1 <=> i = 63 /\ j = 0
  BY <1>1, <1>2
<1>17. m + 1 \in C(n) <=> j = k - 1 /\ i + 1 \in C(n)
  <2>1. CASE j = k - 1
    <3>1. m = i
      BY <2>1, <1>1, <1>2
    <3> QED
      BY <2>1, <3>1
  <2>2. CASE j # k - 1
    <3>1. m + 1 \notin 0..10
      BY <2>2, <1>15
    <3> QED
      BY <2>2, <3>1, <1>14
  <2> QED
    BY <2>1, <2>2
<1> DEFINE back == IF d = 1 /\ m + 1 \in C(n) THEN 1 ELSE 0
<1>18. low[i] = back
  BY <1>10, <1>17
<1> HIDE DEF back
<1>19. CASE i # 63
  <2>1. i + 1 \in 0..63 /\ 64 * (k - 1 - j) + (i + 1) = m + 1
    BY <1>19, <1>1, <1>2
  <2>2. W(j)[i + 1] = B(m + 1)
    BY <2>1, <1>3
  <2>3. top[i] = 0
    BY <1>8, <1>9, <1>19
  <2>4. Coefficient(inv_dbl(b, n), n, m) = Flip(Flip(B(m + 1), 0), back)
    BY <1>5, <1>6, <1>7, <1>18, <1>19, <2>2, <2>3
  <2>5. Coefficient(inv_dbl(b, n), n, m) = Flip(B(m + 1), back)
    BY <2>4, <1>13, FlipBits DEF Bit
  <2> QED
    BY <2>5, <1>12, <1>16, <1>19 DEF back, B
<1>20. CASE i = 63 /\ j # 0
  <2>1. j - 1 \in 0..k-1 /\ 64 * (k - 1 - (j - 1)) + 0 = m + 1
    BY <1>20, <1>1, <1>2
  <2>2. W(j - 1)[0] = B(m + 1)
    BY <2>1, <1>11, <1>3
  <2>3. Coefficient(inv_dbl(b, n), n, m) = Flip(Flip(0, B(m + 1)), back)
    BY <1>5, <1>6, <1>7, <1>9, <1>18, <1>20, <2>2
  <2>4. Coefficient(inv_dbl(b, n), n, m) = Flip(B(m + 1), back)
    BY <2>3, <1>13, FlipBits DEF Bit
  <2> QED
    BY <2>4, <1>12, <1>16, <1>20 DEF back, B
<1>21. CASE i = 63 /\ j = 0
  <2>1. m = 8 * n - 1 /\ m + 1 \in Int /\ m + 1 \notin 0..8*n-1 /\ m + 1 \notin 0..10
    BY <1>21, <1>16, <1>1
  <2>2. B(m + 1) = 0
    BY <2>1, CoefficientBit DEF B
  <2>3. back = 0
    BY <2>1, <1>14 DEF back
  <2>4. Coefficient(inv_dbl(b, n), n, m) = Flip(Flip(0, IF d = 1 THEN 1 ELSE 0), 0)
    BY <1>5, <1>6, <1>7, <1>8, <1>18, <1>21, <2>3
  <2>5. Flip(Flip(0, IF d = 1 THEN 1 ELSE 0), 0) = Flip(0, IF d = 1 THEN 1 ELSE 0)
    BY DEF Flip
  <2> QED
    BY <2>1, <2>2, <2>4, <2>5, <1>12 DEF B
<1> QED
  BY <1>19, <1>20, <1>21

(* Both give blocks again.                                                 *)
LEMMA DblBlock ==
    ASSUME NEW n \in BlockSizes, NEW b \in Block(n)
    PROVE  dbl(b, n) \in Block(n) /\ inv_dbl(b, n) \in Block(n)
<1>1. n = 8 * (n \div 8) /\ n \div 8 \in {1, 2, 4}
  BY WordCount
<1>2. ASSUME NEW val, \A j \in 0..n \div 8 - 1, i \in 0..63 : val[j][i] \in Bit
      PROVE  to_be_bytes(val, n) \in Block(n)
  <2>1. ASSUME NEW p \in 0..n-1, NEW i \in 0..7
        PROVE  val[p \div 8][8 * (7 - (p % 8)) + i] \in Bit
    <3>1. p \div 8 \in 0..n \div 8 - 1 /\ 8 * (7 - (p % 8)) + i \in 0..63
      BY <1>1
    <3> QED
      BY <3>1, <1>2
  <2>2. \A p \in 0..n-1 : [i \in 0..7 |-> val[p \div 8][8 * (7 - (p % 8)) + i]] \in [0..7 -> Bit]
    BY <2>1
  <2>3. Word(8) = [0..7 -> Bit]
    BY DEF Word
  <2> QED
    BY <2>2, <2>3 DEF to_be_bytes, Block
<1>3. ASSUME NEW j \in 0..n \div 8 - 1, NEW i \in 0..63
      PROVE  dblWord(b, n, j)[i] \in Bit /\ inv_dblWord(b, n, j)[i] \in Bit
  <2>1. DOMAIN from_be_bytes(b, j) = 0..63
    BY DEF from_be_bytes
  <2> HIDE DEF from_be_bytes
  <2>2. DOMAIN Shl(from_be_bytes(b, j), 1) = 0..63 /\ DOMAIN Shr(from_be_bytes(b, j), 1) = 0..63
    BY <2>1 DEF Shl, Shr
  <2>3. ASSUME NEW u, NEW v, DOMAIN u = 0..63
        PROVE  DOMAIN Xor(u, v) = 0..63 /\ Xor(u, v)[i] \in Bit
    BY <2>3 DEF Xor, Flip, Bit
  <2> QED
    BY <2>2, <2>3 DEF dblWord, inv_dblWord
<1>4. to_be_bytes([j \in 0..n \div 8 - 1 |-> dblWord(b, n, j)], n) \in Block(n)
  <2> DEFINE val == [j \in 0..n \div 8 - 1 |-> dblWord(b, n, j)]
  <2>1. \A j \in 0..n \div 8 - 1, i \in 0..63 : val[j][i] \in Bit
    BY <1>3
  <2> HIDE DEF val
  <2>2. to_be_bytes(val, n) \in Block(n)
    BY <2>1, <1>2
  <2> QED
    BY <2>2 DEF val
<1>5. to_be_bytes([j \in 0..n \div 8 - 1 |-> inv_dblWord(b, n, j)], n) \in Block(n)
  <2> DEFINE val == [j \in 0..n \div 8 - 1 |-> inv_dblWord(b, n, j)]
  <2>1. \A j \in 0..n \div 8 - 1, i \in 0..63 : val[j][i] \in Bit
    BY <1>3
  <2> HIDE DEF val
  <2>2. to_be_bytes(val, n) \in Block(n)
    BY <2>1, <1>2
  <2> QED
    BY <2>2 DEF val
<1> QED
  BY <1>4, <1>5 DEF dbl, inv_dbl

-----------------------------------------------------------------------------
(* dbl multiplies by x in the field: x times the block and the result      *)
(* differ by nothing, or by the field's polynomial, coefficient by         *)
(* coefficient, the overflowing one included.                              *)
THEOREM DblMultipliesByX ==
    ASSUME NEW n \in BlockSizes, NEW b \in Block(n), NEW m \in 0..8*n
    PROVE  Flip(Coefficient(b, n, m - 1), Coefficient(dbl(b, n), n, m))
             = (IF Coefficient(b, n, 8 * n - 1) = 1 /\ m \in C(n) \cup {8 * n} THEN 1 ELSE 0)
<1> DEFINE B(x) == Coefficient(b, n, x)
           c == IF B(8 * n - 1) = 1 /\ m \in C(n) THEN 1 ELSE 0
<1>1. n \in {8, 16, 32}
  BY DEF BlockSizes
<1>2. B(m - 1) \in Bit /\ c \in Bit
  BY <1>1, CoefficientBit DEF Bit
<1>3. CASE m # 8 * n
  <2>1. m \in 0..8*n-1
    BY <1>1, <1>3
  <2>2. Coefficient(dbl(b, n), n, m) = Flip(B(m - 1), c)
    BY <2>1, DblCoefficient
  <2> HIDE DEF B
  <2>3. Flip(B(m - 1), Flip(B(m - 1), c)) = c
    BY <1>2 DEF Flip, Bit
  <2> QED
    BY <1>3, <2>2, <2>3 DEF B
<1>4. CASE m = 8 * n
  <2>1. Coefficient(dbl(b, n), n, m) = 0
    BY <1>1, <1>4 DEF Coefficient
  <2>2. m - 1 = 8 * n - 1
    BY <1>4
  <2> HIDE DEF B
  <2>3. Flip(B(m - 1), 0) = B(8 * n - 1) /\ B(8 * n - 1) \in {0, 1}
    BY <1>2, <2>2, FlipBits DEF Bit
  <2> QED
    BY <1>4, <2>1, <2>3 DEF B
<1> QED
  BY <1>3, <1>4

(* inv_dbl undoes dbl, and dbl undoes inv_dbl, for all three block sizes.  *)
THEOREM InvDblUndoesDbl ==
    ASSUME NEW n \in BlockSizes, NEW b \in Block(n)
    PROVE  inv_dbl(dbl(b, n), n) = b /\ dbl(inv_dbl(b, n), n) = b
<1> DEFINE B(x) == Coefficient(b, n, x)
           D(x) == Coefficient(dbl(b, n), n, x)
           I(x) == Coefficient(inv_dbl(b, n), n, x)
           t == 8 * n - 1
<1>1. n \in {8, 16, 32}
  BY DEF BlockSizes
<1>2. 0 \in C(n) /\ C(n) \subseteq 0..10
  BY PolynomialTerms
<1>3. dbl(b, n) \in Block(n) /\ inv_dbl(b, n) \in Block(n)
  BY DblBlock
<1>4. \A x \in Int : B(x) \in {0, 1} /\ (x \notin 0..t => B(x) = 0 /\ D(x) = 0 /\ I(x) = 0)
  BY <1>3, CoefficientBit DEF Bit
<1>5. \A m \in 0..t : D(m) = Flip(B(m - 1), IF B(t) = 1 /\ m \in C(n) THEN 1 ELSE 0)
  BY DblCoefficient
<1>6. \A m \in 0..t : I(m) = Flip(B(m + 1), IF B(0) = 1 /\ (m = t \/ m + 1 \in C(n)) THEN 1 ELSE 0)
  BY InvDblCoefficient
<1>7. \A m \in 0..t : Coefficient(inv_dbl(dbl(b, n), n), n, m)
          = Flip(D(m + 1), IF D(0) = 1 /\ (m = t \/ m + 1 \in C(n)) THEN 1 ELSE 0)
  BY <1>3, InvDblCoefficient
<1>8. \A m \in 0..t : Coefficient(dbl(inv_dbl(b, n), n), n, m)
          = Flip(I(m - 1), IF I(t) = 1 /\ m \in C(n) THEN 1 ELSE 0)
  BY <1>3, DblCoefficient
<1> HIDE DEF B, D, I
<1>9. 0 \in 0..t /\ t \in 0..t /\ t \notin 0..10 /\ t + 1 \notin 0..10 /\ t \in Int
  BY <1>1
<1>10. D(0) = B(t)
  <2>1. 0 - 1 \in Int /\ 0 - 1 \notin 0..t
    OBVIOUS
  <2>2. B(0 - 1) = 0 /\ B(t) \in {0, 1}
    BY <2>1, <1>4, <1>9
  <2> QED
    BY <2>2, <1>2, <1>5, <1>9 DEF Flip
<1>11. I(t) = B(0)
  <2>1. t + 1 \in Int /\ t + 1 \notin 0..t /\ 0 \in Int
    BY <1>1
  <2>2. B(t + 1) = 0 /\ B(0) \in {0, 1}
    BY <2>1, <1>4
  <2> QED
    BY <2>2, <1>6, <1>9 DEF Flip
<1> HIDE DEF t
<1>12. ASSUME NEW m \in 0..t
       PROVE  Coefficient(inv_dbl(dbl(b, n), n), n, m) = B(m)
  <2>1. m \in Int /\ B(m) \in {0, 1} /\ B(t) \in {0, 1}
    BY <1>4, <1>9
  <2>2. CASE m = t
    <3>1. t + 1 \in Int /\ t + 1 \notin 0..t
      BY <1>9
    <3>2. D(t + 1) = 0
      BY <3>1, <1>4
    <3> QED
      BY <2>1, <2>2, <3>2, <1>7, <1>10 DEF Flip
  <2>3. CASE m # t
    <3>1. m + 1 \in 0..t /\ (m + 1) - 1 = m
      BY <2>3, <1>9
    <3>2. D(m + 1) = Flip(B(m), IF B(t) = 1 /\ m + 1 \in C(n) THEN 1 ELSE 0)
      BY <3>1, <1>5
    <3> QED
      BY <2>1, <2>3, <3>2, <1>7, <1>10 DEF Flip
  <2> QED
    BY <2>2, <2>3
<1>13. ASSUME NEW m \in 0..t
       PROVE  Coefficient(dbl(inv_dbl(b, n), n), n, m) = B(m)
  <2>1. m \in Int /\ B(m) \in {0, 1} /\ B(0) \in {0, 1}
    BY <1>4, <1>9
  <2>2. CASE m = 0
    <3>1. 0 - 1 \in Int /\ 0 - 1 \notin 0..t
      OBVIOUS
    <3>2. I(0 - 1) = 0
      BY <3>1, <1>4
    <3> QED
      BY <2>1, <2>2, <3>2, <1>2, <1>8, <1>11 DEF Flip
  <2>3. CASE m # 0
    <3>1. m - 1 \in 0..t /\ (m - 1) + 1 = m /\ m - 1 # t
      BY <2>3, <1>9
    <3>2. I(m - 1) = Flip(B(m), IF B(0) = 1 /\ m \in C(n) THEN 1 ELSE 0)
      BY <3>1, <1>6
    <3> QED
      BY <2>1, <3>2, <1>8, <1>11 DEF Flip
  <2> QED
    BY <2>2, <2>3
<1>14. inv_dbl(dbl(b, n), n) \in Block(n) /\ dbl(inv_dbl(b, n), n) \in Block(n)
  BY <1>3, DblBlock
<1> QED
  BY <1>12, <1>13, <1>14, SameCoefficients DEF B, t

-----------------------------------------------------------------------------
(* hex-literal                                                             *)

-----------------------------------------------------------------------------
(* What a text means.  Body is one step of the function that Uncommented   *)
(* is defined with, and From that function.                                *)
Body(t, f, i) ==
    IF i > Len(t) THEN <<>>
    ELSE IF Follows(t, i) = 0 \/ ~(t[i] = "/" \/ IsAllowed(t[i])) THEN Invalid
    ELSE Joined(IF IsHex(t[i]) THEN <<t[i]>> ELSE <<>>, f[Follows(t, i)])
IsFrom(t, f, k) ==
    /\ f = [i \in k..Len(t)+1 |-> f[i]]
    /\ \A i \in k..Len(t)+1 : f[i] = Body(t, f, i)
From(t) == CHOOSE f : f = [i \in 1..Len(t)+1 |-> Body(t, f, i)]

(* The least member of a set of numbers in a range.                        *)
LEMMA LeastExists ==
    ASSUME NEW a \in Nat, NEW b \in Nat, NEW S \in SUBSET (a..b), S # {}
    PROVE  \E j \in S : \A k \in S : j <= k
<1> DEFINE T == {n \in Nat : \A j \in S : j <= n => \E m \in S : \A k \in S : m <= k}
<1>1. \A j \in S : j \in Nat /\ j <= b
  OBVIOUS
<1>2. 0 \in T
  BY <1>1
<1>3. ASSUME NEW n \in Nat, n \in T PROVE n + 1 \in T
  <2> SUFFICES ASSUME NEW j \in S, j <= n + 1 PROVE \E m \in S : \A k \in S : m <= k
    OBVIOUS
  <2>1. CASE \E i \in S : i <= n
    BY <1>3, <2>1
  <2>2. CASE ~(\E i \in S : i <= n)
    <3>1. \A k \in S : j <= k
      BY <1>1, <2>2
    <3> QED
      BY <3>1
  <2> QED
    BY <2>1, <2>2
<1> HIDE DEF T
<1>4. b \in T
  BY <1>2, <1>3, NatSetInduction
<1> QED
  BY <1>1, <1>4 DEF T

(* A comment goes on to a later position, or is never over.                *)
LEMMA FollowsRange ==
    ASSUME NEW t \in Seq(Chars), NEW i \in 1..Len(t)
    PROVE  Follows(t, i) = 0 \/ Follows(t, i) \in i+1..Len(t)+1
<1>1. Len(t) \in Nat
  BY LenProperties
<1> DEFINE ends == IF t[i+1] = "/"
                   THEN {j \in i+2..Len(t)+1 : j = Len(t) + 1 \/ t[j] = "newline"}
                   ELSE {j \in i+4..Len(t)+1 : t[j-2] = "*" /\ t[j-1] = "/"}
<1>2. AfterComment(t, i) = IF ends = {} THEN 0 ELSE CHOOSE j \in ends : \A k \in ends : j <= k
  BY DEF AfterComment
<1>3. ends \in SUBSET (i+1..Len(t)+1) /\ i + 1 \in Nat /\ Len(t) + 1 \in Nat
  BY <1>1
<1> HIDE DEF ends
<1>4. ends # {} => \E j \in ends : \A k \in ends : j <= k
  BY <1>3, LeastExists
<1>5. AfterComment(t, i) = 0 \/ AfterComment(t, i) \in ends
  BY <1>2, <1>4, Zenon
<1>6. AfterComment(t, i) = 0 \/ AfterComment(t, i) \in i+1..Len(t)+1
  BY <1>3, <1>5, Zenon
<1>7. i + 1 \in i+1..Len(t)+1
  BY <1>1
<1> QED
  BY <1>6, <1>7, Zenon DEF Follows

(* A step looks only at later positions.                                   *)
LEMMA BodyLater ==
    ASSUME NEW t \in Seq(Chars), NEW f, NEW g, NEW i \in 1..Len(t)+1,
           \A j \in i+1..Len(t)+1 : f[j] = g[j]
    PROVE  Body(t, f, i) = Body(t, g, i)
<1>1. Len(t) \in Nat
  BY LenProperties
<1>2. CASE i > Len(t)
  BY <1>2, Zenon DEF Body
<1>3. CASE ~(i > Len(t))
  <2>1. i \in 1..Len(t)
    BY <1>1, <1>3
  <2>2. Follows(t, i) = 0 \/ f[Follows(t, i)] = g[Follows(t, i)]
    BY <2>1, FollowsRange, Zenon
  <2> QED
    BY <2>2, Zenon DEF Body
<1> QED
  BY <1>2, <1>3

(* The function of Uncommented exists.                                     *)
LEMMA FromExists ==
    ASSUME NEW t \in Seq(Chars)
    PROVE  \E f : IsFrom(t, f, 1)
<1> DEFINE L == Len(t)
           S == {m \in Nat : m <= L => \E f : IsFrom(t, f, L + 1 - m)}
<1>1. L \in Nat
  BY LenProperties
<1>2. 0 \in S
  <2> DEFINE f == [i \in L+1..L+1 |-> <<>>]
  <2>1. f = [i \in L+1..L+1 |-> f[i]]
    BY Zenon
  <2>2. ASSUME NEW i \in L+1..L+1 PROVE f[i] = Body(t, f, i)
    <3>1. i > L /\ f[i] = <<>>
      BY <1>1
    <3> QED
      BY <3>1, Zenon DEF Body
  <2> HIDE DEF f
  <2>3. IsFrom(t, f, L + 1)
    BY <2>1, <2>2, Zenon DEF IsFrom
  <2>4. L + 1 - 0 = L + 1
    BY <1>1
  <2> QED
    BY <2>3, <2>4
<1>3. ASSUME NEW m \in Nat, m \in S PROVE m + 1 \in S
  <2> DEFINE k == L + 1 - (m + 1)
  <2> SUFFICES ASSUME m + 1 <= L PROVE \E g : IsFrom(t, g, k)
    OBVIOUS
  <2>1. /\ k \in 1..L /\ k + 1 = L + 1 - m /\ m <= L
        /\ \A i \in k..L+1 : i \in 1..L+1 /\ (i = k \/ i \in k+1..L+1)
        /\ \A i \in k..L+1 : \A j \in i+1..L+1 : j \in k+1..L+1
        /\ \A i \in k+1..L+1 : i \in k..L+1 /\ i # k
    BY <1>1
  <2>2. PICK f : IsFrom(t, f, k + 1)
    BY <1>3, <2>1
  <2> HIDE DEF k
  <2> DEFINE g == [i \in k..L+1 |-> IF i = k THEN Body(t, f, k) ELSE f[i]]
  <2>3. g = [i \in k..L+1 |-> g[i]]
    BY Zenon
  <2>4. \A i \in k+1..L+1 : g[i] = f[i]
    BY <2>1, Zenon
  <2>5. ASSUME NEW i \in k..L+1 PROVE g[i] = Body(t, g, i)
    <3>1. g[i] = Body(t, f, i)
      <4>1. CASE i = k
        BY <4>1, Zenon
      <4>2. CASE i \in k+1..L+1
        BY <2>2, <2>4, <4>2, Zenon DEF IsFrom
      <4> QED
        BY <2>1, <4>1, <4>2, Zenon
    <3>2. \A j \in i+1..L+1 : f[j] = g[j]
      BY <2>1, <2>4, Zenon
    <3> HIDE DEF g
    <3>3. Body(t, f, i) = Body(t, g, i)
      BY <2>1, <3>2, BodyLater, Zenon
    <3> QED
      BY <3>1, <3>3
  <2> HIDE DEF g
  <2>6. IsFrom(t, g, k)
    BY <2>3, <2>5, Zenon DEF IsFrom
  <2> QED
    BY <2>6
<1> HIDE DEF S
<1>4. L \in S
  BY <1>1, <1>2, <1>3, NatSetInduction
<1>5. L + 1 - L = 1
  BY <1>1
<1> QED
  BY <1>1, <1>4, <1>5 DEF S

(* What Uncommented computes, position by position.                        *)
LEMMA FromSteps ==
    ASSUME NEW t \in Seq(Chars)
    PROVE  /\ Uncommented(t) = From(t)[1]
           /\ \A i \in 1..Len(t)+1 : From(t)[i] = Body(t, From(t), i)
<1> DEFINE Eq(f) == f = [i \in 1..Len(t)+1 |-> Body(t, f, i)]
<1>1. PICK f : IsFrom(t, f, 1)
  BY FromExists, Zenon
<1>2. Eq(f)
  BY <1>1, Zenon DEF IsFrom
<1>3. Eq(From(t))
  BY <1>2, Zenon DEF From
<1>4. \A i \in 1..Len(t)+1 : From(t)[i] = Body(t, From(t), i)
  BY <1>3, Zenon
<1>5. Uncommented(t) = From(t)[1]
  BY Zenon DEF Uncommented, From, Body
<1> QED
  BY <1>4, <1>5

(* The digits, and what is known of a character.                           *)
Digits == ToSet(Upper) \cup ToSet(Lower)

(* The digits by name.                                                     *)
LEMMA DigitNames ==
    /\ ToSet(Upper) = {"0", "1", "2", "3", "4", "5", "6", "7", "8", "9", "A", "B", "C", "D", "E", "F"}
    /\ ToSet(Lower) = {"a", "b", "c", "d", "e", "f"}
<1>1. DOMAIN Upper = 1..16 /\ DOMAIN Lower = 1..6
  BY DEF Upper, Lower
<1>2. ToSet(Upper) = {Upper[i] : i \in 1..16} /\ ToSet(Lower) = {Lower[i] : i \in 1..6}
  BY <1>1 DEF ToSet
<1>3. /\ {i \in Nat : i \in 1..16} = {1, 2, 3, 4, 5, 6, 7, 8, 9, 10, 11, 12, 13, 14, 15, 16}
      /\ {i \in Nat : i \in 1..6} = {1, 2, 3, 4, 5, 6}
      /\ {i \in Nat : i \in 1..16} = 1..16 /\ {i \in Nat : i \in 1..6} = 1..6
  OBVIOUS
<1>4. /\ 1..16 = {1, 2, 3, 4, 5, 6, 7, 8, 9, 10, 11, 12, 13, 14, 15, 16}
      /\ 1..6 = {1, 2, 3, 4, 5, 6}
  BY <1>3, Zenon
<1>5. /\ Upper[1] = "0" /\ Upper[2] = "1" /\ Upper[3] = "2" /\ Upper[4] = "3" /\ Upper[5] = "4"
      /\ Upper[6] = "5" /\ Upper[7] = "6" /\ Upper[8] = "7" /\ Upper[9] = "8" /\ Upper[10] = "9"
      /\ Upper[11] = "A" /\ Upper[12] = "B" /\ Upper[13] = "C" /\ Upper[14] = "D"
      /\ Upper[15] = "E" /\ Upper[16] = "F"
      /\ Lower[1] = "a" /\ Lower[2] = "b" /\ Lower[3] = "c" /\ Lower[4] = "d" /\ Lower[5] = "e"
      /\ Lower[6] = "f"
  BY DEF Upper, Lower
<1>6. {Upper[i] : i \in {1, 2, 3, 4, 5, 6, 7, 8, 9, 10, 11, 12, 13, 14, 15, 16}}
         = {"0", "1", "2", "3", "4", "5", "6", "7", "8", "9", "A", "B", "C", "D", "E", "F"}
  BY <1>5
<1>7. {Lower[i] : i \in {1, 2, 3, 4, 5, 6}} = {"a", "b", "c", "d", "e", "f"}
  BY <1>5
<1> QED
  BY <1>2, <1>4, <1>6, <1>7

(* No digit is one of the other characters.                                *)
LEMMA DigitsApart ==
    /\ "/" \notin Digits /\ "*" \notin Digits /\ "other" \notin Digits
    /\ "space" \notin Digits /\ "newline" \notin Digits /\ "invalid" \notin Digits
BY DigitNames DEF Digits

(* The values of digits.                                                   *)
LEMMA DigitValue ==
    ASSUME NEW c \in Digits
    PROVE  HexVal(c) \in 0..15
<1>1. DOMAIN Upper = 1..16 /\ DOMAIN Lower = 1..6
  BY DEF Upper, Lower
<1>2. CASE c \in ToSet(Upper)
  <2>1. \E i \in 1..16 : Upper[i] = c
    BY <1>1, <1>2 DEF ToSet
  <2>2. (CHOOSE i \in 1..16 : Upper[i] = c) \in 1..16
    BY <2>1
  <2>3. HexVal(c) = (CHOOSE i \in 1..16 : Upper[i] = c) - 1
    BY <1>1, <1>2, Zenon DEF HexVal
  <2> QED
    BY <2>2, <2>3
<1>3. CASE c \notin ToSet(Upper)
  <2>1. \E i \in 1..6 : Lower[i] = c
    BY <1>1, <1>3 DEF ToSet, Digits
  <2>2. (CHOOSE i \in 1..6 : Lower[i] = c) \in 1..6
    BY <2>1
  <2>3. HexVal(c) = (CHOOSE i \in 1..6 : Lower[i] = c) + 9
    BY <1>1, <1>3, Zenon DEF HexVal
  <2> DEFINE k == CHOOSE i \in 1..6 : Lower[i] = c
  <2>4. k \in 1..6 /\ HexVal(c) = k + 9
    BY <2>2, <2>3, Zenon
  <2> HIDE DEF k
  <2> QED
    BY <2>4
<1> QED
  BY <1>2, <1>3

(* A reading is the digits of a text, or that it is invalid.               *)
Readings == Seq(Digits) \cup {Invalid}

(* Joining readings.                                                       *)
LEMMA JoinedProps ==
    ASSUME NEW d \in Seq(Digits)
    PROVE  /\ d # Invalid /\ <<>> \in Seq(Digits)
           /\ \A x \in Readings : Joined(d, x) \in Readings /\ Joined(<<>>, x) = x
           /\ Joined(d, Invalid) = Invalid
           /\ \A x \in Seq(Digits) : Joined(d, x) = d \o x
           /\ \A e \in Seq(Digits) : /\ d \o e \in Seq(Digits)
                                     /\ \A x \in Readings : Joined(d, Joined(e, x)) = Joined(d \o e, x)
<1>1. ASSUME NEW s \in Seq(Digits) PROVE s # Invalid
  <2> SUFFICES ASSUME s = <<"invalid">> PROVE FALSE
    BY DEF Invalid
  <2>1. Len(s) = 1 /\ s[1] = "invalid"
    OBVIOUS
  <2>2. s[1] \in Digits
    BY <2>1, ElementOfSeq
  <2> QED
    BY <2>1, <2>2, DigitsApart
<1>2. <<>> \in Seq(Digits)
  OBVIOUS
<1>3. \A a, b \in Seq(Digits) : a \o b \in Seq(Digits) /\ <<>> \o b = b
  BY ConcatProperties
<1>4. \A x \in Seq(Digits) : Joined(d, x) = d \o x /\ Joined(<<>>, x) = <<>> \o x
  BY <1>1, Zenon DEF Joined
<1>5. Joined(d, Invalid) = Invalid /\ Joined(<<>>, Invalid) = Invalid
  BY Zenon DEF Joined
<1>6. ASSUME NEW x \in Readings PROVE Joined(d, x) \in Readings /\ Joined(<<>>, x) = x
  <2>1. CASE x \in Seq(Digits)
    BY <1>3, <1>4, <2>1, Zenon DEF Readings
  <2>2. CASE x = Invalid
    BY <1>5, <2>2, Zenon DEF Readings
  <2> QED
    BY <2>1, <2>2 DEF Readings
<1>7. ASSUME NEW e \in Seq(Digits), NEW x \in Readings
      PROVE  Joined(d, Joined(e, x)) = Joined(d \o e, x)
  <2>1. CASE x \in Seq(Digits)
    <3>1. Joined(e, x) = e \o x /\ Joined(d \o e, x) = (d \o e) \o x
      BY <1>1, <2>1, Zenon DEF Joined
    <3>2. e \o x \in Seq(Digits)
      BY <1>3, <2>1, Zenon
    <3>3. Joined(d, e \o x) = d \o (e \o x)
      BY <1>4, <3>2, Zenon
    <3>4. Cat(Cat(d, e), x) = Cat(d, Cat(e, x))
      BY <2>1, CatAny
    <3> QED
      BY <3>1, <3>3, <3>4, Zenon DEF Cat
  <2>2. CASE x = Invalid
    BY <1>5, <2>2, Zenon DEF Joined
  <2> QED
    BY <2>1, <2>2 DEF Readings
<1> QED
  BY <1>1, <1>2, <1>3, <1>4, <1>5, <1>6, <1>7, Zenon

(* What a text means from any position on is a reading.                    *)
LEMMA FromType ==
    ASSUME NEW t \in Seq(Chars)
    PROVE  \A i \in 1..Len(t)+1 : From(t)[i] \in Readings
<1> DEFINE L == Len(t)
           S == {m \in Nat : \A i \in 1..L+1 : i >= L + 1 - m => From(t)[i] \in Readings}
<1>1. L \in Nat
  BY LenProperties
<1>2. <<>> \in Readings /\ Invalid \in Readings
  BY DEF Readings
<1>3. ASSUME NEW i \in 1..L+1, \A j \in i+1..L+1 : From(t)[j] \in Readings
      PROVE  From(t)[i] \in Readings
  <2>1. From(t)[i] = Body(t, From(t), i)
    BY FromSteps, Zenon
  <2>2. CASE i > L
    BY <1>2, <2>1, <2>2, Zenon DEF Body
  <2>3. CASE ~(i > L)
    <3>1. i \in 1..L
      BY <1>1, <2>3
    <3>2. Follows(t, i) = 0 \/ From(t)[Follows(t, i)] \in Readings
      BY <1>3, <3>1, FollowsRange, Zenon
    <3> DEFINE d == IF IsHex(t[i]) THEN <<t[i]>> ELSE <<>>
    <3>3. d \in Seq(Digits)
      <4>1. IsHex(t[i]) => t[i] \in Digits
        BY DEF IsHex, Digits
      <4> QED
        BY <4>1
    <3> HIDE DEF d
    <3>4. \A x \in Readings : Joined(d, x) \in Readings
      BY <3>3, JoinedProps, Zenon
    <3>5. Body(t, From(t), i) =
             IF i > Len(t) THEN <<>>
             ELSE IF Follows(t, i) = 0 \/ ~(t[i] = "/" \/ IsAllowed(t[i])) THEN Invalid
             ELSE Joined(d, From(t)[Follows(t, i)])
      BY Zenon DEF Body, d
    <3> QED
      BY <1>2, <2>1, <2>3, <3>2, <3>4, <3>5, Zenon
  <2> QED
    BY <2>2, <2>3
<1>4. 0 \in S
  <2>1. ASSUME NEW i \in 1..L+1, i >= L + 1 - 0 PROVE \A j \in i+1..L+1 : FALSE
    BY <1>1, <2>1
  <2> QED
    BY <1>3, <2>1
<1>5. ASSUME NEW m \in Nat, m \in S PROVE m + 1 \in S
  <2> SUFFICES ASSUME NEW i \in 1..L+1, i >= L + 1 - (m + 1) PROVE From(t)[i] \in Readings
    OBVIOUS
  <2>1. ASSUME NEW j \in i+1..L+1 PROVE From(t)[j] \in Readings
    <3>1. j \in 1..L+1 /\ j >= L + 1 - m
      BY <1>1
    <3> QED
      BY <1>5, <3>1
  <2> QED
    BY <1>3, <2>1
<1> HIDE DEF S
<1>6. L \in S
  BY <1>1, <1>4, <1>5, NatSetInduction
<1>7. \A i \in 1..L+1 : i >= L + 1 - L
  BY <1>1
<1> QED
  BY <1>6, <1>7 DEF S

-----------------------------------------------------------------------------
(* One step through a text.                                                *)

(* The end of a text.                                                      *)
LEMMA StepEnd ==
    ASSUME NEW t \in Seq(Chars)
    PROVE  From(t)[Len(t) + 1] = <<>>
<1>1. Len(t) + 1 \in 1..Len(t)+1 /\ Len(t) + 1 > Len(t)
  BY LenProperties
<1> QED
  BY <1>1, FromSteps, Zenon DEF Body

(* A digit or whitespace.                                                  *)
LEMMA StepPlain ==
    ASSUME NEW t \in Seq(Chars), NEW n \in 1..Len(t), IsAllowed(t[n])
    PROVE  /\ IsHex(t[n]) => From(t)[n] = Joined(<<t[n]>>, From(t)[n + 1])
           /\ ~IsHex(t[n]) => From(t)[n] = Joined(<<>>, From(t)[n + 1])
<1>1. n \in 1..Len(t)+1 /\ ~(n > Len(t)) /\ n + 1 # 0
  BY LenProperties
<1>2. t[n] # "/"
  BY DigitsApart DEF IsAllowed, IsHex, Digits
<1>3. Follows(t, n) = n + 1
  BY <1>2, Zenon DEF Follows
<1> QED
  BY <1>1, <1>3, FromSteps, Zenon DEF Body

(* A character that is not allowed.                                        *)
LEMMA StepBad ==
    ASSUME NEW t \in Seq(Chars), NEW n \in 1..Len(t), ~IsAllowed(t[n]), t[n] # "/"
    PROVE  From(t)[n] = Invalid
<1>1. n \in 1..Len(t)+1 /\ ~(n > Len(t))
  BY LenProperties
<1> QED
  BY <1>1, FromSteps, Zenon DEF Body

(* A / that begins no comment.                                             *)
LEMMA StepIsolated ==
    ASSUME NEW t \in Seq(Chars), NEW n \in 1..Len(t), t[n] = "/",
           n < Len(t) => t[n + 1] \notin {"/", "*"}
    PROVE  From(t)[n] = Invalid
<1>1. n \in 1..Len(t)+1 /\ ~(n > Len(t))
  BY LenProperties
<1>2. Follows(t, n) = 0
  BY Zenon DEF Follows
<1> QED
  BY <1>1, <1>2, FromSteps, Zenon DEF Body

(* A comment is passed.                                                    *)
LEMMA StepComment ==
    ASSUME NEW t \in Seq(Chars), NEW n \in 1..Len(t), t[n] = "/", n < Len(t),
           t[n + 1] \in {"/", "*"}
    PROVE  /\ AfterComment(t, n) = 0 => From(t)[n] = Invalid
           /\ AfterComment(t, n) # 0 => From(t)[n] = Joined(<<>>, From(t)[AfterComment(t, n)])
<1>1. n \in 1..Len(t)+1 /\ ~(n > Len(t))
  BY LenProperties
<1>2. Follows(t, n) = AfterComment(t, n)
  BY Zenon DEF Follows
<1>3. ~IsHex("/")
  BY DigitsApart DEF IsHex, Digits
<1>4. From(t)[n] = Body(t, From(t), n)
  BY <1>1, FromSteps, Zenon
<1>5. Body(t, From(t), n) = IF Follows(t, n) = 0 THEN Invalid
                            ELSE Joined(<<>>, From(t)[Follows(t, n)])
  BY <1>1, <1>3, Zenon DEF Body
<1> QED
  BY <1>2, <1>4, <1>5, Zenon

(* The least member, when it is known.                                     *)
LEMMA LeastIs ==
    ASSUME NEW S \in SUBSET Int, NEW j \in S, \A k \in S : j <= k
    PROVE  (CHOOSE i \in S : \A k \in S : i <= k) = j
<1>1. \A i \in S : (\A k \in S : i <= k) => i = j
  OBVIOUS
<1> QED
  BY <1>1

(* A line comment ends with its line or with the text.                     *)
LEMMA StepLine ==
    ASSUME NEW t \in Seq(Chars), NEW n \in 1..Len(t), t[n] = "/", n < Len(t), t[n + 1] = "/",
           NEW j \in n+2..Len(t)+1, j = Len(t) + 1 \/ t[j] = "newline",
           \A k \in n+2..j-1 : t[k] # "newline"
    PROVE  From(t)[n] = Joined(<<>>, From(t)[j])
<1> DEFINE ends == {i \in n+2..Len(t)+1 : i = Len(t) + 1 \/ t[i] = "newline"}
           both == IF t[n+1] = "/"
                   THEN {i \in n+2..Len(t)+1 : i = Len(t) + 1 \/ t[i] = "newline"}
                   ELSE {i \in n+4..Len(t)+1 : t[i-2] = "*" /\ t[i-1] = "/"}
<1>1. Len(t) \in Nat
  BY LenProperties
<1>2. j \in ends /\ ends \in SUBSET Int /\ j # 0
  BY <1>1
<1>3. ASSUME NEW k \in ends PROVE j <= k
  <2> SUFFICES ASSUME k < j PROVE FALSE
    BY <1>1
  <2>1. k \in n+2..j-1 /\ k # Len(t) + 1
    BY <1>1
  <2> QED
    BY <2>1
<1>4. AfterComment(t, n) = IF ends = {} THEN 0 ELSE CHOOSE i \in ends : \A k \in ends : i <= k
  <2>1. both = ends
    OBVIOUS
  <2>2. AfterComment(t, n) = IF both = {} THEN 0 ELSE CHOOSE i \in both : \A k \in both : i <= k
    BY DEF AfterComment
  <2> HIDE DEF both, ends
  <2> QED
    BY <2>1, <2>2, Zenon
<1> HIDE DEF ends
<1>5. (CHOOSE i \in ends : \A k \in ends : i <= k) = j
  BY <1>2, <1>3, LeastIs
<1>6. AfterComment(t, n) = j
  BY <1>2, <1>4, <1>5, Zenon
<1> QED
  BY <1>2, <1>6, StepComment, Zenon

(* Where a block comment that began at n is over.                          *)
Closes(t, n, j) == j \in n+4..Len(t)+1 /\ t[j-2] = "*" /\ t[j-1] = "/"

(* A block comment ends at the first place where it is closed.             *)
LEMMA StepBlock ==
    ASSUME NEW t \in Seq(Chars), NEW n \in 1..Len(t), t[n] = "/", n < Len(t), t[n + 1] = "*"
    PROVE  /\ (\A j \in n+4..Len(t)+1 : ~Closes(t, n, j)) => From(t)[n] = Invalid
           /\ \A j \in n+4..Len(t)+1 :
                 Closes(t, n, j) /\ (\A k \in n+4..j-1 : ~Closes(t, n, k)) =>
                     From(t)[n] = Joined(<<>>, From(t)[j])
<1> DEFINE ends == {i \in n+4..Len(t)+1 : t[i-2] = "*" /\ t[i-1] = "/"}
           both == IF t[n+1] = "/"
                   THEN {i \in n+2..Len(t)+1 : i = Len(t) + 1 \/ t[i] = "newline"}
                   ELSE {i \in n+4..Len(t)+1 : t[i-2] = "*" /\ t[i-1] = "/"}
<1>1. Len(t) \in Nat
  BY LenProperties
<1>2. AfterComment(t, n) = IF ends = {} THEN 0 ELSE CHOOSE i \in ends : \A k \in ends : i <= k
  <2>1. both = ends
    OBVIOUS
  <2>2. AfterComment(t, n) = IF both = {} THEN 0 ELSE CHOOSE i \in both : \A k \in both : i <= k
    BY DEF AfterComment
  <2> HIDE DEF both, ends
  <2> QED
    BY <2>1, <2>2, Zenon
<1>3. ends \in SUBSET Int /\ \A j \in ends : j \in n+4..Len(t)+1 /\ Closes(t, n, j)
  BY <1>1 DEF Closes
<1>4. \A j \in n+4..Len(t)+1 : Closes(t, n, j) => j \in ends
  BY DEF Closes
<1> HIDE DEF ends
<1>5. ASSUME \A j \in n+4..Len(t)+1 : ~Closes(t, n, j) PROVE From(t)[n] = Invalid
  <2>1. ends = {}
    BY <1>3, <1>5, Zenon
  <2> QED
    BY <1>2, <2>1, StepComment, Zenon
<1>6. ASSUME NEW j \in n+4..Len(t)+1, Closes(t, n, j), \A k \in n+4..j-1 : ~Closes(t, n, k)
      PROVE  From(t)[n] = Joined(<<>>, From(t)[j])
  <2>1. j \in ends /\ j # 0
    BY <1>1, <1>4, <1>6
  <2>2. ASSUME NEW k \in ends PROVE j <= k
    <3>1. k \in n+4..Len(t)+1 /\ Closes(t, n, k)
      BY <1>3, Zenon
    <3>2. k \notin n+4..j-1
      BY <1>6, <3>1, Zenon
    <3> QED
      BY <1>1, <3>1, <3>2
  <2>3. (CHOOSE i \in ends : \A k \in ends : i <= k) = j
    BY <1>3, <2>1, <2>2, LeastIs
  <2>4. AfterComment(t, n) = j
    BY <1>2, <2>1, <2>3, Zenon
  <2> QED
    BY <2>1, <2>4, StepComment, Zenon
<1> QED
  BY <1>5, <1>6, Zenon

-----------------------------------------------------------------------------
(* The filter, against what a text means.  In every text that begins with  *)
(* t, reading from i on is d and then reading from n on.                   *)
Extends(u, t) == Len(t) <= Len(u) /\ \A i \in 1..Len(t) : u[i] = t[i]
Leads(t, i, d, n) ==
    \A u \in Seq(Chars) : Extends(u, t) => From(u)[i] = Joined(d, From(u)[n])

(* Where the filter is in t: what it has not decided about begins at n.    *)
AtState(t, s, n) ==
    \/ s = "Normal" /\ n = Len(t) + 1
    \/ s = "PotentialComment" /\ n = Len(t) /\ t[n] = "/"
    \/ /\ s = "LineComment" /\ n < Len(t) /\ t[n] = "/" /\ t[n+1] = "/"
       /\ \A k \in n+2..Len(t) : t[k] # "newline"
    \/ /\ s \in {"BlockComment", "PotentialBlockCommentEnd"}
       /\ n < Len(t) /\ t[n] = "/" /\ t[n+1] = "*"
       /\ \A j \in n+4..Len(t)+1 : ~Closes(t, n, j)
       /\ s = "PotentialBlockCommentEnd" <=> (n + 2 <= Len(t) /\ t[Len(t)] = "*")
Scanned(t, s, d) == \E n \in 1..Len(t)+1 : Leads(t, 1, d, n) /\ AtState(t, s, n)

(* A text and one more character.                                          *)
LEMMA OneMore ==
    ASSUME NEW t \in Seq(Chars), NEW c \in Chars
    PROVE  /\ Append(t, c) \in Seq(Chars) /\ Len(t) \in Nat /\ Len(Append(t, c)) = Len(t) + 1
           /\ Append(t, c)[Len(t) + 1] = c
           /\ \A i \in 1..Len(t) : Append(t, c)[i] = t[i]
           /\ Extends(Append(t, c), t)
<1>1. /\ Append(t, c) \in Seq(Chars) /\ Len(t) \in Nat /\ Len(Append(t, c)) = Len(t) + 1
      /\ Append(t, c)[Len(t) + 1] = c
      /\ \A i \in 1..Len(t) : Append(t, c)[i] = t[i]
  BY AppendElements DEF IsAppend
<1>2. Len(t) <= Len(Append(t, c))
  BY <1>1
<1> QED
  BY <1>1, <1>2, Zenon DEF Extends

(* Extension is a preorder.                                                *)
LEMMA ExtendsOrder ==
    ASSUME NEW t \in Seq(Chars), NEW u \in Seq(Chars), NEW v \in Seq(Chars)
    PROVE  /\ Extends(t, t)
           /\ Extends(v, u) /\ Extends(u, t) => Extends(v, t)
<1>1. Len(t) \in Nat /\ Len(u) \in Nat /\ Len(v) \in Nat
  BY LenProperties
<1>2. Extends(t, t)
  BY <1>1 DEF Extends
<1>3. ASSUME Extends(v, u), Extends(u, t) PROVE Extends(v, t)
  <2>1. Len(t) <= Len(u) /\ Len(u) <= Len(v)
    BY <1>3, Zenon DEF Extends
  <2>2. Len(t) <= Len(v) /\ \A i \in 1..Len(t) : i \in 1..Len(u)
    BY <1>1, <2>1
  <2> QED
    BY <1>3, <2>2, Zenon DEF Extends
<1> QED
  BY <1>2, <1>3

(* What holds of all texts that begin with t holds of those that begin     *)
(* with more.                                                              *)
LEMMA LeadsOn ==
    ASSUME NEW t \in Seq(Chars), NEW u \in Seq(Chars), Extends(u, t), NEW i, NEW d, NEW n,
           Leads(t, i, d, n)
    PROVE  Leads(u, i, d, n)
BY ExtendsOrder, Zenon DEF Leads

(* Two readings one after the other.                                       *)
LEMMA LeadsTwice ==
    ASSUME NEW t \in Seq(Chars), NEW d \in Seq(Digits), NEW e \in Seq(Digits),
           NEW i, NEW n, NEW m \in 1..Len(t)+1, Leads(t, i, d, n), Leads(t, n, e, m)
    PROVE  Leads(t, i, d \o e, m)
<1> SUFFICES ASSUME NEW u \in Seq(Chars), Extends(u, t)
             PROVE  From(u)[i] = Joined(d \o e, From(u)[m])
  BY Zenon DEF Leads
<1>1. From(u)[i] = Joined(d, From(u)[n]) /\ From(u)[n] = Joined(e, From(u)[m])
  BY Zenon DEF Leads
<1>2. m \in 1..Len(u)+1
  <2>1. Len(t) \in Nat /\ Len(u) \in Nat /\ Len(t) <= Len(u)
    BY LenProperties DEF Extends
  <2> QED
    BY <2>1
<1>3. From(u)[m] \in Readings
  BY <1>2, FromType, Zenon
<1>4. Joined(d, Joined(e, From(u)[m])) = Joined(d \o e, From(u)[m])
  BY <1>3, JoinedProps, ZenonT(40)
<1> QED
  BY <1>1, <1>4, Zenon

(* The same when the second reading has no digits.                         *)
LEMMA LeadsSame ==
    ASSUME NEW t \in Seq(Chars), NEW d \in Seq(Digits),
           NEW i, NEW n, NEW m \in 1..Len(t)+1, Leads(t, i, d, n), Leads(t, n, <<>>, m)
    PROVE  Leads(t, i, d, m)
<1>1. <<>> \in Seq(Digits) /\ d \o <<>> = d
  BY ConcatProperties
<1>2. Leads(t, i, d \o <<>>, m)
  BY <1>1, LeadsTwice, Zenon
<1> QED
  BY <1>1, <1>2, Zenon

(* The beginning, before anything is read.                                 *)
LEMMA ScanStart == Scanned(<<>>, "Normal", <<>>)
<1>1. <<>> \in Seq(Chars) /\ <<>> \in Seq(Digits) /\ Len(<<>>) = 0
  OBVIOUS
<1>2. ASSUME NEW u \in Seq(Chars) PROVE From(u)[1] = Joined(<<>>, From(u)[1])
  <2>1. 1 \in 1..Len(u)+1
    BY LenProperties
  <2>2. From(u)[1] \in Readings
    BY <2>1, FromType, Zenon
  <2> QED
    BY <1>1, <2>2, JoinedProps, Zenon
<1>3. Leads(<<>>, 1, <<>>, 1)
  BY <1>2, Zenon DEF Leads
<1>4. 1 \in 1..Len(<<>>)+1 /\ 1 = Len(<<>>) + 1
  BY <1>1
<1> QED
  BY <1>3, <1>4, Zenon DEF Scanned, AtState

(* A text that leads to something invalid is invalid.                      *)
LEMMA LeadsNowhere ==
    ASSUME NEW t \in Seq(Chars), NEW d \in Seq(Digits), NEW n, Leads(t, 1, d, n),
           From(t)[n] = Invalid
    PROVE  Uncommented(t) = Invalid
<1>1. From(t)[1] = Joined(d, From(t)[n])
  BY ExtendsOrder, Zenon DEF Leads
<1> QED
  BY <1>1, FromSteps, JoinedProps, Zenon

(* What a text means when all of it was read.                              *)
LEMMA ScanEnd ==
    ASSUME NEW t \in Seq(Chars), NEW s, NEW d \in Seq(Digits), Scanned(t, s, d)
    PROVE  /\ OpenComment(s) => Uncommented(t) = Invalid
           /\ ~OpenComment(s) => Uncommented(t) = d
<1>1. Len(t) \in Nat
  BY LenProperties
<1>2. PICK n \in 1..Len(t)+1 : Leads(t, 1, d, n) /\ AtState(t, s, n)
  BY Zenon DEF Scanned
<1>3. /\ <<>> \in Seq(Digits) /\ Joined(<<>>, <<>>) = <<>> /\ Joined(d, <<>>) = d
  <2>1. <<>> \in Seq(Digits) /\ d \o <<>> = d /\ <<>> \o <<>> = <<>>
    BY ConcatProperties
  <2> QED
    BY <2>1, JoinedProps, Zenon
<1>4. ASSUME From(t)[n] = <<>> PROVE Uncommented(t) = d
  <2>1. From(t)[1] = Joined(d, From(t)[n])
    BY <1>2, ExtendsOrder, Zenon DEF Leads
  <2> QED
    BY <1>3, <1>4, <2>1, FromSteps, Zenon
<1>5. CASE s = "Normal" /\ n = Len(t) + 1
  <2>1. ~OpenComment(s)
    BY <1>5 DEF OpenComment
  <2> QED
    BY <1>4, <1>5, <2>1, StepEnd, Zenon
<1>6. CASE s = "PotentialComment" /\ n = Len(t) /\ t[n] = "/"
  <2>1. OpenComment(s) /\ n \in 1..Len(t) /\ ~(n < Len(t))
    BY <1>1, <1>6 DEF OpenComment
  <2>2. From(t)[n] = Invalid
    BY <1>6, <2>1, StepIsolated, Zenon
  <2> QED
    BY <1>2, <2>1, <2>2, LeadsNowhere, Zenon
<1>7. CASE /\ s = "LineComment" /\ n < Len(t) /\ t[n] = "/" /\ t[n+1] = "/"
           /\ \A k \in n+2..Len(t) : t[k] # "newline"
  <2>1. /\ ~OpenComment(s) /\ n \in 1..Len(t)
        /\ Len(t) + 1 \in n+2..Len(t)+1 /\ (Len(t) + 1) - 1 = Len(t)
    BY <1>1, <1>7 DEF OpenComment
  <2>2. From(t)[n] = Joined(<<>>, From(t)[Len(t) + 1])
    BY <1>7, <2>1, StepLine, Zenon
  <2>3. From(t)[n] = <<>>
    BY <1>3, <2>2, StepEnd, Zenon
  <2> QED
    BY <1>4, <2>1, <2>3
<1>8. CASE /\ s \in {"BlockComment", "PotentialBlockCommentEnd"}
           /\ n < Len(t) /\ t[n] = "/" /\ t[n+1] = "*"
           /\ \A j \in n+4..Len(t)+1 : ~Closes(t, n, j)
  <2>1. OpenComment(s) /\ n \in 1..Len(t)
    BY <1>1, <1>8 DEF OpenComment
  <2>2. From(t)[n] = Invalid
    BY <1>8, <2>1, StepBlock, Zenon
  <2> QED
    BY <1>2, <2>1, <2>2, LeadsNowhere, Zenon
<1> QED
  BY <1>2, <1>5, <1>6, <1>7, <1>8, Zenon DEF AtState

(* An allowed character leads to the next position.                        *)
LEMMA PlainLeads ==
    ASSUME NEW u \in Seq(Chars), NEW n \in 1..Len(u), IsAllowed(u[n])
    PROVE  /\ IsHex(u[n]) => Leads(u, n, <<u[n]>>, n + 1)
           /\ ~IsHex(u[n]) => Leads(u, n, <<>>, n + 1)
<1>1. ASSUME NEW v \in Seq(Chars), Extends(v, u)
      PROVE  /\ IsHex(u[n]) => From(v)[n] = Joined(<<u[n]>>, From(v)[n + 1])
             /\ ~IsHex(u[n]) => From(v)[n] = Joined(<<>>, From(v)[n + 1])
  <2>1. n \in 1..Len(v) /\ v[n] = u[n]
    BY <1>1 DEF Extends
  <2>2. QED
    BY <2>1, StepPlain
<1>2. QED
  BY <1>1, Zenon DEF Leads

(* What one more character does to a scan: it is refused and the text has  *)
(* no meaning, it is dropped, or it is passed on.                          *)
GoesOn(t, s, c, d) ==
    /\ Transition(s, c) = "panic" => Uncommented(Append(t, c)) = Invalid
    /\ Transition(s, c) # "panic" /\ ~Passes(s, c) =>
           Scanned(Append(t, c), Transition(s, c), d)
    /\ Passes(s, c) =>
           /\ ~IsAllowed(c) => Uncommented(Append(t, c)) = Invalid
           /\ IsAllowed(c) /\ ~IsHex(c) => Scanned(Append(t, c), Transition(s, c), d)
           /\ IsHex(c) => Scanned(Append(t, c), Transition(s, c), d \o <<c>>)

(* Outside of comments.                                                    *)
LEMMA ScanNormal ==
    ASSUME NEW t \in Seq(Chars), NEW c \in Chars, NEW d \in Seq(Digits), Scanned(t, "Normal", d)
    PROVE  GoesOn(t, "Normal", c, d)
<1> DEFINE u == Append(t, c)
           n == Len(t) + 1
<1>1. Leads(t, 1, d, n)
  BY DEF Scanned, AtState
<1>2. /\ u \in Seq(Chars) /\ Len(t) \in Nat /\ Len(u) = n /\ u[n] = c /\ Extends(u, t)
      /\ n \in 1..Len(u) /\ n \in 1..Len(u)+1 /\ n + 1 \in 1..Len(u)+1 /\ n + 1 = Len(u) + 1
  BY OneMore
<1> HIDE DEF u, n
<1>3. Leads(u, 1, d, n)
  BY <1>1, <1>2, LeadsOn
<1>4. c = "/" => Scanned(u, "PotentialComment", d)
  BY <1>2, <1>3 DEF Scanned, AtState
<1>5. c # "/" /\ ~IsAllowed(c) => Uncommented(u) = Invalid
  BY <1>2, <1>3, StepBad, LeadsNowhere
<1>6. AtState(u, "Normal", n + 1)
  BY <1>2 DEF AtState
<1>7. IsHex(c) => Scanned(u, "Normal", d \o <<c>>)
  <2> SUFFICES ASSUME IsHex(c) PROVE Scanned(u, "Normal", d \o <<c>>)
    OBVIOUS
  <2>1. <<c>> \in Seq(Digits)
    BY DEF IsHex, Digits
  <2>2. Leads(u, n, <<c>>, n + 1)
    BY <1>2, PlainLeads DEF IsAllowed
  <2>3. Leads(u, 1, d \o <<c>>, n + 1)
    BY <1>2, <1>3, <2>1, <2>2, LeadsTwice
  <2>4. QED
    BY <1>2, <1>6, <2>3, Zenon DEF Scanned
<1>8. IsAllowed(c) /\ ~IsHex(c) => Scanned(u, "Normal", d)
  <2> SUFFICES ASSUME IsAllowed(c), ~IsHex(c) PROVE Scanned(u, "Normal", d)
    OBVIOUS
  <2>2. Leads(u, n, <<>>, n + 1)
    BY <1>2, PlainLeads
  <2>3. Leads(u, 1, d, n + 1)
    BY <1>2, <1>3, <2>2, LeadsSame
  <2>4. QED
    BY <1>2, <1>6, <2>3, Zenon DEF Scanned
<1>9. /\ Transition("Normal", c) = IF c = "/" THEN "PotentialComment" ELSE "Normal"
      /\ Passes("Normal", c) <=> c # "/"
      /\ IsHex(c) => IsAllowed(c)
  BY DEF Transition, Passes, IsAllowed
<1>10. QED
  BY <1>4, <1>5, <1>7, <1>8, <1>9 DEF GoesOn, u

(* After a slash.                                                          *)
LEMMA ScanPotential ==
    ASSUME NEW t \in Seq(Chars), NEW c \in Chars, NEW d \in Seq(Digits),
           Scanned(t, "PotentialComment", d)
    PROVE  GoesOn(t, "PotentialComment", c, d)
<1> DEFINE u == Append(t, c)
           n == Len(t)
<1>1. Leads(t, 1, d, n) /\ n \in 1..Len(t)+1 /\ t[n] = "/" /\ n \in 1..n
  BY DEF Scanned, AtState
<1>2. /\ u \in Seq(Chars) /\ Len(t) \in Nat /\ Len(u) = n + 1 /\ u[n + 1] = c /\ Extends(u, t)
      /\ u[n] = "/"
      /\ n \in 1..Len(u) /\ n \in 1..Len(u)+1 /\ n < Len(u)
  BY <1>1, OneMore
<1> HIDE DEF u, n
<1>3. Leads(u, 1, d, n)
  BY <1>1, <1>2, LeadsOn
<1>4. c = "/" => Scanned(u, "LineComment", d)
  <2>1. \A k \in n+2..Len(u) : u[k] # "newline"
    BY <1>2
  <2>2. QED
    BY <1>2, <1>3, <2>1 DEF Scanned, AtState
<1>5. c = "*" => Scanned(u, "BlockComment", d)
  <2>1. /\ \A j \in n+4..Len(u)+1 : ~Closes(u, n, j)
        /\ ~(n + 2 <= Len(u))
    BY <1>2
  <2>2. QED
    BY <1>2, <1>3, <2>1 DEF Scanned, AtState
<1>6. c \notin {"/", "*"} => Uncommented(u) = Invalid
  BY <1>2, <1>3, StepIsolated, LeadsNowhere
<1>7. /\ Transition("PotentialComment", c) = IF c = "/" THEN "LineComment"
                                             ELSE IF c = "*" THEN "BlockComment" ELSE "panic"
      /\ ~Passes("PotentialComment", c)
  BY DEF Transition, Passes
<1>8. QED
  BY <1>4, <1>5, <1>6, <1>7 DEF GoesOn, u

(* In a line comment.                                                      *)
LEMMA ScanLine ==
    ASSUME NEW t \in Seq(Chars), NEW c \in Chars, NEW d \in Seq(Digits),
           Scanned(t, "LineComment", d)
    PROVE  GoesOn(t, "LineComment", c, d)
<1> DEFINE u == Append(t, c)
           l == Len(t)
<1>1. PICK n \in 1..l+1 : Leads(t, 1, d, n) /\ AtState(t, "LineComment", n)
  BY DEF Scanned
<1>2. /\ n < l /\ t[n] = "/" /\ t[n+1] = "/"
      /\ \A k \in n+2..l : t[k] # "newline"
  BY <1>1 DEF AtState
<1>3. /\ u \in Seq(Chars) /\ l \in Nat /\ Len(u) = l + 1 /\ u[l + 1] = c
      /\ Extends(u, t) /\ \A i \in 1..l : u[i] = t[i]
  BY OneMore
<1> HIDE DEF u, l
<1>4. /\ n \in Nat /\ n \in 1..l /\ n + 1 \in 1..l
      /\ \A k \in n+2..l : k \in 1..l
  BY <1>1, <1>2, <1>3
<1>5. Leads(u, 1, d, n)
  BY <1>1, <1>3, LeadsOn
<1>6. /\ u[n] = "/" /\ u[n+1] = "/" /\ n < Len(u) /\ n \in 1..Len(u)+1 /\ n \in 1..Len(u)
      /\ \A k \in n+2..l : u[k] # "newline"
  BY <1>2, <1>3, <1>4
<1>7. c # "newline" => Scanned(u, "LineComment", d)
  <2> SUFFICES ASSUME c # "newline" PROVE Scanned(u, "LineComment", d)
    OBVIOUS
  <2>1. \A k \in n+2..Len(u) : u[k] # "newline"
    <3> SUFFICES ASSUME NEW k \in n+2..Len(u) PROVE u[k] # "newline"
      OBVIOUS
    <3>1. k = l + 1 \/ k \in n+2..l
      BY <1>3, <1>4
    <3>2. QED
      BY <1>3, <1>6, <3>1
  <2>2. QED
    BY <1>5, <1>6, <2>1 DEF Scanned, AtState
<1>8. c = "newline" => Scanned(u, "Normal", d)
  <2> SUFFICES ASSUME c = "newline" PROVE Scanned(u, "Normal", d)
    OBVIOUS
  <2>1. Leads(u, n, <<>>, l + 1)
    <3> SUFFICES ASSUME NEW v \in Seq(Chars), Extends(v, u)
                 PROVE  From(v)[n] = Joined(<<>>, From(v)[l + 1])
      BY DEF Leads
    <3>1. Len(v) \in Nat /\ Len(u) <= Len(v) /\ \A i \in 1..l+1 : v[i] = u[i]
      BY <1>3 DEF Extends
    <3>2. /\ n \in 1..Len(v) /\ n < Len(v) /\ l + 1 \in n+2..Len(v)+1
          /\ \A k \in n+2..(l+1)-1 : k \in 1..l+1 /\ k \in n+2..l
          /\ n \in 1..l+1 /\ n + 1 \in 1..l+1 /\ l + 1 \in 1..l+1
      BY <1>2, <1>3, <1>4, <3>1
    <3>3. v[n] = "/" /\ v[n+1] = "/" /\ v[l+1] = "newline"
      BY <1>3, <1>6, <3>1, <3>2
    <3>4. \A k \in n+2..(l+1)-1 : v[k] # "newline"
      BY <1>6, <3>1, <3>2
    <3>5. QED
      BY <3>2, <3>3, <3>4, StepLine
  <2>2. Leads(u, l + 1, <<>>, l + 2)
    <3>1. l + 1 \in 1..Len(u) /\ (l + 1) + 1 = l + 2
      BY <1>3
    <3>2. IsAllowed(u[l + 1]) /\ ~IsHex(u[l + 1])
      BY <1>3, DigitsApart DEF IsAllowed, IsHex, Digits
    <3>3. QED
      BY <1>3, <3>1, <3>2, PlainLeads
  <2>3. l + 1 \in 1..Len(u)+1 /\ l + 2 \in 1..Len(u)+1 /\ l + 2 = Len(u) + 1
    BY <1>3
  <2>4. Leads(u, 1, d, l + 1)
    BY <1>3, <1>5, <2>1, <2>3, LeadsSame
  <2>5. Leads(u, 1, d, l + 2)
    BY <1>3, <2>2, <2>3, <2>4, LeadsSame
  <2>6. AtState(u, "Normal", l + 2)
    BY <2>3 DEF AtState
  <2>7. QED
    BY <2>3, <2>5, <2>6, Zenon DEF Scanned
<1>9. /\ Transition("LineComment", c) = IF c = "newline" THEN "Normal" ELSE "LineComment"
      /\ Passes("LineComment", c) <=> c = "newline"
      /\ c = "newline" => IsAllowed(c) /\ ~IsHex(c)
  BY DigitsApart DEF Transition, Passes, IsAllowed, IsHex, Digits
<1>10. QED
  BY <1>7, <1>8, <1>9 DEF GoesOn, u

(* In a block comment, where no ** is met.                                 *)
LEMMA ScanBlock ==
    ASSUME NEW t \in Seq(Chars), NEW c \in Chars, NEW d \in Seq(Digits),
           NEW s \in {"BlockComment", "PotentialBlockCommentEnd"},
           Scanned(t, s, d), ~DoubleStar(Append(t, c))
    PROVE  GoesOn(t, s, c, d)
<1> DEFINE u == Append(t, c)
           l == Len(t)
<1>1. PICK n \in 1..l+1 : Leads(t, 1, d, n) /\ AtState(t, s, n)
  BY DEF Scanned
<1>2. /\ n < l /\ t[n] = "/" /\ t[n+1] = "*"
      /\ \A j \in n+4..l+1 : ~Closes(t, n, j)
      /\ s = "PotentialBlockCommentEnd" <=> (n + 2 <= l /\ t[l] = "*")
  BY <1>1 DEF AtState
<1>3. /\ u \in Seq(Chars) /\ l \in Nat /\ Len(u) = l + 1 /\ u[l + 1] = c
      /\ Extends(u, t) /\ \A i \in 1..l : u[i] = t[i]
  BY OneMore
<1>a. ~(l >= 1 /\ u[l] = "*" /\ c = "*")
  <2>1. SUFFICES ASSUME l >= 1, u[l] = "*", c = "*" PROVE FALSE
    OBVIOUS
  <2>2. l \in 1..Len(u)-1
    BY <1>3, <2>1
  <2>3. QED
    BY <1>3, <2>1, <2>2 DEF DoubleStar
<1> HIDE DEF u, l
<1>4. /\ n \in Nat /\ n \in 1..l /\ n + 1 \in 1..l /\ l >= 1 /\ l \in 1..l
  BY <1>1, <1>2, <1>3
<1>5. Leads(u, 1, d, n)
  BY <1>1, <1>3, LeadsOn
<1>6. /\ u[n] = "/" /\ u[n+1] = "*" /\ n < Len(u) /\ n \in 1..Len(u)+1 /\ n \in 1..Len(u)
      /\ u[l] = t[l] /\ n + 2 <= l + 1
  BY <1>2, <1>3, <1>4
<1>7. \A j \in n+4..l+1 : ~Closes(u, n, j)
  <2> SUFFICES ASSUME NEW j \in n+4..l+1, Closes(u, n, j) PROVE FALSE
    OBVIOUS
  <2>1. j - 1 \in 1..l /\ j - 2 \in 1..l
    BY <1>3, <1>4
  <2>2. Closes(t, n, j)
    BY <1>3, <2>1 DEF Closes, l
  <2>3. QED
    BY <1>2, <2>2
<1>8. Closes(u, n, l + 2) <=> s = "PotentialBlockCommentEnd" /\ c = "/"
  <2>1. (l + 2) - 1 = l + 1 /\ (l + 2) - 2 = l
    BY <1>3
  <2>2. l + 2 \in n+4..Len(u)+1 <=> n + 2 <= l
    BY <1>3, <1>4
  <2>3. QED
    BY <1>2, <1>3, <1>6, <2>1, <2>2 DEF Closes
<1>9. ~(s = "PotentialBlockCommentEnd" /\ c = "/") => \A j \in n+4..Len(u)+1 : ~Closes(u, n, j)
  <2> SUFFICES ASSUME ~(s = "PotentialBlockCommentEnd" /\ c = "/"), NEW j \in n+4..Len(u)+1
               PROVE  ~Closes(u, n, j)
    OBVIOUS
  <2>1. j \in n+4..l+1 \/ j = l + 2
    BY <1>3, <1>4
  <2>2. QED
    BY <1>7, <1>8, <2>1
<1>10. CASE s = "PotentialBlockCommentEnd" /\ c = "/"
  <2>1. Leads(u, n, <<>>, l + 2)
    <3> SUFFICES ASSUME NEW v \in Seq(Chars), Extends(v, u)
                 PROVE  From(v)[n] = Joined(<<>>, From(v)[l + 2])
      BY DEF Leads
    <3>1. Len(v) \in Nat /\ Len(u) <= Len(v) /\ \A i \in 1..l+1 : v[i] = u[i]
      BY <1>3 DEF Extends
    <3>2. /\ n \in 1..Len(v) /\ n < Len(v) /\ n + 2 <= l /\ l + 2 \in n+4..Len(v)+1
          /\ n \in 1..l+1 /\ n + 1 \in 1..l+1
      BY <1>2, <1>3, <1>4, <1>10, <3>1
    <3>3. v[n] = "/" /\ v[n+1] = "*"
      BY <1>6, <3>1, <3>2
    <3>4. \A j \in n+4..l+2 : Closes(v, n, j) <=> Closes(u, n, j)
      <4> SUFFICES ASSUME NEW j \in n+4..l+2 PROVE Closes(v, n, j) <=> Closes(u, n, j)
        OBVIOUS
      <4>1. /\ j - 1 \in 1..l+1 /\ j - 2 \in 1..l+1
            /\ j \in n+4..Len(v)+1 /\ j \in n+4..Len(u)+1
        BY <1>3, <1>4, <3>1
      <4>2. QED
        BY <3>1, <4>1 DEF Closes
    <3>5. \A k \in n+4..(l+2)-1 : k \in n+4..l+2 /\ k \in n+4..l+1
      BY <1>3, <1>4
    <3>6. \A k \in n+4..(l+2)-1 : ~Closes(v, n, k)
      BY <1>7, <3>4, <3>5
    <3>7. Closes(v, n, l + 2)
      <4>1. l + 2 \in n+4..l+2
        BY <1>3, <1>4, <3>2
      <4>2. QED
        BY <1>8, <1>10, <3>4, <4>1
    <3>8. QED
      BY <3>2, <3>3, <3>6, <3>7, StepBlock
  <2>2. l + 2 \in 1..Len(u)+1 /\ l + 2 = Len(u) + 1
    BY <1>3
  <2>3. Leads(u, 1, d, l + 2)
    BY <1>3, <1>5, <2>1, <2>2, LeadsSame
  <2>4. AtState(u, "Normal", l + 2)
    BY <2>2 DEF AtState
  <2>5. Scanned(u, "Normal", d)
    BY <2>2, <2>3, <2>4, Zenon DEF Scanned
  <2>6. Transition(s, c) = "Normal" /\ ~Passes(s, c)
    BY <1>10 DEF Transition, Passes
  <2>7. QED
    BY <2>5, <2>6 DEF GoesOn, u
<1>11. CASE ~(s = "PotentialBlockCommentEnd" /\ c = "/")
  <2> DEFINE s1 == IF c = "*" THEN "PotentialBlockCommentEnd" ELSE "BlockComment"
  <2>1. s = "PotentialBlockCommentEnd" => c # "*"
    BY <1>2, <1>a, <1>4, <1>6
  <2>2. Transition(s, c) = s1 /\ ~Passes(s, c)
    BY <1>11, <2>1 DEF Transition, Passes
  <2>3. /\ s1 \in {"BlockComment", "PotentialBlockCommentEnd"}
        /\ s1 = "PotentialBlockCommentEnd" <=> (n + 2 <= Len(u) /\ u[Len(u)] = "*")
    BY <1>3, <1>6
  <2> HIDE DEF s1
  <2>4. AtState(u, s1, n)
    BY <1>6, <1>9, <1>11, <2>3 DEF AtState
  <2>5. Scanned(u, s1, d)
    BY <1>5, <1>6, <2>4, Zenon DEF Scanned
  <2>6. s1 # "panic"
    BY <2>3
  <2>7. QED
    BY <2>2, <2>5, <2>6 DEF GoesOn, u
<1>12. QED
  BY <1>10, <1>11

FilterStates == {"Normal", "PotentialComment", "LineComment", "BlockComment",
                 "PotentialBlockCommentEnd"}

(* One more character, whatever the state of the filter.                   *)
LEMMA ScanChar ==
    ASSUME NEW t \in Seq(Chars), NEW c \in Chars, NEW d \in Seq(Digits), NEW s \in FilterStates,
           Scanned(t, s, d), ~DoubleStar(Append(t, c))
    PROVE  GoesOn(t, s, c, d)
BY ScanNormal, ScanPotential, ScanLine, ScanBlock DEF FilterStates

-----------------------------------------------------------------------------
(* The bytes of pairs of digits; an odd digit at the end is left out.      *)
Pairs(d) == [i \in 1..Len(d) \div 2 |-> 16 * HexVal(d[2*i-1]) + HexVal(d[2*i])]

(* The entries at odd positions: OutBytes are those of out.                *)
Odds(o) == [i \in 1..(Len(o) + 1) \div 2 |-> o[2*i-1]]

(* What a sequence of texts means.                                         *)
MeaningOf(ts) == FlattenSeq([i \in DOMAIN ts |-> Meaning(ts[i])])

(* The byte of two nibbles.                                                *)
LEMMA TwoNibbles ==
    ASSUME NEW a \in 0..15, NEW b \in 0..15
    PROVE  16 * a + b \in Int /\ 16 * a + b \in 0..255
OBVIOUS

(* Pairs of digits are numbers.                                            *)
LEMMA PairsType ==
    ASSUME NEW d \in Seq(Digits)
    PROVE  /\ Pairs(d) \in Seq(Int) /\ Len(Pairs(d)) = Len(d) \div 2
           /\ \A i \in 1..Len(d) \div 2 : Pairs(d)[i] = 16 * HexVal(d[2*i-1]) + HexVal(d[2*i])
<1> DEFINE l == Len(d)
           f == [i \in 1..l \div 2 |-> 16 * HexVal(d[2*i-1]) + HexVal(d[2*i])]
<1>1. l \in Nat /\ \A i \in 1..l : d[i] \in Digits
  BY LenProperties, ElementOfSeq
<1>2. l \div 2 \in Nat /\ \A i \in 1..l \div 2 : 2*i - 1 \in 1..l /\ 2*i \in 1..l
  BY <1>1
<1>3. \A i \in 1..l \div 2 : 16 * HexVal(d[2*i-1]) + HexVal(d[2*i]) \in Int
  <2> TAKE i \in 1..l \div 2
  <2>1. d[2*i-1] \in Digits /\ d[2*i] \in Digits
    BY <1>1, <1>2
  <2>2. HexVal(d[2*i-1]) \in 0..15 /\ HexVal(d[2*i]) \in 0..15
    BY <2>1, DigitValue
  <2> QED
    BY <2>2, TwoNibbles, Zenon
<1>4. f \in [1..l \div 2 -> Int]
  BY <1>3
<1>5. \A i \in 1..l \div 2 : f[i] = 16 * HexVal(d[2*i-1]) + HexVal(d[2*i])
  OBVIOUS
<1>6. Pairs(d) = f
  BY DEF Pairs
<1> HIDE DEF f
<1>7. f \in Seq(Int) /\ Len(f) = l \div 2
  BY <1>2, <1>4, FunctionIsSeq
<1> QED
  BY <1>5, <1>6, <1>7

(* One more digit completes a byte, or it waits for another.               *)
LEMMA PairsMore ==
    ASSUME NEW d \in Seq(Digits), NEW c \in Digits
    PROVE  /\ Cat(d, <<c>>) \in Seq(Digits) /\ Len(Cat(d, <<c>>)) = Len(d) + 1 /\ Len(d) \in Nat
           /\ Cat(d, <<c>>)[Len(d) + 1] = c
           /\ Len(d) % 2 = 0 => Pairs(Cat(d, <<c>>)) = Pairs(d)
           /\ Len(d) % 2 = 1 => /\ d[Len(d)] \in Digits
                                /\ Pairs(Cat(d, <<c>>)) =
                                     Cat(Pairs(d), <<16 * HexVal(d[Len(d)]) + HexVal(c)>>)
<1> DEFINE e == Cat(d, <<c>>)
           l == Len(d)
           x == 16 * HexVal(d[l]) + HexVal(c)
           p == Pairs(d)
           q == Pairs(e)
           r == Cat(p, <<x>>)
<1>1. <<c>> \in Seq(Digits) /\ Len(<<c>>) = 1 /\ <<c>>[1] = c /\ 1 \in 1..1
  OBVIOUS
<1>2. e \in Seq(Digits) /\ IsCat(e, d, <<c>>)
  BY <1>1, CatParts
<1>3. l \in Nat /\ Len(e) = l + 1 /\ e[l + 1] = c /\ (\A i \in 1..l : e[i] = d[i])
  BY <1>1, <1>2 DEF IsCat
<1>4. \A i \in 1..l : d[i] \in Digits
  BY ElementOfSeq
<1>5. /\ p \in Seq(Int) /\ Len(p) = l \div 2
      /\ \A i \in 1..l \div 2 : p[i] = 16 * HexVal(d[2*i-1]) + HexVal(d[2*i])
  BY PairsType
<1>6. /\ q \in Seq(Int) /\ Len(q) = (l + 1) \div 2
      /\ \A i \in 1..(l + 1) \div 2 : q[i] = 16 * HexVal(e[2*i-1]) + HexVal(e[2*i])
  BY <1>2, <1>3, PairsType
<1> HIDE DEF e, p, q, l
<1>7. \A i \in 1..l \div 2 : i \in 1..(l + 1) \div 2 /\ 2*i - 1 \in 1..l /\ 2*i \in 1..l
  BY <1>3
<1>8. \A i \in 1..l \div 2 : q[i] = p[i]
  BY <1>3, <1>5, <1>6, <1>7
<1>9. ASSUME l % 2 = 0 PROVE q = p
  <2>1. (l + 1) \div 2 = l \div 2
    BY <1>3, <1>9
  <2> QED
    BY <1>5, <1>6, <1>8, <2>1, SameSeq
<1>10. ASSUME l % 2 = 1 PROVE q = r /\ d[l] \in Digits
  <2>1. /\ (l + 1) \div 2 = l \div 2 + 1 /\ l \div 2 \in Nat /\ l \in 1..l
        /\ 2 * (l \div 2 + 1) - 1 = l /\ 2 * (l \div 2 + 1) = l + 1
        /\ l \div 2 + 1 \in 1..(l + 1) \div 2
    BY <1>3, <1>10
  <2>2. d[l] \in Digits /\ x \in Int
    <3>1. d[l] \in Digits
      BY <1>4, <2>1
    <3>2. HexVal(d[l]) \in 0..15 /\ HexVal(c) \in 0..15
      BY <3>1, DigitValue
    <3> QED
      BY <3>1, <3>2, TwoNibbles, Zenon
  <2>3. q[l \div 2 + 1] = x
    BY <1>3, <1>6, <2>1
  <2> HIDE DEF x
  <2>4. <<x>> \in Seq(Int) /\ Len(<<x>>) = 1 /\ <<x>>[1] = x /\ 1 \in 1..1
    BY <2>2
  <2>5. r \in Seq(Int) /\ IsCat(r, p, <<x>>)
    BY <1>5, <2>4, CatParts
  <2>6. /\ Len(r) = l \div 2 + 1 /\ r[l \div 2 + 1] = x
        /\ \A i \in 1..l \div 2 : r[i] = p[i]
    BY <1>5, <2>4, <2>5 DEF IsCat
  <2> HIDE DEF r
  <2>7. \A i \in 1..l \div 2 + 1 : i = l \div 2 + 1 \/ i \in 1..l \div 2
    BY <2>1
  <2>8. \A i \in 1..Len(q) : q[i] = r[i]
    BY <1>6, <1>8, <2>1, <2>3, <2>6, <2>7
  <2>9. q = r
    BY <1>6, <2>1, <2>5, <2>6, <2>8, SameSeq
  <2> QED
    BY <2>2, <2>9
<1> QED
  BY <1>2, <1>3, <1>9, <1>10 DEF e, l, p, q

(* One more token: at an odd position it is a byte.                        *)
LEMMA OddsMore ==
    ASSUME NEW o \in Seq(Int), NEW x \in Int
    PROVE  /\ Len(o) % 2 = 0 => Odds(Append(o, x)) = Cat(Odds(o), <<x>>)
           /\ Len(o) % 2 = 1 => Odds(Append(o, x)) = Odds(o)
<1> DEFINE a == Append(o, x)
           l == Len(o)
           f == [i \in 1..(l + 1) \div 2 |-> o[2*i-1]]
           g == [i \in 1..(l + 2) \div 2 |-> a[2*i-1]]
           r == Cat(f, <<x>>)
<1>1. l \in Nat /\ (\A i \in 1..l : o[i] \in Int)
  BY LenProperties, ElementOfSeq
<1>2. a \in Seq(Int) /\ IsAppend(a, o, x)
  BY AppendElements
<1>3. Len(a) = l + 1 /\ a[l + 1] = x /\ (\A i \in 1..l : a[i] = o[i])
  BY <1>2 DEF IsAppend
<1>4. \A i \in 1..l+1 : a[i] \in Int
  BY <1>2, <1>3, ElementOfSeq
<1> HIDE DEF a, l
<1>5. /\ (l + 1) \div 2 \in Nat /\ (l + 2) \div 2 \in Nat
      /\ \A i \in 1..(l + 1) \div 2 : 2*i - 1 \in 1..l /\ i \in 1..(l + 2) \div 2
      /\ \A i \in 1..(l + 2) \div 2 : 2*i - 1 \in 1..l+1
      /\ (l + 1) + 1 = l + 2
  BY <1>1
<1>6. f \in [1..(l + 1) \div 2 -> Int] /\ g \in [1..(l + 2) \div 2 -> Int]
  BY <1>1, <1>4, <1>5
<1>7. /\ \A i \in 1..(l + 1) \div 2 : f[i] = o[2*i-1]
      /\ \A i \in 1..(l + 2) \div 2 : g[i] = a[2*i-1]
  OBVIOUS
<1>8. Odds(o) = f /\ Odds(a) = g
  BY <1>3, <1>5 DEF Odds, l
<1> HIDE DEF f, g
<1>9. /\ f \in Seq(Int) /\ Len(f) = (l + 1) \div 2
      /\ g \in Seq(Int) /\ Len(g) = (l + 2) \div 2
  BY <1>5, <1>6, FunctionIsSeq
<1>10. \A i \in 1..(l + 1) \div 2 : g[i] = f[i]
  BY <1>3, <1>5, <1>7
<1>11. ASSUME l % 2 = 1 PROVE g = f
  <2>1. (l + 2) \div 2 = (l + 1) \div 2
    BY <1>1, <1>11
  <2> QED
    BY <1>9, <1>10, <2>1, SameSeq
<1>12. ASSUME l % 2 = 0 PROVE g = r
  <2> DEFINE k == (l + 1) \div 2
  <2>1. k \in Nat /\ (l + 2) \div 2 = k + 1 /\ 2 * (k + 1) - 1 = l + 1 /\ k + 1 \in 1..(l + 2) \div 2
    BY <1>1, <1>12
  <2> HIDE DEF k
  <2>2. g[k + 1] = x
    BY <1>3, <1>7, <2>1
  <2>4. <<x>> \in Seq(Int) /\ Len(<<x>>) = 1 /\ <<x>>[1] = x /\ 1 \in 1..1
    OBVIOUS
  <2>5. r \in Seq(Int) /\ IsCat(r, f, <<x>>)
    BY <1>9, <2>4, CatParts
  <2>6. /\ Len(r) = k + 1 /\ r[k + 1] = x
        /\ \A i \in 1..k : r[i] = f[i]
    BY <1>9, <2>4, <2>5 DEF IsCat, k
  <2> HIDE DEF r
  <2>7. \A i \in 1..k+1 : i = k + 1 \/ i \in 1..k
    BY <2>1
  <2>8. \A i \in 1..Len(g) : g[i] = r[i]
    BY <1>9, <1>10, <2>1, <2>2, <2>6, <2>7 DEF k
  <2> QED
    BY <1>9, <2>1, <2>5, <2>6, <2>8, SameSeq
<1> QED
  BY <1>8, <1>11, <1>12 DEF a, l

(* What a text means is a sequence of numbers.                             *)
LEMMA MeaningType ==
    ASSUME NEW t \in Seq(Chars)
    PROVE  /\ Meaning(t) \in Seq(Int)
           /\ Uncommented(t) = Invalid => Meaning(t) = <<-1>>
           /\ \A d \in Seq(Digits) : Uncommented(t) = d =>
                 Meaning(t) = IF Len(d) % 2 = 1 THEN <<-1>> ELSE Pairs(d)
<1>1. Uncommented(t) \in Readings
  BY FromSteps, FromType
<1>2. <<-1>> \in Seq(Int)
  OBVIOUS
<1>3. Uncommented(t) = Invalid => Meaning(t) = <<-1>>
  BY DEF Meaning
<1>4. ASSUME NEW d \in Seq(Digits), Uncommented(t) = d
      PROVE  Meaning(t) = IF Len(d) % 2 = 1 THEN <<-1>> ELSE Pairs(d)
  <2>1. d # Invalid
    BY JoinedProps
  <2> QED
    BY <1>4, <2>1, Zenon DEF Meaning, Pairs
<1>5. \A d \in Seq(Digits) : Pairs(d) \in Seq(Int)
  BY PairsType
<1> QED
  BY <1>1, <1>2, <1>3, <1>4, <1>5 DEF Readings

(* The bytes of texts, and of texts with one more.                         *)
LEMMA MeaningOfMore ==
    /\ MeaningOf(<<>>) = <<>>
    /\ \A ts \in Seq(Seq(Chars)) :
          /\ MeaningOf(ts) \in Seq(Int)
          /\ \A t \in Seq(Chars) : MeaningOf(Append(ts, t)) = Cat(MeaningOf(ts), Meaning(t))
<1> DEFINE M(ts) == [i \in 1..Len(ts) |-> Meaning(ts[i])]
<1>1. ASSUME NEW ts \in Seq(Seq(Chars))
      PROVE  /\ M(ts) \in Seq(Seq(Int)) /\ Len(M(ts)) = Len(ts) /\ Len(ts) \in Nat
             /\ \A i \in 1..Len(ts) : M(ts)[i] = Meaning(ts[i])
             /\ MeaningOf(ts) = FlattenSeq(M(ts))
  <2> DEFINE f == M(ts)
  <2>1. Len(ts) \in Nat /\ DOMAIN ts = 1..Len(ts) /\ \A i \in 1..Len(ts) : ts[i] \in Seq(Chars)
    BY LenProperties, ElementOfSeq
  <2>2. \A i \in 1..Len(ts) : Meaning(ts[i]) \in Seq(Int)
    BY <2>1, MeaningType
  <2>3. f \in [1..Len(ts) -> Seq(Int)]
    BY <2>2
  <2>4. \A i \in 1..Len(ts) : f[i] = Meaning(ts[i])
    OBVIOUS
  <2>5. MeaningOf(ts) = FlattenSeq(f)
    BY <2>1 DEF MeaningOf
  <2> HIDE DEF f
  <2>6. f \in Seq(Seq(Int)) /\ Len(f) = Len(ts)
    BY <2>1, <2>3, FunctionIsSeq
  <2> QED
    BY <2>1, <2>4, <2>5, <2>6 DEF f
<1> HIDE DEF M
<1>2. MeaningOf(<<>>) = <<>>
  <2>1. <<>> \in Seq(Seq(Chars)) /\ Len(<<>>) = 0
    OBVIOUS
  <2>2. MeaningOf(<<>>) = FlattenSeq(M(<<>>)) /\ M(<<>>) \in Seq(Seq(Int)) /\ Len(M(<<>>)) = 0
    BY <1>1, <2>1
  <2>3. M(<<>>) = <<>>
    BY <2>2, EmptySeq
  <2> QED
    BY <2>2, <2>3 DEF FlattenSeq
<1>3. ASSUME NEW ts \in Seq(Seq(Chars)) PROVE MeaningOf(ts) \in Seq(Int)
  BY <1>1, FlattenParts
<1>4. ASSUME NEW ts \in Seq(Seq(Chars)), NEW t \in Seq(Chars)
      PROVE  MeaningOf(Append(ts, t)) = Cat(MeaningOf(ts), Meaning(t))
  <2> DEFINE us == Append(ts, t)
             l == Len(ts)
             f == M(ts)
             g == M(us)
  <2>1. us \in Seq(Seq(Chars)) /\ IsAppend(us, ts, t)
    BY AppendElements
  <2>2. l \in Nat /\ Len(us) = l + 1 /\ us[l + 1] = t /\ \A i \in 1..l : us[i] = ts[i]
    BY <2>1 DEF IsAppend
  <2> HIDE DEF us
  <2>3. /\ f \in Seq(Seq(Int)) /\ Len(f) = l /\ MeaningOf(ts) = FlattenSeq(f)
        /\ \A i \in 1..l : f[i] = Meaning(ts[i])
    BY <1>1
  <2>4. /\ g \in Seq(Seq(Int)) /\ Len(g) = Len(us) /\ MeaningOf(us) = FlattenSeq(g)
        /\ \A i \in 1..Len(us) : g[i] = Meaning(us[i])
    BY <1>1, <2>1
  <2> HIDE DEF f, g, l
  <2>5. l + 1 \in 1..l+1 /\ \A i \in 1..l : i \in 1..l+1
    BY <2>2
  <2>6. IsAppend(g, f, Meaning(t))
    <3>1. Len(g) = Len(f) + 1 /\ Len(f) \in Nat
      BY <2>2, <2>3, <2>4
    <3>2. g[Len(f) + 1] = Meaning(t)
      BY <2>2, <2>3, <2>4, <2>5
    <3>3. \A i \in 1..Len(f) : g[i] = f[i]
      BY <2>2, <2>3, <2>4, <2>5
    <3> QED
      BY <3>1, <3>2, <3>3 DEF IsAppend
  <2>7. FlattenSeq(g) = Cat(FlattenSeq(f), Meaning(t))
    BY <2>3, <2>4, <2>6, MeaningType, FlattenAppend
  <2> QED
    BY <2>3, <2>4, <2>7 DEF us
<1> QED
  BY <1>2, <1>3, <1>4

-----------------------------------------------------------------------------
(* Texts without **, the digit that waits for a second one, and a last     *)
(* text without a meaning.                                                 *)
Plain(ts) == \A i \in DOMAIN ts : ~DoubleStar(ts[i])
Pending(p, d) == p = IF Len(d) % 2 = 1 THEN HexVal(d[Len(d)]) ELSE -1
LastInvalid(ts) == ts # <<>> /\ Meaning(ts[Len(ts)]) = <<-1>>

(* The iterator is inside the last of the texts: it has the digits d, and  *)
(* the array holds the bytes of the texts before and of the pairs of d.    *)
Inside(ts, s, p, b) ==
    \E ps \in Seq(Seq(Chars)), t \in Seq(Chars), d \in Seq(Digits) :
        /\ ts = Append(ps, t) /\ Scanned(t, s, d) /\ Pending(p, d)
        /\ b = Cat(MeaningOf(ps), Pairs(d))

(* That us are the texts ts with the character c at the end of the last.   *)
Grown(us, ts, c) ==
    \A ps \in Seq(Seq(Chars)), t \in Seq(Chars) :
        ts = Append(ps, t) => us = Append(ps, Append(t, c)) /\ ts[Len(ts)] = t

PlainGrown(us, ts, c) == Plain(us) => Plain(ts) /\ ~DoubleStar(Append(ts[Len(ts)], c))

(* The last of the texts gets one more character.                          *)
LEMMA TextsGrow ==
    ASSUME NEW ts \in Seq(Seq(Chars)), ts # <<>>, NEW c \in Chars, NEW us,
           us = [ts EXCEPT ![Len(ts)] = Append(@, c)]
    PROVE  /\ us \in Seq(Seq(Chars)) /\ Len(us) = Len(ts) /\ us # <<>>
           /\ PlainGrown(us, ts, c)
           /\ Grown(us, ts, c)
<1> DEFINE l == Len(ts)
           x == ts[l]
           y == Append(x, c)
<1>1. /\ l \in Nat /\ DOMAIN ts = 1..l /\ (\A i \in 1..l : ts[i] \in Seq(Chars)) /\ l # 0
      /\ ts \in [1..l -> Seq(Chars)]
  BY LenProperties, ElementOfSeq, EmptySeq
<1>2. l \in 1..l
  BY <1>1
<1>3. /\ x \in Seq(Chars) /\ y \in Seq(Chars) /\ Len(x) \in Nat /\ Len(y) = Len(x) + 1
      /\ \A i \in 1..Len(x) : y[i] = x[i]
  BY <1>1, <1>2, OneMore
<1>4. /\ DOMAIN us = 1..l /\ us[l] = y /\ (\A i \in 1..l : i # l => us[i] = ts[i])
      /\ us \in [1..l -> Seq(Chars)]
  BY <1>1, <1>2, <1>3
<1> HIDE DEF l
<1>5. us \in Seq(Seq(Chars)) /\ Len(us) = l
  BY <1>1, <1>4, FunctionIsSeq
<1>6. us # <<>>
  BY <1>1, <1>5, EmptySeq
<1>7. DoubleStar(x) => DoubleStar(y)
  <2> SUFFICES ASSUME NEW i \in 1..Len(x)-1, x[i] = "*", x[i+1] = "*" PROVE DoubleStar(y)
    BY DEF DoubleStar
  <2> HIDE DEF x, y
  <2>1. i \in 1..Len(x) /\ i + 1 \in 1..Len(x) /\ i \in 1..Len(y)-1
    BY <1>3
  <2> QED
    BY <1>3, <2>1 DEF DoubleStar
<1> HIDE DEF x, y
<1>8. ASSUME Plain(us) PROVE Plain(ts) /\ ~DoubleStar(y)
  <2>1. ~DoubleStar(y)
    BY <1>2, <1>4, <1>8, Zenon DEF Plain
  <2>2. ASSUME NEW i \in 1..l PROVE ~DoubleStar(ts[i])
    <3>1. CASE i = l
      BY <2>1, <1>7, <3>1, Zenon DEF x
    <3>2. CASE i # l
      BY <1>4, <1>8, <3>2, Zenon DEF Plain
    <3> QED
      BY <3>1, <3>2
  <2> QED
    BY <1>1, <2>1, <2>2, Zenon DEF Plain
<1>9. ASSUME NEW ps \in Seq(Seq(Chars)), NEW t \in Seq(Chars), ts = Append(ps, t)
      PROVE  us = Append(ps, Append(t, c)) /\ x = t
  <2> DEFINE z == Append(t, c)
             vs == Append(ps, z)
             k == Len(ps)
  <2>1. z \in Seq(Chars)
    BY OneMore
  <2> HIDE DEF z
  <2>2. IsAppend(ts, ps, t) /\ IsAppend(vs, ps, z) /\ vs \in Seq(Seq(Chars))
    BY <1>9, <2>1, AppendElements, Zenon
  <2> HIDE DEF vs
  <2>3. /\ k \in Nat /\ l = k + 1 /\ Len(vs) = k + 1 /\ ts[k + 1] = t /\ vs[k + 1] = z
        /\ (\A i \in 1..k : ts[i] = ps[i]) /\ (\A i \in 1..k : vs[i] = ps[i])
    BY <2>2, Zenon DEF IsAppend, l
  <2> HIDE DEF k
  <2>4. Len(vs) = l /\ x = t
    BY <2>3, Zenon DEF x
  <2>5. \A i \in 1..l : i # l => i \in 1..k
    BY <2>3
  <2>6. ASSUME NEW i \in 1..l PROVE us[i] = vs[i]
    <3>1. CASE i = l
      BY <1>4, <2>3, <2>4, <3>1, Zenon DEF y, z
    <3>2. CASE i # l
      BY <1>4, <2>3, <2>5, <3>2, Zenon
    <3> QED
      BY <3>1, <3>2
  <2>7. Len(us) = Len(vs) /\ \A i \in 1..Len(us) : us[i] = vs[i]
    BY <1>5, <2>4, <2>6, Zenon
  <2>8. us = vs
    BY <1>5, <2>2, <2>7, SameSeq, Zenon
  <2> QED
    BY <2>4, <2>8, Zenon DEF vs, z
<1>10. Grown(us, ts, c)
  BY <1>9, Zenon DEF l, x, Grown
<1> QED
  BY <1>5, <1>6, <1>8, <1>10, Zenon DEF l, x, y, PlainGrown

(* Without ** now, without ** before.                                      *)
IsLonger(us, ts, c) == us = [ts EXCEPT ![Len(ts)] = Append(@, c)]
LEMMA PlainBefore ==
    ASSUME NEW ts \in Seq(Seq(Chars)), ts # <<>>, NEW c \in Chars, NEW us,
           IsLonger(us, ts, c), Plain(us)
    PROVE  Plain(ts)
<1>0. us = [ts EXCEPT ![Len(ts)] = Append(@, c)]
  BY Zenon DEF IsLonger
<1>1. PlainGrown(us, ts, c)
  BY <1>0, TextsGrow, Zenon
<1> QED
  BY <1>1, Zenon DEF PlainGrown

(* The last of texts is the one that was appended.                         *)
LEMMA LastOf ==
    ASSUME NEW ps \in Seq(Seq(Chars)), NEW t \in Seq(Chars)
    PROVE  /\ Append(ps, t) \in Seq(Seq(Chars)) /\ Append(ps, t) # <<>>
           /\ Append(ps, t)[Len(Append(ps, t))] = t
<1> DEFINE u == Append(ps, t)
<1>1. u \in Seq(Seq(Chars)) /\ IsAppend(u, ps, t)
  BY AppendElements, Zenon
<1> HIDE DEF u
<1>2. Len(ps) \in Nat /\ Len(u) = Len(ps) + 1 /\ u[Len(ps) + 1] = t
  BY <1>1, Zenon DEF IsAppend
<1>3. u[Len(u)] = t
  BY <1>2, Zenon
<1>4. u # <<>>
  <2> DEFINE k == Len(ps)
             l == Len(u)
  <2>1. k \in Nat /\ l = k + 1
    BY <1>2
  <2> HIDE DEF k, l
  <2>2. l # 0
    BY <2>1
  <2>3. Len(<<>>) = 0
    OBVIOUS
  <2> QED
    BY <2>2, <2>3, Zenon DEF l
<1> QED
  BY <1>1, <1>3, <1>4, Zenon DEF u

(* A new literal.                                                          *)
LEMMA InsideNew ==
    ASSUME NEW ts \in Seq(Seq(Chars))
    PROVE  Inside(Append(ts, <<>>), "Normal", -1, MeaningOf(ts))
<1>1. <<>> \in Seq(Chars) /\ <<>> \in Seq(Digits)
  OBVIOUS
<1>2. Pending(-1, <<>>)
  BY DEF Pending
<1>3. Pairs(<<>>) = <<>>
  <2>1. Pairs(<<>>) \in Seq(Int) /\ Len(Pairs(<<>>)) = Len(<<>>) \div 2
    BY <1>1, PairsType
  <2>2. Len(Pairs(<<>>)) = 0
    BY <2>1
  <2> QED
    BY <2>1, <2>2, EmptySeq
<1>4. MeaningOf(ts) = Cat(MeaningOf(ts), Pairs(<<>>))
  BY <1>3, MeaningOfMore, ConcatEmptySeq DEF Cat
<1> QED
  BY <1>1, <1>2, <1>4, ScanStart, Zenon DEF Inside

(* The digit that waits, if any.                                           *)
LEMMA PendingNone ==
    ASSUME NEW d \in Seq(Digits), NEW p, Pending(p, d)
    PROVE  /\ p = -1 <=> Len(d) % 2 = 0
           /\ p # -1 <=> Len(d) % 2 = 1
           /\ Len(d) % 2 = 1 => p = HexVal(d[Len(d)])
<1> DEFINE l == Len(d)
<1>1. l \in Nat
  BY LenProperties
<1>2. l % 2 = 0 \/ l % 2 = 1
  BY <1>1
<1>3. l % 2 = 1 => HexVal(d[l]) \in 0..15
  <2> SUFFICES ASSUME l % 2 = 1 PROVE HexVal(d[l]) \in 0..15
    OBVIOUS
  <2>1. l \in 1..l
    BY <1>1
  <2>2. d[l] \in Digits
    BY <2>1, ElementOfSeq
  <2> QED
    BY <2>2, DigitValue
<1> QED
  BY <1>2, <1>3 DEF Pending

(* The parity of the number of digits.                                     *)
LEMMA Parity ==
    ASSUME NEW l \in Nat
    PROVE  /\ l % 2 = 0 => (l + 1) % 2 = 1
           /\ l % 2 = 1 => (l + 1) % 2 # 1
OBVIOUS

(* Associativity for numbers.                                              *)
LEMMA CatNumbers ==
    ASSUME NEW a \in Seq(Int), NEW b \in Seq(Int), NEW c \in Seq(Int)
    PROVE  Cat(Cat(a, b), c) = Cat(a, Cat(b, c))
BY CatAny

(* One more digit, and the bytes and the digit that waits after it.        *)
DigitMore(d, c, p, m) ==
    /\ Cat(d, <<c>>) \in Seq(Digits)
    /\ p = -1 => /\ Pending(HexVal(c), Cat(d, <<c>>))
                 /\ Cat(m, Pairs(d)) = Cat(m, Pairs(Cat(d, <<c>>)))
    /\ p # -1 => /\ Pending(-1, Cat(d, <<c>>))
                 /\ Cat(Cat(m, Pairs(d)), <<p * 16 + HexVal(c)>>) = Cat(m, Pairs(Cat(d, <<c>>)))

(* It completes a byte, or it waits.                                       *)
LEMMA PendingMore ==
    ASSUME NEW d \in Seq(Digits), NEW c \in Digits, NEW p, Pending(p, d), NEW m \in Seq(Int)
    PROVE  DigitMore(d, c, p, m)
<1> DEFINE e == Cat(d, <<c>>)
           l == Len(d)
           x == p * 16 + HexVal(c)
<1>1. /\ e \in Seq(Digits) /\ Len(e) = l + 1 /\ l \in Nat /\ e[l + 1] = c
      /\ l % 2 = 0 => Pairs(e) = Pairs(d)
      /\ l % 2 = 1 => /\ d[l] \in Digits
                      /\ Pairs(e) = Cat(Pairs(d), <<16 * HexVal(d[l]) + HexVal(c)>>)
  BY PairsMore
<1> HIDE DEF e
<1>2. /\ p = -1 <=> l % 2 = 0
      /\ p # -1 <=> l % 2 = 1
      /\ l % 2 = 1 => p = HexVal(d[l])
  BY PendingNone
<1> HIDE DEF l
<1>3. ASSUME p = -1 PROVE Pending(HexVal(c), e) /\ Pairs(e) = Pairs(d)
  <2>1. Len(e) % 2 = 1
    BY <1>1, <1>2, <1>3, Parity, Zenon
  <2>2. e[Len(e)] = c
    BY <1>1
  <2> QED
    BY <1>1, <1>2, <1>3, <2>1, <2>2 DEF Pending
<1>4. ASSUME p # -1
      PROVE  Pending(-1, e) /\ Cat(Cat(m, Pairs(d)), <<x>>) = Cat(m, Pairs(e))
  <2>1. Len(e) % 2 # 1
    BY <1>1, <1>2, <1>4, Parity, Zenon
  <2>2. Pending(-1, e)
    BY <2>1 DEF Pending
  <2>3. p = HexVal(d[l]) /\ d[l] \in Digits
    BY <1>1, <1>2, <1>4
  <2>4. p \in 0..15 /\ HexVal(c) \in 0..15
    BY <2>3, DigitValue
  <2>5. x = 16 * p + HexVal(c) /\ x \in Int
    BY <2>4, SMTT(30)
  <2>6. Pairs(e) = Cat(Pairs(d), <<x>>)
    BY <1>1, <1>2, <1>4, <2>3, <2>5
  <2> HIDE DEF x
  <2>7. <<x>> \in Seq(Int) /\ Pairs(d) \in Seq(Int)
    BY <2>5, PairsType
  <2>8. Cat(Cat(m, Pairs(d)), <<x>>) = Cat(m, Cat(Pairs(d), <<x>>))
    BY <2>7, CatNumbers, Zenon
  <2> QED
    BY <2>2, <2>6, <2>8
<1> QED
  BY <1>1, <1>3, <1>4 DEF e, DigitMore

(* A literal ends.                                                         *)
LEMMA InsideEnd ==
    ASSUME NEW ts, NEW s, NEW p, NEW b, Inside(ts, s, p, b)
    PROVE  /\ OpenComment(s) \/ p # -1 => LastInvalid(ts)
           /\ ~OpenComment(s) /\ p = -1 => b = MeaningOf(ts)
<1>1. PICK ps \in Seq(Seq(Chars)), t \in Seq(Chars), d \in Seq(Digits) :
        /\ ts = Append(ps, t) /\ Scanned(t, s, d) /\ Pending(p, d)
        /\ b = Cat(MeaningOf(ps), Pairs(d))
  BY Zenon DEF Inside
<1>2. ts # <<>> /\ ts[Len(ts)] = t
  BY <1>1, LastOf, Zenon
<1>3. MeaningOf(ts) = Cat(MeaningOf(ps), Meaning(t))
  BY <1>1, MeaningOfMore, Zenon
<1>4. /\ OpenComment(s) => Uncommented(t) = Invalid
      /\ ~OpenComment(s) => Uncommented(t) = d
  BY <1>1, ScanEnd, Zenon
<1>5. /\ Uncommented(t) = Invalid => Meaning(t) = <<-1>>
      /\ Uncommented(t) = d => Meaning(t) = IF Len(d) % 2 = 1 THEN <<-1>> ELSE Pairs(d)
  BY MeaningType, Zenon
<1>6. /\ p = -1 <=> Len(d) % 2 = 0
      /\ p # -1 <=> Len(d) % 2 = 1
  BY <1>1, PendingNone
<1>7. OpenComment(s) \/ p # -1 => Meaning(t) = <<-1>>
  BY <1>4, <1>5, <1>6, Zenon
<1>8. ~OpenComment(s) /\ p = -1 => Meaning(t) = Pairs(d)
  BY <1>4, <1>5, <1>6, Zenon
<1> QED
  BY <1>1, <1>2, <1>3, <1>7, <1>8, Zenon DEF LastInvalid

(* A literal has one more character.                                       *)
LEMMA InsideChar ==
    ASSUME NEW ts \in Seq(Seq(Chars)), ts # <<>>, NEW c \in Chars, NEW us,
           us = [ts EXCEPT ![Len(ts)] = Append(@, c)], Plain(us),
           NEW s \in FilterStates, NEW p, NEW b, Inside(ts, s, p, b)
    PROVE  /\ Transition(s, c) = "panic" => LastInvalid(us)
           /\ Transition(s, c) # "panic" /\ ~Passes(s, c) => Inside(us, Transition(s, c), p, b)
           /\ Passes(s, c) /\ ~IsAllowed(c) => LastInvalid(us)
           /\ Passes(s, c) /\ IsAllowed(c) /\ ~IsHex(c) => Inside(us, Transition(s, c), p, b)
           /\ Passes(s, c) /\ IsHex(c) /\ p = -1 => Inside(us, Transition(s, c), HexVal(c), b)
           /\ Passes(s, c) /\ IsHex(c) /\ p # -1 =>
                 Inside(us, Transition(s, c), -1, Cat(b, <<p * 16 + HexVal(c)>>))
<1>1. PICK ps \in Seq(Seq(Chars)), t \in Seq(Chars), d \in Seq(Digits) :
        /\ ts = Append(ps, t) /\ Scanned(t, s, d) /\ Pending(p, d)
        /\ b = Cat(MeaningOf(ps), Pairs(d))
  BY Zenon DEF Inside
<1> DEFINE v == Append(t, c)
           s1 == Transition(s, c)
<1>2. us = Append(ps, v) /\ ~DoubleStar(v) /\ v \in Seq(Chars)
  <2>1. us = Append(ps, v) /\ ts[Len(ts)] = t
    <3>1. Grown(us, ts, c)
      BY TextsGrow, Zenon
    <3>2. ts = Append(ps, t)
      BY <1>1
    <3> QED
      BY <3>1, <3>2, Zenon DEF Grown
  <2>2. ~DoubleStar(Append(ts[Len(ts)], c))
    <3>1. PlainGrown(us, ts, c)
      BY TextsGrow, Zenon
    <3> QED
      BY <3>1, Zenon DEF PlainGrown
  <2>3. v \in Seq(Chars)
    BY OneMore, Zenon
  <2> QED
    BY <2>1, <2>2, <2>3, Zenon
<1>3. GoesOn(t, s, c, d)
  BY <1>1, <1>2, ScanChar, Zenon
<1>4. us # <<>> /\ us[Len(us)] = v
  <2>1. Append(ps, v) # <<>> /\ Append(ps, v)[Len(Append(ps, v))] = v
    BY <1>2, LastOf, Zenon
  <2> QED
    BY <1>2, <2>1, Zenon
<1>5. Uncommented(v) = Invalid => LastInvalid(us)
  BY <1>2, <1>4, MeaningType, Zenon DEF LastInvalid
<1>6. Scanned(v, s1, d) => Inside(us, s1, p, b)
  BY <1>1, <1>2, Zenon DEF Inside
<1>7. ASSUME IsHex(c), Scanned(v, s1, d \o <<c>>)
      PROVE  /\ p = -1 => Inside(us, s1, HexVal(c), b)
             /\ p # -1 => Inside(us, s1, -1, Cat(b, <<p * 16 + HexVal(c)>>))
  <2> DEFINE e == Cat(d, <<c>>)
  <2>1. c \in Digits
    BY <1>7 DEF IsHex, Digits
  <2>2. Scanned(v, s1, e)
    BY <1>7, Zenon DEF Cat
  <2>3. /\ e \in Seq(Digits)
        /\ p = -1 => /\ Pending(HexVal(c), e)
                     /\ Cat(MeaningOf(ps), Pairs(d)) = Cat(MeaningOf(ps), Pairs(e))
        /\ p # -1 => /\ Pending(-1, e)
                     /\ Cat(Cat(MeaningOf(ps), Pairs(d)), <<p * 16 + HexVal(c)>>)
                          = Cat(MeaningOf(ps), Pairs(e))
    <3>1. MeaningOf(ps) \in Seq(Int)
      BY MeaningOfMore, Zenon
    <3>2. DigitMore(d, c, p, MeaningOf(ps))
      BY <1>1, <2>1, <3>1, PendingMore, Zenon
    <3> QED
      BY <3>2, Zenon DEF DigitMore
  <2> HIDE DEF e, v, s1
  <2>4. p = -1 => Inside(us, s1, HexVal(c), b)
    BY <1>1, <1>2, <2>2, <2>3, Zenon DEF Inside
  <2>5. p # -1 => Inside(us, s1, -1, Cat(b, <<p * 16 + HexVal(c)>>))
    BY <1>1, <1>2, <2>2, <2>3, Zenon DEF Inside
  <2> QED
    BY <2>4, <2>5
<1>8. Passes(s, c) => Transition(s, c) # "panic"
  BY DEF Passes, Transition
<1> QED
  BY <1>3, <1>5, <1>6, <1>7, <1>8, Zenon DEF GoesOn

-----------------------------------------------------------------------------
(* The token that is read as a literal.                                    *)
IsString(x) == x.kind = "string"

(* What ignore_groups makes of the tokens of a call: the last of the       *)
(* leading groups is opened and the rest lost, and without one nothing     *)
(* changes.                                                                *)
LEMMA GroupsRead ==
    ASSUME NEW ts \in Seq(Tokens)
    PROVE  /\ IgnoreGroups(ts) \in Seq(Tokens)
           /\ ts = <<>> \/ ~IsGroup(ts[1]) => IgnoreGroups(ts) = ts
           /\ Len(ts) = 1 /\ IsGroup(ts[1]) => IgnoreGroups(ts) = ts[1].stream
<1> DEFINE l == Len(ts)
           leading == {k \in 1..l : \A i \in 1..k : IsGroup(ts[i])}
           last == CHOOSE k \in leading : k + 1 \notin leading
<1>1. /\ l \in Nat /\ DOMAIN ts = 1..l /\ (\A i \in 1..l : ts[i] \in Tokens)
      /\ ts # <<>> => l >= 1
      /\ ts = <<>> => l = 0
  BY LenProperties, ElementOfSeq, EmptySeq
<1>2. IgnoreGroups(ts) = IF leading = {} THEN ts ELSE ts[last].stream
  BY Zenon DEF IgnoreGroups
<1> HIDE DEF l
<1>3. CASE ts = <<>> \/ ~IsGroup(ts[1])
  <2>1. leading = {}
    <3> SUFFICES ASSUME NEW k \in leading PROVE FALSE
      OBVIOUS
    <3>1. 1 \in 1..k /\ k \in 1..l
      BY <1>1
    <3>2. IsGroup(ts[1]) /\ l >= 1
      BY <1>1, <3>1
    <3> QED
      BY <1>1, <1>3, <3>2
  <2>2. ~(Len(ts) = 1 /\ IsGroup(ts[1]))
    BY <1>1, <1>3 DEF l
  <2> QED
    BY <1>2, <2>1, <2>2
<1>4. CASE ts # <<>> /\ IsGroup(ts[1])
  <2> DEFINE S == {j \in 1..l+1 : j \notin leading}
  <2>1. 1 \in leading
    BY <1>1, <1>4
  <2>2. S \in SUBSET (1..l+1) /\ l + 1 \in S
    BY <1>1
  <2>3. PICK j \in S : \A k \in S : j <= k
    <3>1. 1 \in Nat /\ l + 1 \in Nat
      BY <1>1
    <3> HIDE DEF S
    <3>2. S # {}
      BY <2>2
    <3> QED
      BY <2>2, <3>1, <3>2, LeastExists, Zenon
  <2>4. j # 1 /\ j \in 1..l+1 /\ j \notin leading
    BY <2>1
  <2>5. j - 1 \in 1..l /\ (j - 1) + 1 = j /\ j - 1 \in 1..l+1
    BY <1>1, <2>4
  <2>6. j - 1 \in leading /\ (j - 1) + 1 \notin leading
    BY <1>1, <2>3, <2>4, <2>5
  <2>7. leading \in SUBSET (1..l)
    OBVIOUS
  <2> HIDE DEF leading, S
  <2>8. last \in leading /\ last + 1 \notin leading
    BY <2>6, Zenon
  <2>9. leading # {} /\ last \in 1..l
    BY <2>6, <2>7, <2>8
  <2> HIDE DEF last
  <2>10. IgnoreGroups(ts) = ts[last].stream
    BY <1>2, <2>9
  <2>11. ts[last].stream \in Seq(Tokens)
    BY <1>1, <2>9, HexAssumption DEF IsToken
  <2>12. l = 1 => last = 1
    BY <2>9
  <2> QED
    BY <1>4, <2>10, <2>11, <2>12 DEF l
<1> QED
  BY <1>1, <1>3, <1>4

-----------------------------------------------------------------------------
(* The inductive invariant.                                                *)
HexTypes ==
    /\ phase \in {"start", "tokens", "reading", "done", "panic"}
    /\ given \in Seq(Tokens) /\ queue \in Seq(Tokens)
    /\ texts \in Seq(Seq(Chars))
    /\ state \in FilterStates
    /\ p1 \in -1..15 /\ is_punct \in BOOLEAN
    /\ out \in Seq(-1..255)

(* Commas are at the even positions, and one is due after a byte.          *)
ArrayOK(o, b) ==
    /\ \A i \in 1..Len(o) : o[i] = Comma <=> i % 2 = 0
    /\ Len(o) % 2 = 1 <=> b
HexArray ==
    /\ ArrayOK(out, is_punct)
    /\ is_punct => phase = "reading"

(* What is left of the tokens u after n literals, and a token refused.     *)
Rest(q, u, n) ==
    /\ Len(q) = Len(u) - n
    /\ \A i \in 1..Len(q) : q[i] = u[n + i]
Refused(u, n) == n + 1 \in 1..Len(u) /\ ~IsString(u[n + 1])

(* The texts belong to the first tokens, which are literals, and the queue *)
(* is the rest of them.                                                    *)
QueueOK(ph, u, q, n) ==
    /\ n <= Len(u)
    /\ \A i \in 1..n : IsString(u[i])
    /\ ph \in {"tokens", "reading", "done"} => Rest(q, u, n)
    /\ ph = "done" => n = Len(u)
HexQueue ==
    /\ QueueOK(phase, IgnoreGroups(given), queue, Len(texts))
    /\ phase = "reading" => texts # <<>>
    /\ phase = "start" => given = <<>> /\ texts = <<>> /\ out = <<>>

(* What the array holds, and why a call was refused.                       *)
HexMeans ==
    /\ Plain(texts) =>
          /\ phase \in {"tokens", "done"} => Odds(out) = MeaningOf(texts)
          /\ phase = "reading" => Inside(texts, state, p1, Odds(out))
    /\ phase = "panic" => \/ Refused(IgnoreGroups(given), Len(texts))
                          \/ Plain(texts) => LastInvalid(texts)

HexInv == HexTypes /\ HexArray /\ HexQueue /\ HexMeans

(* One more token of the array.                                            *)
LEMMA ArrayMore ==
    ASSUME NEW o \in Seq(-1..255), NEW b \in BOOLEAN, NEW x \in -1..255, ArrayOK(o, b),
           x = Comma <=> b
    PROVE  ArrayOK(Append(o, x), ~b) /\ Append(o, x) \in Seq(-1..255)
<1> DEFINE a == Append(o, x)
           l == Len(o)
<1>1. a \in Seq(-1..255) /\ IsAppend(a, o, x)
  BY AppendElements
<1>2. l \in Nat /\ Len(a) = l + 1 /\ a[l + 1] = x /\ \A i \in 1..l : a[i] = o[i]
  BY <1>1 DEF IsAppend
<1> HIDE DEF a
<1>3. (\A i \in 1..l : o[i] = Comma <=> i % 2 = 0) /\ (l % 2 = 1 <=> b)
  BY DEF ArrayOK
<1> HIDE DEF l
<1>4. (l + 1) % 2 = 0 <=> l % 2 = 1
  BY <1>2
<1>5. (l + 1) % 2 = 1 <=> ~(l % 2 = 1)
  BY <1>2
<1>6. \A i \in 1..l+1 : i = l + 1 \/ i \in 1..l
  BY <1>2
<1>7. a[l + 1] = Comma <=> (l + 1) % 2 = 0
  BY <1>2, <1>3, <1>4
<1>8. \A i \in 1..l+1 : a[i] = Comma <=> i % 2 = 0
  BY <1>2, <1>3, <1>6, <1>7
<1> QED
  BY <1>1, <1>2, <1>3, <1>5, <1>8 DEF a, ArrayOK

(* What one character does to the digit reader.                            *)
LEMMA ReaderStep ==
    ASSUME HexTypes, NEW c \in Chars, NextChar(c)
    PROVE  /\ given' = given /\ queue' = queue
           /\ phase = "reading" /\ is_punct = FALSE
           /\ texts' = [texts EXCEPT ![Len(texts)] = Append(@, c)]
           /\ \/ /\ phase' = "panic" /\ UNCHANGED <<p1, is_punct, out>>
                 /\ \/ Transition(state, c) = "panic" /\ state' = state
                    \/ /\ Transition(state, c) # "panic" /\ state' = Transition(state, c)
                       /\ Passes(state, c) /\ ~IsAllowed(c)
              \/ /\ phase' = "reading" /\ UNCHANGED <<p1, is_punct, out>>
                 /\ Transition(state, c) # "panic" /\ state' = Transition(state, c)
                 /\ Passes(state, c) => IsAllowed(c) /\ ~IsHex(c)
              \/ /\ phase' = "reading" /\ UNCHANGED <<is_punct, out>>
                 /\ Transition(state, c) # "panic" /\ state' = Transition(state, c)
                 /\ Passes(state, c) /\ IsHex(c) /\ p1 = -1 /\ p1' = HexVal(c)
              \/ /\ phase' = "reading"
                 /\ Transition(state, c) # "panic" /\ state' = Transition(state, c)
                 /\ Passes(state, c) /\ IsHex(c) /\ p1 # -1 /\ p1' = -1
                 /\ is_punct' = TRUE /\ out' = Append(out, p1 * 16 + HexVal(c))
<1>1. CASE Transition(state, c) = "panic"
  BY <1>1, Zenon DEF NextChar, HexTypes
<1>2. CASE Transition(state, c) # "panic" /\ ~Passes(state, c)
  BY <1>2, Zenon DEF NextChar, HexTypes
<1>3. CASE Transition(state, c) # "panic" /\ Passes(state, c)
  <2>1. /\ NextHexVal(c) /\ state' = Transition(state, c)
        /\ phase = "reading" /\ is_punct = FALSE /\ given' = given /\ queue' = queue
        /\ texts' = [texts EXCEPT ![Len(texts)] = Append(@, c)]
    BY <1>3, Zenon DEF NextChar, HexTypes
  <2>2. CASE ~IsAllowed(c)
    BY <1>3, <2>1, <2>2, Zenon DEF NextHexVal
  <2>3. CASE IsAllowed(c) /\ ~IsHex(c)
    BY <1>3, <2>1, <2>3, Zenon DEF NextHexVal
  <2>4. CASE IsAllowed(c) /\ IsHex(c) /\ p1 = -1
    BY <1>3, <2>1, <2>4, Zenon DEF NextHexVal
  <2>5. CASE IsAllowed(c) /\ IsHex(c) /\ p1 # -1
    BY <1>3, <2>1, <2>5, Zenon DEF NextHexVal
  <2> QED
    BY <2>2, <2>3, <2>4, <2>5, Zenon
<1> QED
  BY <1>1, <1>2, <1>3, Zenon

(* The state of the filter after a character.                              *)
LEMMA TransitionType ==
    ASSUME NEW s \in FilterStates, NEW c
    PROVE  Transition(s, c) \in FilterStates \cup {"panic"}
BY DEF Transition, FilterStates

(* The tokens a call may have.                                             *)
LEMMA SeqOfTokens ==
    ASSUME NEW ts \in SeqOf(Tokens, MaxTokens)
    PROVE  ts \in Seq(Tokens)
<1>1. PICK m \in 0..MaxTokens : ts \in [1..m -> Tokens]
  BY DEF SeqOf
<1>2. m \in Nat
  BY HexAssumption
<1> QED
  BY <1>1, <1>2, FunctionIsSeq

(* Arrays are sequences of numbers.                                        *)
LEMMA ArrayNumbers ==
    ASSUME NEW o \in Seq(-1..255)
    PROVE  o \in Seq(Int)
<1> DEFINE S == -1..255
<1>1. Len(o) \in Nat /\ o \in [1..Len(o) -> S]
  BY LenProperties, SMTT(20), ZenonT(40)
<1>2. o \in [1..Len(o) -> Int]
  <2>1. \A x \in S : x \in Int
    OBVIOUS
  <2> HIDE DEF S
  <2> QED
    BY <1>1, <2>1
<1> QED
  BY <1>1, <1>2, FunctionIsSeq

(* The state of a new iterator.                                            *)
LEMMA FreshTypes == "Normal" \in FilterStates /\ -1 \in -1..15 /\ FALSE \in BOOLEAN
BY DEF FilterStates

(* The types are kept.                                                     *)
LEMMA HexTypesStep ==
    ASSUME HexTypes, HexQueue, [HexNext]_hexVars
    PROVE  HexTypes'
<1>1. ASSUME NEW ts \in SeqOf(Tokens, MaxTokens), Hex(ts) PROVE HexTypes'
  <2>1. ts \in Seq(Tokens) /\ IgnoreGroups(ts) \in Seq(Tokens)
    BY SeqOfTokens, GroupsRead, Zenon
  <2>2. phase' = "tokens" /\ given' \in Seq(Tokens) /\ queue' \in Seq(Tokens)
    BY <1>1, <2>1, Zenon DEF Hex
  <2>3. UNCHANGED <<texts, state, p1, is_punct, out>>
    BY <1>1 DEF Hex
  <2> QED
    BY <2>2, <2>3 DEF HexTypes
<1>2. CASE New
  <2>1. queue # <<>> /\ queue' = Tail(queue) /\ given' = given /\ out' = out
    BY <1>2 DEF New
  <2>2. queue' \in Seq(Tokens)
    BY <2>1, HeadTailProperties DEF HexTypes
  <2>3. CASE IsString(Head(queue))
    <3>1. phase' = "reading" /\ texts' = Append(texts, <<>>) /\ Fresh
      BY <1>2, <2>3 DEF New, IsString
    <3>2. <<>> \in Seq(Chars)
      OBVIOUS
    <3>3. texts' \in Seq(Seq(Chars))
      BY <3>1, <3>2, LastOf DEF HexTypes
    <3>4. state' \in FilterStates /\ p1' \in -1..15 /\ is_punct' \in BOOLEAN
      BY <3>1, FreshTypes, Zenon DEF Fresh
    <3> QED
      BY <2>1, <2>2, <3>1, <3>3, <3>4 DEF HexTypes
  <2>4. CASE ~IsString(Head(queue))
    <3>1. phase' = "panic" /\ UNCHANGED <<texts, state, p1, is_punct>>
      BY <1>2, <2>4 DEF New, IsString
    <3> QED
      BY <2>1, <2>2, <3>1 DEF HexTypes
  <2> QED
    BY <2>3, <2>4
<1>3. CASE NextComma
  <2>1. /\ out' = Append(out, Comma) /\ is_punct' = FALSE
        /\ UNCHANGED <<phase, given, queue, texts, state, p1>>
    BY <1>3 DEF NextComma
  <2>2. out' \in Seq(-1..255)
    <3>1. Comma \in -1..255
      BY DEF Comma
    <3> QED
      BY <2>1, <3>1, AppendElements DEF HexTypes
  <2> QED
    BY <2>1, <2>2 DEF HexTypes
<1>4. ASSUME NEW c \in Chars, NextChar(c) PROVE HexTypes'
  <2>1. /\ given' = given /\ queue' = queue /\ phase = "reading"
        /\ texts' = [texts EXCEPT ![Len(texts)] = Append(@, c)]
        /\ phase' \in {"panic", "reading"}
        /\ state' = state \/ (Transition(state, c) # "panic" /\ state' = Transition(state, c))
        /\ \/ UNCHANGED <<p1, is_punct, out>>
           \/ UNCHANGED <<is_punct, out>> /\ IsHex(c) /\ p1' = HexVal(c)
           \/ /\ IsHex(c) /\ p1 # -1 /\ p1' = -1 /\ is_punct' = TRUE
              /\ out' = Append(out, p1 * 16 + HexVal(c))
    BY <1>4, ReaderStep
  <2>2. texts' \in Seq(Seq(Chars))
    BY <2>1, TextsGrow DEF HexTypes, HexQueue
  <2>3. state' \in FilterStates
    BY <2>1, TransitionType DEF HexTypes
  <2>4. p1' \in -1..15 /\ is_punct' \in BOOLEAN /\ out' \in Seq(-1..255)
    <3>1. CASE UNCHANGED <<p1, is_punct, out>>
      BY <3>1 DEF HexTypes
    <3>2. CASE UNCHANGED <<is_punct, out>> /\ IsHex(c) /\ p1' = HexVal(c)
      <4>1. HexVal(c) \in 0..15
        BY <3>2, DigitValue DEF IsHex, Digits
      <4> QED
        BY <3>2, <4>1 DEF HexTypes
    <3>3. CASE /\ IsHex(c) /\ p1 # -1 /\ p1' = -1 /\ is_punct' = TRUE
               /\ out' = Append(out, p1 * 16 + HexVal(c))
      <4>1. HexVal(c) \in 0..15
        BY <3>3, DigitValue DEF IsHex, Digits
      <4>2. p1 \in 0..15
        BY <3>3 DEF HexTypes
      <4>3. p1 * 16 + HexVal(c) \in -1..255
        BY <4>1, <4>2
      <4>4. out' \in Seq(-1..255)
        BY <3>3, <4>3, AppendElements DEF HexTypes
      <4> QED
        BY <3>3, <4>4
    <3> QED
      BY <2>1, <3>1, <3>2, <3>3
  <2> QED
    BY <2>1, <2>2, <2>3, <2>4 DEF HexTypes
<1>5. CASE NextNone
  BY <1>5 DEF NextNone, HexTypes
<1>6. CASE ReturnArray
  BY <1>6 DEF ReturnArray, HexTypes
<1>7. CASE Again
  <2>1. /\ phase' = "start" /\ given' = <<>> /\ queue' = <<>> /\ texts' = <<>> /\ out' = <<>>
        /\ state' = "Normal" /\ p1' = -1 /\ is_punct' = FALSE
    BY <1>7 DEF Again, Fresh
  <2>2. given' \in Seq(Tokens) /\ queue' \in Seq(Tokens)
    BY <2>1
  <2>3. texts' \in Seq(Seq(Chars)) /\ out' \in Seq(-1..255)
    BY <2>1
  <2>4. state' \in FilterStates /\ p1' \in -1..15 /\ is_punct' \in BOOLEAN
    BY <2>1, FreshTypes, Zenon
  <2> QED
    BY <2>1, <2>2, <2>3, <2>4 DEF HexTypes
<1>8. CASE UNCHANGED hexVars
  BY <1>8 DEF hexVars, HexTypes
<1> QED
  BY <1>1, <1>2, <1>3, <1>4, <1>5, <1>6, <1>7, <1>8 DEF HexNext

(* The array alternates bytes and commas.                                  *)
LEMMA HexArrayStep ==
    ASSUME HexTypes, HexArray, HexQueue, [HexNext]_hexVars
    PROVE  HexArray'
<1>0. /\ ArrayOK(out, is_punct) /\ out \in Seq(-1..255) /\ is_punct \in BOOLEAN
      /\ is_punct => phase = "reading"
  BY DEF HexTypes, HexArray
<1>1. ASSUME NEW ts \in SeqOf(Tokens, MaxTokens), Hex(ts) PROVE HexArray'
  BY <1>0, <1>1 DEF Hex, HexArray
<1>2. CASE New
  <2>1. phase = "tokens" /\ out' = out /\ (is_punct' = FALSE \/ is_punct' = is_punct)
    BY <1>2 DEF New, Fresh
  <2>2. is_punct' = FALSE /\ is_punct = FALSE
    BY <1>0, <2>1
  <2> QED
    BY <1>0, <2>1, <2>2 DEF HexArray
<1>3. CASE NextComma
  <2>1. out' = Append(out, Comma) /\ is_punct = TRUE /\ is_punct' = FALSE /\ ~is_punct = FALSE
    BY <1>0, <1>3 DEF NextComma
  <2>2. ArrayOK(Append(out, Comma), ~is_punct)
    <3>1. Comma \in -1..255 /\ (Comma = Comma <=> is_punct)
      BY <2>1 DEF Comma
    <3> QED
      BY <1>0, <3>1, ArrayMore
  <2>3. ArrayOK(out', is_punct')
    BY <2>1, <2>2
  <2> QED
    BY <2>1, <2>3 DEF HexArray
<1>4. ASSUME NEW c \in Chars, NextChar(c) PROVE HexArray'
  <2>1. /\ phase = "reading" /\ is_punct = FALSE
        /\ \/ UNCHANGED <<is_punct, out>>
           \/ /\ IsHex(c) /\ p1 # -1 /\ is_punct' = TRUE /\ phase' = "reading"
              /\ out' = Append(out, p1 * 16 + HexVal(c))
    BY <1>4, ReaderStep
  <2>2. CASE UNCHANGED <<is_punct, out>>
    BY <1>0, <2>1, <2>2 DEF HexArray
  <2>3. CASE /\ IsHex(c) /\ p1 # -1 /\ is_punct' = TRUE /\ phase' = "reading"
             /\ out' = Append(out, p1 * 16 + HexVal(c))
    <3> DEFINE x == p1 * 16 + HexVal(c)
    <3>1. HexVal(c) \in 0..15
      BY <2>3, DigitValue DEF IsHex, Digits
    <3>2. p1 \in 0..15
      BY <2>3 DEF HexTypes
    <3>3. x \in -1..255 /\ (x = Comma <=> is_punct)
      <4>1. x \in -1..255 /\ x # Comma
        BY <3>1, <3>2 DEF Comma
      <4> QED
        BY <2>1, <4>1, Zenon
    <3> HIDE DEF x
    <3>4. ArrayOK(Append(out, x), ~is_punct)
      BY <1>0, <3>3, ArrayMore, SMTT(20), ZenonT(40)
    <3>5. ArrayOK(out', is_punct')
      BY <2>1, <2>3, <3>4 DEF x
    <3> QED
      BY <2>3, <3>5 DEF HexArray
  <2> QED
    BY <2>1, <2>2, <2>3
<1>5. CASE NextNone
  BY <1>0, <1>5 DEF NextNone, HexArray
<1>6. CASE ReturnArray
  BY <1>0, <1>6 DEF ReturnArray, HexArray
<1>7. CASE Again
  <2>1. out' = <<>> /\ is_punct' = FALSE
    BY <1>7 DEF Again, Fresh
  <2>2. ArrayOK(<<>>, FALSE)
    BY DEF ArrayOK
  <2> QED
    BY <2>1, <2>2 DEF HexArray
<1>8. CASE UNCHANGED hexVars
  BY <1>0, <1>8 DEF hexVars, HexArray
<1> QED
  BY <1>1, <1>2, <1>3, <1>4, <1>5, <1>6, <1>7, <1>8 DEF HexNext

(* The next token of the queue.                                            *)
LEMMA QueueTake ==
    ASSUME NEW u \in Seq(Tokens), NEW q \in Seq(Tokens), NEW n \in Nat, q # <<>>,
           QueueOK("tokens", u, q, n)
    PROVE  /\ IsString(Head(q)) => QueueOK("reading", u, Tail(q), n + 1)
           /\ ~IsString(Head(q)) => Refused(u, n) /\ QueueOK("panic", u, Tail(q), n)
<1> DEFINE r == Tail(q)
           k == Len(q)
           m == Len(u)
<1>1. m \in Nat /\ k \in Nat /\ k # 0
  BY LenProperties, EmptySeq
<1>2. /\ r \in Seq(Tokens) /\ Len(r) = k - 1 /\ Head(q) = q[1]
      /\ \A i \in 1..Len(r) : r[i] = q[i + 1]
  BY HeadTailProperties
<1>3. /\ n <= m /\ (\A i \in 1..n : IsString(u[i]))
      /\ k = m - n /\ \A i \in 1..k : q[i] = u[n + i]
  BY DEF QueueOK, Rest
<1> HIDE DEF r, k, m
<1>4. /\ n + 1 \in 1..m /\ n + 1 <= m /\ 1 \in 1..k /\ Len(r) = m - (n + 1)
      /\ \A i \in 1..Len(r) : i + 1 \in 1..k /\ n + (i + 1) = (n + 1) + i
      /\ \A i \in 1..n+1 : i = n + 1 \/ i \in 1..n
  BY <1>1, <1>2, <1>3
<1>5. Head(q) = u[n + 1]
  BY <1>2, <1>3, <1>4
<1>6. \A i \in 1..Len(r) : r[i] = u[(n + 1) + i]
  BY <1>2, <1>3, <1>4
<1>7. Rest(r, u, n + 1)
  BY <1>4, <1>6 DEF Rest, m
<1>8. ASSUME IsString(Head(q)) PROVE QueueOK("reading", u, r, n + 1)
  <2>1. \A i \in 1..n+1 : IsString(u[i])
    BY <1>3, <1>4, <1>5, <1>8
  <2> QED
    BY <1>4, <1>7, <2>1 DEF QueueOK, m
<1>9. ASSUME ~IsString(Head(q)) PROVE Refused(u, n) /\ QueueOK("panic", u, r, n)
  BY <1>3, <1>4, <1>5, <1>9 DEF QueueOK, Refused, m
<1> QED
  BY <1>8, <1>9 DEF r

(* The queue of a call that begins, and of one that has no tokens.         *)
LEMMA QueueStart ==
    ASSUME NEW u \in Seq(Tokens)
    PROVE  QueueOK("tokens", u, u, 0)
<1>1. Len(u) \in Nat
  BY LenProperties
<1>2. Rest(u, u, 0)
  BY <1>1 DEF Rest
<1> QED
  BY <1>1, <1>2 DEF QueueOK

(* The number of texts.                                                    *)
LEMMA TextsCount ==
    ASSUME NEW ts \in Seq(Seq(Chars))
    PROVE  /\ Len(ts) \in Nat
           /\ Len(Append(ts, <<>>)) = Len(ts) + 1
           /\ Append(ts, <<>>) # <<>>
           /\ Plain(Append(ts, <<>>)) => Plain(ts)
<1> DEFINE u == Append(ts, <<>>)
<1>1. <<>> \in Seq(Chars)
  OBVIOUS
<1>2. u # <<>>
  BY <1>1, LastOf, Zenon
<1>3. IsAppend(u, ts, <<>>) /\ u \in Seq(Seq(Chars))
  BY <1>1, AppendElements, Zenon
<1> HIDE DEF u
<1>4. /\ Len(ts) \in Nat /\ Len(u) = Len(ts) + 1 /\ \A i \in 1..Len(ts) : u[i] = ts[i]
  BY <1>3, Zenon DEF IsAppend
<1>5. DOMAIN u = 1..Len(u) /\ DOMAIN ts = 1..Len(ts)
  BY <1>3, LenProperties
<1>6. \A i \in 1..Len(ts) : i \in 1..Len(u)
  <2> DEFINE k == Len(ts)
             l == Len(u)
  <2>1. k \in Nat /\ l = k + 1
    BY <1>4
  <2> HIDE DEF k, l
  <2>2. \A i \in 1..k : i \in 1..l
    BY <2>1
  <2> QED
    BY <2>2 DEF k, l
<1>7. Plain(u) => Plain(ts)
  BY <1>4, <1>5, <1>6, Zenon DEF Plain
<1> QED
  BY <1>2, <1>4, <1>7, Zenon DEF u

(* Other phases need no more than the phase that reads.                    *)
LEMMA QueueOn ==
    ASSUME NEW ph, NEW u, NEW q, NEW n, QueueOK(ph, u, q, n)
    PROVE  /\ QueueOK("panic", u, q, n)
           /\ ph \in {"tokens", "reading", "done"} => QueueOK("tokens", u, q, n) /\ QueueOK("reading", u, q, n)
BY DEF QueueOK

(* The queue is what is left of the tokens.                                *)
LEMMA HexQueueStep ==
    ASSUME HexTypes, HexQueue, [HexNext]_hexVars
    PROVE  HexQueue'
<1> DEFINE u == IgnoreGroups(given)
<1>0. /\ QueueOK(phase, u, queue, Len(texts))
      /\ phase = "reading" => texts # <<>>
      /\ phase = "start" => given = <<>> /\ texts = <<>> /\ out = <<>>
      /\ queue \in Seq(Tokens) /\ texts \in Seq(Seq(Chars)) /\ Len(texts) \in Nat
      /\ u \in Seq(Tokens)
  BY GroupsRead, TextsCount DEF HexTypes, HexQueue
<1>0a. Len(<<>>) = 0
  OBVIOUS
<1>1. ASSUME NEW ts \in SeqOf(Tokens, MaxTokens), Hex(ts) PROVE HexQueue'
  <2>1. /\ phase = "start" /\ phase' = "tokens" /\ given' = ts /\ queue' = IgnoreGroups(ts)
        /\ texts' = texts
    BY <1>1 DEF Hex
  <2>2. IgnoreGroups(ts) \in Seq(Tokens)
    BY SeqOfTokens, GroupsRead, Zenon
  <2>3. texts' = <<>> /\ Len(texts') = 0
    BY <1>0, <1>0a, <2>1, Zenon
  <2>4. QueueOK(phase', IgnoreGroups(given'), queue', Len(texts'))
    BY <2>1, <2>2, <2>3, QueueStart, Zenon
  <2> QED
    BY <2>1, <2>4 DEF HexQueue
<1>2. CASE New
  <2>1. phase = "tokens" /\ queue # <<>> /\ queue' = Tail(queue) /\ given' = given
    BY <1>2 DEF New
  <2>2. /\ IsString(Head(queue)) => QueueOK("reading", u, Tail(queue), Len(texts) + 1)
        /\ ~IsString(Head(queue)) => QueueOK("panic", u, Tail(queue), Len(texts))
    BY <1>0, <2>1, QueueTake, Zenon
  <2>3. CASE IsString(Head(queue))
    <3>1. phase' = "reading" /\ texts' = Append(texts, <<>>)
      BY <1>2, <2>3, Zenon DEF New, IsString
    <3>2. Len(texts') = Len(texts) + 1 /\ texts' # <<>>
      BY <1>0, <3>1, TextsCount, Zenon
    <3>3. QueueOK(phase', IgnoreGroups(given'), queue', Len(texts'))
      BY <2>1, <2>2, <2>3, <3>1, <3>2, Zenon
    <3> QED
      BY <3>1, <3>2, <3>3 DEF HexQueue
  <2>4. CASE ~IsString(Head(queue))
    <3>1. phase' = "panic" /\ texts' = texts
      BY <1>2, <2>4, Zenon DEF New, IsString
    <3>2. QueueOK(phase', IgnoreGroups(given'), queue', Len(texts'))
      BY <2>1, <2>2, <2>4, <3>1, Zenon
    <3> QED
      BY <3>1, <3>2 DEF HexQueue
  <2> QED
    BY <2>3, <2>4
<1>3. CASE NextComma
  <2>1. phase = "reading" /\ UNCHANGED <<phase, given, queue, texts>>
    BY <1>3 DEF NextComma
  <2> QED
    BY <1>0, <2>1 DEF HexQueue
<1>4. ASSUME NEW c \in Chars, NextChar(c) PROVE HexQueue'
  <2>1. /\ given' = given /\ queue' = queue /\ phase = "reading"
        /\ texts' = [texts EXCEPT ![Len(texts)] = Append(@, c)]
        /\ phase' \in {"panic", "reading"}
    BY <1>4, ReaderStep
  <2>2. Len(texts') = Len(texts) /\ texts' # <<>>
    BY <1>0, <2>1, TextsGrow
  <2>3. QueueOK("panic", u, queue, Len(texts)) /\ QueueOK("reading", u, queue, Len(texts))
    BY <1>0, <2>1, QueueOn
  <2>4. QueueOK(phase', IgnoreGroups(given'), queue', Len(texts'))
    BY <2>1, <2>2, <2>3, Zenon
  <2>5. phase' # "start"
    BY <2>1
  <2> QED
    BY <2>2, <2>4, <2>5, Zenon DEF HexQueue
<1>5. CASE NextNone
  <2>1. /\ phase = "reading" /\ UNCHANGED <<given, queue, texts>>
        /\ phase' \in {"panic", "tokens"}
    BY <1>5 DEF NextNone
  <2>2. QueueOK("panic", u, queue, Len(texts)) /\ QueueOK("tokens", u, queue, Len(texts))
    BY <1>0, <2>1, QueueOn
  <2>3. QueueOK(phase', IgnoreGroups(given'), queue', Len(texts'))
    BY <2>1, <2>2
  <2>4. phase' # "start" /\ phase' # "reading"
    BY <2>1
  <2> QED
    BY <2>3, <2>4, Zenon DEF HexQueue
<1>6. CASE ReturnArray
  <2>1. /\ phase = "tokens" /\ UNCHANGED <<given, queue, texts>> /\ phase' = "done" /\ queue = <<>>
    BY <1>6 DEF ReturnArray
  <2>2. QueueOK("done", u, queue, Len(texts))
    <3> DEFINE k == Len(queue)
               m == Len(u)
               n == Len(texts)
    <3>1. k = 0 /\ m \in Nat /\ n \in Nat
      BY <1>0, <2>1, LenProperties
    <3>2. QueueOK("tokens", u, queue, n)
      BY <1>0, <2>1
    <3>3. Rest(queue, u, n)
      BY <3>2 DEF QueueOK
    <3>4. k = m - n
      BY <3>3 DEF Rest
    <3> HIDE DEF k, m, n
    <3>5. n = m
      BY <3>1, <3>4
    <3> QED
      BY <3>2, <3>5 DEF QueueOK, m, n
  <2>3. QueueOK(phase', IgnoreGroups(given'), queue', Len(texts'))
    BY <2>1, <2>2
  <2> QED
    BY <2>1, <2>3 DEF HexQueue
<1>7. CASE Again
  <2>1. phase' = "start" /\ given' = <<>> /\ queue' = <<>> /\ texts' = <<>> /\ out' = <<>>
    BY <1>7 DEF Again
  <2>2. IgnoreGroups(<<>>) = <<>>
    <3>1. <<>> \in Seq(Tokens)
      OBVIOUS
    <3> QED
      BY <3>1, GroupsRead, Zenon
  <2>3. QueueOK("start", <<>>, <<>>, 0)
    BY DEF QueueOK
  <2>4. QueueOK(phase', IgnoreGroups(given'), queue', Len(texts'))
    BY <1>0a, <2>1, <2>2, <2>3, Zenon
  <2> QED
    BY <2>1, <2>4 DEF HexQueue
<1>8. CASE UNCHANGED hexVars
  <2>1. UNCHANGED <<phase, given, queue, texts, out>>
    BY <1>8 DEF hexVars
  <2> QED
    BY <1>0, <2>1 DEF HexQueue
<1> QED
  BY <1>1, <1>2, <1>3, <1>4, <1>5, <1>6, <1>7, <1>8 DEF HexNext

(* The array holds what the texts mean.                                    *)
LEMMA HexMeansStep ==
    ASSUME HexTypes, HexArray, HexQueue, HexMeans, [HexNext]_hexVars
    PROVE  HexMeans'
<1> DEFINE u == IgnoreGroups(given)
<1>0. /\ phase = "reading" => texts # <<>>
      /\ phase = "start" => given = <<>> /\ texts = <<>> /\ out = <<>>
      /\ queue \in Seq(Tokens) /\ texts \in Seq(Seq(Chars)) /\ Len(texts) \in Nat
      /\ u \in Seq(Tokens) /\ state \in FilterStates
      /\ QueueOK(phase, u, queue, Len(texts))
  BY GroupsRead, TextsCount DEF HexTypes, HexQueue
<1>0a. /\ Plain(texts) /\ phase = "tokens" => Odds(out) = MeaningOf(texts)
       /\ Plain(texts) /\ phase = "reading" => Inside(texts, state, p1, Odds(out))
       /\ phase = "panic" => \/ Refused(u, Len(texts))
                             \/ Plain(texts) => LastInvalid(texts)
  BY DEF HexMeans
<1>0b. out \in Seq(Int) /\ (Len(out) % 2 = 1 <=> is_punct) /\ Len(out) \in Nat
  <2>1. out \in Seq(-1..255) /\ ArrayOK(out, is_punct)
    BY DEF HexTypes, HexArray
  <2>2. out \in Seq(Int)
    BY <2>1, ArrayNumbers, Zenon
  <2>3. Len(out) % 2 = 1 <=> is_punct
    BY <2>1, Zenon DEF ArrayOK
  <2> QED
    BY <2>2, <2>3, LenProperties
<1>1. ASSUME NEW ts \in SeqOf(Tokens, MaxTokens), Hex(ts) PROVE HexMeans'
  <2>1. phase' = "tokens" /\ texts' = <<>> /\ out' = <<>>
    BY <1>0, <1>1 DEF Hex
  <2>2. Odds(<<>>) = <<>>
    BY DEF Odds
  <2>3. Odds(out') = MeaningOf(texts')
    BY <2>1, <2>2, MeaningOfMore, Zenon
  <2> QED
    BY <2>1, <2>3 DEF HexMeans
<1>2. CASE New
  <2>1. phase = "tokens" /\ queue # <<>> /\ given' = given /\ out' = out
    BY <1>2 DEF New
  <2>2. CASE IsString(Head(queue))
    <3>1. /\ phase' = "reading" /\ texts' = Append(texts, <<>>)
          /\ state' = "Normal" /\ p1' = -1
      BY <1>2, <2>2, Zenon DEF New, IsString, Fresh
    <3>2. ASSUME Plain(texts') PROVE Inside(texts', state', p1', Odds(out'))
      <4>1. Plain(texts)
        BY <1>0, <3>1, <3>2, TextsCount, Zenon
      <4>2. Odds(out) = MeaningOf(texts)
        BY <1>0a, <2>1, <4>1, Zenon
      <4>3. Inside(Append(texts, <<>>), "Normal", -1, MeaningOf(texts))
        BY <1>0, InsideNew, Zenon
      <4> QED
        BY <2>1, <3>1, <4>2, <4>3
    <3> QED
      BY <3>1, <3>2 DEF HexMeans
  <2>3. CASE ~IsString(Head(queue))
    <3>1. phase' = "panic" /\ texts' = texts
      BY <1>2, <2>3, Zenon DEF New, IsString
    <3>2. Refused(u, Len(texts))
      BY <1>0, <2>1, <2>3, QueueTake, Zenon
    <3> QED
      BY <2>1, <3>1, <3>2 DEF HexMeans
  <2> QED
    BY <2>2, <2>3
<1>3. CASE NextComma
  <2>1. /\ phase = "reading" /\ is_punct /\ out' = Append(out, Comma)
        /\ UNCHANGED <<phase, given, queue, texts, state, p1>>
    BY <1>3 DEF NextComma
  <2>2. Odds(Append(out, Comma)) = Odds(out)
    <3>1. Comma \in Int
      BY DEF Comma
    <3>2. Len(out) % 2 = 1
      BY <1>0b, <2>1, Zenon
    <3> QED
      BY <1>0b, <3>1, <3>2, OddsMore, Zenon
  <2> QED
    BY <1>0a, <2>1, <2>2 DEF HexMeans
<1>4. ASSUME NEW c \in Chars, NextChar(c) PROVE HexMeans'
  <2>1. /\ given' = given /\ phase = "reading" /\ is_punct = FALSE
        /\ texts' = [texts EXCEPT ![Len(texts)] = Append(@, c)]
    BY <1>4, ReaderStep
  <2>2. texts # <<>> /\ (Plain(texts') => Plain(texts))
    <3>1. texts # <<>> /\ texts \in Seq(Seq(Chars))
      BY <1>0, <2>1
    <3>2. texts' = [texts EXCEPT ![Len(texts)] = Append(@, c)]
      BY <2>1
    <3>3. Plain(texts') => Plain(texts)
      <4>1. PICK us : us = texts'
        OBVIOUS
      <4>2. us = [texts EXCEPT ![Len(texts)] = Append(@, c)]
        BY <3>2, <4>1, Zenon
      <4>3. Plain(us) => Plain(texts)
        <5>1. IsLonger(us, texts, c)
          BY <4>2, Zenon DEF IsLonger
        <5> QED
          BY <3>1, <5>1, PlainBefore, Zenon
      <4> QED
        BY <4>1, <4>3, Zenon
    <3> QED
      BY <3>1, <3>3
  <2>3. ASSUME Plain(texts')
        PROVE  /\ Transition(state, c) = "panic" => LastInvalid(texts')
               /\ Transition(state, c) # "panic" /\ ~Passes(state, c) =>
                     Inside(texts', Transition(state, c), p1, Odds(out))
               /\ Passes(state, c) /\ ~IsAllowed(c) => LastInvalid(texts')
               /\ Passes(state, c) /\ IsAllowed(c) /\ ~IsHex(c) =>
                     Inside(texts', Transition(state, c), p1, Odds(out))
               /\ Passes(state, c) /\ IsHex(c) /\ p1 = -1 =>
                     Inside(texts', Transition(state, c), HexVal(c), Odds(out))
               /\ Passes(state, c) /\ IsHex(c) /\ p1 # -1 =>
                     Inside(texts', Transition(state, c), -1,
                            Cat(Odds(out), <<p1 * 16 + HexVal(c)>>))
    <3>1. Inside(texts, state, p1, Odds(out))
      BY <1>0a, <2>1, <2>2, <2>3, Zenon
    <3> HIDE DEF u
    <3> QED
      BY <1>0, <2>1, <2>2, <2>3, <3>1, InsideChar
  <2>4. CASE /\ phase' = "panic"
             /\ \/ Transition(state, c) = "panic"
                \/ Passes(state, c) /\ ~IsAllowed(c)
    <3>1. Plain(texts') => LastInvalid(texts')
      BY <2>3, <2>4, Zenon
    <3> QED
      BY <2>4, <3>1 DEF HexMeans
  <2>5. CASE /\ phase' = "reading" /\ UNCHANGED <<p1, is_punct, out>>
             /\ Transition(state, c) # "panic" /\ state' = Transition(state, c)
             /\ Passes(state, c) => IsAllowed(c) /\ ~IsHex(c)
    <3>1. Plain(texts') => Inside(texts', state', p1', Odds(out'))
      <4>1. Plain(texts') => Inside(texts', Transition(state, c), p1, Odds(out))
        BY <2>3, <2>5, Zenon
      <4> QED
        BY <2>5, <4>1
    <3> QED
      BY <2>5, <3>1 DEF HexMeans
  <2>6. CASE /\ phase' = "reading" /\ UNCHANGED <<is_punct, out>>
             /\ state' = Transition(state, c)
             /\ Passes(state, c) /\ IsHex(c) /\ p1 = -1 /\ p1' = HexVal(c)
    <3>1. Plain(texts') => Inside(texts', state', p1', Odds(out'))
      <4>1. Plain(texts') => Inside(texts', Transition(state, c), HexVal(c), Odds(out))
        BY <2>3, <2>6, Zenon
      <4> QED
        BY <2>6, <4>1
    <3> QED
      BY <2>6, <3>1 DEF HexMeans
  <2>7. CASE /\ phase' = "reading" /\ state' = Transition(state, c)
             /\ Passes(state, c) /\ IsHex(c) /\ p1 # -1 /\ p1' = -1
             /\ out' = Append(out, p1 * 16 + HexVal(c))
    <3> DEFINE x == p1 * 16 + HexVal(c)
    <3>1. x \in Int
      <4>1. HexVal(c) \in 0..15
        BY <2>7, DigitValue DEF IsHex, Digits
      <4>2. p1 \in Int
        BY DEF HexTypes
      <4> QED
        BY <4>1, <4>2
    <3>2. Len(out) % 2 = 0
      <4> DEFINE k == Len(out)
      <4>1. k \in Nat /\ k % 2 # 1
        BY <1>0b, <2>1
      <4> HIDE DEF k
      <4>2. k % 2 = 0
        BY <4>1
      <4> QED
        BY <4>2 DEF k
    <3> HIDE DEF x
    <3>3. Odds(Append(out, x)) = Cat(Odds(out), <<x>>)
      BY <1>0b, <3>1, <3>2, OddsMore, Zenon
    <3>4. Plain(texts') => Inside(texts', Transition(state, c), -1, Cat(Odds(out), <<x>>))
      BY <2>3, <2>7, Zenon DEF x
    <3>5. out' = Append(out, x)
      BY <2>7 DEF x
    <3>6. Plain(texts') => Inside(texts', state', p1', Odds(out'))
      BY <2>7, <3>3, <3>4, <3>5
    <3> QED
      BY <2>7, <3>6 DEF HexMeans
  <2> QED
    BY <1>4, <2>4, <2>5, <2>6, <2>7, ReaderStep, Zenon
<1>5. CASE NextNone
  <2>1. /\ phase = "reading" /\ UNCHANGED <<given, queue, texts, state, p1, out>>
        /\ phase' = IF OpenComment(state) \/ p1 # -1 THEN "panic" ELSE "tokens"
    BY <1>5 DEF NextNone
  <2>2. Plain(texts) => /\ OpenComment(state) \/ p1 # -1 => LastInvalid(texts)
                        /\ ~OpenComment(state) /\ p1 = -1 => Odds(out) = MeaningOf(texts)
    BY <1>0a, <2>1, InsideEnd, Zenon
  <2> QED
    BY <2>1, <2>2 DEF HexMeans
<1>6. CASE ReturnArray
  <2>1. phase = "tokens" /\ UNCHANGED <<texts, out>> /\ phase' = "done"
    BY <1>6 DEF ReturnArray
  <2> QED
    BY <1>0a, <2>1 DEF HexMeans
<1>7. CASE Again
  <2>1. phase' = "start"
    BY <1>7 DEF Again
  <2> QED
    BY <2>1 DEF HexMeans
<1>8. CASE UNCHANGED hexVars
  BY <1>8 DEF hexVars, HexMeans
<1> QED
  BY <1>1, <1>2, <1>3, <1>4, <1>5, <1>6, <1>7, <1>8 DEF HexNext

(* HexInv holds at the start.                                              *)
LEMMA HexInvInit ==
    ASSUME HexInit
    PROVE  HexInv
<1>1. /\ phase = "start" /\ given = <<>> /\ queue = <<>> /\ texts = <<>> /\ out = <<>>
      /\ state = "Normal" /\ p1 = -1 /\ is_punct = FALSE
  BY DEF HexInit
<1>2. <<>> \in Seq(Tokens) /\ <<>> \in Seq(-1..255) /\ Len(<<>>) = 0
  OBVIOUS
<1>3. <<>> \in Seq(Seq(Chars))
  OBVIOUS
<1>4. HexTypes
  BY <1>1, <1>2, <1>3, FreshTypes DEF HexTypes
<1>5. HexArray
  <2>1. ArrayOK(<<>>, FALSE)
    BY DEF ArrayOK
  <2> QED
    BY <1>1, <2>1 DEF HexArray
<1>6. HexQueue
  <2>1. IgnoreGroups(<<>>) = <<>>
    BY <1>2, GroupsRead, Zenon
  <2>2. QueueOK("start", <<>>, <<>>, 0)
    BY DEF QueueOK
  <2>3. QueueOK(phase, IgnoreGroups(given), queue, Len(texts))
    BY <1>1, <1>2, <2>1, <2>2, Zenon
  <2> QED
    BY <1>1, <2>3 DEF HexQueue
<1>7. HexMeans
  BY <1>1 DEF HexMeans
<1> QED
  BY <1>4, <1>5, <1>6, <1>7 DEF HexInv

(* In every call of hex!, whatever its tokens and the texts of its         *)
(* literals, the array, the queue and the scanner agree.                   *)
THEOREM HexInvariant == HexSpec => []HexInv
<1>1. HexInit => HexInv
  BY HexInvInit
<1>2. HexInv /\ [HexNext]_hexVars => HexInv'
  BY HexTypesStep, HexArrayStep, HexQueueStep, HexMeansStep DEF HexInv
<1> QED
  BY <1>1, <1>2, PTL DEF HexSpec

(* The tokens that TokenTreeIter produces form an array, also where one    *)
(* literal ends and the next begins, and between empty ones.               *)
THEOREM HexArrayWellFormed == HexSpec => []ArrayWellFormed
<1>1. HexInv => ArrayWellFormed
  <2> SUFFICES ASSUME HexInv PROVE ArrayWellFormed
    OBVIOUS
  <2>1. /\ ArrayOK(out, is_punct) /\ (is_punct => phase = "reading") /\ is_punct \in BOOLEAN
        /\ out \in Seq(-1..255)
    BY DEF HexInv, HexTypes, HexArray
  <2>2. DOMAIN out = 1..Len(out) /\ Len(out) \in Nat
    BY <2>1, LenProperties
  <2>3. \A i \in DOMAIN out : out[i] = Comma <=> i % 2 = 0
    BY <2>1, <2>2 DEF ArrayOK
  <2>4. ASSUME phase \in {"tokens", "done"} PROVE Len(out) % 2 = 0
    <3>1. ~is_punct
      BY <2>1, <2>4
    <3>2. Len(out) % 2 # 1
      BY <2>1, <3>1 DEF ArrayOK
    <3> QED
      BY <2>2, <3>2
  <2> QED
    BY <2>3, <2>4 DEF ArrayWellFormed
<1> QED
  BY <1>1, HexInvariant, PTL

(* A sequence of texts is the texts before the last, and the last.         *)
LEMMA BeforeLast ==
    ASSUME NEW ts \in Seq(Seq(Chars)), ts # <<>>
    PROVE  \E ps \in Seq(Seq(Chars)) : ts = Append(ps, ts[Len(ts)]) /\ ts[Len(ts)] \in Seq(Chars)
<1> DEFINE l == Len(ts)
           x == ts[l]
           ps == SubSeq(ts, 0 + 1, l - 1)
           us == Append(ps, x)
<1>1. l \in Nat /\ l # 0 /\ \A i \in 1..l : ts[i] \in Seq(Chars)
  BY LenProperties, ElementOfSeq, EmptySeq
<1>2. l \in 1..l /\ l - 1 \in Nat /\ 0 <= l - 1 /\ l - 1 <= l /\ (l - 1) - 0 = l - 1
      /\ (l - 1) + 1 = l /\ (\A i \in 1..l : i = l \/ i \in 1..l-1) /\ (\A i \in 1..l-1 : 0 + i = i)
  <2> HIDE DEF l
  <2> QED
    BY <1>1
<1>3. ps \in Seq(Seq(Chars)) /\ Len(ps) = (l - 1) - 0 /\ \A i \in 1..(l-1)-0 : ps[i] = ts[0 + i]
  <2> DEFINE k == l - 1
  <2>1. 0 \in Nat /\ k \in Nat /\ 0 <= k /\ k <= Len(ts)
    BY <1>2
  <2> HIDE DEF k
  <2>2. IsSlice(SubSeq(ts, 0 + 1, k), ts, 0, k, Seq(Chars))
    BY <2>1, SliceIs, Zenon
  <2> QED
    BY <2>2, Zenon DEF IsSlice, k
<1>4. x \in Seq(Chars)
  BY <1>1, <1>2
<1> HIDE DEF ps, x
<1>5. us \in Seq(Seq(Chars)) /\ IsAppend(us, ps, x)
  BY <1>3, <1>4, AppendElements, Zenon
<1>6. Len(ps) = l - 1 /\ Len(us) = Len(ps) + 1 /\ us[Len(ps) + 1] = x /\ \A i \in 1..Len(ps) : us[i] = ps[i]
  BY <1>2, <1>3, <1>5, Zenon DEF IsAppend
<1> HIDE DEF us
<1>7. Len(us) = l /\ us[l] = x
  BY <1>2, <1>6, Zenon
<1>8. \A i \in 1..l-1 : us[i] = ts[i]
  BY <1>2, <1>3, <1>6, Zenon
<1>9. \A i \in 1..l : us[i] = ts[i]
  BY <1>2, <1>7, <1>8, Zenon DEF x
<1>10. ts = us
  <2>1. Len(us) = Len(ts) /\ \A i \in 1..Len(us) : us[i] = ts[i]
    BY <1>7, <1>9, Zenon
  <2> QED
    BY <1>5, <2>1, SameSeq, Zenon
<1> QED
  BY <1>3, <1>4, <1>10, Zenon DEF us, x

(* A text without a meaning shows in what the texts mean.                  *)
LEMMA InvalidShows ==
    ASSUME NEW ts \in Seq(Seq(Chars)), LastInvalid(ts)
    PROVE  -1 \in ToSet(MeaningOf(ts))
<1>1. ts # <<>> /\ Meaning(ts[Len(ts)]) = <<-1>>
  BY DEF LastInvalid
<1>2. PICK ps \in Seq(Seq(Chars)) : ts = Append(ps, ts[Len(ts)]) /\ ts[Len(ts)] \in Seq(Chars)
  BY <1>1, BeforeLast, Zenon
<1> DEFINE a == MeaningOf(ps)
           b == <<-1>>
           c == Cat(a, b)
<1>3. MeaningOf(ts) = c /\ a \in Seq(Int)
  <2>1. MeaningOf(Append(ps, ts[Len(ts)])) = Cat(a, Meaning(ts[Len(ts)])) /\ a \in Seq(Int)
    BY <1>2, MeaningOfMore, Zenon
  <2>2. Append(ps, ts[Len(ts)]) = ts
    BY <1>2, Zenon
  <2> QED
    BY <1>1, <2>1, <2>2, Zenon
<1> HIDE DEF a
<1>4. b \in Seq(Int) /\ Len(b) = 1 /\ b[1] = -1 /\ 1 \in 1..1
  OBVIOUS
<1> HIDE DEF b
<1>5. c \in Seq(Int) /\ IsCat(c, a, b)
  BY <1>3, <1>4, CatParts, Zenon
<1> HIDE DEF c
<1>6. Len(a) \in Nat /\ Len(c) = Len(a) + 1 /\ c[Len(a) + 1] = -1
  BY <1>4, <1>5, Zenon DEF IsCat
<1>7. Len(a) + 1 \in DOMAIN c
  <2> DEFINE k == Len(a)
             l == Len(c)
  <2>1. k \in Nat /\ l = k + 1 /\ DOMAIN c = 1..l
    BY <1>5, <1>6, LenProperties
  <2> HIDE DEF k, l
  <2>2. k + 1 \in 1..l
    BY <2>1
  <2> QED
    BY <2>1, <2>2, Zenon DEF k
<1> QED
  BY <1>3, <1>6, <1>7, Zenon DEF ToSet

(* How a call ends.                                                        *)
LEMMA CallEnds ==
    ASSUME HexInv
    PROVE  /\ given \in Seq(Tokens) /\ texts \in Seq(Seq(Chars))
           /\ phase = "done" =>
                 /\ Len(texts) = Len(IgnoreGroups(given))
                 /\ \A i \in 1..Len(texts) : IsString(IgnoreGroups(given)[i])
                 /\ Plain(texts) => OutBytes = MeaningOf(texts)
           /\ phase = "panic" => \/ Refused(IgnoreGroups(given), Len(texts))
                                 \/ Plain(texts) => LastInvalid(texts)
<1>1. OutBytes = Odds(out)
  BY DEF OutBytes, Odds
<1>2. QueueOK(phase, IgnoreGroups(given), queue, Len(texts))
  BY DEF HexInv, HexQueue
<1>3. phase = "done" => /\ Len(texts) = Len(IgnoreGroups(given))
                        /\ \A i \in 1..Len(texts) : IsString(IgnoreGroups(given)[i])
  BY <1>2, Zenon DEF QueueOK
<1>4. phase = "done" => (Plain(texts) => OutBytes = MeaningOf(texts))
  BY <1>1 DEF HexInv, HexMeans
<1> QED
  BY <1>3, <1>4 DEF HexInv, HexTypes, HexMeans

(* The literals of a call are those that hex! means: every call without    *)
(* groups, or with one group around all of it, yields the bytes its        *)
(* literals mean, in order, and is refused only when one of them has no    *)
(* meaning or is no string.                                                *)
THEOREM HexLiteralsMeanBytes == HexSpec => []LiteralsMeanBytes
<1>1. HexInv => LiteralsMeanBytes
  <2> SUFFICES ASSUME HexInv PROVE LiteralsMeanBytes
    OBVIOUS
  <2> DEFINE u == IgnoreGroups(given)
  <2>1. /\ given \in Seq(Tokens) /\ texts \in Seq(Seq(Chars))
        /\ phase = "done" => /\ Len(texts) = Len(u)
                             /\ Plain(texts) => OutBytes = MeaningOf(texts)
        /\ phase = "panic" => \/ Refused(u, Len(texts))
                              \/ Plain(texts) => LastInvalid(texts)
    BY CallEnds, Zenon
  <2> HIDE DEF u
  <2>2. ASSUME NEW v \in Plainly(given) PROVE v = u /\ v \in Seq(Tokens)
    <3> DEFINE w == IF Len(given) = 1 /\ IsGroup(given[1]) THEN given[1].stream ELSE given
    <3>1. v = w /\ \A i \in DOMAIN w : ~IsGroup(w[i])
      BY <2>2, Zenon DEF Plainly
    <3>2. CASE Len(given) = 1 /\ IsGroup(given[1])
      BY <2>1, <3>1, <3>2, GroupsRead DEF u
    <3>3. CASE ~(Len(given) = 1 /\ IsGroup(given[1]))
      <4>1. v = given /\ \A i \in DOMAIN given : ~IsGroup(given[i])
        BY <3>1, <3>3
      <4>2. given = <<>> \/ 1 \in DOMAIN given
        BY <2>1, EmptySeq, LenProperties
      <4>3. given = <<>> \/ ~IsGroup(given[1])
        BY <4>1, <4>2
      <4> QED
        BY <2>1, <4>1, <4>3, GroupsRead DEF u
    <3> QED
      BY <3>2, <3>3
  <2>3. ASSUME NEW v \in Plainly(given), Plain(texts)
        PROVE  /\ phase = "done" => OutBytes = MeaningOf(texts) /\ Len(texts) = Len(v)
               /\ phase = "panic" => \/ -1 \in ToSet(MeaningOf(texts))
                                     \/ \E i \in DOMAIN v : v[i].kind # "string"
    <3>1. v = u /\ DOMAIN v = 1..Len(v)
      BY <2>2, <2>3, LenProperties
    <3>2. phase = "done" => OutBytes = MeaningOf(texts) /\ Len(texts) = Len(v)
      BY <2>1, <2>3, <3>1, Zenon
    <3>3. LastInvalid(texts) => -1 \in ToSet(MeaningOf(texts))
      BY <2>1, InvalidShows, Zenon
    <3>4. Refused(u, Len(texts)) => \E i \in DOMAIN v : v[i].kind # "string"
      BY <3>1, Zenon DEF Refused, IsString
    <3>5. phase = "panic" => \/ -1 \in ToSet(MeaningOf(texts))
                             \/ \E i \in DOMAIN v : v[i].kind # "string"
      BY <2>1, <2>3, <3>3, <3>4, Zenon
    <3> QED
      BY <3>2, <3>5
  <2> QED
    BY <2>3, Zenon DEF LiteralsMeanBytes, MeaningOf, Plain
<1> QED
  BY <1>1, HexInvariant, PTL
=============================================================================
