----------------------------- MODULE CpuFeatures -----------------------------
(***************************************************************************)
(* A module made by cpufeatures::new!(...): one relaxed atomic STORAGE     *)
(* that every thread may initialise, and a token that proves it was.       *)
(*                                                                         *)
(* Relaxed loads may be stale.  `written` is the modification order of     *)
(* STORAGE; a load by thread t returns any entry from seen[t] on, where    *)
(* seen[t] is the last entry t has read or written, or has been told of by *)
(* a thread that synchronised with it (per-location coherence, which is    *)
(* all that Ordering::Relaxed promises).                                   *)
(***************************************************************************)
EXTENDS Integers, Sequences

CONSTANTS
    Thread,    \* the threads of the program
    Runner,    \* a thread that keeps running; the others may stop anywhere
    Builds     \* the builds considered: target, requested features, and
               \* those of them enabled by compiler options

Targets == {"x86", "sgx", "linux", "macos", "other", "miri"}

ASSUME RunnerAssumption == Runner \in Thread
ASSUME BuildsAssumption ==
    \A b \in Builds : b.target \in Targets /\ b.enabled \subseteq b.requested

VARIABLES
    build,     \* the build that runs (never changes)
    cpu,       \* the capability bits of its CPU (never change)
    written,   \* the modification order of STORAGE
    seen,      \* per thread, the last entry of it the thread knows of
    pc,        \* per thread, where it is in init_get
    token,     \* whether the thread holds an InitToken
    answer     \* the last answer the thread got: none, or a BOOLEAN's name

vars == <<build, cpu, written, seen, pc, token, answer>>

-----------------------------------------------------------------------------
UNINIT == 255

(* The capability bits behind a feature: CPUID result, register and bit on *)
(* x86, hwcap and sysctl names on aarch64.                                 *)
X86Bits ==
    [mmx |-> {<<0, "edx", 23>>}, sse |-> {<<0, "edx", 25>>}, sse2 |-> {<<0, "edx", 26>>},
     sse3 |-> {<<0, "ecx", 0>>}, pclmulqdq |-> {<<0, "ecx", 1>>}, ssse3 |-> {<<0, "ecx", 9>>},
     fma |-> {<<0, "ecx", 28>>, <<0, "ecx", 12>>}, sse41 |-> {<<0, "ecx", 19>>},
     sse42 |-> {<<0, "ecx", 20>>}, popcnt |-> {<<0, "ecx", 23>>}, aes |-> {<<0, "ecx", 25>>},
     avx |-> {<<0, "ecx", 28>>}, rdrand |-> {<<0, "ecx", 30>>}, sgx |-> {<<1, "ebx", 2>>},
     bmi1 |-> {<<1, "ebx", 3>>}, avx2 |-> {<<0, "ecx", 28>>, <<1, "ebx", 5>>},
     bmi2 |-> {<<1, "ebx", 8>>}, rdseed |-> {<<1, "ebx", 18>>}, adx |-> {<<1, "ebx", 19>>},
     sha |-> {<<1, "ebx", 29>>}]
LinuxBits ==
    [aes |-> {"HWCAP_AES", "HWCAP_PMULL"}, sha2 |-> {"HWCAP_SHA2"},
     sha3 |-> {"HWCAP_SHA3", "HWCAP_SHA512"}]
MacBits == [aes |-> {}, sha2 |-> {}, sha3 |-> {"armv8_2_sha512", "armv8_2_sha3"}]

Bits(target, f) ==
    CASE target \in {"x86", "sgx", "miri"} -> X86Bits[f]
      [] target \in {"linux", "other"} -> LinuxBits[f]
      [] target = "macos" -> MacBits[f]

(* check!(..., f): on Linux the bits are one mask, tested with != 0.       *)
Check(f) ==
    IF build.target = "linux"
    THEN Bits("linux", f) \cap cpu # {}
    ELSE Bits(build.target, f) \subseteq cpu

(* __detect_target_features!: all requested features; none on a target     *)
(* without runtime detection.                                              *)
Detect == build.target # "other" /\ \A f \in build.requested : Check(f)

(* __unless_target_features!: whether its body is compiled in, and its     *)
(* value when not.                                                         *)
AllEnabled == build.enabled = build.requested
HasBody == build.target \notin {"sgx", "miri"} /\ ~AllEnabled
Static == AllEnabled /\ build.target # "miri"

-----------------------------------------------------------------------------
Name(b) == IF b THEN "true" ELSE "false"

Init ==
    /\ build \in Builds
    /\ cpu \in SUBSET UNION {Bits(build.target, f) : f \in build.requested}
    /\ written = <<UNINIT>>
    /\ seen = [t \in Thread |-> 1]
    /\ pc = [t \in Thread |-> "idle"]
    /\ token = [t \in Thread |-> FALSE]
    /\ answer = [t \in Thread |-> "none"]

(* STORAGE.load(Relaxed) by t returns entry i of the modification order.   *)
Load(t, i) ==
    /\ i \in seen[t]..Len(written)
    /\ seen' = [seen EXCEPT ![t] = i]

Return(t, b) ==
    /\ pc' = [pc EXCEPT ![t] = "idle"]
    /\ token' = [token EXCEPT ![t] = TRUE]
    /\ answer' = [answer EXCEPT ![t] = Name(b)]

(* init_get, in a build that needs no runtime detection.                   *)
InitStatic(t) ==
    /\ pc[t] = "idle" /\ ~HasBody
    /\ Return(t, Static)
    /\ UNCHANGED <<build, cpu, written, seen>>

(* init_get up to the test of the value loaded.                            *)
InitLoadUntested(t, i) ==    \* a bug: UNINIT is not told from 0
    /\ pc[t] = "idle" /\ HasBody
    /\ Load(t, i)
    /\ Return(t, written[i] = 1)
    /\ UNCHANGED <<build, cpu, written>>
InitLoad(t, i) ==
    /\ pc[t] = "idle" /\ HasBody
    /\ Load(t, i)
    /\ IF written[i] = UNINIT
       THEN pc' = [pc EXCEPT ![t] = "detect"] /\ UNCHANGED <<token, answer>>
       ELSE Return(t, written[i] = 1)
    /\ UNCHANGED <<build, cpu, written>>

(* Detection, the store of its result and the return.                      *)
InitStoreForgotten(t) ==    \* a bug: the result is not stored
    /\ pc[t] = "detect"
    /\ Return(t, Detect)
    /\ UNCHANGED <<build, cpu, written, seen>>
InitStoreCount(t) ==    \* a bug: the number of features is stored
    /\ pc[t] = "detect"
    /\ written' = Append(written, IF Detect THEN 2 ELSE 0)
    /\ seen' = [seen EXCEPT ![t] = Len(written')]
    /\ Return(t, Detect)
    /\ UNCHANGED <<build, cpu>>
InitStoreLocked(t) ==    \* a bug: waits for other threads that initialise
    /\ pc[t] = "detect"
    /\ \A s \in Thread \ {t} : pc[s] # "detect"
    /\ written' = Append(written, IF Detect THEN 1 ELSE 0)
    /\ seen' = [seen EXCEPT ![t] = Len(written')]
    /\ Return(t, Detect)
    /\ UNCHANGED <<build, cpu>>
InitStore(t) ==
    /\ pc[t] = "detect"
    /\ written' = Append(written, IF Detect THEN 1 ELSE 0)
    /\ seen' = [seen EXCEPT ![t] = Len(written')]
    /\ Return(t, Detect)
    /\ UNCHANGED <<build, cpu>>

(* Detection unwinds: on macOS sysctlbyname asserts that its call went     *)
(* well.  Nothing is stored, and the caller has neither token nor answer.  *)
InitPanics(t) ==
    /\ pc[t] = "detect" /\ build.target = "macos"
    /\ \E f \in build.requested : MacBits[f] # {}
    /\ pc' = [pc EXCEPT ![t] = "idle"]
    /\ UNCHANGED <<build, cpu, written, seen, token, answer>>

(* InitToken::get                                                          *)
TokenGet(t, i) ==
    /\ token[t] /\ pc[t] = "idle"
    /\ IF HasBody
       THEN Load(t, i) /\ answer' = [answer EXCEPT ![t] = Name(written[i] = 1)]
       ELSE i = seen[t] /\ UNCHANGED seen /\ answer' = [answer EXCEPT ![t] = Name(Static)]
    /\ UNCHANGED <<build, cpu, written, pc, token>>

(* The token is Copy and moves between threads, over some channel that     *)
(* synchronises them.                                                      *)
SendToken(s, t) ==
    /\ token[s] /\ pc[s] = "idle" /\ pc[t] = "idle"
    /\ token' = [token EXCEPT ![t] = TRUE]
    /\ seen' = [seen EXCEPT ![t] = IF seen[s] > seen[t] THEN seen[s] ELSE seen[t]]
    /\ UNCHANGED <<build, cpu, written, pc, answer>>

-----------------------------------------------------------------------------
Step(t) ==
    \/ InitStatic(t)
    \/ \E i \in 1..Len(written) : InitLoad(t, i)
    \/ InitStore(t)
    \/ InitPanics(t)
    \/ \E i \in 1..Len(written) : TokenGet(t, i)
    \/ \E s \in Thread : SendToken(s, t)

Next == \E t \in Thread : Step(t)

Spec == Init /\ [][Next]_vars /\ WF_vars(InitStore(Runner) \/ InitPanics(Runner))

-----------------------------------------------------------------------------
(* Every variable keeps its type; STORAGE holds UNINIT, 0 or 1.            *)
TypeOK ==
    /\ build \in Builds
    /\ written \in Seq({UNINIT, 0, 1})
    /\ seen \in [Thread -> Nat \ {0}]
    /\ \A t \in Thread : seen[t] <= Len(written)
    /\ pc \in [Thread -> {"idle", "detect"}]
    /\ token \in [Thread -> BOOLEAN]
    /\ answer \in [Thread -> {"none", "true", "false"}]

(* "assert_eq!(val, token.get())": every answer, from init_get or from a   *)
(* token on any thread, is the one answer of this build on this CPU,       *)
(* however stale the loads are.                                            *)
AnswersAgree ==
    \A t \in Thread :
        answer[t] # "none" => answer[t] = Name(IF HasBody THEN Detect ELSE Static)

(* A token is proof of initialisation: no load its holder can still make   *)
(* returns UNINIT (token.get would answer false without having looked).    *)
TokenMeansInitialised ==
    HasBody => \A t \in Thread : token[t] => \A i \in seen[t]..Len(written) : written[i] # UNINIT

(* "After first call macro caches result": a thread that has made a call,  *)
(* or got a token, never detects again.                                    *)
DetectsAtMostOnce ==
    [][\A t \in Thread : token[t] /\ pc[t] = "idle" => pc'[t] # "detect"]_vars

(* init_get waits for nobody: a thread that keeps running comes back from  *)
(* it, with an answer or unwinding, even if another stops between its load *)
(* and its store.                                                          *)
CallsReturn == pc[Runner] = "detect" ~> pc[Runner] = "idle"

(* Whoever is told that the features are there can rely on all of them:    *)
(* "LLVM target features are coarser grained than what Linux supports and  *)
(* imply more capabilities under each feature. This module attempts to     *)
(* provide that mapping accordingly."                                      *)
AnswerCoversAllBits ==
    HasBody => \A t \in Thread :
        answer[t] = "true" => \A f \in build.requested : Bits(build.target, f) \subseteq cpu
=============================================================================
