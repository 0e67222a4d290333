--------------------------- MODULE MCCpuFeatures ---------------------------
(* Instances of CpuFeatures: three threads; on x86 the features whose      *)
(* checks overlap, on aarch64 the ones of the crate's tests.               *)
EXTENDS CpuFeatures

CONSTANTS t1, t2, t3

MCThread == {t1, t2, t3}

X86Builds ==
    {[target |-> g, requested |-> {"aes", "avx2"}, enabled |-> e] :
        g \in {"x86", "sgx", "miri"}, e \in SUBSET {"aes", "avx2"}}
ArmBuilds ==
    {[target |-> g, requested |-> {"aes", "sha3"}, enabled |-> e] :
        g \in {"linux", "macos", "other"}, e \in {{}, {"aes", "sha3"}}}
MCBuilds == X86Builds \cup ArmBuilds
=============================================================================
