----------------------------- MODULE Wycheproof -----------------------------
(***************************************************************************)
(* wycheproof2blb: the cases of a Wycheproof test suite, selected for an   *)
(* algorithm and a key size, become a file with one description per case   *)
(* and a blobby file with a fixed number of blobs per case.  Tests read    *)
(* the blobby file in groups of that number, which nothing in it states.   *)
(*                                                                         *)
(* A behaviour of Blobby goes on as it is; at its start the tool may be    *)
(* run, and its output is read.  The suite is the parsed JSON file.        *)
(***************************************************************************)
EXTENDS Blobby

CONSTANTS
    Suites,     \* the suites: records [algorithm, groups]
    KeySizes,   \* the key sizes asked for, with 0 for all
    Fields      \* the names of the binary fields of cases

VARIABLES
    stage,      \* of the tool: idle, described, written, failed
    call,       \* history: what was asked for
    txt         \* the descriptions file

toolVars == <<stage, call, txt>>
allVars == <<vars, toolVars>>

(* The generators; main chooses one by the name of the algorithm.          *)
Generators == {"aes_gcm", "chacha20_poly1305", "xchacha20_poly1305", "aes_siv", "mac",
               "hkdf", "ed25519", "ecdsa"}
Results == {"valid", "invalid", "acceptable"}

(* A group has sizes and, for signatures, a public key; it is consistent   *)
(* when its sizes are whole bytes and those of its cases, or its curve and *)
(* hash are the algorithm's.                                               *)
TestGroup == [key_size : Nat, iv_size : Nat, consistent : BOOLEAN, key : Seq(u8) \X Seq(u8),
            tests : Seq([result : Results, data : [Fields -> Seq(u8)]])]

ASSUME WycheproofAssumption ==
    /\ {"key", "iv", "aad", "msg", "ct", "tag", "ikm", "salt", "info", "okm", "sig"} \subseteq Fields
    /\ \A s \in Suites : s.algorithm \in BOOLEAN /\ s.groups \in Seq(TestGroup)
    /\ KeySizes \subseteq Nat

NoCall == [generator |-> "none"]

-----------------------------------------------------------------------------
Aead == {"aes_gcm", "chacha20_poly1305", "xchacha20_poly1305"}
KeySize(gen, key_size) ==
    IF gen \in Aead \ {"aes_gcm"} THEN 256
    ELSE IF gen \in {"hkdf", "ed25519", "ecdsa"} THEN 0 ELSE key_size
IvSize(gen) == IF gen = "xchacha20_poly1305" THEN 192 ELSE 96

(* The conditions of the generators' loops.                                *)
Selected(gen, g, tc, key_size) ==
    /\ KeySize(gen, key_size) \in {0, g.key_size}
    /\ gen \in Aead => g.iv_size = IvSize(gen)
    /\ gen \in {"mac", "hkdf"} => tc.result = "valid"
    /\ gen = "ecdsa" => tc.result # "acceptable"

HasResult(gen) == gen \notin {"mac", "hkdf"}
case_result(tc) == <<IF tc.result = "invalid" THEN 0 ELSE 1>>

(* TestInfo::data of a case: the fields its generator takes, in its order, *)
(* and the result where there is one.                                      *)
CaseFields(gen, g, d) ==
    CASE gen \in Aead      -> <<d["key"], d["iv"], d["aad"], d["msg"], d["ct"] \o d["tag"]>>
      [] gen = "aes_siv"   -> <<d["key"], d["aad"], d["msg"], d["ct"]>>
      [] gen = "mac"       -> <<d["key"], d["msg"], d["tag"]>>
      [] gen = "hkdf"      -> <<d["ikm"], d["salt"], d["info"], d["okm"]>>
      [] OTHER             -> g.key \o <<d["msg"], d["sig"]>>
DataResultIfBad(gen, g, tc) ==    \* a bug: a valid case has no result
    CaseFields(gen, g, tc.data)
        \o (IF HasResult(gen) /\ tc.result = "invalid" THEN <<case_result(tc)>> ELSE <<>>)
Data(gen, g, tc) ==
    CaseFields(gen, g, tc.data)
        \o (IF HasResult(gen) THEN <<case_result(tc)>> ELSE <<>>)

(* The generators: a TestInfo for every selected case, groups and cases in *)
(* the order of the file.  hkdf says that it skips a case whose size is    *)
(* not the length of its okm, and keeps it.                                *)
Infos(c) ==
    LET of(gi, ti) ==
            LET g == c.suite.groups[gi]
                tc == g.tests[ti]
            IN  IF ~Selected(c.generator, g, tc, c.key_size) THEN <<>>
                ELSE <<[data |-> Data(c.generator, g, tc),
                        desc |-> [id |-> <<gi, ti>>, result |-> tc.result]]>>
    IN  FlattenSeq([gi \in DOMAIN c.suite.groups |->
            FlattenSeq([ti \in DOMAIN c.suite.groups[gi].tests |-> of(gi, ti)])])

(* The assertions on the way, and case_result's panic.                     *)
GeneratorPanics(c) ==
    \/ c.generator # "ecdsa" /\ ~c.suite.algorithm
    \/ \E gi \in DOMAIN c.suite.groups :
          LET g == c.suite.groups[gi]
          IN  \/ c.generator = "ecdsa" /\ ~g.consistent
              \/ \E ti \in DOMAIN g.tests :
                    /\ Selected(c.generator, g, g.tests[ti], c.key_size)
                    /\ \/ c.generator = "mac" /\ ~g.consistent
                       \/ HasResult(c.generator) /\ g.tests[ti].result = "acceptable"

-----------------------------------------------------------------------------
ToolInit == Init /\ stage = "idle" /\ call = NoCall /\ txt = <<>>

(* main, until the descriptions are written; an algorithm it does not know *)
(* has no generator.                                                       *)
Describe(gen, suite, key_size) ==
    LET c == [generator |-> gen, suite |-> suite, key_size |-> key_size]
    IN  /\ phase = "start" /\ stage = "idle"
        /\ call' = c
        /\ IF gen \notin Generators \/ GeneratorPanics(c)
           THEN stage' = "failed" /\ phase' = "panic" /\ UNCHANGED txt
           ELSE /\ stage' = "described" /\ UNCHANGED phase
                /\ \E infos \in {Infos(c)} : txt' = [i \in DOMAIN infos |-> infos[i].desc]
        /\ UNCHANGED <<blobs, encoded, idx_len, data, rest, dedup, pos, group, items>>

(* The rest of main: all blobs are encoded and written to the other file.  *)
WriteBlobs ==
    /\ stage = "described"
    /\ \E infos \in {Infos(call)} :
          Encodes(FlattenSeq([i \in DOMAIN infos |-> infos[i].data]))
    /\ stage' = (IF phase' = "panic" THEN "failed" ELSE "written")
    /\ UNCHANGED <<call, txt>>

(* A file cannot be created or written.                                    *)
WriteFails ==
    /\ stage = "described"
    /\ stage' = "failed" /\ phase' = "panic"
    /\ UNCHANGED <<blobs, encoded, idx_len, data, rest, dedup, pos, group, items, call, txt>>

ToolNext ==
    \/ /\ stage # "described"
       /\ Next
       /\ IF phase' = "start" THEN stage' = "idle" /\ call' = NoCall /\ txt' = <<>>
          ELSE UNCHANGED toolVars
    \/ /\ phase = "start" /\ stage = "idle"
       /\ \E gen \in Generators \cup {"unrecognized"}, suite \in Suites, key_size \in KeySizes :
             Describe(gen, suite, key_size)
    \/ WriteBlobs
    \/ WriteFails

(* A loop over an iterator goes on until next() returns None.              *)
ReadOn == Len(items) < MaxItems /\ IterNext /\ UNCHANGED toolVars
ToolSpec == ToolInit /\ [][ToolNext]_allVars /\ WF_allVars(ReadOn)

-----------------------------------------------------------------------------
Width(gen) ==
    CASE gen \in Aead                             -> 6
      [] gen \in {"aes_siv", "ed25519", "ecdsa"}  -> 5
      [] gen = "hkdf"                             -> 4
      [] gen = "mac"                              -> 3

(* Whoever reads the tool's output in groups of the generator's number of  *)
(* blobs gets one group per description, in the same order: the data of    *)
(* the described case, and its result as the last blob where there is one. *)
(* Cases that neither must pass nor must fail are not among them; valid    *)
(* cases of the size that was asked for all are.                           *)
CasesReadBack ==
    LET tests(i) == call.suite.groups[txt[i].id[1]].tests[txt[i].id[2]]
        asked(g) == /\ KeySize(call.generator, call.key_size) \in {0, g.key_size}
                    /\ call.generator \in Aead => g.iv_size = IvSize(call.generator)
    IN  stage = "written" /\ phase \in {"reading", "ended"} /\ group = Width(call.generator) =>
           /\ \A gi \in DOMAIN call.suite.groups :
                 LET g == call.suite.groups[gi]
                 IN  asked(g) => \A ti \in DOMAIN g.tests : g.tests[ti].result = "valid" =>
                                    \E i \in DOMAIN txt : txt[i].id = <<gi, ti>>
           /\ \A i \in DOMAIN txt : txt[i].result \in {"valid", "invalid"}
           /\ Len(items) <= Len(txt) /\ (phase = "ended" => Len(items) = Len(txt))
           /\ \A i \in DOMAIN items :
                 /\ items[i].res = "ok"
                 /\ items[i].blobs = Data(call.generator,
                                          call.suite.groups[txt[i].id[1]], tests(i))
                 /\ HasResult(call.generator) =>
                       (Last(items[i].blobs) = <<1>> <=> tests(i).result = "valid")

(* Reading comes to an end, whatever the data: every next() moves on, also *)
(* past empty blobs and references, and after an error there is nothing.   *)
ReadingEnds == phase = "reading" ~> phase \in {"ended", "panic"}
=============================================================================
