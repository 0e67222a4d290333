----------------------------- MODULE HexLiteral -----------------------------
(***************************************************************************)
(* hex-literal: the hex! macro, which turns string literals with hex       *)
(* digits, whitespace and comments into an array of bytes.  The characters *)
(* pass one at a time through the comment filter (ExcludingComments), the  *)
(* digit reader (next_hex_val) and the token iterator (TokenTreeIter).     *)
(*                                                                         *)
(* A character is its own, "space" stands for blank, tab and carriage      *)
(* return, and "other" for every character that is not allowed.            *)
(***************************************************************************)
EXTENDS Integers, Sequences, SequencesExt

CONSTANTS
    Chars,      \* the characters of literals
    Tokens,     \* the tokens of calls and of groups, see IsToken
    MaxChars,   \* bound: characters of one call of the macro
    MaxTokens   \* bound: tokens of one call

Upper == <<"0", "1", "2", "3", "4", "5", "6", "7", "8", "9", "A", "B", "C", "D", "E", "F">>
Lower == <<"a", "b", "c", "d", "e", "f">>

(* A token is a string literal, a group without delimiters, as macro_rules!*)
(* puts around what it substitutes, which holds any number of tokens, or   *)
(* something else: another literal, a word, a group with delimiters.       *)
IsToken(t) ==
    /\ t.kind \in {"string", "group", "other"}
    /\ t.stream \in Seq(Tokens)
    /\ t.kind # "group" => t.stream = <<>>

ASSUME HexAssumption ==
    /\ Chars \subseteq ToSet(Upper) \cup ToSet(Lower)
                          \cup {"space", "newline", "/", "*", "other"}
    /\ \A t \in Tokens : IsToken(t)
    /\ MaxChars \in Nat /\ MaxTokens \in Nat

VARIABLES
    phase,      \* start, tokens (hex's loop), reading (a literal), done, panic
    given,      \* history: the tokens of the call
    queue,      \* the tokens still to come
    texts,      \* history: the texts of the literals, as far as read
    state,      \* ExcludingComments::state
    p1,         \* the first digit of a byte, -1 when there is none
    is_punct,   \* TokenTreeIter::is_punct
    out         \* the tokens produced: bytes, and -1 for commas

hexVars == <<phase, given, queue, texts, state, p1, is_punct, out>>

Comma == -1

IsGroup(t) == t.kind = "group"

-----------------------------------------------------------------------------
(* ignore_groups goes on with the tokens of the call after it has taken    *)
(* the stream of a group, so the last of the leading groups counts.        *)
IgnoreGroups(ts) ==
    LET leading == {k \in 1..Len(ts) : \A i \in 1..k : IsGroup(ts[i])}
        last == CHOOSE k \in leading : k + 1 \notin leading
    IN  IF leading = {} THEN ts ELSE ts[last].stream

(* The machine of next_byte.                                               *)
Transition(s, c) ==
    CASE s = "Normal"           -> IF c = "/" THEN "PotentialComment" ELSE "Normal"
      [] s = "PotentialComment" -> IF c = "/" THEN "LineComment"
                                   ELSE IF c = "*" THEN "BlockComment" ELSE "panic"
      [] s = "LineComment"      -> IF c = "newline" THEN "Normal" ELSE "LineComment"
      [] s = "BlockComment"     -> IF c = "*" THEN "PotentialBlockCommentEnd" ELSE "BlockComment"
      [] s = "PotentialBlockCommentEnd" -> IF c = "/" THEN "Normal" ELSE "BlockComment"
(* The characters next_byte passes on.                                     *)
Passes(s, c) == (s = "Normal" /\ c # "/") \/ (s = "LineComment" /\ c = "newline")
OpenComment(s) == s \in {"BlockComment", "PotentialBlockCommentEnd", "PotentialComment"}

IsHex(c) == c \in ToSet(Upper) \cup ToSet(Lower)
IsAllowed(c) == IsHex(c) \/ c \in {"space", "newline"}
HexVal(c) ==
    IF c \in ToSet(Upper)
    THEN (CHOOSE i \in DOMAIN Upper : Upper[i] = c) - 1
    ELSE (CHOOSE i \in DOMAIN Lower : Lower[i] = c) + 9

-----------------------------------------------------------------------------
Fresh ==
    /\ state' = "Normal" /\ p1' = -1 /\ is_punct' = FALSE

HexInit ==
    /\ phase = "start" /\ given = <<>> /\ queue = <<>> /\ texts = <<>>
    /\ state = "Normal" /\ p1 = -1 /\ is_punct = FALSE
    /\ out = <<>>

(* hex! is called.                                                         *)
Hex(ts) ==
    /\ phase = "start"
    /\ phase' = "tokens" /\ given' = ts /\ queue' = IgnoreGroups(ts)
    /\ UNCHANGED <<texts, state, p1, is_punct, out>>

(* TokenTreeIter::new; a group, or a literal that is no string, is refused.*)
NewGoesOn ==    \* a bug: the iterator is not a new one for every literal
    /\ phase = "tokens" /\ queue # <<>>
    /\ queue' = Tail(queue)
    /\ IF Head(queue).kind = "string"
       THEN phase' = "reading" /\ texts' = Append(texts, <<>>)
       ELSE phase' = "panic" /\ UNCHANGED texts
    /\ UNCHANGED <<given, state, p1, is_punct, out>>
New ==
    /\ phase = "tokens" /\ queue # <<>>
    /\ queue' = Tail(queue)
    /\ IF Head(queue).kind = "string"
       THEN phase' = "reading" /\ texts' = Append(texts, <<>>) /\ Fresh
       ELSE phase' = "panic" /\ UNCHANGED <<texts, state, p1, is_punct>>
    /\ UNCHANGED <<given, out>>

(* TokenTreeIter::next after a byte.                                       *)
NextCommaAgain ==    \* a bug: is_punct is not set back
    /\ phase = "reading" /\ is_punct
    /\ out' = Append(out, Comma)
    /\ UNCHANGED <<phase, given, queue, texts, state, p1, is_punct>>
NextComma ==
    /\ phase = "reading" /\ is_punct
    /\ out' = Append(out, Comma) /\ is_punct' = FALSE
    /\ UNCHANGED <<phase, given, queue, texts, state, p1>>

(* The digit reader gets what the filter passes.                           *)
NextHexVal(c) ==
    IF ~IsAllowed(c) THEN phase' = "panic" /\ UNCHANGED <<p1, is_punct, out>>
    ELSE IF ~IsHex(c) THEN UNCHANGED <<phase, p1, is_punct, out>>
    ELSE IF p1 = -1 THEN p1' = HexVal(c) /\ UNCHANGED <<phase, is_punct, out>>
    ELSE /\ out' = Append(out, p1 * 16 + HexVal(c))
         /\ p1' = -1 /\ is_punct' = TRUE
         /\ UNCHANGED phase

(* TokenTreeIter::next otherwise: one character of the literal.            *)
NextChar(c) ==
    /\ phase = "reading" /\ ~is_punct
    /\ texts' = [texts EXCEPT ![Len(texts)] = Append(@, c)]
    /\ IF Transition(state, c) = "panic"
       THEN phase' = "panic" /\ UNCHANGED <<state, p1, is_punct, out>>
       ELSE /\ state' = Transition(state, c)
            /\ IF Passes(state, c)
               THEN NextHexVal(c)
               ELSE UNCHANGED <<phase, p1, is_punct, out>>
    /\ UNCHANGED <<given, queue>>

(* The same at the end of the literal.                                     *)
NextNone ==
    /\ phase = "reading" /\ ~is_punct
    /\ phase' = (IF OpenComment(state) \/ p1 # -1 THEN "panic" ELSE "tokens")
    /\ UNCHANGED <<given, queue, texts, state, p1, is_punct, out>>

(* The array is returned.                                                  *)
ReturnArray ==
    /\ phase = "tokens" /\ queue = <<>>
    /\ phase' = "done"
    /\ UNCHANGED <<given, queue, texts, state, p1, is_punct, out>>

(* Another call of the macro.                                              *)
Again ==
    /\ phase \in {"done", "panic"}
    /\ phase' = "start" /\ given' = <<>> /\ queue' = <<>> /\ texts' = <<>>
    /\ out' = <<>>
    /\ Fresh

HexNext ==
    \/ \E ts \in SeqOf(Tokens, MaxTokens) : Hex(ts)
    \/ New
    \/ NextComma
    \/ \E c \in Chars : Len(FlattenSeq(texts)) < MaxChars /\ NextChar(c)
    \/ NextNone
    \/ ReturnArray
    \/ Again

HexSpec == HexInit /\ [][HexNext]_hexVars

-----------------------------------------------------------------------------
(* What the documentation says of a text: comments run from // to the end  *)
(* of the line, or from /* to the next */; the rest is hex digits in pairs *)
(* and whitespace.  Invalid stands for a text that has no meaning.         *)
Invalid == <<"invalid">>

(* Where the comment that begins at i is over; 0 if it never is.           *)
AfterComment(t, i) ==
    LET ends == IF t[i+1] = "/"
                THEN {j \in i+2..Len(t)+1 : j = Len(t) + 1 \/ t[j] = "newline"}
                ELSE {j \in i+4..Len(t)+1 : t[j-2] = "*" /\ t[j-1] = "/"}
    IN  IF ends = {} THEN 0 ELSE CHOOSE j \in ends : \A k \in ends : j <= k

(* Where the text goes on after what is at i; 0 if / begins no comment or  *)
(* one that is never over.                                                 *)
Follows(t, i) ==
    IF t[i] # "/" THEN i + 1
    ELSE IF i < Len(t) /\ t[i+1] \in {"/", "*"} THEN AfterComment(t, i) ELSE 0

Joined(a, b) == IF b = Invalid THEN Invalid ELSE a \o b

Uncommented(t) ==
    LET from[i \in 1..Len(t)+1] ==
            IF i > Len(t) THEN <<>>
            ELSE IF Follows(t, i) = 0 \/ ~(t[i] = "/" \/ IsAllowed(t[i])) THEN Invalid
            ELSE Joined(IF IsHex(t[i]) THEN <<t[i]>> ELSE <<>>, from[Follows(t, i)])
    IN  from[1]

Meaning(t) ==
    LET digits == Uncommented(t)
    IN  IF digits = Invalid \/ Len(digits) % 2 = 1 THEN <<-1>>
        ELSE [i \in 1..Len(digits) \div 2 |->
                 16 * HexVal(digits[2*i-1]) + HexVal(digits[2*i])]

(* The bytes of the array, which stand before and between the commas.      *)
OutBytes == [i \in 1..(Len(out) + 1) \div 2 |-> out[2*i - 1]]

DoubleStar(t) == \E i \in 1..Len(t)-1 : t[i] = "*" /\ t[i+1] = "*"

-----------------------------------------------------------------------------
(* The tokens of a call without groups, or with one group around them all. *)
Plainly(ts) ==
    LET inside == IF Len(ts) = 1 /\ IsGroup(ts[1]) THEN ts[1].stream ELSE ts
    IN  IF \E i \in DOMAIN inside : IsGroup(inside[i]) THEN {} ELSE {inside}

(* The array holds the bytes the literals mean, in order and across        *)
(* literals, and a literal is refused exactly when it means none; one      *)
(* group around all of them changes nothing.  Texts with ** are set apart: *)
(* see BlockCommentsEnd.  So are calls with groups around some literals or *)
(* in groups: see GroupsStripped.                                          *)
LiteralsMeanBytes ==
    LET meant == FlattenSeq([i \in DOMAIN texts |-> Meaning(texts[i])])
    IN  (\A i \in DOMAIN texts : ~DoubleStar(texts[i])) =>
           \A inside \in Plainly(given) :
              /\ phase = "done" => OutBytes = meant /\ Len(texts) = Len(inside)
              /\ phase = "panic" =>
                    \/ -1 \in ToSet(meant)
                    \/ \E i \in DOMAIN inside : inside[i].kind # "string"

(* The tokens form an array: a byte, a comma, a byte and so on, also where *)
(* one literal ends and the next begins, and between empty ones.           *)
ArrayWellFormed ==
    /\ \A i \in DOMAIN out : out[i] = Comma <=> i % 2 = 0
    /\ phase \in {"tokens", "done"} => Len(out) % 2 = 0

(* "block comment not terminated with */" is what hex! says of a literal   *)
(* that ends while the filter is in a block comment; its documentation     *)
(* accepts "block (/* .. */) comments".  So such a literal has no meaning: *)
(* some comment in it is not terminated.                                   *)
BlockCommentsEnd ==
    phase = "panic" /\ state \in {"BlockComment", "PotentialBlockCommentEnd"} =>
        Uncommented(texts[Len(texts)]) = Invalid

(* ignore_groups is said to strip "any outer `Delimiter::None` groups" and *)
(* to return "the innermost" tokens; and of several literals "results will *)
(* be concatenated".  So a call of string literals, bare or inside groups, *)
(* reads all of them, and is refused only for what a text is.              *)
GroupsStripped ==
    LET bare(ts) == FlattenSeq([i \in DOMAIN ts |->
                                   IF IsGroup(ts[i]) THEN ts[i].stream ELSE <<ts[i]>>])
        literals == bare(bare(given))
    IN  (\A i \in DOMAIN literals : literals[i].kind = "string") =>
           /\ phase = "done" => Len(texts) = Len(literals)
           /\ phase = "panic" =>
                 \E i \in DOMAIN texts : DoubleStar(texts[i]) \/ Meaning(texts[i]) = <<-1>>
=============================================================================
