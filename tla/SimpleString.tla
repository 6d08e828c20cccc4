---------------------------- MODULE SimpleString ----------------------------
(***************************************************************************)
(* sstring of simple_string.cpp: a string in its own buffer, in a heap     *)
(* block that grows by powers of two, or in a buffer of the caller.  The   *)
(* bytes beyond the length stay what they were, as in the code.  The       *)
(* operand of every operation is another string than the modified one,     *)
(* setChar leaves no gap, and allocation succeeds, as LOG_ASSERT(mpBuf)    *)
(* has it.                                                                 *)
(***************************************************************************)
EXTENDS Integers, Sequences, SequencesExt

CONSTANTS Chars,         \* characters other than NUL
          InitialSize,   \* SS_INITIAL_STRING_SIZE
          Texts,         \* operands, sequences over Chars and NUL
          MaxText        \* bound: no text gets longer

NUL == 0

ASSUME StringAssumption == InitialSize \in Nat /\ \A q \in Texts : q \in Seq(Chars \cup {NUL})

VARIABLES
  str,      \* the object: kind, bytes (mMaxSize of them), size, blocks (heap)
  strText   \* the text it should hold

strVars == <<str, strText>>

NewString == [kind |-> "initial", bytes |-> [i \in 1 .. InitialSize |-> NUL],
              size |-> 0, blocks |-> 0]
StrInit == str = NewString /\ strText = <<>>

nextPowerOfTwo(v) ==
  LET power[k \in 0 .. v] == IF k = 0 THEN 1 ELSE 2 * power[k - 1]
  IN CHOOSE p \in {power[k] : k \in 0 .. v} : p >= v /\ p < 2 * v
WriteAt(b, at, q) == [i \in 1 .. Len(b) |-> IF i \in at + 1 .. at + Len(q) THEN q[i - at] ELSE b[i]]

grow_KeepOldBlock(s, n) ==  \* (variant: the old block is not freed)
  IF n + 1 <= Len(s.bytes) THEN s
  ELSE [kind |-> "heap", size |-> s.size, blocks |-> s.blocks + 1,
        bytes |-> [i \in 1 .. nextPowerOfTwo(n + 1) |-> IF i <= s.size THEN s.bytes[i] ELSE NUL]]
\* A new block, always with room for a NUL; the old one is freed if it was a block.
grow(s, n) ==
  IF n + 1 <= Len(s.bytes) THEN s
  ELSE [kind |-> "heap", size |-> s.size,
        blocks |-> IF s.kind = "heap" THEN s.blocks ELSE s.blocks + 1,
        bytes |-> [i \in 1 .. nextPowerOfTwo(n + 1) |-> IF i <= s.size THEN s.bytes[i] ELSE NUL]]
GrowTo(s, n) == IF Len(s.bytes) < n THEN grow(s, n) ELSE s

\* A buffer of the caller is given up, any other is zeroed as far as it was used.
clear(s) ==
  IF s.kind = "static" THEN [NewString EXCEPT !.blocks = s.blocks]
  ELSE [s EXCEPT !.bytes = WriteAt(@, 0, [i \in 1 .. s.size |-> NUL]), !.size = 0]
dtor(s) == [NewString EXCEPT !.blocks = IF s.kind = "heap" THEN s.blocks - 1 ELSE s.blocks]

assignBytes(s, q) ==
  LET t == GrowTo(clear(s), Len(q))
  IN [t EXCEPT !.bytes = WriteAt(@, 0, q), !.size = Len(q)]
\* The terminator goes after the text.  (The code writes it also when clear gave
\* up a buffer of the caller and the text fills the initial one to the end.)
assign(s, q) ==
  LET t == assignBytes(GrowTo(s, Len(q) + 1), q)
  IN [t EXCEPT !.bytes = WriteAt(@, Len(q), <<NUL>>)]
operatorAssign(s, q) == assignBytes(s, q)
assign_static(s, q) == [dtor(s) EXCEPT !.kind = "static", !.bytes = q, !.size = Len(q)]

set_len(s, n) == LET t == GrowTo(s, n)
                 IN [t EXCEPT !.size = IF n <= Len(t.bytes) THEN n ELSE Len(t.bytes)]
commit_append(s, n) == set_len(s, s.size + n)

appendu_NoGrow(s, q) ==  \* (variant: writes what fits)
  commit_append([s EXCEPT !.bytes = WriteAt(@, s.size, q)], Len(q))
appendu(s, q) ==
  LET t == grow(s, s.size + Len(q))
  IN commit_append([t EXCEPT !.bytes = WriteAt(@, s.size, q)], Len(q))
append_str(s, q) == appendu(s, q)
push_back(s, c) == appendu(s, <<c>>)

\* Room for amt bytes, and the length that the caller is going to write; the
\* others do the same for elements of w bytes.
u8DataPtr(s, amt, len) == set_len(GrowTo(s, amt), len)
DataPtr(s, w, amt, len) == u8DataPtr(s, amt * w, len * w)

TextUpTo(q, c) == CHOOSE n \in 0 .. Len(q) : /\ n = 0 \/ q[n] # c
                                             /\ \A i \in n + 1 .. Len(q) : q[i] = c
trim_char(s, c) ==
  LET n == TextUpTo(SubSeq(s.bytes, 1, s.size), c)
  IN [s EXCEPT !.bytes = WriteAt(@, n, [i \in 1 .. s.size - n |-> NUL]), !.size = n]
push_char(s, c) ==
  LET t == trim_char(s, NUL)
      u == grow(t, t.size + 2)
  IN [u EXCEPT !.bytes = WriteAt(@, t.size, <<c, NUL>>), !.size = t.size + 1]
appendp(s, q, nullTerminate) ==
  LET t == trim_char(s, NUL)
      u == IF q = <<>> THEN t ELSE appendu(t, q)
  IN IF nullTerminate THEN push_char(u, NUL) ELSE u
setChar(s, idx, c) ==
  LET t == IF idx >= Len(s.bytes) THEN grow(s, idx + 1) ELSE s
  IN [t EXCEPT !.bytes = WriteAt(@, idx, <<c>>), !.size = IF @ <= idx THEN idx + 1 ELSE @]

charAt(s, idx) == IF idx \in 0 .. s.size - 1 THEN s.bytes[idx + 1] ELSE NUL
equals(s, q) == s.size = Len(q) /\ SubSeq(s.bytes, 1, s.size) = q
index_of_Last(s, c) ==  \* (variant: the loop does not stop)
  LET at == {i \in 0 .. s.size - 1 : s.bytes[i + 1] = c}
  IN IF at = {} THEN -1 ELSE Max(at)
index_of(s, c) ==
  LET at == {i \in 0 .. s.size - 1 : s.bytes[i + 1] = c}
  IN IF at = {} THEN -1 ELSE Min(at)

------------------------------------------------------------------------------
Trimmed(q) == SubSeq(q, 1, TextUpTo(q, NUL))
IsCString(q) == NUL \notin Range(q)
StrBecomes(s, text) == Len(text) <= MaxText /\ str' = s /\ strText' = text

StrAssign ==
  \E q \in Texts :
    \/ StrBecomes(operatorAssign(str, q), q)
    \/ IsCString(q) /\ StrBecomes(assign(str, q), q)
    \/ q # <<>> /\ StrBecomes(assign_static(str, q), q)

StrAppend ==
  \E q \in Texts :
    \/ StrBecomes(append_str(str, q), strText \o q)
    \/ /\ IsCString(q)
       /\ \E nullTerminate \in BOOLEAN :
            StrBecomes(appendp(str, q, nullTerminate),
              IF nullTerminate THEN Trimmed(Trimmed(strText) \o q) \o <<NUL>>
                               ELSE Trimmed(strText) \o q)

StrChar ==
  \E c \in Chars :
    \/ StrBecomes(push_back(str, c), Append(strText, c))
    \/ StrBecomes(push_char(str, c), Trimmed(strText) \o <<c>>)
    \/ StrBecomes(trim_char(str, c), SubSeq(strText, 1, TextUpTo(strText, c)))
    \/ \E i \in 0 .. Len(strText) :
         StrBecomes(setChar(str, i, c),
                    IF i = Len(strText) THEN Append(strText, c) ELSE [strText EXCEPT ![i + 1] = c])

StrLength ==
  \/ StrBecomes(clear(str), <<>>)
  \/ StrBecomes(dtor(str), <<>>)
  \/ \E n \in 0 .. Len(strText) : StrBecomes(set_len(str, n), SubSeq(strText, 1, n))

\* The caller writes through the pointer it gets.
StrData ==
  \E q \in Texts, w \in {1, 2} :
    /\ Len(q) % w = 0
    /\ LET t == DataPtr(str, w, Len(q) \div w, Len(q) \div w)
       IN StrBecomes([t EXCEPT !.bytes = WriteAt(@, 0, q)], q)

StrNext == StrData \/ StrAssign \/ StrAppend \/ StrChar \/ StrLength

------------------------------------------------------------------------------
\* Through all growing, trimming, shortening and changing of buffers the bytes
\* up to the length are the text that was put together.
StringHoldsText == str.size = Len(strText) /\ SubSeq(str.bytes, 1, str.size) = strText

\* What the string is asked, it answers from that text: where a character first
\* is, which character is where, and whether it equals another text.
StringAnswers ==
  /\ \A c \in Chars : index_of(str, c) = SelectInSeq(strText, LAMBDA x : x = c) - 1
  /\ \A i \in 0 .. Len(strText) :
       charAt(str, i) = IF i < Len(strText) THEN strText[i + 1] ELSE NUL
  /\ \A q \in Texts : equals(str, q) <=> strText = q

\* One heap block is allocated while the string lives in one, else none.
OneBlockPerHeapString == str.blocks = IF str.kind = "heap" THEN 1 ELSE 0
=============================================================================
