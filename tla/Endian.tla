------------------------------- MODULE Endian --------------------------------
(***************************************************************************)
(* Byte order: the functions of endian_convert.cpp are the same for 16, 32 *)
(* and 64 bits and for both orders, and are modelled once with the width   *)
(* and the order as parameters.  A word is the sequence of its bytes, the     *)
(* least significant one first.                                            *)
(***************************************************************************)
EXTENDS Naturals, Sequences

CONSTANTS Hosts,       \* NATIVE_LITTLE_ENDIAN, NATIVE_BIG_ENDIAN: "LE", "BE"
          Widths,      \* bytes of a word: 2, 4, 8
          WordBytesOf  \* values of a byte

ASSUME EndianAssumption == Hosts \subseteq {"LE", "BE"} /\ Widths \subseteq Nat

VARIABLES
  endHost,     \* the order of the machine
  endWord      \* a word

endVars == <<endHost, endWord>>

Width(w) == Len(w)
SWAPBYTES(w) == [i \in 1 .. Width(w) |-> w[Width(w) + 1 - i]]

\* HOSTTOLE16 and the like: nothing to do if the machine has that order.
Convert_Always(w, order) == SWAPBYTES(w)  \* (variant: on every machine)
Convert(w, order) == IF order = endHost THEN w ELSE SWAPBYTES(w)

\* What memcpy sees of a word, and a word of what memcpy puts there.
Memory(w) == IF endHost = "LE" THEN w ELSE SWAPBYTES(w)
HostTo(order, w) == Memory(Convert(w, order))
ToHost(order, bytes) == Convert(Memory(bytes), order)

EndInit == endHost = "LE" /\ endWord = <<0, 0>>
EndNext ==
  \/ endHost' \in Hosts /\ UNCHANGED endWord
  \/ \E n \in Widths : endWord' = [i \in 1 .. n |-> 0] /\ UNCHANGED endHost
  \/ \E i \in 1 .. Width(endWord), b \in WordBytesOf :
       endWord' = [endWord EXCEPT ![i] = b] /\ UNCHANGED endHost

\* On either machine the bytes are written with the one first that the name says,
\* and read back from there as the same word.
BytesInOrder ==
  /\ HostTo("LE", endWord) = endWord
  /\ \A i \in 1 .. Width(endWord) :
       HostTo("BE", endWord)[i] = endWord[Width(endWord) + 1 - i]
  /\ \A order \in {"LE", "BE"} : ToHost(order, HostTo(order, endWord)) = endWord
=============================================================================
