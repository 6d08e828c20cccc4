------------------------------- MODULE ByteFifo -------------------------------
(***************************************************************************)
(* What a byte queue promises one writer and one reader.  A write is taken *)
(* as a whole or refused as a whole, and refused only if it did not fit    *)
(* when it began.  A read returns the oldest bytes, all that are asked for *)
(* or as many as there were when it began.  Forced writes always fit: they *)
(* push the oldest bytes out.                                              *)
(***************************************************************************)
EXTENDS Integers, Sequences

CONSTANTS Capacity,
          Values,      \* of a byte
          MaxLen       \* longest block written or asked for

VARIABLES content,     \* oldest byte first
          offered,     \* {the block a write in progress will add}
          taking,      \* {the read in progress}
          accepted,    \* what the last write returned
          given        \* the bytes the last read returned

absVars == <<content, offered, taking, accepted, given>>

Smaller(a, b) == IF a < b THEN a ELSE b

Blocks == UNION { [1 .. n -> Values] : n \in 1 .. MaxLen }

AbsInit ==
  /\ content = << >> /\ offered = {} /\ taking = {}
  /\ accepted = 0 /\ given = << >>

BeginPut(block) ==
  /\ offered = {}
  /\ offered' = IF Len(content) + Len(block) <= Capacity THEN {block} ELSE {<< >>}
  /\ UNCHANGED <<content, taking, accepted, given>>

EndPut ==
  /\ \E block \in offered : content' = content \o block /\ accepted' = Len(block)
  /\ offered' = {}
  /\ UNCHANGED <<taking, given>>

\* keep: the bytes stay in the queue
BeginTake(n, keep) ==
  /\ taking = {}
  /\ taking' = {[bytes |-> Smaller(n, Len(content)), keep |-> keep]}
  /\ UNCHANGED <<content, offered, accepted, given>>

EndTake ==
  /\ \E t \in taking :
       /\ given' = SubSeq(content, 1, t.bytes)
       /\ content' = IF t.keep THEN content
                     ELSE SubSeq(content, t.bytes + 1, Len(content))
  /\ taking' = {}
  /\ UNCHANGED <<offered, accepted>>

\* The last two are for a caller that keeps the other side out.
ForcePut(block) ==
  /\ offered = {} /\ taking = {}
  /\ LET all == content \o block
         excess == Len(all) - Capacity
     IN content' = IF excess > 0 THEN SubSeq(all, excess + 1, Len(all)) ELSE all
  /\ accepted' = Len(block)
  /\ UNCHANGED <<offered, taking, given>>

Clear ==
  /\ offered = {} /\ taking = {}
  /\ content' = << >>
  /\ UNCHANGED <<offered, taking, accepted, given>>

AbsNext ==
  \/ \E block \in Blocks : BeginPut(block) \/ ForcePut(block)
  \/ \E n \in 1 .. MaxLen, keep \in BOOLEAN : BeginTake(n, keep)
  \/ EndPut \/ EndTake \/ Clear

AbsSpec == AbsInit /\ [][AbsNext]_absVars
=============================================================================
