------------------------------- MODULE Octets -------------------------------
(* Numbers and lists in octets, as bytes::BufMut and Buf write and read      *)
(* them: big-endian, a number too large for its width cut to it.  A byte has *)
(* Base values instead of 256; ids, hashes and scores are as many bytes as   *)
(* the constants say, the code 20, 32 and 8.                                 *)
EXTENDS Integers, Sequences, SequencesExt

CONSTANTS Base, IdLen, HashLen, ScoreLen

ASSUME WidthsAssumption ==
    /\ Base \in Nat \ {0, 1}
    /\ {IdLen, HashLen, ScoreLen} \subseteq Nat \ {0}

\* u8, [u8; n] and Vec<u8>.
Octet == 0 .. Base - 1
Array(n) == [1 .. n -> Octet]
Bytes == Seq(Octet)

\* u8, u16, u32: the numbers of w octets.
Unsigned(w) ==
    LET values[k \in 0 .. w] == IF k = 0 THEN 1 ELSE Base * values[k - 1]
    IN  0 .. values[w] - 1

\* Lists of items of S whose length is a number of w octets.
Lists(S, w) == {list \in Seq(S) : Len(list) \in Unsigned(w)}

\* put_u8, put_u16, put_u32: n in w octets.
Put(n, w) ==
    LET left[k \in 0 .. w] == IF k = 0 THEN n ELSE left[k - 1] \div Base
    IN  [k \in 1 .. w |-> left[w - k] % Base]

\* get_u8, get_u16, get_u32.
Value(octets) ==
    LET value[k \in 0 .. Len(octets)] ==
            IF k = 0 THEN 0 ELSE value[k - 1] * Base + octets[k]
    IN  value[Len(octets)]

\* split_to, copy_to_slice, advance: len octets after the first skip; the rest.
Field(octets, skip, len) == SubSeq(octets, skip + 1, skip + len)
From(octets, skip) == SubSeq(octets, skip + 1, Len(octets))

\* The encodings of the items of a list, one after the other.
PutAll(PutItem(_), items) == FlattenSeq([k \in DOMAIN items |-> PutItem(items[k])])

\* count items, each read by GetItem, which yields the item and the rest, or
\* nothing where octets are missing: then the list is not read either.
GetAll(GetItem(_), count, octets) ==
    LET read[k \in 0 .. count] ==
            IF k = 0 THEN {[items |-> <<>>, rest |-> octets]}
            ELSE UNION {{[items |-> Append(list.items, got.item), rest |-> got.rest] :
                            got \in GetItem(list.rest)} : list \in read[k - 1]}
    IN  read[count]
=============================================================================
