-------------------------------- MODULE Pairs --------------------------------
(***************************************************************************)
(* The form in which header maps go between host and guest (pairs_util.cc): the    *)
(* number of pairs, the length of each name and value, and then all of them, each     *)
(* with a null byte after it.  A string is a sequence of bytes.                    *)
(***************************************************************************)
EXTENDS Integers, Sequences, SequencesExt

CONSTANTS MaxBytes, MaxCount        \* PROXY_WASM_HOST_PAIRS_MAX_BYTES and _MAX_COUNT
ASSUME PairsAssumption == MaxBytes \in Nat /\ MaxCount \in Nat

HeaderMap == Seq(Seq(Int) \X Seq(Int))      \* pairs of a name and a value

(* A buffer as its reader divides it: the words are four bytes long, text is what        *)
(* follows them.                                                                  *)
BytesOf(b) == 4 + 8 * Len(b.sizes) + Len(b.text)

PairsSize(pairs) ==
    LET size[i \in 0 .. Len(pairs)] ==
            IF i = 0 THEN 4
            ELSE size[i - 1] + 8 + Len(pairs[i][1]) + 1 + Len(pairs[i][2]) + 1
    IN size[Len(pairs)]

BadMarshalPairs(pairs) ==
    [count |-> Len(pairs),
     sizes |-> [i \in DOMAIN pairs |-> <<Len(pairs[i][1]), Len(pairs[i][2])>>],
     text |-> FlattenSeq([i \in DOMAIN pairs |-> pairs[i][1] \o pairs[i][2] \o <<0>>])]
MarshalPairs(pairs) ==
    [count |-> Len(pairs),
     sizes |-> [i \in DOMAIN pairs |-> <<Len(pairs[i][1]), Len(pairs[i][2])>>],
     text |-> FlattenSeq([i \in DOMAIN pairs |-> pairs[i][1] \o <<0>> \o pairs[i][2] \o <<0>>])]

(* Where the names begin in the text, and where it should end. *)
Names(b) ==
    LET at[i \in 1 .. b.count + 1] ==
            IF i = 1 THEN 1 ELSE at[i - 1] + b.sizes[i - 1][1] + b.sizes[i - 1][2] + 2
    IN at

(* toPairs: all of the buffer is read or it counts for nothing. *)
ToPairs(b) ==
    LET at == Names(b)
        value(i) == at[i] + b.sizes[i][1] + 1
        ended(i) ==
            /\ at[i + 1] - 1 <= Len(b.text)
            /\ b.text[value(i) - 1] = 0 /\ b.text[at[i + 1] - 1] = 0
    IN IF /\ BytesOf(b) <= MaxBytes /\ b.count <= MaxCount /\ Len(b.sizes) >= b.count
          /\ \A i \in 1 .. b.count : ended(i)
          /\ at[b.count + 1] - 1 = Len(b.text)
       THEN [i \in 1 .. b.count |-> <<SubSeq(b.text, at[i], value(i) - 2),
                                      SubSeq(b.text, value(i), at[i + 1] - 2)>>]
       ELSE <<>>

WithinLimits(pairs) == PairsSize(pairs) <= MaxBytes /\ Len(pairs) <= MaxCount
=============================================================================
