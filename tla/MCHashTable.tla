---------------------------- MODULE MCHashTable ----------------------------
(* Instances of HashTable for TLC. *)
EXTENDS HashTable

\* Two keys have the same hash number; the chains of the others part at the
\* first split (7 and 9) or at the second (7 and 3, 4 and 0), and the larger
\* of two may be the one that stays.
Keys == {"a", "b", "c", "d", "e", "f"}
Hashes == [k \in Keys |-> CASE k \in {"a", "b"} -> 7 [] k = "c" -> 9
                            [] k = "d" -> 4 [] k = "e" -> 0 [] k = "f" -> 3]

\* With the first, elements go into eight slots by twos, structures are
\* shrunk and united; with the second, five elements have eight slots, so
\* that chains split twice under a generator.
Factors == {<<2, 1>>, <<1, 0>>}
=============================================================================
