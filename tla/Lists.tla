-------------------------------- MODULE Lists --------------------------------
(***************************************************************************)
(* What the program does with its lists: it sorts them and it keeps some   *)
(* of their elements.  A place is how much is ahead of it, which needs no  *)
(* operator as an argument and so can be proved about.                     *)
(***************************************************************************)
EXTENDS Integers, Sequences, FiniteSets, SequencesExt, FiniteSetsExt

\* Everything `ahead` is defined on, each after all it puts ahead of it.
Ordered(ahead) ==
  [n \in 1 .. Cardinality(DOMAIN ahead) |->
    CHOOSE i \in DOMAIN ahead : Cardinality(ahead[i]) = n - 1]

\* A set of numbers, the smallest first.
Ascending(numbers) == Ordered([k \in numbers |-> {l \in numbers : l < k}])

\* The elements of a list at some of its places, in the order of the list.
At(list, places) ==
  LET kept == Ascending(places)
  IN  [n \in DOMAIN kept |-> list[kept[n]]]

\* What a list has of a set.
Only(list, set) == At(list, {k \in DOMAIN list : list[k] \in set})

\* A list without its repetitions (dict.fromkeys).
Distinct(list) == At(list, {k \in DOMAIN list : \A j \in 1 .. k - 1 : list[j] # list[k]})
=============================================================================
