-------------------------------- MODULE HashMap --------------------------------
(***************************************************************************)
(* hashmap.c, as the loader of dot files uses it: a table of chains.  The  *)
(* index of a key is the fraction of djb2(key) * 0.2, times the size of    *)
(* the table: nearly all keys have one of five, so long chains are the     *)
(* rule.                                                                   *)
(***************************************************************************)
EXTENDS Integers, SequencesExt

CONSTANT Bucket                     \* the indexes of the table

NoChains == [b \in Bucket |-> <<>>]
Entry(key, data) == [key |-> key, data |-> data]

(* MUTANT: the first node of the chain is taken for the key *)
FindFirst(chains, b, key) ==
  IF chains[b] = <<>> THEN {} ELSE {Head(chains[b])}

(* hashmap_find: the first node of the chain with this key, if any *)
Find(chains, b, key) ==
  LET matches == {j \in DOMAIN chains[b] : chains[b][j].key = key}
  IN  {chains[b][j] : j \in {i \in matches : \A k \in matches : i <= k}}

(* hashmap_set: the root is not compared, and it is the node before the    *)
(* one that matches which is given the data                                *)
Set(chains, b, key, data) ==
  LET chain == chains[b]
      later == {j \in DOMAIN chain : j > 1 /\ chain[j].key = key}
  IN  IF later = {}
      THEN [chains EXCEPT ![b] = Append(@, Entry(key, data))]
      ELSE LET first == CHOOSE j \in later : \A k \in later : j <= k
           IN  [chains EXCEPT ![b][first - 1].data = data]

=============================================================================
