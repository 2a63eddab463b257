------------------------------- MODULE HashTable -------------------------------
(***************************************************************************)
(* sys::HashTable (hash_table.hpp), the table behind the cache of disk     *)
(* regions: bins of chained entries that are redistributed when the table  *)
(* gets dense or sparse.  It is checked against the map it stands for.     *)
(***************************************************************************)
EXTENDS Integers, Sequences, SequencesExt

CONSTANTS
  Key, Value, None,
  Hash,       \* Operations::compute_hash, on Key
  MinSize,    \* HashTable::MinSize, a power of two
  MaxBins     \* bound: the table is not grown past this

ASSUME HashAssumption ==
  /\ Hash \in [Key -> Nat] /\ None \notin Value
  /\ MinSize \in {2 ^ i : i \in 2 .. 10} /\ MaxBins \in Nat

VARIABLES
  values,     \* values_: the chain of each bin
  entries,    \* entries_
  content,    \* history: the map the operations describe
  crowded     \* history: "yes" once redistribute met a third entry for one bin

vars == <<values, entries, content, crowded>>

bins == Len(values)

\* find_bin; bins are numbered from 1 here
BinOf(key, total) == (Hash[key] % total) + 1

Max_density_p == entries >= (bins * 3) \div 4
Min_density_p == entries < (bins * 3) \div 10

Init ==
  /\ values = [i \in 1 .. MinSize |-> <<>>]
  /\ entries = 0
  /\ content = [k \in Key |-> None] /\ crowded = "no"

-------------------------------------------------------------------------------
\* The entries that redistribute puts into a bin of the new table, in its order
Arrivals(b, total) == SelectSeq(FlattenSeq(values), LAMBDA e : BinOf(e.key, total) = b)

\* Mutant: the entry replaces the head instead of following it.
RedistributedOver(total) ==
  [b \in 1 .. total |-> LET a == Arrivals(b, total)
                        IN  IF Len(a) <= 1 THEN a ELSE <<Last(a)>>]

\* redistribute: each entry after the first is hung on the head, in the place of
\* the one before it
Redistributed(total) ==
  [b \in 1 .. total |-> LET a == Arrivals(b, total)
                        IN  IF Len(a) <= 2 THEN a ELSE <<Head(a), Last(a)>>]

\* What redistribute(total), if called, makes of values_, and whether it met a
\* third entry for a bin
Resized(total, wanted) == IF wanted THEN Redistributed(total) ELSE values
Crowds(total, wanted) ==
  IF wanted /\ \E b \in 1 .. total : Len(Arrivals(b, total)) > 2 THEN "yes" ELSE crowded

\* Where key is in a chain, or 0
Position(chain, key) == SelectInSeq(chain, LAMBDA e : e.key = key)

\* Mutant: store keeps the value of a key it has.
PutKeepsOld(chain, key, value) ==
  IF Position(chain, key) = 0 THEN Append(chain, [key |-> key, value |-> value]) ELSE chain

\* The chain after store
Put(chain, key, value) ==
  IF Position(chain, key) = 0
  THEN Append(chain, [key |-> key, value |-> value])
  ELSE [chain EXCEPT ![Position(chain, key)].value = value]

\* The chain after remove
Cut(chain, key) ==
  IF Position(chain, key) = 0 THEN chain ELSE RemoveAt(chain, Position(chain, key))

\* Mutant: store does not grow the table.
StoreNoGrow(key, value) ==
  /\ LET bin == BinOf(key, bins) IN
     /\ values' = [values EXCEPT ![bin] = Put(@, key, value)]
     /\ entries' = IF Position(values[bin], key) = 0 THEN entries + 1 ELSE entries
  /\ content' = [content EXCEPT ![key] = value] /\ UNCHANGED crowded

store(key, value) ==
  LET grow  == Max_density_p
      table == Resized(2 * bins, grow)
      bin   == BinOf(key, Len(table)) IN
  /\ grow => 2 * bins <= MaxBins
  /\ values' = [table EXCEPT ![bin] = Put(@, key, value)]
  /\ entries' = IF Position(table[bin], key) = 0 THEN entries + 1 ELSE entries
  /\ crowded' = Crowds(2 * bins, grow)
  /\ content' = [content EXCEPT ![key] = value]

\* Mutant: remove does not stop shrinking at the table it can still index.
RemoveShrinksMore(key) ==
  LET shrink == entries <= (bins * 3) \div 10
      table  == Resized(bins \div 2, shrink)
      bin    == BinOf(key, Len(table)) IN
  /\ values' = [table EXCEPT ![bin] = Cut(@, key)]
  /\ entries' = IF Position(table[bin], key) = 0 THEN entries ELSE entries - 1
  /\ crowded' = Crowds(bins \div 2, shrink)
  /\ content' = [content EXCEPT ![key] = None]

remove(key) ==
  LET shrink == Min_density_p
      table  == Resized(bins \div 2, shrink)
      bin    == BinOf(key, Len(table)) IN
  /\ values' = [table EXCEPT ![bin] = Cut(@, key)]
  /\ entries' = IF Position(table[bin], key) = 0 THEN entries ELSE entries - 1
  /\ crowded' = Crowds(bins \div 2, shrink)
  /\ content' = [content EXCEPT ![key] = None]

\* The value fetch finds, or None
fetch(key) ==
  LET chain == values[BinOf(key, bins)] IN
  IF Position(chain, key) = 0 THEN None ELSE chain[Position(chain, key)].value

\* What Iterator::next returns, call after call
Iteration == FlattenSeq(values)

Next == \E k \in Key : remove(k) \/ \E v \in Value : store(k, v)

Spec == Init /\ [][Next]_vars

-------------------------------------------------------------------------------
\* Apart from its type: the number of bins stays a power of two and above one,
\* so that find_bin's mask selects a bin (redistribute(bins_ >> 1) in remove).
TypeOK ==
  /\ bins \in {2 ^ i : i \in 1 .. 10} /\ bins <= MaxBins
  /\ \A b \in 1 .. bins : \A i \in 1 .. Len(values[b]) :
       values[b][i].key \in Key /\ values[b][i].value \in Value
  /\ entries \in Nat /\ crowded \in {"yes", "no"}

\* The table is the map its operations describe, across growing and shrinking,
\* entries_ counts its keys and the iterator returns each once, as long as no
\* redistribute has met three entries for one bin: slot->next = entry drops the
\* one in between (hash_table.hpp:70).
IsTheMap ==
  crowded = "no" =>
    /\ \A k \in Key : fetch(k) = content[k]
    /\ entries = Cardinality({k \in Key : content[k] # None})
    /\ entries = Len(Iteration)

\* Even then an entry is only ever lost: fetch never returns a value other than
\* the last one stored, nor one that was removed.
NeverWrong == \A k \in Key : fetch(k) \in {content[k], None}

\* However the table grows and shrinks, it is at most three quarters full.
LoadBounded == entries <= (bins * 3) \div 4

===============================================================================
