------------------------------ MODULE StateLog ------------------------------
(***************************************************************************)
(* The log of backups of a run (search/StateLog.cc): states are numbered   *)
(* in the order in which they are first seen, from 0, and the log is the   *)
(* sequence of these numbers.  The index file lists the states in that     *)
(* order; every number of a state vector is written with all its digits.   *)
(***************************************************************************)
EXTENDS Integers, Sequences, SequencesExt

\* The entries of an index that has been asked for the id of s.
WithState(entries, s) ==
  IF s \in ToSet(entries) THEN entries ELSE Append(entries, s)

StateId(entries, s) == (CHOOSE i \in DOMAIN entries : entries[i] = s) - 1

\* An index that has been asked for the ids of a sequence of states in turn.
Index(states) ==
  LET Known(n) == \E i \in 1 .. n - 1 : states[i] = states[n]
      seen[n \in 0 .. Len(states)] ==
        IF n = 0 THEN <<>>
        ELSE IF Known(n) THEN seen[n-1]
        ELSE Append(seen[n-1], states[n])
  IN  seen[Len(states)]

Comment == [kind |-> "comment"]

\* The lines of an index file: a comment, and for each state a line with its
\* number and one with its entry (the states here are unit vectors).
WriteIndex(index) ==
  [n \in 1 .. 2 * Len(index) + 1 |->
     IF n = 1 THEN Comment
     ELSE IF n % 2 = 0 THEN [kind |-> "state", id |-> n \div 2 - 1]
     ELSE [kind |-> "entry", of |-> index[n \div 2]]]

\* Entries are gathered until the next state begins, which folds the last one
\* in; the numbers in the file are not read, but given anew.
Folded(r) == IF r.accum = <<>> THEN r.index ELSE WithState(r.index, Last(r.accum))

ReadIndexLine(r, l) ==
  CASE l.kind = "comment" -> r
    [] l.kind = "state"   -> [index |-> Folded(r), accum |-> <<>>]
    [] l.kind = "entry"   -> [index |-> r.index, accum |-> Append(r.accum, l.of)]

ReadIndex(lines) ==
  LET after[n \in 0 .. Len(lines)] ==
        IF n = 0 THEN [index |-> <<>>, accum |-> <<>>]
                 ELSE ReadIndexLine(after[n-1], lines[n])
  IN  Folded(after[Len(lines)])

\* The lines of a log: a comment, and the number of each backup.
WriteLog(entries) ==
  [n \in 1 .. Len(entries) + 1 |->
     IF n = 1 THEN Comment ELSE [kind |-> "backup", id |-> entries[n-1]]]

\* Comments are skipped.
ReadLog(lines) ==
  LET after[n \in 0 .. Len(lines)] ==
        IF n = 0 THEN <<>>
        ELSE IF lines[n].kind = "comment" THEN after[n-1]
        ELSE Append(after[n-1], lines[n].id)
  IN  after[Len(lines)]

\* The files with the log of a sequence of states.
LogOf(states) ==
  LET index == Index(states)
  IN  [there |-> TRUE,
       index |-> WriteIndex(index),
       lines |-> WriteLog([i \in DOMAIN states |-> StateId(index, states[i])])]

\* One value per state of an index, in its order.
ValuesFile(index, value) == [i \in DOMAIN index |-> value[index[i]]]
=============================================================================
