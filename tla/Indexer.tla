------------------------------- MODULE Indexer -------------------------------
(***************************************************************************)
(* What a squid promises, whatever its batches, caches, crashes and forks: *)
(* the committed tables are those obtained by running the handlers over a  *)
(* chain that was canonical when it was fetched, one event after the       *)
(* other, directly on the tables.                                          *)
(***************************************************************************)
EXTENDS Naturals, SequencesExt

CONSTANTS Event,           \* what the chain is a sequence of: logs or blocks
          EmptyTable,      \* the tables before the first of them
          Apply(_, _, _),  \* the tables after one, given its number
          MaxLen,          \* bound on the length of the chain
          MaxForks         \* bound on the number of reorganisations

VARIABLES chain,     \* the canonical chain
          final,     \* length of its finalized prefix
          forks,     \* reorganisations so far
          fetched,   \* the chain the transaction under way works on
          applied,   \* the chain the committed tables reflect
          db         \* the committed tables

vars == <<chain, final, forks, fetched, applied, db>>

\* The tables after a sequence of events.
Run(events) ==
  LET table[n \in 0 .. Len(events)] ==
        IF n = 0 THEN EmptyTable ELSE Apply(table[n - 1], events[n], n)
  IN table[Len(events)]

Init ==
  /\ chain = <<>> /\ final = 0 /\ forks = 0
  /\ fetched = <<>> /\ applied = <<>> /\ db = EmptyTable

\* A block is produced.
Grow ==
  /\ Len(chain) < MaxLen
  /\ \E ev \in Event : chain' = Append(chain, ev)
  /\ UNCHANGED <<final, forks, fetched, applied, db>>

\* The next block becomes final.
Finalize ==
  /\ final < Len(chain)
  /\ final' = final + 1
  /\ UNCHANGED <<chain, forks, fetched, applied, db>>

\* The blocks after the n-th, none of them final, are replaced by another one.
Fork ==
  /\ forks < MaxForks
  /\ \E n \in final .. Len(chain) - 1, ev \in Event :
        /\ ev # chain[n + 1]
        /\ chain' = Append(SubSeq(chain, 1, n), ev)
  /\ forks' = forks + 1
  /\ UNCHANGED <<final, fetched, applied, db>>

\* A batch is fetched: it goes past what the tables share with the chain.
Fetch ==
  /\ \E n \in 1 .. Len(chain) :
        /\ ~ IsPrefix(SubSeq(chain, 1, n), applied)
        /\ fetched' = SubSeq(chain, 1, n)
  /\ UNCHANGED <<chain, final, forks, applied, db>>

\* The tables take the result of the whole fetched chain at once, or not at all.
Commit ==
  /\ ~ IsPrefix(fetched, applied)
  /\ applied' = fetched
  /\ db' = Run(fetched)
  /\ fetched' = <<>>
  /\ UNCHANGED <<chain, final, forks>>

\* The transaction is given up.
Abort ==
  /\ fetched' = <<>>
  /\ UNCHANGED <<chain, final, forks, applied, db>>

Next == Grow \/ Finalize \/ Fork \/ Fetch \/ Commit \/ Abort

Spec == Init /\ [][Next]_vars
=============================================================================
